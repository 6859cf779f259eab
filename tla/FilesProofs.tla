----------------------------- MODULE FilesProofs -----------------------------
(* What is proved of the modules that keep files: the ranges that are      *)
(* streamed, the gallery's uploads, removals and albums, and the logo of a *)
(* company profile.  Each part names its inductive invariant, shows that   *)
(* every action keeps it, and ends in the theorems.                        *)
EXTENDS MCFiles, TLAPS

(***************************************************************************)
(* Streaming: the ranges that are served are those that were asked for,    *)
(* for files of every size and pieces of every length.                     *)
(***************************************************************************)

(* A number of a range that could be read.                                 *)
LEMMA NumberType ==
  ASSUME NEW x \in Number, x # <<>>
  PROVE  x[1] \in 0..MaxSize
<1>1. PICK n \in 0..MaxSize : x = <<n>>
  BY DEF Number
<1>2. QED
  BY <1>1

(* An answer of the right form.                                            *)
Good(r) ==
  /\ r.status \in {206, 416}
  /\ r.first \in 0..(MaxSize - 1) /\ r.last \in 0..(MaxSize - 1)

(* What the gallery answers.                                               *)
LEMMA GalleryServes ==
  ASSUME NEW n \in 0..MaxSize, NEW first \in Number, NEW last \in Number
  PROVE  LET r == GalleryRange(first, last, n)
         IN /\ Good(r)
            /\ first = <<>> => Served(r) = {}
            /\ first # <<>> =>
                 Served(r) = {b \in Wanted(first, last, n) : b < first[1] + n}
<1> DEFINE r == GalleryRange(first, last, n)
<1>0. MaxSize \in Nat \ {0}
  BY StreamingAssumption
<1>1. CASE first = <<>> \/ first[1] >= n
  <2>1. r = Unsatisfiable
    BY <1>1 DEF GalleryRange
  <2>2. first # <<>> => Wanted(first, last, n) = {}
    BY <1>1, NumberType DEF Wanted
  <2>3. Good(r) /\ Served(r) = {}
    BY <1>0, <2>1 DEF Unsatisfiable, Good, Served
  <2>4. first # <<>> => {b \in Wanted(first, last, n) : b < first[1] + n} = {}
    BY <2>2
  <2>5. QED
    BY <2>3, <2>4
<1>2. CASE first # <<>> /\ first[1] < n
  <2> DEFINE a == first[1]
             z == IF last = <<>> THEN n - 1 ELSE Least(last[1], n - 1)
  <2>1. a \in 0..(n - 1)
    BY <1>2, NumberType
  <2>2. last # <<>> => last[1] \in 0..MaxSize
    BY NumberType
  <2>3. z \in 0..(n - 1) /\ \A b \in 0..(n - 1) : b <= z <=> (last # <<>> => b <= last[1])
    BY <1>0, <2>1, <2>2 DEF Least
  <2>4. r = Partial(a, z)
    BY <1>2, <2>1 DEF GalleryRange
  <2>5. Good(r)
    BY <1>0, <2>1, <2>3, <2>4 DEF Partial, Unsatisfiable, Good
  <2>6. Served(r) = {b \in 0..(n - 1) : a <= b /\ b <= z}
    BY <1>0, <2>1, <2>3, <2>4 DEF Partial, Unsatisfiable, Served
  <2>7. {b \in Wanted(first, last, n) : b < a + n} = {b \in 0..(n - 1) : a <= b /\ b <= z}
    BY <1>0, <1>2, <2>1, <2>3 DEF Wanted
  <2>8. QED
    BY <1>2, <2>5, <2>6, <2>7
<1>3. QED
  BY <1>1, <1>2, NumberType

(* What WhatsApp and the chat answer.                                      *)
LEMMA PiecesServe ==
  ASSUME NEW n \in 0..MaxSize, NEW first \in Number, NEW last \in Number
  PROVE  LET r == WhatsappRange(first, last, n)
         IN /\ Good(r)
            /\ first = <<>> => Served(r) = {}
            /\ first # <<>> =>
                 Served(r) = {b \in Wanted(first, last, n) : b < first[1] + MaxSpan}
<1> DEFINE r == WhatsappRange(first, last, n)
<1>0. MaxSize \in Nat \ {0} /\ MaxSpan \in Nat \ {0}
  BY StreamingAssumption
<1>1. CASE first = <<>> \/ first[1] >= n
  <2>1. r = Unsatisfiable
    BY <1>1 DEF WhatsappRange
  <2>2. first # <<>> => Wanted(first, last, n) = {}
    BY <1>1, NumberType DEF Wanted
  <2>3. Good(r) /\ Served(r) = {}
    BY <1>0, <2>1 DEF Unsatisfiable, Good, Served
  <2>4. first # <<>> => {b \in Wanted(first, last, n) : b < first[1] + MaxSpan} = {}
    BY <2>2
  <2>5. QED
    BY <2>3, <2>4
<1>2. CASE first # <<>> /\ first[1] < n
  <2> DEFINE a == first[1]
             z == Least(Capped(a, last), n - 1)
  <2>1. a \in 0..(n - 1)
    BY <1>2, NumberType
  <2>2. last # <<>> => last[1] \in 0..MaxSize
    BY NumberType
  <2>3. /\ z \in 0..(n - 1)
        /\ \A b \in 0..(n - 1) : b <= z <=> (last # <<>> => b <= last[1]) /\ b < a + MaxSpan
    BY <1>0, <2>1, <2>2 DEF Least, Capped
  <2>4. r = Partial(a, z)
    BY <1>2, <2>1 DEF WhatsappRange
  <2>5. Good(r)
    BY <1>0, <2>1, <2>3, <2>4 DEF Partial, Unsatisfiable, Good
  <2>6. Served(r) = {b \in 0..(n - 1) : a <= b /\ b <= z}
    BY <1>0, <2>1, <2>3, <2>4 DEF Partial, Unsatisfiable, Served
  <2>7. {b \in Wanted(first, last, n) : b < a + MaxSpan} = {b \in 0..(n - 1) : a <= b /\ b <= z}
    BY <1>0, <1>2, <2>1, <2>3 DEF Wanted
  <2>8. QED
    BY <1>2, <2>5, <2>6, <2>7
<1>3. QED
  BY <1>1, <1>2, NumberType

-----------------------------------------------------------------------------
(* Inductive: the file and the service stay, and every answer is that of   *)
(* the lemmas.                                                             *)
StreamingInv == StreamingTypeOK /\ RangeAsAsked

LEMMA StreamingStarts == StreamingInit => StreamingInv
<1> SUFFICES ASSUME StreamingInit PROVE StreamingInv
  OBVIOUS
<1>1. StreamingTypeOK
  BY StreamingAssumption DEF StreamingInit, StreamingTypeOK, Unsatisfiable, Number
<1>2. RangeAsAsked
  BY DEF StreamingInit, RangeAsAsked, Served, Unsatisfiable
<1>3. QED
  BY <1>1, <1>2 DEF StreamingInv

LEMMA StreamingGoesOn == StreamingInv /\ [StreamingNext]_streamingVars => StreamingInv'
<1> SUFFICES ASSUME StreamingInv, [StreamingNext]_streamingVars PROVE StreamingInv'
  OBVIOUS
<1>1. ASSUME NEW first \in Number, NEW last \in Number, Ask(first, last) PROVE StreamingInv'
  <2>1. /\ server' \in {"gallery", "whatsapp", "chat"} /\ size' \in 0..MaxSize
        /\ asked' = <<first, last>>
        /\ reply' = Serve(server', first, last, size')
    BY <1>1 DEF Ask, StreamingInv, StreamingTypeOK
  <2>2. /\ Good(reply')
        /\ first = <<>> => Served(reply') = {}
        /\ first # <<>> => Served(reply') =
             {b \in Wanted(first, last, size') : b < first[1] + Cap(server', size')}
    <3>1. CASE server' = "gallery"
      BY <2>1, <3>1, GalleryServes DEF Serve, Cap
    <3>2. CASE server' \in {"whatsapp", "chat"}
      <4>1. reply' = WhatsappRange(first, last, size')
        BY <2>1, <3>2 DEF Serve, ChatRange
      <4>2. QED
        BY <2>1, <3>2, <4>1, PiecesServe DEF Cap
    <3>3. QED
      BY <2>1, <3>1, <3>2
  <2>3. StreamingTypeOK'
    BY <2>1, <2>2 DEF StreamingTypeOK, Good
  <2>4. RangeAsAsked'
    <3>1. asked'[1] = first /\ asked'[2] = last
      BY <2>1
    <3>2. QED
      BY <2>1, <2>2, <3>1 DEF RangeAsAsked, Served, Wanted, Cap
  <2>5. QED
    BY <2>3, <2>4 DEF StreamingInv
<1>2. CASE UNCHANGED streamingVars
  BY <1>2 DEF streamingVars, StreamingInv, StreamingTypeOK, RangeAsAsked, Served, Wanted, Cap
<1>3. QED
  BY <1>1, <1>2 DEF StreamingNext

(* RangeAsAsked for all sizes of files and of pieces: streamMedia and      *)
(* getMedia serve what is asked for and lies in the file, up to their      *)
(* limit, and refuse a range with a first byte only when the file has no   *)
(* byte of it; a suffix they always refuse.                                *)
THEOREM RangesAreServed == StreamingSpec => []RangeAsAsked
<1>1. StreamingInit => StreamingInv
  BY StreamingStarts
<1>2. StreamingInv /\ [StreamingNext]_streamingVars => StreamingInv'
  BY StreamingGoesOn
<1>3. StreamingInv => RangeAsAsked
  BY DEF StreamingInv
<1>4. QED
  BY <1>1, <1>2, <1>3, PTL DEF StreamingSpec

(***************************************************************************)
(* Gallery: a file on disk belongs to the request that stores or removes   *)
(* it (Owns, Drops) or to the row that names it, and to one of them only.  *)
(* A lemma per action shows that a request changes nothing of the others'. *)
(***************************************************************************)

(* The parts of a file that has arrived up to the n-th.                    *)
LEMMA PrefixLength ==
  ASSUME NEW n \in 0..NParts
  PROVE  Len(SubSeq(Whole, 1, n)) = n
  BY PartsAssumption DEF Whole, Part

LEMMA PrefixGrows ==
  ASSUME NEW n \in 0..NParts, n < NParts
  PROVE  Append(SubSeq(Whole, 1, n), n + 1) = SubSeq(Whole, 1, n + 1)
<1>1. Whole \in Seq(Nat) /\ Len(Whole) = NParts /\ \A i \in 1..NParts : Whole[i] = i
  BY PartsAssumption DEF Whole, Part
<1>2. QED
  BY <1>1, PartsAssumption

LEMMA Prefixes == SubSeq(Whole, 1, 0) = <<>> /\ SubSeq(Whole, 1, NParts) = Whole
<1>1. Whole \in Seq(Nat) /\ Len(Whole) = NParts /\ \A i \in 1..NParts : Whole[i] = i
  BY PartsAssumption DEF Whole, Part
<1>2. QED
  BY <1>1, PartsAssumption

(* What a file may hold.                                                   *)
Data == {SubSeq(Whole, 1, n) : n \in 0..NParts}

LEMMA DataFacts ==
  /\ <<>> \in Data /\ Whole \in Data
  /\ \A d \in Data : /\ Len(d) \in 0..NParts
                     /\ Len(d) = NParts => d = Whole
                     /\ Len(d) < NParts => Append(d, Len(d) + 1) \in Data
<1>1. <<>> \in Data /\ Whole \in Data
  BY Prefixes, PartsAssumption DEF Data
<1>2. ASSUME NEW d \in Data
      PROVE  /\ Len(d) \in 0..NParts
             /\ Len(d) = NParts => d = Whole
             /\ Len(d) < NParts => Append(d, Len(d) + 1) \in Data
  <2>1. PICK n \in 0..NParts : d = SubSeq(Whole, 1, n)
    BY DEF Data
  <2>2. Len(d) = n
    BY <2>1, PrefixLength
  <2>3. n = NParts => d = Whole
    BY <2>1, Prefixes
  <2>4. n < NParts => Append(d, n + 1) = SubSeq(Whole, 1, n + 1) /\ n + 1 \in 0..NParts
    BY <2>1, PrefixGrows, PartsAssumption
  <2>5. QED
    BY <2>2, <2>3, <2>4 DEF Data
<1>3. QED
  BY <1>1, <1>2

LEMMA FileFacts ==
  /\ NoFile \in File /\ NoFile.at = "none" /\ NoFile.data = <<>>
  /\ \A x \in File : x.data \in Data /\ x.at \in {"none", "temp", "stored"}
  /\ \A at \in {"none", "temp", "stored"}, d \in Data : [at |-> at, data |-> d] \in File
  /\ \A x \in File, at \in {"none", "temp", "stored"} : [x EXCEPT !.at = at] \in File
  /\ \A x \in File, d \in Data : [x EXCEPT !.data = d] \in File
<1>1. File = [at : {"none", "temp", "stored"}, data : Data]
  BY DEF File, Data
<1>2. QED
  BY <1>1, DataFacts DEF NoFile

(* The steps of a request.                                                 *)
States == {"idle", "reading", "finding", "storing", "removing", "moving", "naming", "dropping"}

LEMMA RequestType ==
  ASSUME NEW x \in Request
  PROVE  /\ x.at \in States /\ x.files \in SUBSET Files /\ x.todo \in SUBSET Files
         /\ x.album \in Albums \cup {None} /\ x.chunked \in BOOLEAN
  BY DEF Request, States

LEMMA RequestAt ==
  ASSUME NEW x \in Request, NEW at \in States
  PROVE  LET y == [x EXCEPT !.at = at]
         IN y \in Request /\ y.at = at /\ y.files = x.files /\ y.album = x.album
  BY DEF Request, States

LEMMA RequestTodo ==
  ASSUME NEW x \in Request, NEW F \in SUBSET Files
  PROVE  LET y == [x EXCEPT !.todo = F]
         IN y \in Request /\ y.at = x.at /\ y.files = x.files /\ y.album = x.album
  BY DEF Request, States

LEMMA NoRequestType ==
  NoRequest \in Request /\ NoRequest.at = "idle" /\ NoRequest.files = {}
  BY DEF Request, NoRequest

LEMMA DoingType ==
  ASSUME NEW at \in States, NEW F \in SUBSET Files, NEW a \in Albums \cup {None}
  PROVE  /\ Doing(at, F, a) \in Request /\ Doing(at, F, a).at = at
         /\ Doing(at, F, a).files = F /\ Doing(at, F, a).album = a
<1>1. \A x \in Request : LET y == [x EXCEPT !.at = at, !.files = F, !.album = a]
                         IN y \in Request /\ y.at = at /\ y.files = F /\ y.album = a
  BY DEF Request, States
<1>2. QED
  BY <1>1, NoRequestType DEF Doing

LEMMA ChunkedType ==
  ASSUME NEW x \in Request
  PROVE  LET y == [x EXCEPT !.chunked = TRUE]
         IN /\ y \in Request
            /\ y.at = x.at /\ y.files = x.files /\ y.album = x.album
  BY DEF Request

-----------------------------------------------------------------------------
Complete(f) == Promise!Complete(f)
Uploading(r) == req[r].at \in {"reading", "finding", "storing"}

(* The files of an upload belong to it alone and have no rows yet.         *)
Owns(r, f) ==
  /\ f \notin rows /\ Complete(f)
  /\ \A q \in Requests \ {r} : f \notin req[q].files
  /\ req[r].at # "storing" => disk[f].at = "temp" /\ remux[f] = "no"
  /\ req[r].at = "finding" => disk[f].data = Whole
  /\ req[r].at = "storing" => Stored(f)
UploadInv == \A r \in Requests : Uploading(r) => \A f \in req[r].files : Owns(r, f)

DiskInv ==
  /\ parts \subseteq arrived
  /\ \A f \in Files : /\ Stored(f) => disk[f].data = Whole
                      /\ Stored(f) \/ remux[f] # "no" => Complete(f)

Drops(r, f) ==
  /\ ~Stored(f) \/ f \in stray
  /\ req[r].at = "dropping" /\ f \in rows =>
       album[f] = req[r].album \/ f \in torn \cup revived
DropInv ==
  \A r \in Requests :
    req[r].at \in {"removing", "dropping"} => \A f \in req[r].files : Drops(r, f)

(* An album that is saved was loaded.                                      *)
NamingInv == \A r \in Requests : req[r].at = "naming" => req[r].album \in Albums

GalleryInv ==
  /\ GalleryTypeOK /\ RowHasFile /\ FileHasRow
  /\ UploadInv /\ DiskInv /\ DropInv /\ NamingInv


(* What a step of request r may not do to a file of another upload q, and  *)
(* then q keeps its files.                                                 *)
LeftAlone(q, r, g) ==
  /\ g \notin rows' /\ g \notin req'[r].files
  /\ disk'[g] = disk[g]
  /\ remux'[g] = remux[g] \/ req[q].at = "storing"

LEMMA OthersOwn ==
  ASSUME GalleryInv, NEW r \in Requests, \A q \in Requests \ {r} : req'[q] = req[q],
         arrived \subseteq arrived',
         \A q \in Requests \ {r} : Uploading(q) => \A g \in req[q].files : LeftAlone(q, r, g)
  PROVE  \A q \in Requests \ {r} : Uploading(q)' => \A g \in req'[q].files : Owns(q, g)'
<1> SUFFICES ASSUME NEW q \in Requests \ {r}, Uploading(q)', NEW g \in req'[q].files
             PROVE  Owns(q, g)'
  OBVIOUS
<1>1. Uploading(q) /\ g \in req[q].files /\ req'[q] = req[q]
  BY DEF Uploading
<1>2. Owns(q, g) /\ LeftAlone(q, r, g)
  BY <1>1 DEF GalleryInv, UploadInv
<1>3. \A p \in Requests \ {q} : g \notin req'[p].files
  BY <1>2 DEF Owns, LeftAlone
<1>4. QED
  BY <1>1, <1>2, <1>3 DEF Owns, LeftAlone, Stored, Complete, Promise!Complete

(* What a step may not do to a file that a removal has taken away, and     *)
(* then it stays away.                                                     *)
LeftOut(g) ==
  /\ Stored(g)' => Stored(g) \/ g \in stray'
  /\ g \in rows' => (g \in rows /\ album'[g] = album[g]) \/ g \in torn' \cup revived'

LEMMA OthersDrop ==
  ASSUME GalleryInv, NEW r \in Requests, \A q \in Requests \ {r} : req'[q] = req[q],
         stray \subseteq stray', torn \subseteq torn', revived \subseteq revived',
         \A q \in Requests \ {r} : req[q].at \in {"removing", "dropping"} =>
           \A g \in req[q].files : LeftOut(g)
  PROVE  \A q \in Requests \ {r} : req'[q].at \in {"removing", "dropping"} =>
           \A g \in req'[q].files : Drops(q, g)'
<1> SUFFICES ASSUME NEW q \in Requests \ {r}, req'[q].at \in {"removing", "dropping"},
                    NEW g \in req'[q].files
             PROVE  Drops(q, g)'
  OBVIOUS
<1>1. req[q].at \in {"removing", "dropping"} /\ g \in req[q].files /\ req'[q] = req[q]
  OBVIOUS
<1>2. Drops(q, g) /\ LeftOut(g)
  BY <1>1 DEF GalleryInv, DropInv
<1>3. QED
  BY <1>1, <1>2 DEF Drops, LeftOut, Stored

(* A request begins, and a request is done.                                *)
LEMMA BeginFacts ==
  ASSUME GalleryTypeOK, NEW r \in Requests, NEW at \in States, NEW F \in SUBSET Files,
         NEW a \in Albums \cup {None}, Begin(r, Doing(at, F, a))
  PROVE  /\ req' \in [Requests -> Request] /\ edits' \in 0..MaxEdits
         /\ req[r].at = "idle"
         /\ req'[r].at = at /\ req'[r].files = F /\ req'[r].album = a
         /\ \A q \in Requests \ {r} : req'[q] = req[q]
<1>1. PICK x : x = Doing(at, F, a)
  OBVIOUS
<1>2. x \in Request /\ x.at = at /\ x.files = F /\ x.album = a
  BY <1>1, DoingType
<1>3. req' = [req EXCEPT ![r] = x] /\ edits' = edits + 1 /\ edits < MaxEdits /\ req[r].at = "idle"
  BY <1>1 DEF Begin
<1>4. edits' \in 0..MaxEdits
  BY <1>3, GalleryBoundsAssumption DEF GalleryTypeOK
<1>5. QED
  BY <1>2, <1>3, <1>4 DEF GalleryTypeOK

LEMMA DoneFacts ==
  ASSUME GalleryTypeOK, NEW r \in Requests, Done(r)
  PROVE  /\ req' \in [Requests -> Request]
         /\ req'[r].at = "idle" /\ req'[r].files = {}
         /\ \A q \in Requests \ {r} : req'[q] = req[q]
  BY NoRequestType DEF GalleryTypeOK, Done

(* A request goes on.                                                      *)
LEMMA GoesOnFacts ==
  ASSUME GalleryTypeOK, NEW r \in Requests, NEW x \in Request, req' = [req EXCEPT ![r] = x],
         x.files = req[r].files, x.album = req[r].album
  PROVE  /\ req' \in [Requests -> Request]
         /\ req'[r].at = x.at /\ req'[r].files = req[r].files /\ req'[r].album = req[r].album
         /\ \A q \in Requests \ {r} : req'[q] = req[q]
  BY DEF GalleryTypeOK

LEMMA MakeThumbnailKeeps ==
  ASSUME GalleryInv, NEW r \in Requests, NEW f \in Files, MakeThumbnail(r, f)
  PROVE  GalleryInv'
<1>1. req[r] \in Request /\ req[r].files \subseteq Files
  BY RequestType DEF GalleryInv, GalleryTypeOK
<1>2. /\ req' \in [Requests -> Request]
      /\ req'[r].at = req[r].at /\ req'[r].files = req[r].files /\ req'[r].album = req[r].album
      /\ \A q \in Requests \ {r} : req'[q] = req[q]
  <2>1. req' = [req EXCEPT ![r] = [req[r] EXCEPT !.todo = @ \ {f}]]
    BY DEF MakeThumbnail
  <2>2. QED
    BY <1>1, <2>1, RequestTodo, RequestType, GoesOnFacts DEF GalleryInv
<1>3. /\ UNCHANGED <<parts, disk, remux, rows, album, albums, arrived, sends, edits,
                     ended, torn, revived, stray>>
      /\ req[r].at = "storing"
  BY DEF MakeThumbnail
<1>4. GalleryTypeOK'
  BY <1>2, <1>3 DEF GalleryInv, GalleryTypeOK
<1>5. RowHasFile'
  BY <1>2, <1>3 DEF GalleryInv, GalleryTypeOK, RowHasFile, Stored, Removing, UploadInv,
     Uploading, Owns
<1>6. FileHasRow'
  BY <1>2, <1>3 DEF GalleryInv, GalleryTypeOK, FileHasRow, Stored, Storing, DropInv,
     Drops, UploadInv, Uploading, Owns
<1>7. UploadInv'
  <2>1. \A q \in Requests \ {r} : Uploading(q) => \A g \in req[q].files : LeftAlone(q, r, g)
    BY <1>2, <1>3, RequestType
       DEF LeftAlone, GalleryInv, GalleryTypeOK, UploadInv, Owns
  <2>2. ASSUME NEW g \in req'[r].files PROVE Owns(r, g)'
    BY <1>2, <1>3 DEF GalleryInv, UploadInv, Uploading, Owns, Stored, Complete,
       Promise!Complete
  <2>3. QED
    BY <1>2, <1>3, <2>1, <2>2, OthersOwn DEF UploadInv
<1>8. DiskInv'
  BY <1>2, <1>3 DEF GalleryInv, GalleryTypeOK, DiskInv, Stored, UploadInv, Uploading,
     Owns, Complete, Promise!Complete
<1>9. DropInv'
  <2>1. \A q \in Requests \ {r} : req[q].at \in {"removing", "dropping"} =>
          \A g \in req[q].files : LeftOut(g)
    BY <1>2, <1>3, RequestType DEF LeftOut, GalleryInv, GalleryTypeOK, Removing, Stored
  <2>2. QED
    BY <1>2, <1>3, <2>1, OthersDrop DEF DropInv
<1>10. NamingInv'
  BY <1>2, <1>3 DEF GalleryInv, NamingInv
<1>11. QED
  BY <1>4, <1>5, <1>6, <1>7, <1>8, <1>9, <1>10 DEF GalleryInv

LEMMA AssembleKeeps ==
  ASSUME GalleryInv, NEW r \in Requests, Assemble(r)
  PROVE  GalleryInv'
<1>1. req[r] \in Request /\ req[r].files \subseteq Files
  BY RequestType DEF GalleryInv, GalleryTypeOK
<1>2. /\ req' \in [Requests -> Request]
      /\ req'[r].at = "finding" /\ req'[r].files = req[r].files /\ req'[r].album = req[r].album
      /\ \A q \in Requests \ {r} : req'[q] = req[q]
  <2>1. req' = [req EXCEPT ![r] = [req[r] EXCEPT !.at = "finding"]]
    BY DEF Assemble
  <2>2. QED
    BY <1>1, <2>1, RequestAt, GoesOnFacts DEF GalleryInv, States
<1>3. /\ UNCHANGED <<disk, remux, rows, album, albums, arrived, sends, edits, ended,
                     torn, revived, stray>>
      /\ parts' = {}
      /\ req[r].at = "reading"
      /\ \A f \in req[r].files : Len(disk[f].data) = NParts
  BY DEF Assemble, Assembled
<1>4. GalleryTypeOK'
  BY <1>2, <1>3 DEF GalleryInv, GalleryTypeOK
<1>5. RowHasFile'
  BY <1>2, <1>3 DEF GalleryInv, GalleryTypeOK, RowHasFile, Stored, Removing, UploadInv,
     Uploading, Owns
<1>6. FileHasRow'
  BY <1>2, <1>3 DEF GalleryInv, GalleryTypeOK, FileHasRow, Stored, Storing, DropInv,
     Drops, UploadInv, Uploading, Owns
<1>7. UploadInv'
  <2>1. \A q \in Requests \ {r} : Uploading(q) => \A g \in req[q].files : LeftAlone(q, r, g)
    BY <1>2, <1>3, RequestType
       DEF LeftAlone, GalleryInv, GalleryTypeOK, UploadInv, Owns
  <2>2. ASSUME NEW g \in req'[r].files PROVE Owns(r, g)'
    <3>1. Owns(r, g) /\ g \in Files /\ g \in req[r].files
      BY <1>1, <1>2, <1>3 DEF GalleryInv, UploadInv, Uploading
    <3>2. disk[g].data = Whole
      BY <1>3, <3>1, FileFacts, DataFacts DEF GalleryInv, GalleryTypeOK
    <3>3. QED
      BY <1>2, <1>3, <3>1, <3>2 DEF Owns, Complete, Promise!Complete
  <2>3. QED
    BY <1>2, <1>3, <2>1, <2>2, OthersOwn DEF UploadInv
<1>8. DiskInv'
  BY <1>2, <1>3 DEF GalleryInv, GalleryTypeOK, DiskInv, Stored, UploadInv, Uploading,
     Owns, Complete, Promise!Complete
<1>9. DropInv'
  <2>1. \A q \in Requests \ {r} : req[q].at \in {"removing", "dropping"} =>
          \A g \in req[q].files : LeftOut(g)
    BY <1>2, <1>3, RequestType DEF LeftOut, GalleryInv, GalleryTypeOK, Removing, Stored
  <2>2. QED
    BY <1>2, <1>3, <2>1, OthersDrop DEF DropInv
<1>10. NamingInv'
  BY <1>2, <1>3 DEF GalleryInv, NamingInv
<1>11. QED
  BY <1>4, <1>5, <1>6, <1>7, <1>8, <1>9, <1>10 DEF GalleryInv

LEMMA MoveFilesKeeps ==
  ASSUME GalleryInv, NEW r \in Requests, MoveFiles(r)
  PROVE  GalleryInv'
<1>1. req[r] \in Request /\ req[r].files \subseteq Files
  BY RequestType DEF GalleryInv, GalleryTypeOK
<1>2. /\ req' \in [Requests -> Request]
      /\ req'[r].at = "storing" /\ req'[r].files = req[r].files /\ req'[r].album = req[r].album
      /\ \A q \in Requests \ {r} : req'[q] = req[q]
  <2>1. req' = [req EXCEPT ![r] =
                 [[req[r] EXCEPT !.at = "storing"] EXCEPT !.todo = req[r].files \ Videos]]
    BY DEF MoveFiles
  <2>2. PICK x : x = [req[r] EXCEPT !.at = "storing"]
    OBVIOUS
  <2>3. x \in Request /\ x.at = "storing" /\ x.files = req[r].files /\ x.album = req[r].album
    BY <1>1, <2>2, RequestAt DEF States
  <2>4. req' = [req EXCEPT ![r] = [x EXCEPT !.todo = req[r].files \ Videos]]
    BY <2>1, <2>2
  <2>5. PICK y : y = [x EXCEPT !.todo = req[r].files \ Videos]
    OBVIOUS
  <2>6. y \in Request /\ y.at = x.at /\ y.files = x.files /\ y.album = x.album
    BY <1>1, <2>3, <2>5, RequestTodo
  <2>7. QED
    BY <1>1, <2>3, <2>4, <2>5, <2>6, GoesOnFacts DEF GalleryInv
<1>3. /\ req[r].at = "finding"
      /\ \A f \in req[r].files : /\ f \notin rows
                                 /\ \A q \in Requests \ {r} : f \notin req[q].files
  BY DEF MoveFiles, GalleryInv, UploadInv, Uploading, Owns
<1>4. /\ UNCHANGED <<parts, rows, album, albums, arrived, sends, edits, ended, torn,
                     revived, stray>>
      /\ req[r].at = "finding"
      /\ \A f \in Files \ req[r].files : disk'[f] = disk[f] /\ remux'[f] = remux[f]
      /\ \A f \in req[r].files : disk'[f] = [disk[f] EXCEPT !.at = "stored"]
      /\ \A f \in req[r].files : disk'[f].at = "stored" /\ disk'[f].data = disk[f].data
      /\ disk' \in [Files -> File]
      /\ remux' \in [Files -> Remux]
  BY <1>1 DEF MoveFiles, Remux, GalleryInv, GalleryTypeOK, File
<1>5. GalleryTypeOK'
  BY <1>2, <1>4 DEF GalleryInv, GalleryTypeOK
<1>6. RowHasFile'
  BY <1>2, <1>4 DEF GalleryInv, GalleryTypeOK, RowHasFile, Stored, Removing, UploadInv,
     Uploading, Owns
<1>7. FileHasRow'
  BY <1>2, <1>4 DEF GalleryInv, GalleryTypeOK, FileHasRow, Stored, Storing, DropInv,
     Drops, UploadInv, Uploading, Owns
<1>8. UploadInv'
  <2>1. \A q \in Requests \ {r} : Uploading(q) => \A g \in req[q].files : LeftAlone(q, r, g)
    BY <1>2, <1>4, RequestType
       DEF LeftAlone, GalleryInv, GalleryTypeOK, UploadInv, Owns
  <2>2. ASSUME NEW g \in req'[r].files PROVE Owns(r, g)'
    <3>1. Owns(r, g) /\ g \in req[r].files
      BY <1>2, <1>4 DEF GalleryInv, UploadInv, Uploading
    <3>2. QED
      BY <1>2, <1>4, <3>1 DEF Owns, Stored, Complete, Promise!Complete
  <2>3. QED
    BY <1>2, <1>4, <2>1, <2>2, OthersOwn DEF UploadInv
<1>9. DiskInv'
  BY <1>2, <1>4 DEF GalleryInv, GalleryTypeOK, DiskInv, Stored, UploadInv, Uploading,
     Owns, Complete, Promise!Complete
<1>10. DropInv'
  <2>1. \A q \in Requests \ {r} : req[q].at \in {"removing", "dropping"} =>
          \A g \in req[q].files : LeftOut(g)
    BY <1>2, <1>3, <1>4, RequestType DEF LeftOut, GalleryInv, GalleryTypeOK, Removing,
       Stored
  <2>2. QED
    BY <1>2, <1>4, <2>1, OthersDrop DEF DropInv
<1>11. NamingInv'
  BY <1>2, <1>4 DEF GalleryInv, NamingInv
<1>12. QED
  BY <1>5, <1>6, <1>7, <1>8, <1>9, <1>10, <1>11 DEF GalleryInv

LEMMA FindAlbumFailsKeeps ==
  ASSUME GalleryInv, NEW r \in Requests, FindAlbumFails(r)
  PROVE  GalleryInv'
<1>1. req[r].files \subseteq Files
  BY RequestType DEF GalleryInv, GalleryTypeOK
<1>2. /\ req' \in [Requests -> Request]
      /\ req'[r].at = "idle" /\ req'[r].files = {}
      /\ \A q \in Requests \ {r} : req'[q] = req[q]
  BY DoneFacts DEF FindAlbumFails, Failed, GalleryInv
<1>3. /\ req[r].at = "finding"
      /\ \A f \in req[r].files : /\ f \notin rows
                                 /\ \A q \in Requests \ {r} : f \notin req[q].files
  BY DEF FindAlbumFails, GalleryInv, UploadInv, Uploading, Owns
<1>4. /\ UNCHANGED <<remux, rows, album, albums, arrived, sends, edits, torn, revived,
                     stray>>
      /\ parts' \subseteq parts /\ ended' \in BOOLEAN
      /\ req[r].at = "finding"
      /\ \A f \in Files \ req[r].files : disk'[f] = disk[f]
      /\ DOMAIN disk' = Files /\ disk' = [f \in Files |-> disk'[f]]
      /\ \A f \in req[r].files : disk'[f] \in {disk[f], NoFile}
      /\ NoFile.at = "none"
  BY <1>1, FileFacts DEF FindAlbumFails, Failed, Unlinked, GalleryInv, GalleryTypeOK
<1>5. GalleryTypeOK'
  BY <1>1, <1>2, <1>4, FileFacts DEF GalleryInv, GalleryTypeOK
<1>6. RowHasFile'
  BY <1>2, <1>4 DEF GalleryInv, GalleryTypeOK, RowHasFile, Stored, Removing, UploadInv,
     Uploading, Owns
<1>7. FileHasRow'
  BY <1>2, <1>4 DEF GalleryInv, GalleryTypeOK, FileHasRow, Stored, Storing, DropInv,
     Drops, UploadInv, Uploading, Owns
<1>8. UploadInv'
  <2>1. \A q \in Requests \ {r} : Uploading(q) => \A g \in req[q].files : LeftAlone(q, r, g)
    BY <1>2, <1>4, RequestType
       DEF LeftAlone, GalleryInv, GalleryTypeOK, UploadInv, Owns
  <2>2. QED
    BY <1>2, <1>4, <2>1, OthersOwn DEF UploadInv, Uploading
<1>9. DiskInv'
  BY <1>2, <1>4 DEF GalleryInv, GalleryTypeOK, DiskInv, Stored, UploadInv, Uploading,
     Owns, Complete, Promise!Complete
<1>10. DropInv'
  <2>1. \A q \in Requests \ {r} : req[q].at \in {"removing", "dropping"} =>
          \A g \in req[q].files : LeftOut(g)
    BY <1>2, <1>3, <1>4, RequestType DEF LeftOut, GalleryInv, GalleryTypeOK, Removing,
       Stored
  <2>2. QED
    BY <1>2, <1>4, <2>1, OthersDrop DEF DropInv
<1>11. NamingInv'
  BY <1>2, <1>4 DEF GalleryInv, NamingInv
<1>12. QED
  BY <1>5, <1>6, <1>7, <1>8, <1>9, <1>10, <1>11 DEF GalleryInv

LEMMA MoveFailsKeeps ==
  ASSUME GalleryInv, NEW r \in Requests, MoveFails(r)
  PROVE  GalleryInv'
<1>1. req[r].files \subseteq Files
  BY RequestType DEF GalleryInv, GalleryTypeOK
<1>2. /\ req' \in [Requests -> Request]
      /\ req'[r].at = "idle" /\ req'[r].files = {}
      /\ \A q \in Requests \ {r} : req'[q] = req[q]
  BY DoneFacts DEF MoveFails, Failed, GalleryInv
<1>3. /\ req[r].at = "finding"
      /\ \A f \in req[r].files : /\ f \notin rows /\ Complete(f) /\ disk[f].data = Whole
                                 /\ disk[f].at = "temp"
                                 /\ \A q \in Requests \ {r} : f \notin req[q].files
  BY DEF MoveFails, GalleryInv, UploadInv, Uploading, Owns
<1>4. PICK moved \in SUBSET req[r].files, kept \in SUBSET req[r].files :
        /\ disk' = [f \in Files |->
                     IF f \in req[r].files \ kept THEN NoFile
                     ELSE IF f \in moved THEN [disk[f] EXCEPT !.at = "stored"] ELSE disk[f]]
        /\ remux' = [f \in Files |-> IF f \in moved \cap Videos THEN "thumb" ELSE remux[f]]
        /\ stray' = stray \cup (moved \cap kept)
  BY DEF MoveFails
<1>5. ASSUME NEW f \in req[r].files
      PROVE  /\ disk'[f] \in File
             /\ Stored(f)' => f \in stray' /\ disk'[f].data = Whole
  <2>1. PICK y : y = [disk[f] EXCEPT !.at = "stored"]
    OBVIOUS
  <2>2. /\ disk[f] \in File /\ y \in File /\ y.data = Whole
        /\ disk'[f] = IF f \notin kept THEN NoFile ELSE IF f \in moved THEN y ELSE disk[f]
    BY <1>1, <1>3, <1>4, <2>1 DEF GalleryInv, GalleryTypeOK, File
  <2>3. QED
    BY <1>3, <1>4, <2>2, FileFacts DEF Stored
<1>6. /\ UNCHANGED <<rows, album, albums, arrived, sends, edits, torn, revived>>
      /\ stray \subseteq stray' /\ stray' \subseteq Files
      /\ parts' \subseteq parts /\ ended' \in BOOLEAN
      /\ \A f \in Files \ req[r].files : disk'[f] = disk[f] /\ remux'[f] = remux[f]
      /\ DOMAIN disk' = Files /\ disk' = [f \in Files |-> disk'[f]]
      /\ remux' \in [Files -> Remux]
  BY <1>1, <1>4 DEF MoveFails, Failed, Remux, GalleryInv, GalleryTypeOK
<1>7. GalleryTypeOK'
  BY <1>1, <1>2, <1>5, <1>6 DEF GalleryInv, GalleryTypeOK
<1>8. RowHasFile'
  BY <1>2, <1>3, <1>6 DEF GalleryInv, GalleryTypeOK, RowHasFile, Stored, Removing
<1>9. FileHasRow'
  BY <1>2, <1>3, <1>5, <1>6 DEF GalleryInv, GalleryTypeOK, FileHasRow, Stored, Storing
<1>10. UploadInv'
  <2>1. \A q \in Requests \ {r} : Uploading(q) => \A g \in req[q].files : LeftAlone(q, r, g)
    BY <1>2, <1>3, <1>6, RequestType
       DEF LeftAlone, GalleryInv, GalleryTypeOK, UploadInv, Owns
  <2>2. QED
    BY <1>2, <1>6, <2>1, OthersOwn DEF UploadInv, Uploading
<1>11. DiskInv'
  BY <1>3, <1>5, <1>6 DEF GalleryInv, GalleryTypeOK, DiskInv, Stored, Complete,
     Promise!Complete
<1>12. DropInv'
  <2>1. \A q \in Requests \ {r} : req[q].at \in {"removing", "dropping"} =>
          \A g \in req[q].files : LeftOut(g)
    BY <1>2, <1>3, <1>6, RequestType DEF LeftOut, GalleryInv, GalleryTypeOK, Removing,
       Stored
  <2>2. QED
    BY <1>2, <1>6, <2>1, OthersDrop DEF DropInv
<1>13. NamingInv'
  BY <1>2, <1>6 DEF GalleryInv, NamingInv
<1>14. QED
  BY <1>7, <1>8, <1>9, <1>10, <1>11, <1>12, <1>13 DEF GalleryInv

LEMMA SaveRowsKeeps ==
  ASSUME GalleryInv, NEW r \in Requests, SaveRows(r)
  PROVE  GalleryInv'
<1>1. req[r].files \subseteq Files
  BY RequestType DEF GalleryInv, GalleryTypeOK
<1>2. /\ req' \in [Requests -> Request]
      /\ req'[r].at = "idle" /\ req'[r].files = {}
      /\ \A q \in Requests \ {r} : req'[q] = req[q]
  BY DoneFacts DEF SaveRows, GalleryInv
<1>3. /\ req[r].at = "storing"
      /\ \A f \in req[r].files : /\ f \notin rows
                                 /\ \A q \in Requests \ {r} : f \notin req[q].files
  BY DEF SaveRows, GalleryInv, UploadInv, Uploading, Owns
<1>4. /\ UNCHANGED <<parts, disk, remux, albums, arrived, sends, edits, torn, revived,
                     stray>>
      /\ ended' \in BOOLEAN
      /\ req[r].at = "storing"
      /\ rows' = rows \cup req[r].files
      /\ \A f \in Files \ req[r].files : album'[f] = album[f]
      /\ album' \in [Files -> Albums \cup {None}]
  BY <1>1, RequestType DEF SaveRows, GalleryInv, GalleryTypeOK
<1>5. GalleryTypeOK'
  BY <1>1, <1>2, <1>4 DEF GalleryInv, GalleryTypeOK
<1>6. RowHasFile'
  BY <1>2, <1>4 DEF GalleryInv, GalleryTypeOK, RowHasFile, Stored, Removing, UploadInv,
     Uploading, Owns
<1>7. FileHasRow'
  BY <1>2, <1>4 DEF GalleryInv, GalleryTypeOK, FileHasRow, Stored, Storing, DropInv,
     Drops, UploadInv, Uploading, Owns
<1>8. UploadInv'
  <2>1. \A q \in Requests \ {r} : Uploading(q) => \A g \in req[q].files : LeftAlone(q, r, g)
    BY <1>2, <1>4, RequestType
       DEF LeftAlone, GalleryInv, GalleryTypeOK, UploadInv, Owns
  <2>2. QED
    BY <1>2, <1>4, <2>1, OthersOwn DEF UploadInv, Uploading
<1>9. DiskInv'
  BY <1>2, <1>4 DEF GalleryInv, GalleryTypeOK, DiskInv, Stored, UploadInv, Uploading,
     Owns, Complete, Promise!Complete
<1>10. DropInv'
  <2>1. \A q \in Requests \ {r} : req[q].at \in {"removing", "dropping"} =>
          \A g \in req[q].files : LeftOut(g)
    BY <1>2, <1>3, <1>4, RequestType DEF LeftOut, GalleryInv, GalleryTypeOK, Removing,
       Stored
  <2>2. QED
    BY <1>2, <1>4, <2>1, OthersDrop DEF DropInv
<1>11. NamingInv'
  BY <1>2, <1>4 DEF GalleryInv, NamingInv
<1>12. QED
  BY <1>5, <1>6, <1>7, <1>8, <1>9, <1>10, <1>11 DEF GalleryInv

LEMMA SaveRowsFailsKeeps ==
  ASSUME GalleryInv, NEW r \in Requests, SaveRowsFails(r)
  PROVE  GalleryInv'
<1>1. req[r].files \subseteq Files
  BY RequestType DEF GalleryInv, GalleryTypeOK
<1>2. /\ req' \in [Requests -> Request]
      /\ req'[r].at = "idle" /\ req'[r].files = {}
      /\ \A q \in Requests \ {r} : req'[q] = req[q]
  BY DoneFacts DEF SaveRowsFails, Failed, GalleryInv
<1>3. /\ req[r].at = "storing"
      /\ \A f \in req[r].files : /\ f \notin rows
                                 /\ \A q \in Requests \ {r} : f \notin req[q].files
  BY DEF SaveRowsFails, GalleryInv, UploadInv, Uploading, Owns
<1>4. /\ UNCHANGED <<remux, rows, album, albums, arrived, sends, edits, torn, revived>>
      /\ stray \subseteq stray' /\ stray' \subseteq Files
      /\ parts' \subseteq parts /\ ended' \in BOOLEAN
      /\ req[r].at = "storing"
      /\ \A f \in Files \ req[r].files : disk'[f] = disk[f]
      /\ DOMAIN disk' = Files /\ disk' = [f \in Files |-> disk'[f]]
      /\ \A f \in req[r].files :
           disk'[f] = NoFile \/ (disk'[f] = disk[f] /\ f \in stray')
      /\ NoFile.at = "none"
  BY <1>1, FileFacts DEF SaveRowsFails, Failed, Rollback, Unlinked, GalleryInv,
     GalleryTypeOK
<1>5. GalleryTypeOK'
  BY <1>1, <1>2, <1>4, FileFacts DEF GalleryInv, GalleryTypeOK
<1>6. RowHasFile'
  BY <1>2, <1>4 DEF GalleryInv, GalleryTypeOK, RowHasFile, Stored, Removing, UploadInv,
     Uploading, Owns
<1>7. FileHasRow'
  BY <1>2, <1>4 DEF GalleryInv, GalleryTypeOK, FileHasRow, Stored, Storing, DropInv,
     Drops, UploadInv, Uploading, Owns
<1>8. UploadInv'
  <2>1. \A q \in Requests \ {r} : Uploading(q) => \A g \in req[q].files : LeftAlone(q, r, g)
    BY <1>2, <1>4, RequestType
       DEF LeftAlone, GalleryInv, GalleryTypeOK, UploadInv, Owns
  <2>2. QED
    BY <1>2, <1>4, <2>1, OthersOwn DEF UploadInv, Uploading
<1>9. DiskInv'
  BY <1>2, <1>4 DEF GalleryInv, GalleryTypeOK, DiskInv, Stored, UploadInv, Uploading,
     Owns, Complete, Promise!Complete
<1>10. DropInv'
  <2>1. \A q \in Requests \ {r} : req[q].at \in {"removing", "dropping"} =>
          \A g \in req[q].files : LeftOut(g)
    BY <1>2, <1>3, <1>4, RequestType DEF LeftOut, GalleryInv, GalleryTypeOK, Removing,
       Stored
  <2>2. QED
    BY <1>2, <1>4, <2>1, OthersDrop DEF DropInv
<1>11. NamingInv'
  BY <1>2, <1>4 DEF GalleryInv, NamingInv
<1>12. QED
  BY <1>5, <1>6, <1>7, <1>8, <1>9, <1>10, <1>11 DEF GalleryInv

LEMMA ReadPartKeeps ==
  ASSUME GalleryInv, NEW r \in Requests, ReadPart(r)
  PROVE  GalleryInv'
<1>1. req[r].files \subseteq Files
  BY RequestType DEF GalleryInv, GalleryTypeOK
<1>2. req' = req /\ req[r].at = "reading"
  BY DEF ReadPart
<1>3. PICK f \in req[r].files :
        /\ Len(disk[f].data) + 1 <= NParts
        /\ disk' = [disk EXCEPT ![f].data = Append(@, Len(disk[f].data) + 1)]
        /\ UNCHANGED <<parts, remux, rows, album, albums, req, arrived, sends, edits, ended,
                       torn, revived, stray>>
  BY DEF ReadPart
<1>4. PICK d : d = Append(disk[f].data, Len(disk[f].data) + 1)
  OBVIOUS
<1>5. f \in Files /\ d \in Data
  <2>1. f \in Files /\ disk[f].data \in Data
    BY <1>1, FileFacts DEF GalleryInv, GalleryTypeOK
  <2>2. Len(disk[f].data) < NParts
    BY <1>3, <2>1, DataFacts, PartsAssumption
  <2>3. QED
    BY <1>4, <2>1, <2>2, DataFacts
<1>6. /\ req[r].at = "reading"
      /\ \A g \in req[r].files : /\ g \notin rows
                                 /\ \A q \in Requests \ {r} : g \notin req[q].files
  BY DEF ReadPart, GalleryInv, UploadInv, Uploading, Owns
<1>7. /\ UNCHANGED <<parts, remux, rows, album, albums, req, arrived, sends, edits,
                     ended, torn, revived, stray>>
      /\ disk' = [disk EXCEPT ![f].data = d]
      /\ \A g \in Files \ {f} : disk'[g] = disk[g]
      /\ \A g \in Files : disk'[g].at = disk[g].at
      /\ ~Stored(f)
  BY <1>1, <1>2, <1>3, <1>4, <1>5, <1>6 DEF GalleryInv, GalleryTypeOK, File, Stored,
     UploadInv, Uploading, Owns
<1>8. GalleryTypeOK'
  BY <1>5, <1>7, FileFacts DEF GalleryInv, GalleryTypeOK
<1>9. RowHasFile'
  BY <1>2, <1>7 DEF GalleryInv, GalleryTypeOK, RowHasFile, Stored, Removing, UploadInv,
     Uploading, Owns
<1>10. FileHasRow'
  BY <1>2, <1>7 DEF GalleryInv, GalleryTypeOK, FileHasRow, Stored, Storing, DropInv,
     Drops, UploadInv, Uploading, Owns
<1>11. UploadInv'
  <2> SUFFICES ASSUME NEW q \in Requests, Uploading(q), NEW g \in req[q].files
               PROVE  Owns(q, g)'
    BY <1>2 DEF UploadInv, Uploading
  <2>1. Owns(q, g) /\ g \in Files
    BY RequestType DEF GalleryInv, GalleryTypeOK, UploadInv
  <2>2. req[q].at = "finding" => g # f
    BY <1>2, <1>3, <1>6, <2>1 DEF Owns
  <2>3. QED
    BY <1>7, <2>1, <2>2 DEF Owns, Stored, Complete, Promise!Complete
<1>12. DiskInv'
  BY <1>2, <1>7 DEF GalleryInv, GalleryTypeOK, DiskInv, Stored, UploadInv, Uploading,
     Owns, Complete, Promise!Complete
<1>13. DropInv'
  BY <1>7, RequestType DEF GalleryInv, GalleryTypeOK, DropInv, Drops, Stored
<1>14. NamingInv'
  BY <1>2, <1>7 DEF GalleryInv, NamingInv
<1>15. QED
  BY <1>8, <1>9, <1>10, <1>11, <1>12, <1>13, <1>14 DEF GalleryInv

LEMMA AssemblyFailsKeeps ==
  ASSUME GalleryInv, NEW r \in Requests, AssemblyFails(r)
  PROVE  GalleryInv'
<1>1. req[r].files \subseteq Files
  BY RequestType DEF GalleryInv, GalleryTypeOK
<1>2. /\ req' \in [Requests -> Request]
      /\ req'[r].at = "idle" /\ req'[r].files = {}
      /\ \A q \in Requests \ {r} : req'[q] = req[q]
  BY DoneFacts DEF AssemblyFails, Failed, GalleryInv
<1>3. disk' = Unlinked(req[r].files) \/ disk' = disk
  BY DEF AssemblyFails
<1>4. /\ req[r].at = "reading"
      /\ \A g \in req[r].files : /\ g \notin rows
                                 /\ \A q \in Requests \ {r} : g \notin req[q].files
  BY DEF AssemblyFails, GalleryInv, UploadInv, Uploading, Owns
<1>5. /\ UNCHANGED <<remux, rows, album, albums, arrived, sends, edits, torn, revived,
                     stray>>
      /\ parts' \subseteq parts /\ ended' \in BOOLEAN
      /\ \A g \in Files \ req[r].files : disk'[g] = disk[g]
      /\ \A g \in req[r].files : disk'[g] \in {disk[g], NoFile}
      /\ NoFile.at = "none"
      /\ DOMAIN disk' = Files /\ disk' = [g \in Files |-> disk'[g]]
  BY <1>1, <1>3, FileFacts DEF AssemblyFails, Failed, Unlinked, GalleryInv, GalleryTypeOK
<1>6. GalleryTypeOK'
  BY <1>1, <1>2, <1>5, FileFacts DEF GalleryInv, GalleryTypeOK
<1>7. RowHasFile'
  BY <1>2, <1>4, <1>5 DEF GalleryInv, GalleryTypeOK, RowHasFile, Stored, Removing
<1>8. FileHasRow'
  BY <1>2, <1>4, <1>5 DEF GalleryInv, GalleryTypeOK, FileHasRow, Stored, Storing
<1>9. UploadInv'
  <2>1. \A q \in Requests \ {r} : Uploading(q) => \A g \in req[q].files : LeftAlone(q, r, g)
    BY <1>2, <1>5, RequestType
       DEF LeftAlone, GalleryInv, GalleryTypeOK, UploadInv, Owns
  <2>2. QED
    BY <1>2, <1>5, <2>1, OthersOwn DEF UploadInv, Uploading
<1>10. DiskInv'
  BY <1>2, <1>5 DEF GalleryInv, GalleryTypeOK, DiskInv, Stored, UploadInv, Uploading,
     Owns, Complete, Promise!Complete
<1>11. DropInv'
  <2>1. \A q \in Requests \ {r} : req[q].at \in {"removing", "dropping"} =>
          \A g \in req[q].files : LeftOut(g)
    BY <1>2, <1>4, <1>5, RequestType DEF LeftOut, GalleryInv, GalleryTypeOK, Removing,
       Stored
  <2>2. QED
    BY <1>2, <1>5, <2>1, OthersDrop DEF DropInv
<1>12. NamingInv'
  BY <1>2, <1>5 DEF GalleryInv, NamingInv
<1>13. QED
  BY <1>6, <1>7, <1>8, <1>9, <1>10, <1>11, <1>12 DEF GalleryInv

LEMMA LastPartKeeps ==
  ASSUME GalleryInv, NEW i \in Part, NEW r \in Requests, NEW f \in Files,
         NEW a \in Albums \cup {None},
         SendPart(i, r, f, a), AllPartsWith(i), req' # req
  PROVE  GalleryInv'
<1>1. /\ req[r].at = "idle" /\ Unused(f)
      /\ req' = [req EXCEPT ![r] = [Doing("reading", {f}, a) EXCEPT !.chunked = TRUE]]
      /\ disk' = [disk EXCEPT ![f].at = "temp"]
      /\ sends < MaxSends /\ sends' = sends + 1
      /\ arrived' = arrived \cup {i} /\ parts' = parts \cup {i}
      /\ UNCHANGED <<remux, rows, album, albums, edits, ended, torn, revived, stray>>
  BY DEF SendPart
<1>2. PICK y : y = Doing("reading", {f}, a)
  OBVIOUS
<1>3. y \in Request /\ y.at = "reading" /\ y.files = {f} /\ y.album = a
  BY <1>2, DoingType DEF States
<1>4. PICK x : x = [y EXCEPT !.chunked = TRUE]
  OBVIOUS
<1>5. x \in Request /\ x.at = "reading" /\ x.files = {f} /\ x.album = a
  BY <1>3, <1>4, ChunkedType
<1>6. /\ f \notin rows /\ remux[f] = "no" /\ disk[f] = NoFile /\ disk[f].at = "none"
      /\ \A q \in Requests : f \notin req[q].files
  BY <1>1, FileFacts DEF Unused
<1>7. Part \subseteq arrived'
  BY <1>1 DEF AllPartsWith, GalleryInv, DiskInv
<1>8. /\ req' \in [Requests -> Request]
      /\ req[r].at = "idle"
      /\ req'[r].at = "reading" /\ req'[r].files = {f} /\ req'[r].album = a
      /\ \A q \in Requests \ {r} : req'[q] = req[q]
  BY <1>1, <1>2, <1>4, <1>5 DEF GalleryInv, GalleryTypeOK
<1>9. /\ UNCHANGED <<remux, rows, album, albums, edits, ended, torn, revived, stray>>
      /\ arrived' = arrived \cup {i} /\ parts' = parts \cup {i}
      /\ sends' \in 0..MaxSends
      /\ \A g \in Files \ {f} : disk'[g] = disk[g]
      /\ disk' = [disk EXCEPT ![f].at = "temp"]
      /\ disk'[f].at = "temp"
      /\ Complete(f)'
      /\ f \notin rows /\ remux[f] = "no" /\ ~Stored(f)
      /\ \A q \in Requests : f \notin req[q].files
  BY <1>1, <1>6, <1>7, GalleryBoundsAssumption DEF GalleryInv, GalleryTypeOK, Part,
     Stored, File, Complete, Promise!Complete
<1>10. GalleryTypeOK'
  BY <1>8, <1>9, FileFacts DEF GalleryInv, GalleryTypeOK, Part
<1>11. RowHasFile'
  BY <1>8, <1>9 DEF GalleryInv, GalleryTypeOK, RowHasFile, Stored, Removing, UploadInv,
     Uploading, Owns
<1>12. FileHasRow'
  BY <1>8, <1>9 DEF GalleryInv, GalleryTypeOK, FileHasRow, Stored, Storing, DropInv,
     Drops, UploadInv, Uploading, Owns
<1>13. UploadInv'
  <2>1. \A q \in Requests \ {r} : Uploading(q) => \A g \in req[q].files : LeftAlone(q, r, g)
    BY <1>8, <1>9, RequestType
       DEF LeftAlone, GalleryInv, GalleryTypeOK, UploadInv, Owns
  <2>2. ASSUME NEW g \in req'[r].files PROVE Owns(r, g)'
    BY <1>8, <1>9 DEF Owns, Complete, Promise!Complete
  <2>3. QED
    BY <1>8, <1>9, <2>1, <2>2, OthersOwn DEF UploadInv
<1>14. DiskInv'
  BY <1>8, <1>9 DEF GalleryInv, GalleryTypeOK, DiskInv, Stored, UploadInv, Uploading,
     Owns, Complete, Promise!Complete
<1>15. DropInv'
  <2>1. \A q \in Requests \ {r} : req[q].at \in {"removing", "dropping"} =>
          \A g \in req[q].files : LeftOut(g)
    BY <1>8, <1>9, RequestType DEF LeftOut, GalleryInv, GalleryTypeOK, Removing, Stored
  <2>2. QED
    BY <1>8, <1>9, <2>1, OthersDrop DEF DropInv
<1>16. NamingInv'
  BY <1>8, <1>9 DEF GalleryInv, NamingInv
<1>17. QED
  BY <1>10, <1>11, <1>12, <1>13, <1>14, <1>15, <1>16 DEF GalleryInv

LEMMA SendPartKeeps ==
  ASSUME GalleryInv, NEW i \in Part, NEW r \in Requests, NEW f \in Files,
         NEW a \in Albums \cup {None}, SendPart(i, r, f, a)
  PROVE  GalleryInv'
<1>1. CASE AllPartsWith(i) /\ req' # req
  BY <1>1, LastPartKeeps
<1>2. CASE req' = req /\ disk' = disk
  <2>1. /\ UNCHANGED <<remux, rows, album, albums, edits, ended, torn, revived, stray>>
        /\ arrived' = arrived \cup {i} /\ parts' = parts \cup {i} /\ sends' \in 0..MaxSends
    BY GalleryBoundsAssumption DEF SendPart, GalleryInv, GalleryTypeOK
  <2>2. GalleryTypeOK'
    BY <1>2, <2>1 DEF GalleryInv, GalleryTypeOK
  <2>3. RowHasFile' /\ FileHasRow' /\ DropInv' /\ NamingInv'
    BY <1>2, <2>1 DEF GalleryInv, NamingInv, RowHasFile, FileHasRow, DropInv, Drops,
       Stored, Removing, Storing
  <2>4. UploadInv'
    BY <1>2, <2>1 DEF GalleryInv, UploadInv, Uploading, Owns, Stored, Complete,
       Promise!Complete
  <2>5. DiskInv'
    BY <1>2, <2>1 DEF GalleryInv, DiskInv, Stored, Complete, Promise!Complete
  <2>6. QED
    BY <2>2, <2>3, <2>4, <2>5 DEF GalleryInv
<1>3. CASE AllPartsWith(i) /\ req' = req
  <2>1. PICK x : x = Doing("reading", {f}, a)
    OBVIOUS
  <2>2. x \in Request /\ x.at = "reading"
    BY <2>1, DoingType DEF States
  <2>3. PICK y : y = [x EXCEPT !.chunked = TRUE]
    OBVIOUS
  <2>4. y.at = "reading"
    BY <2>2, <2>3, ChunkedType
  <2>5. req[r].at = "idle" /\ req' = [req EXCEPT ![r] = y]
    BY <1>3, <2>1, <2>3 DEF SendPart
  <2>6. QED
    BY <1>3, <2>4, <2>5 DEF GalleryInv, GalleryTypeOK
<1>4. QED
  BY <1>1, <1>2, <1>3 DEF SendPart

LEMMA UploadBulkKeeps ==
  ASSUME GalleryInv, NEW r \in Requests, NEW F \in SUBSET Files, NEW a \in Albums \cup {None},
         UploadBulk(r, F, a)
  PROVE  GalleryInv'
<1>1. F \in SUBSET Files
  BY KindsAssumption DEF UploadBulk, FilesOf, GalleryInv, GalleryTypeOK
<1>2. /\ req' \in [Requests -> Request] /\ edits' \in 0..MaxEdits
      /\ req[r].at = "idle"
      /\ req'[r].at = "finding" /\ req'[r].files = F /\ req'[r].album = a
      /\ \A q \in Requests \ {r} : req'[q] = req[q]
  <2>1. Begin(r, Doing("finding", F, a))
    BY DEF UploadBulk
  <2>2. QED
    BY <1>1, <2>1, BeginFacts DEF States, GalleryInv
<1>3. /\ UNCHANGED <<parts, remux, rows, album, albums, sends, ended, torn, revived,
                     stray>>
      /\ arrived' = arrived \cup F
      /\ \A g \in Files \ F : disk'[g] = disk[g]
      /\ \A g \in F : disk'[g] = [at |-> "temp", data |-> Whole]
      /\ DOMAIN disk' = Files /\ disk' = [g \in Files |-> disk'[g]]
      /\ \A g \in F : g \in Files /\ g \notin rows /\ remux[g] = "no" /\ ~Stored(g)
      /\ \A q \in Requests, g \in F : g \notin req[q].files
  BY FileFacts DEF UploadBulk, Unused, Stored, GalleryInv, GalleryTypeOK
<1>4. GalleryTypeOK'
  BY <1>2, <1>3, FileFacts, DataFacts DEF GalleryInv, GalleryTypeOK
<1>5. RowHasFile'
  BY <1>2, <1>3 DEF GalleryInv, GalleryTypeOK, RowHasFile, Stored, Removing, UploadInv,
     Uploading, Owns
<1>6. FileHasRow'
  BY <1>2, <1>3 DEF GalleryInv, GalleryTypeOK, FileHasRow, Stored, Storing, DropInv,
     Drops, UploadInv, Uploading, Owns
<1>7. UploadInv'
  <2>1. \A q \in Requests \ {r} : Uploading(q) => \A g \in req[q].files : LeftAlone(q, r, g)
    BY <1>2, <1>3, RequestType
       DEF LeftAlone, GalleryInv, GalleryTypeOK, UploadInv, Owns
  <2>2. ASSUME NEW g \in req'[r].files PROVE Owns(r, g)'
    BY <1>2, <1>3 DEF Owns, Complete, Promise!Complete
  <2>3. QED
    BY <1>2, <1>3, <2>1, <2>2, OthersOwn DEF UploadInv
<1>8. DiskInv'
  BY <1>2, <1>3 DEF GalleryInv, GalleryTypeOK, DiskInv, Stored, UploadInv, Uploading,
     Owns, Complete, Promise!Complete
<1>9. DropInv'
  <2>1. \A q \in Requests \ {r} : req[q].at \in {"removing", "dropping"} =>
          \A g \in req[q].files : LeftOut(g)
    BY <1>2, <1>3, RequestType DEF LeftOut, GalleryInv, GalleryTypeOK, Removing, Stored
  <2>2. QED
    BY <1>2, <1>3, <2>1, OthersDrop DEF DropInv
<1>10. NamingInv'
  BY <1>2, <1>3 DEF GalleryInv, NamingInv
<1>11. QED
  BY <1>4, <1>5, <1>6, <1>7, <1>8, <1>9, <1>10 DEF GalleryInv

LEMMA UploadDocumentKeeps ==
  ASSUME GalleryInv, NEW r \in Requests, NEW f \in Papers, UploadDocument(r, f)
  PROVE  GalleryInv'
<1>1. {f} \in SUBSET Files
  BY KindsAssumption DEF UploadDocument, FilesOf, GalleryInv, GalleryTypeOK
<1>2. /\ req' \in [Requests -> Request] /\ edits' \in 0..MaxEdits
      /\ req[r].at = "idle"
      /\ req'[r].at = "storing" /\ req'[r].files = {f} /\ req'[r].album = None
      /\ \A q \in Requests \ {r} : req'[q] = req[q]
  <2>1. Begin(r, Doing("storing", {f}, None))
    BY DEF UploadDocument
  <2>2. QED
    BY <1>1, <2>1, BeginFacts DEF States, GalleryInv
<1>3. /\ UNCHANGED <<parts, remux, rows, album, albums, sends, ended, torn, revived,
                     stray>>
      /\ arrived' = arrived \cup {f} /\ f \in Files
      /\ \A g \in Files \ {f} : disk'[g] = disk[g]
      /\ disk'[f] = [at |-> "stored", data |-> Whole]
      /\ disk' \in [Files -> File]
      /\ f \notin rows /\ remux[f] = "no" /\ ~Stored(f)
      /\ \A q \in Requests : f \notin req[q].files
  BY KindsAssumption, FileFacts, DataFacts DEF UploadDocument, Unused, Stored,
     GalleryInv, GalleryTypeOK
<1>4. GalleryTypeOK'
  BY <1>2, <1>3 DEF GalleryInv, GalleryTypeOK
<1>5. RowHasFile'
  BY <1>2, <1>3 DEF GalleryInv, GalleryTypeOK, RowHasFile, Stored, Removing, UploadInv,
     Uploading, Owns
<1>6. FileHasRow'
  BY <1>2, <1>3 DEF GalleryInv, GalleryTypeOK, FileHasRow, Stored, Storing, DropInv,
     Drops, UploadInv, Uploading, Owns
<1>7. UploadInv'
  <2>1. \A q \in Requests \ {r} : Uploading(q) => \A g \in req[q].files : LeftAlone(q, r, g)
    BY <1>2, <1>3, RequestType
       DEF LeftAlone, GalleryInv, GalleryTypeOK, UploadInv, Owns
  <2>2. ASSUME NEW g \in req'[r].files PROVE Owns(r, g)'
    BY <1>2, <1>3 DEF Owns, Stored, Complete, Promise!Complete
  <2>3. QED
    BY <1>2, <1>3, <2>1, <2>2, OthersOwn DEF UploadInv
<1>8. DiskInv'
  BY <1>2, <1>3 DEF GalleryInv, GalleryTypeOK, DiskInv, Stored, UploadInv, Uploading,
     Owns, Complete, Promise!Complete
<1>9. DropInv'
  <2>1. \A q \in Requests \ {r} : req[q].at \in {"removing", "dropping"} =>
          \A g \in req[q].files : LeftOut(g)
    BY <1>2, <1>3, RequestType DEF LeftOut, GalleryInv, GalleryTypeOK, Removing, Stored
  <2>2. QED
    BY <1>2, <1>3, <2>1, OthersDrop DEF DropInv
<1>10. NamingInv'
  BY <1>2, <1>3 DEF GalleryInv, NamingInv
<1>11. QED
  BY <1>4, <1>5, <1>6, <1>7, <1>8, <1>9, <1>10 DEF GalleryInv

LEMMA StartRemuxKeeps ==
  ASSUME GalleryInv, NEW f \in Files, StartRemux(f)
  PROVE  GalleryInv'
<1>1. /\ UNCHANGED <<parts, disk, rows, album, albums, req, arrived, sends, edits,
                     ended, torn, revived, stray>>
      /\ remux[f] = "thumb"
      /\ remux'[f] \in Remux /\ remux' \in [Files -> Remux]
      /\ \A g \in Files \ {f} : remux'[g] = remux[g]
  BY DEF StartRemux, Remux, GalleryInv, GalleryTypeOK
<1>2. GalleryTypeOK'
  BY <1>1 DEF GalleryInv, GalleryTypeOK
<1>3. RowHasFile'
  BY <1>1 DEF GalleryInv, GalleryTypeOK, RowHasFile, Stored, Removing
<1>4. FileHasRow'
  BY <1>1 DEF GalleryInv, GalleryTypeOK, FileHasRow, Stored, Storing
<1>5. UploadInv'
  <2> SUFFICES ASSUME NEW q \in Requests, Uploading(q), NEW g \in req[q].files
               PROVE  Owns(q, g)'
    BY <1>1 DEF UploadInv, Uploading
  <2>1. Owns(q, g) /\ g \in Files
    BY RequestType DEF GalleryInv, GalleryTypeOK, UploadInv
  <2>2. req[q].at # "storing" => g # f
    BY <1>1, <2>1 DEF Owns
  <2>3. QED
    BY <1>1, <2>1, <2>2 DEF Owns, Stored, Uploading, Complete, Promise!Complete
<1>6. DiskInv'
  BY <1>1 DEF GalleryInv, GalleryTypeOK, DiskInv, Stored, Complete, Promise!Complete
<1>7. DropInv'
  BY <1>1, RequestType DEF GalleryInv, GalleryTypeOK, DropInv, Drops, Stored
<1>8. NamingInv'
  BY <1>1 DEF GalleryInv, NamingInv
<1>9. QED
  BY <1>2, <1>3, <1>4, <1>5, <1>6, <1>7, <1>8 DEF GalleryInv

LEMMA FailRemuxKeeps ==
  ASSUME GalleryInv, NEW f \in Files, FailRemux(f)
  PROVE  GalleryInv'
<1>1. /\ UNCHANGED <<parts, disk, rows, album, albums, req, arrived, sends, edits,
                     ended, torn, revived, stray>>
      /\ remux[f] = "copying"
      /\ remux'[f] \in Remux /\ remux' \in [Files -> Remux]
      /\ \A g \in Files \ {f} : remux'[g] = remux[g]
  BY DEF FailRemux, Remux, GalleryInv, GalleryTypeOK
<1>2. GalleryTypeOK'
  BY <1>1 DEF GalleryInv, GalleryTypeOK
<1>3. RowHasFile'
  BY <1>1 DEF GalleryInv, GalleryTypeOK, RowHasFile, Stored, Removing
<1>4. FileHasRow'
  BY <1>1 DEF GalleryInv, GalleryTypeOK, FileHasRow, Stored, Storing
<1>5. UploadInv'
  <2> SUFFICES ASSUME NEW q \in Requests, Uploading(q), NEW g \in req[q].files
               PROVE  Owns(q, g)'
    BY <1>1 DEF UploadInv, Uploading
  <2>1. Owns(q, g) /\ g \in Files
    BY RequestType DEF GalleryInv, GalleryTypeOK, UploadInv
  <2>2. req[q].at # "storing" => g # f
    BY <1>1, <2>1 DEF Owns
  <2>3. QED
    BY <1>1, <2>1, <2>2 DEF Owns, Stored, Uploading, Complete, Promise!Complete
<1>6. DiskInv'
  BY <1>1 DEF GalleryInv, GalleryTypeOK, DiskInv, Stored, Complete, Promise!Complete
<1>7. DropInv'
  BY <1>1, RequestType DEF GalleryInv, GalleryTypeOK, DropInv, Drops, Stored
<1>8. NamingInv'
  BY <1>1 DEF GalleryInv, NamingInv
<1>9. QED
  BY <1>2, <1>3, <1>4, <1>5, <1>6, <1>7, <1>8 DEF GalleryInv

LEMMA FinishRemuxKeeps ==
  ASSUME GalleryInv, NEW f \in Files, FinishRemux(f)
  PROVE  GalleryInv'
<1>1. /\ UNCHANGED <<parts, rows, album, albums, req, arrived, sends, edits, ended,
                     torn, revived>>
      /\ remux[f] = "copying" /\ remux'[f] = "no"
      /\ remux'[f] \in Remux /\ remux' \in [Files -> Remux]
      /\ \A g \in Files \ {f} : remux'[g] = remux[g]
      /\ \A g \in Files \ {f} : disk'[g] = disk[g]
      /\ disk'[f].at = "stored" /\ disk'[f].data = Whole
      /\ disk' \in [Files -> File]
      /\ stray \subseteq stray' /\ stray' \subseteq Files /\ (Stored(f) \/ f \in stray')
  BY FileFacts, DataFacts DEF FinishRemux, Remux, Stored, GalleryInv, GalleryTypeOK
<1>2. GalleryTypeOK'
  BY <1>1 DEF GalleryInv, GalleryTypeOK
<1>3. RowHasFile'
  BY <1>1 DEF GalleryInv, GalleryTypeOK, RowHasFile, Stored, Removing
<1>4. FileHasRow'
  BY <1>1 DEF GalleryInv, GalleryTypeOK, FileHasRow, Stored, Storing
<1>5. UploadInv'
  <2> SUFFICES ASSUME NEW q \in Requests, Uploading(q), NEW g \in req[q].files
               PROVE  Owns(q, g)'
    BY <1>1 DEF UploadInv, Uploading
  <2>1. Owns(q, g) /\ g \in Files
    BY RequestType DEF GalleryInv, GalleryTypeOK, UploadInv
  <2>2. req[q].at # "storing" => g # f
    BY <1>1, <2>1 DEF Owns
  <2>3. QED
    BY <1>1, <2>1, <2>2 DEF Owns, Stored, Uploading, Complete, Promise!Complete
<1>6. DiskInv'
  BY <1>1 DEF GalleryInv, GalleryTypeOK, DiskInv, Stored, Complete, Promise!Complete
<1>7. DropInv'
  BY <1>1, RequestType DEF GalleryInv, GalleryTypeOK, DropInv, Drops, Stored
<1>8. NamingInv'
  BY <1>1 DEF GalleryInv, NamingInv
<1>9. QED
  BY <1>2, <1>3, <1>4, <1>5, <1>6, <1>7, <1>8 DEF GalleryInv

(* What is left of the files that removeFile was given.                    *)
LEMMA RemoveFilesFacts ==
  ASSUME GalleryTypeOK, NEW F \in SUBSET Files, RemoveFiles(F)
  PROVE  /\ stray \subseteq stray' /\ stray' \subseteq Files
         /\ \A g \in Files \ F : disk'[g] = disk[g]
         /\ \A g \in F : /\ disk'[g] \in {disk[g], NoFile}
                         /\ disk'[g].at = "stored" => g \in stray'
         /\ DOMAIN disk' = Files /\ disk' = [g \in Files |-> disk'[g]]
<1>1. PICK kept \in SUBSET F :
        /\ disk' = [g \in Files |-> IF g \in F \ kept THEN NoFile ELSE disk[g]]
        /\ stray' = stray \cup {g \in kept : Stored(g)}
  BY DEF RemoveFiles, Unlinked
<1>2. QED
  BY <1>1, FileFacts DEF GalleryTypeOK, Stored

LEMMA RemoveKeeps ==
  ASSUME GalleryInv, NEW r \in Requests, NEW F \in SUBSET Files, Remove(r, F)
  PROVE  GalleryInv'
<1>1. F \in SUBSET Files
  BY KindsAssumption DEF Remove, FilesOf, GalleryInv, GalleryTypeOK
<1>2. /\ req' \in [Requests -> Request] /\ edits' \in 0..MaxEdits
      /\ req[r].at = "idle"
      /\ req'[r].at = "removing" /\ req'[r].files = F /\ req'[r].album = None
      /\ \A q \in Requests \ {r} : req'[q] = req[q]
  <2>1. Begin(r, Doing("removing", F, None))
    BY DEF Remove
  <2>2. QED
    BY <1>1, <2>1, BeginFacts DEF States, GalleryInv
<1>3. /\ UNCHANGED <<parts, remux, rows, album, albums, arrived, sends, ended, torn,
                     revived>>
      /\ stray \subseteq stray' /\ stray' \subseteq Files
      /\ \A g \in Files \ F : disk'[g] = disk[g]
      /\ \A g \in F : /\ disk'[g] \in {disk[g], NoFile} /\ g \in rows
                      /\ disk'[g].at = "stored" => g \in stray'
      /\ NoFile.at = "none"
      /\ DOMAIN disk' = Files /\ disk' = [g \in Files |-> disk'[g]]
  <2>1. RemoveFiles(F)
    BY DEF Remove
  <2>2. QED
    BY <1>1, <2>1, RemoveFilesFacts, FileFacts DEF Remove, GalleryInv
<1>4. GalleryTypeOK'
  BY <1>1, <1>2, <1>3, FileFacts DEF GalleryInv, GalleryTypeOK
<1>5. RowHasFile'
  BY <1>2, <1>3 DEF GalleryInv, GalleryTypeOK, RowHasFile, Stored, Removing, UploadInv,
     Uploading, Owns
<1>6. FileHasRow'
  BY <1>2, <1>3 DEF GalleryInv, GalleryTypeOK, FileHasRow, Stored, Storing, DropInv,
     Drops, UploadInv, Uploading, Owns
<1>7. UploadInv'
  <2>1. \A q \in Requests \ {r} : Uploading(q) => \A g \in req[q].files : LeftAlone(q, r, g)
    BY <1>2, <1>3, RequestType
       DEF LeftAlone, GalleryInv, GalleryTypeOK, UploadInv, Owns
  <2>2. QED
    BY <1>2, <1>3, <2>1, OthersOwn DEF UploadInv, Uploading
<1>8. DiskInv'
  BY <1>2, <1>3 DEF GalleryInv, GalleryTypeOK, DiskInv, Stored, UploadInv, Uploading,
     Owns, Complete, Promise!Complete
<1>9. DropInv'
  <2>1. \A q \in Requests \ {r} : req[q].at \in {"removing", "dropping"} =>
          \A g \in req[q].files : LeftOut(g)
    BY <1>2, <1>3, RequestType DEF LeftOut, GalleryInv, GalleryTypeOK, Removing, Stored
  <2>2. ASSUME NEW g \in req'[r].files PROVE Drops(r, g)'
    BY <1>2, <1>3 DEF Drops, Stored
  <2>3. QED
    BY <1>2, <1>3, <2>1, <2>2, OthersDrop DEF DropInv
<1>10. NamingInv'
  BY <1>2, <1>3 DEF GalleryInv, NamingInv
<1>11. QED
  BY <1>4, <1>5, <1>6, <1>7, <1>8, <1>9, <1>10 DEF GalleryInv

LEMMA RemoveDocumentKeeps ==
  ASSUME GalleryInv, NEW r \in Requests, NEW f \in Papers, RemoveDocument(r, f)
  PROVE  GalleryInv'
<1>1. {f} \in SUBSET Files
  BY KindsAssumption DEF RemoveDocument, FilesOf, GalleryInv, GalleryTypeOK
<1>2. /\ req' \in [Requests -> Request] /\ edits' \in 0..MaxEdits
      /\ req[r].at = "idle"
      /\ req'[r].at = "removing" /\ req'[r].files = {f} /\ req'[r].album = None
      /\ \A q \in Requests \ {r} : req'[q] = req[q]
  <2>1. Begin(r, Doing("removing", {f}, None))
    BY DEF RemoveDocument
  <2>2. QED
    BY <1>1, <2>1, BeginFacts DEF States, GalleryInv
<1>3. /\ UNCHANGED <<parts, remux, rows, album, albums, arrived, sends, ended, torn,
                     revived>>
      /\ stray \subseteq stray' /\ stray' \subseteq Files
      /\ \A g \in Files \ {f} : disk'[g] = disk[g]
      /\ \A g \in {f} : /\ disk'[g] \in {disk[g], NoFile} /\ g \in rows
                        /\ disk'[g].at = "stored" => g \in stray'
      /\ NoFile.at = "none"
      /\ DOMAIN disk' = Files /\ disk' = [g \in Files |-> disk'[g]]
  <2>1. RemoveFiles({f})
    BY DEF RemoveDocument
  <2>2. QED
    BY <1>1, <2>1, RemoveFilesFacts, FileFacts DEF RemoveDocument, GalleryInv
<1>4. GalleryTypeOK'
  BY <1>1, <1>2, <1>3, FileFacts DEF GalleryInv, GalleryTypeOK
<1>5. RowHasFile'
  BY <1>2, <1>3 DEF GalleryInv, GalleryTypeOK, RowHasFile, Stored, Removing, UploadInv,
     Uploading, Owns
<1>6. FileHasRow'
  BY <1>2, <1>3 DEF GalleryInv, GalleryTypeOK, FileHasRow, Stored, Storing, DropInv,
     Drops, UploadInv, Uploading, Owns
<1>7. UploadInv'
  <2>1. \A q \in Requests \ {r} : Uploading(q) => \A g \in req[q].files : LeftAlone(q, r, g)
    BY <1>2, <1>3, RequestType
       DEF LeftAlone, GalleryInv, GalleryTypeOK, UploadInv, Owns
  <2>2. QED
    BY <1>2, <1>3, <2>1, OthersOwn DEF UploadInv, Uploading
<1>8. DiskInv'
  BY <1>2, <1>3 DEF GalleryInv, GalleryTypeOK, DiskInv, Stored, UploadInv, Uploading,
     Owns, Complete, Promise!Complete
<1>9. DropInv'
  <2>1. \A q \in Requests \ {r} : req[q].at \in {"removing", "dropping"} =>
          \A g \in req[q].files : LeftOut(g)
    BY <1>2, <1>3, RequestType DEF LeftOut, GalleryInv, GalleryTypeOK, Removing, Stored
  <2>2. ASSUME NEW g \in req'[r].files PROVE Drops(r, g)'
    BY <1>2, <1>3 DEF Drops, Stored
  <2>3. QED
    BY <1>2, <1>3, <2>1, <2>2, OthersDrop DEF DropInv
<1>10. NamingInv'
  BY <1>2, <1>3 DEF GalleryInv, NamingInv
<1>11. QED
  BY <1>4, <1>5, <1>6, <1>7, <1>8, <1>9, <1>10 DEF GalleryInv

LEMMA RemoveAlbumKeeps ==
  ASSUME GalleryInv, NEW r \in Requests, NEW a \in Albums, RemoveAlbum(r, a)
  PROVE  GalleryInv'
<1>1. FilesOf(a) \in SUBSET Files
  BY KindsAssumption DEF RemoveAlbum, Loaded, FilesOf, GalleryInv, GalleryTypeOK
<1>2. /\ req' \in [Requests -> Request] /\ edits' \in 0..MaxEdits
      /\ req[r].at = "idle"
      /\ req'[r].at = "dropping" /\ req'[r].files = FilesOf(a) /\ req'[r].album = a
      /\ \A q \in Requests \ {r} : req'[q] = req[q]
  <2>1. Begin(r, Doing("dropping", FilesOf(a), a))
    BY DEF RemoveAlbum, Loaded
  <2>2. QED
    BY <1>1, <2>1, BeginFacts DEF States, GalleryInv
<1>3. /\ UNCHANGED <<parts, remux, rows, album, albums, arrived, sends, ended, torn,
                     revived>>
      /\ stray \subseteq stray' /\ stray' \subseteq Files
      /\ \A g \in Files \ FilesOf(a) : disk'[g] = disk[g]
      /\ \A g \in FilesOf(a) : /\ disk'[g] \in {disk[g], NoFile} /\ g \in rows /\ album[g] = a
                               /\ disk'[g].at = "stored" => g \in stray'
      /\ NoFile.at = "none"
      /\ DOMAIN disk' = Files /\ disk' = [g \in Files |-> disk'[g]]
  <2>1. RemoveFiles(FilesOf(a))
    BY DEF RemoveAlbum, Loaded
  <2>2. QED
    BY <1>1, <2>1, RemoveFilesFacts, FileFacts DEF RemoveAlbum, Loaded, FilesOf, GalleryInv
<1>4. GalleryTypeOK'
  BY <1>1, <1>2, <1>3, FileFacts DEF GalleryInv, GalleryTypeOK
<1>5. RowHasFile'
  BY <1>2, <1>3 DEF GalleryInv, GalleryTypeOK, RowHasFile, Stored, Removing, UploadInv,
     Uploading, Owns
<1>6. FileHasRow'
  BY <1>2, <1>3 DEF GalleryInv, GalleryTypeOK, FileHasRow, Stored, Storing, DropInv,
     Drops, UploadInv, Uploading, Owns
<1>7. UploadInv'
  <2>1. \A q \in Requests \ {r} : Uploading(q) => \A g \in req[q].files : LeftAlone(q, r, g)
    BY <1>2, <1>3, RequestType
       DEF LeftAlone, GalleryInv, GalleryTypeOK, UploadInv, Owns
  <2>2. QED
    BY <1>2, <1>3, <2>1, OthersOwn DEF UploadInv, Uploading
<1>8. DiskInv'
  BY <1>2, <1>3 DEF GalleryInv, GalleryTypeOK, DiskInv, Stored, UploadInv, Uploading,
     Owns, Complete, Promise!Complete
<1>9. DropInv'
  <2>1. \A q \in Requests \ {r} : req[q].at \in {"removing", "dropping"} =>
          \A g \in req[q].files : LeftOut(g)
    BY <1>2, <1>3, RequestType DEF LeftOut, GalleryInv, GalleryTypeOK, Removing, Stored
  <2>2. ASSUME NEW g \in req'[r].files PROVE Drops(r, g)'
    BY <1>2, <1>3 DEF Drops, Stored
  <2>3. QED
    BY <1>2, <1>3, <2>1, <2>2, OthersDrop DEF DropInv
<1>10. NamingInv'
  BY <1>2, <1>3 DEF GalleryInv, NamingInv
<1>11. QED
  BY <1>4, <1>5, <1>6, <1>7, <1>8, <1>9, <1>10 DEF GalleryInv

LEMMA DeleteRowsKeeps ==
  ASSUME GalleryInv, NEW r \in Requests, DeleteRows(r)
  PROVE  GalleryInv'
<1>1. req[r].files \subseteq Files
  BY RequestType DEF GalleryInv, GalleryTypeOK
<1>2. /\ req' \in [Requests -> Request]
      /\ req'[r].at = "idle" /\ req'[r].files = {}
      /\ \A q \in Requests \ {r} : req'[q] = req[q]
  BY DoneFacts DEF DeleteRows, GalleryInv
<1>3. /\ UNCHANGED <<parts, disk, remux, album, albums, arrived, sends, edits, ended,
                     torn, revived, stray>>
      /\ rows' = rows \ req[r].files
      /\ req[r].at = "removing"
  BY DEF DeleteRows
<1>4. GalleryTypeOK'
  BY <1>2, <1>3 DEF GalleryInv, GalleryTypeOK
<1>5. RowHasFile'
  BY <1>2, <1>3 DEF GalleryInv, GalleryTypeOK, RowHasFile, Stored, Removing, UploadInv,
     Uploading, Owns
<1>6. FileHasRow'
  BY <1>2, <1>3 DEF GalleryInv, GalleryTypeOK, FileHasRow, Stored, Storing, DropInv,
     Drops, UploadInv, Uploading, Owns
<1>7. UploadInv'
  <2>1. \A q \in Requests \ {r} : Uploading(q) => \A g \in req[q].files : LeftAlone(q, r, g)
    BY <1>2, <1>3, RequestType
       DEF LeftAlone, GalleryInv, GalleryTypeOK, UploadInv, Owns
  <2>2. QED
    BY <1>2, <1>3, <2>1, OthersOwn DEF UploadInv, Uploading
<1>8. DiskInv'
  BY <1>2, <1>3 DEF GalleryInv, GalleryTypeOK, DiskInv, Stored, UploadInv, Uploading,
     Owns, Complete, Promise!Complete
<1>9. DropInv'
  <2>1. \A q \in Requests \ {r} : req[q].at \in {"removing", "dropping"} =>
          \A g \in req[q].files : LeftOut(g)
    BY <1>2, <1>3, RequestType DEF LeftOut, GalleryInv, GalleryTypeOK, Removing, Stored
  <2>2. QED
    BY <1>2, <1>3, <2>1, OthersDrop DEF DropInv
<1>10. NamingInv'
  BY <1>2, <1>3 DEF GalleryInv, NamingInv
<1>11. QED
  BY <1>4, <1>5, <1>6, <1>7, <1>8, <1>9, <1>10 DEF GalleryInv

LEMMA DeleteFailsKeeps ==
  ASSUME GalleryInv, NEW r \in Requests, DeleteFails(r)
  PROVE  GalleryInv'
<1>1. req[r].files \subseteq Files
  BY RequestType DEF GalleryInv, GalleryTypeOK
<1>2. /\ req' \in [Requests -> Request]
      /\ req'[r].at = "idle" /\ req'[r].files = {}
      /\ \A q \in Requests \ {r} : req'[q] = req[q]
  BY DoneFacts DEF DeleteFails, GalleryInv
<1>3. /\ UNCHANGED <<parts, disk, remux, rows, album, albums, arrived, sends, edits,
                     ended, revived, stray>>
      /\ torn' = torn \cup (req[r].files \cap rows)
      /\ req[r].at \in {"removing", "dropping"}
  BY DEF DeleteFails
<1>4. GalleryTypeOK'
  BY <1>1, <1>2, <1>3 DEF GalleryInv, GalleryTypeOK
<1>5. RowHasFile'
  BY <1>2, <1>3 DEF GalleryInv, GalleryTypeOK, RowHasFile, Stored, Removing, UploadInv,
     Uploading, Owns
<1>6. FileHasRow'
  BY <1>2, <1>3 DEF GalleryInv, GalleryTypeOK, FileHasRow, Stored, Storing, DropInv,
     Drops, UploadInv, Uploading, Owns
<1>7. UploadInv'
  <2>1. \A q \in Requests \ {r} : Uploading(q) => \A g \in req[q].files : LeftAlone(q, r, g)
    BY <1>2, <1>3, RequestType
       DEF LeftAlone, GalleryInv, GalleryTypeOK, UploadInv, Owns
  <2>2. QED
    BY <1>2, <1>3, <2>1, OthersOwn DEF UploadInv, Uploading
<1>8. DiskInv'
  BY <1>2, <1>3 DEF GalleryInv, GalleryTypeOK, DiskInv, Stored, UploadInv, Uploading,
     Owns, Complete, Promise!Complete
<1>9. DropInv'
  <2>1. \A q \in Requests \ {r} : req[q].at \in {"removing", "dropping"} =>
          \A g \in req[q].files : LeftOut(g)
    BY <1>2, <1>3, RequestType DEF LeftOut, GalleryInv, GalleryTypeOK, Removing, Stored
  <2>2. QED
    BY <1>2, <1>3, <2>1, OthersDrop DEF DropInv
<1>10. NamingInv'
  BY <1>2, <1>3 DEF GalleryInv, NamingInv
<1>11. QED
  BY <1>4, <1>5, <1>6, <1>7, <1>8, <1>9, <1>10 DEF GalleryInv

LEMMA DropAlbumKeeps ==
  ASSUME GalleryInv, NEW r \in Requests, DropAlbum(r)
  PROVE  GalleryInv'
<1>1. req[r].files \subseteq Files
  BY RequestType DEF GalleryInv, GalleryTypeOK
<1>2. /\ req' \in [Requests -> Request]
      /\ req'[r].at = "idle" /\ req'[r].files = {}
      /\ \A q \in Requests \ {r} : req'[q] = req[q]
  BY DoneFacts DEF DropAlbum, GalleryInv
<1>3. /\ UNCHANGED <<parts, disk, remux, album, arrived, sends, edits, ended, torn,
                     revived>>
      /\ rows' = rows \ FilesOf(req[r].album)
      /\ stray' = stray \cup (FilesOf(req[r].album) \ req[r].files)
      /\ req[r].at = "dropping"
      /\ albums' \subseteq albums
      /\ \A f \in rows : f \in FilesOf(req[r].album) <=> album[f] = req[r].album
  BY DEF DropAlbum, FilesOf
<1>4. GalleryTypeOK'
  BY <1>1, <1>2, <1>3 DEF GalleryInv, GalleryTypeOK, FilesOf
<1>5. RowHasFile'
  BY <1>2, <1>3 DEF GalleryInv, GalleryTypeOK, RowHasFile, Stored, Removing, DropInv,
     Drops
<1>6. FileHasRow'
  BY <1>2, <1>3 DEF GalleryInv, GalleryTypeOK, FileHasRow, Stored, Storing, DropInv,
     Drops, UploadInv, Uploading, Owns
<1>7. UploadInv'
  <2>1. \A q \in Requests \ {r} : Uploading(q) => \A g \in req[q].files : LeftAlone(q, r, g)
    BY <1>2, <1>3, RequestType
       DEF LeftAlone, GalleryInv, GalleryTypeOK, UploadInv, Owns
  <2>2. QED
    BY <1>2, <1>3, <2>1, OthersOwn DEF UploadInv, Uploading
<1>8. DiskInv'
  BY <1>2, <1>3 DEF GalleryInv, GalleryTypeOK, DiskInv, Stored, UploadInv, Uploading,
     Owns, Complete, Promise!Complete
<1>9. DropInv'
  <2>1. \A q \in Requests \ {r} : req[q].at \in {"removing", "dropping"} =>
          \A g \in req[q].files : LeftOut(g)
    BY <1>2, <1>3, RequestType DEF LeftOut, GalleryInv, GalleryTypeOK, Removing, Stored
  <2>2. QED
    BY <1>2, <1>3, <2>1, OthersDrop DEF DropInv
<1>10. NamingInv'
  BY <1>2, <1>3 DEF GalleryInv, NamingInv
<1>11. QED
  BY <1>4, <1>5, <1>6, <1>7, <1>8, <1>9, <1>10 DEF GalleryInv

LEMMA UpdateMediaKeeps ==
  ASSUME GalleryInv, NEW r \in Requests, NEW f \in Files, NEW a \in Albums \cup {None},
         UpdateMedia(r, f, a)
  PROVE  GalleryInv'
<1>1. {f} \in SUBSET Files
  BY KindsAssumption DEF UpdateMedia, FilesOf, GalleryInv, GalleryTypeOK
<1>2. /\ req' \in [Requests -> Request] /\ edits' \in 0..MaxEdits
      /\ req[r].at = "idle"
      /\ req'[r].at = "moving" /\ req'[r].files = {f} /\ req'[r].album = a
      /\ \A q \in Requests \ {r} : req'[q] = req[q]
  <2>1. Begin(r, Doing("moving", {f}, a))
    BY DEF UpdateMedia
  <2>2. QED
    BY <1>1, <2>1, BeginFacts DEF States, GalleryInv
<1>3. /\ UNCHANGED <<parts, disk, remux, rows, album, albums, arrived, sends, ended,
                     torn, revived, stray>>
      /\ f \in rows
  BY DEF UpdateMedia
<1>4. GalleryTypeOK'
  BY <1>2, <1>3 DEF GalleryInv, GalleryTypeOK
<1>5. RowHasFile'
  BY <1>2, <1>3 DEF GalleryInv, GalleryTypeOK, RowHasFile, Stored, Removing, UploadInv,
     Uploading, Owns
<1>6. FileHasRow'
  BY <1>2, <1>3 DEF GalleryInv, GalleryTypeOK, FileHasRow, Stored, Storing, DropInv,
     Drops, UploadInv, Uploading, Owns
<1>7. UploadInv'
  <2>1. \A q \in Requests \ {r} : Uploading(q) => \A g \in req[q].files : LeftAlone(q, r, g)
    BY <1>2, <1>3, RequestType
       DEF LeftAlone, GalleryInv, GalleryTypeOK, UploadInv, Owns
  <2>2. QED
    BY <1>2, <1>3, <2>1, OthersOwn DEF UploadInv, Uploading
<1>8. DiskInv'
  BY <1>2, <1>3 DEF GalleryInv, GalleryTypeOK, DiskInv, Stored, UploadInv, Uploading,
     Owns, Complete, Promise!Complete
<1>9. DropInv'
  <2>1. \A q \in Requests \ {r} : req[q].at \in {"removing", "dropping"} =>
          \A g \in req[q].files : LeftOut(g)
    BY <1>2, <1>3, RequestType DEF LeftOut, GalleryInv, GalleryTypeOK, Removing, Stored
  <2>2. QED
    BY <1>2, <1>3, <2>1, OthersDrop DEF DropInv
<1>10. NamingInv'
  BY <1>2, <1>3 DEF GalleryInv, NamingInv
<1>11. QED
  BY <1>4, <1>5, <1>6, <1>7, <1>8, <1>9, <1>10 DEF GalleryInv

LEMMA UpdateAlbumKeeps ==
  ASSUME GalleryInv, NEW r \in Requests, NEW a \in Albums, UpdateAlbum(r, a)
  PROVE  GalleryInv'
<1>1. FilesOf(a) \in SUBSET Files
  BY KindsAssumption DEF UpdateAlbum, FilesOf, GalleryInv, GalleryTypeOK
<1>2. /\ req' \in [Requests -> Request] /\ edits' \in 0..MaxEdits
      /\ req[r].at = "idle"
      /\ req'[r].at = "naming" /\ req'[r].files = FilesOf(a) /\ req'[r].album = a
      /\ \A q \in Requests \ {r} : req'[q] = req[q]
  <2>1. Begin(r, Doing("naming", FilesOf(a), a))
    BY DEF UpdateAlbum
  <2>2. QED
    BY <1>1, <2>1, BeginFacts DEF States, GalleryInv
<1>3. /\ UNCHANGED <<parts, disk, remux, rows, album, albums, arrived, sends, ended,
                     torn, revived, stray>>
      /\ FilesOf(a) \subseteq rows
  BY DEF UpdateAlbum, FilesOf
<1>4. GalleryTypeOK'
  BY <1>2, <1>3 DEF GalleryInv, GalleryTypeOK
<1>5. RowHasFile'
  BY <1>2, <1>3 DEF GalleryInv, GalleryTypeOK, RowHasFile, Stored, Removing, UploadInv,
     Uploading, Owns
<1>6. FileHasRow'
  BY <1>2, <1>3 DEF GalleryInv, GalleryTypeOK, FileHasRow, Stored, Storing, DropInv,
     Drops, UploadInv, Uploading, Owns
<1>7. UploadInv'
  <2>1. \A q \in Requests \ {r} : Uploading(q) => \A g \in req[q].files : LeftAlone(q, r, g)
    BY <1>2, <1>3, RequestType
       DEF LeftAlone, GalleryInv, GalleryTypeOK, UploadInv, Owns
  <2>2. QED
    BY <1>2, <1>3, <2>1, OthersOwn DEF UploadInv, Uploading
<1>8. DiskInv'
  BY <1>2, <1>3 DEF GalleryInv, GalleryTypeOK, DiskInv, Stored, UploadInv, Uploading,
     Owns, Complete, Promise!Complete
<1>9. DropInv'
  <2>1. \A q \in Requests \ {r} : req[q].at \in {"removing", "dropping"} =>
          \A g \in req[q].files : LeftOut(g)
    BY <1>2, <1>3, RequestType DEF LeftOut, GalleryInv, GalleryTypeOK, Removing, Stored
  <2>2. QED
    BY <1>2, <1>3, <2>1, OthersDrop DEF DropInv
<1>10. NamingInv'
  BY <1>2, <1>3 DEF GalleryInv, NamingInv
<1>11. QED
  BY <1>4, <1>5, <1>6, <1>7, <1>8, <1>9, <1>10 DEF GalleryInv

LEMMA SaveMediaKeeps ==
  ASSUME GalleryInv, NEW r \in Requests, SaveMedia(r)
  PROVE  GalleryInv'
<1>1. req[r].files \subseteq Files
  BY RequestType DEF GalleryInv, GalleryTypeOK
<1>2. /\ req' \in [Requests -> Request]
      /\ req'[r].at = "idle" /\ req'[r].files = {}
      /\ \A q \in Requests \ {r} : req'[q] = req[q]
  BY DoneFacts DEF SaveMedia, GalleryInv
<1>3. req[r].album \in Albums \cup {None}
  BY RequestType DEF GalleryInv, GalleryTypeOK
<1>4. /\ UNCHANGED <<parts, disk, remux, arrived, sends, edits, ended, stray>>
      /\ req[r].at = "moving"
      /\ rows \subseteq rows' /\ rows' \subseteq rows \cup req[r].files
      /\ revived \subseteq revived'
      /\ rows' \ rows \subseteq revived' /\ revived' \subseteq Files
      /\ \A g \in Files \ req[r].files : album'[g] = album[g]
      /\ album' \in [Files -> Albums \cup {None}] /\ albums' \subseteq Albums
      /\ torn \subseteq torn' /\ torn' \subseteq Files
      /\ \A g \in req[r].files : Removing(g) => g \in torn'
  BY <1>1, <1>3 DEF SaveMedia, SavedOver, FilesOf, GalleryInv, GalleryTypeOK
<1>5. GalleryTypeOK'
  BY <1>1, <1>2, <1>4 DEF GalleryInv, GalleryTypeOK
<1>6. RowHasFile'
  BY <1>2, <1>4 DEF GalleryInv, GalleryTypeOK, RowHasFile, Stored, Removing
<1>7. FileHasRow'
  BY <1>2, <1>4 DEF GalleryInv, GalleryTypeOK, FileHasRow, Stored, Storing, DropInv,
     Drops, UploadInv, Uploading, Owns
<1>8. UploadInv'
  <2>1. \A q \in Requests \ {r} : Uploading(q) => \A g \in req[q].files : LeftAlone(q, r, g)
    BY <1>2, <1>4, RequestType
       DEF LeftAlone, GalleryInv, GalleryTypeOK, UploadInv, Owns
  <2>2. QED
    BY <1>2, <1>4, <2>1, OthersOwn DEF UploadInv, Uploading
<1>9. DiskInv'
  BY <1>2, <1>4 DEF GalleryInv, GalleryTypeOK, DiskInv, Stored, UploadInv, Uploading,
     Owns, Complete, Promise!Complete
<1>10. DropInv'
  <2>1. \A q \in Requests \ {r} : req[q].at \in {"removing", "dropping"} =>
          \A g \in req[q].files : LeftOut(g)
    BY <1>2, <1>4, RequestType DEF LeftOut, GalleryInv, GalleryTypeOK, Removing, Stored
  <2>2. QED
    BY <1>2, <1>4, <2>1, OthersDrop DEF DropInv
<1>11. NamingInv'
  BY <1>2, <1>4 DEF GalleryInv, NamingInv
<1>12. QED
  BY <1>5, <1>6, <1>7, <1>8, <1>9, <1>10, <1>11 DEF GalleryInv

LEMMA SaveAlbumKeeps ==
  ASSUME GalleryInv, NEW r \in Requests, SaveAlbum(r)
  PROVE  GalleryInv'
<1>1. req[r].files \subseteq Files
  BY RequestType DEF GalleryInv, GalleryTypeOK
<1>2. /\ req' \in [Requests -> Request]
      /\ req'[r].at = "idle" /\ req'[r].files = {}
      /\ \A q \in Requests \ {r} : req'[q] = req[q]
  BY DoneFacts DEF SaveAlbum, GalleryInv
<1>3. req[r].album \in Albums \cup {None}
  BY RequestType DEF GalleryInv, GalleryTypeOK
<1>4. /\ req[r].at = "naming"
      /\ torn' = SavedOver(req[r].files \cup FilesOf(req[r].album))
      /\ \/ UNCHANGED <<rows, album, albums, revived>>
         \/ /\ req[r].album \in Albums /\ albums' = albums \cup {req[r].album}
            /\ rows' = rows \cup req[r].files /\ revived' = revived \cup (req[r].files \ rows)
            /\ album' = [f \in Files |->
                           IF f \in req[r].files THEN req[r].album
                           ELSE IF f \in FilesOf(req[r].album) THEN None ELSE album[f]]
  BY DEF SaveAlbum, GalleryInv, NamingInv
<1>5. /\ UNCHANGED <<parts, disk, remux, arrived, sends, edits, ended, stray>>
      /\ req[r].at = "naming"
      /\ rows \subseteq rows' /\ rows' \subseteq rows \cup req[r].files
      /\ revived \subseteq revived'
      /\ rows' \ rows \subseteq revived' /\ revived' \subseteq Files
      /\ \A g \in Files \ (req[r].files \cup FilesOf(req[r].album)) : album'[g] = album[g]
      /\ album' \in [Files -> Albums \cup {None}] /\ albums' \subseteq Albums
      /\ torn \subseteq torn' /\ torn' \subseteq Files
      /\ \A g \in (req[r].files \cup FilesOf(req[r].album)) : Removing(g) => g \in torn'
  BY <1>1, <1>3, <1>4 DEF SaveAlbum, SavedOver, FilesOf, GalleryInv, GalleryTypeOK
<1>6. GalleryTypeOK'
  BY <1>1, <1>2, <1>5 DEF GalleryInv, GalleryTypeOK
<1>7. RowHasFile'
  BY <1>2, <1>5 DEF GalleryInv, GalleryTypeOK, RowHasFile, Stored, Removing
<1>8. FileHasRow'
  BY <1>2, <1>5 DEF GalleryInv, GalleryTypeOK, FileHasRow, Stored, Storing, DropInv,
     Drops, UploadInv, Uploading, Owns
<1>9. UploadInv'
  <2>1. \A q \in Requests \ {r} : Uploading(q) => \A g \in req[q].files : LeftAlone(q, r, g)
    BY <1>2, <1>5, RequestType
       DEF LeftAlone, GalleryInv, GalleryTypeOK, UploadInv, Owns
  <2>2. QED
    BY <1>2, <1>5, <2>1, OthersOwn DEF UploadInv, Uploading
<1>10. DiskInv'
  BY <1>2, <1>5 DEF GalleryInv, GalleryTypeOK, DiskInv, Stored, UploadInv, Uploading,
     Owns, Complete, Promise!Complete
<1>11. DropInv'
  <2>1. \A q \in Requests \ {r} : req[q].at \in {"removing", "dropping"} =>
          \A g \in req[q].files : LeftOut(g)
    BY <1>2, <1>5, RequestType DEF LeftOut, GalleryInv, GalleryTypeOK, Removing, Stored
  <2>2. QED
    BY <1>2, <1>5, <2>1, OthersDrop DEF DropInv
<1>12. NamingInv'
  BY <1>2, <1>5 DEF GalleryInv, NamingInv
<1>13. QED
  BY <1>6, <1>7, <1>8, <1>9, <1>10, <1>11, <1>12 DEF GalleryInv

LEMMA CreateAlbumKeeps ==
  ASSUME GalleryInv, NEW a \in Albums, CreateAlbum(a)
  PROVE  GalleryInv'
<1>1. /\ UNCHANGED <<parts, disk, remux, rows, album, req, arrived, sends, ended, torn,
                     revived, stray>>
      /\ albums' \subseteq Albums /\ edits' \in 0..MaxEdits
  BY GalleryBoundsAssumption DEF CreateAlbum, GalleryInv, GalleryTypeOK
<1>2. GalleryTypeOK'
  BY <1>1 DEF GalleryInv, GalleryTypeOK
<1>3. RowHasFile'
  BY <1>1 DEF GalleryInv, GalleryTypeOK, RowHasFile, Stored, Removing
<1>4. FileHasRow'
  BY <1>1 DEF GalleryInv, GalleryTypeOK, FileHasRow, Stored, Storing
<1>5. UploadInv'
  BY <1>1, RequestType DEF GalleryInv, GalleryTypeOK, UploadInv, Uploading, Owns,
     Stored, Complete, Promise!Complete
<1>6. DiskInv'
  BY <1>1 DEF GalleryInv, GalleryTypeOK, DiskInv, Stored, Complete, Promise!Complete
<1>7. DropInv'
  BY <1>1, RequestType DEF GalleryInv, GalleryTypeOK, DropInv, Drops, Stored
<1>8. NamingInv'
  BY <1>1 DEF GalleryInv, NamingInv
<1>9. QED
  BY <1>2, <1>3, <1>4, <1>5, <1>6, <1>7, <1>8 DEF GalleryInv

LEMMA GalleryCrashKeeps ==
  ASSUME GalleryInv, GalleryCrash
  PROVE  GalleryInv'
<1>1. /\ UNCHANGED <<parts, disk, rows, album, albums, arrived, sends, edits, revived>>
      /\ \A q \in Requests : req'[q] = NoRequest
      /\ req' \in [Requests -> Request] /\ remux' \in [Files -> Remux]
      /\ \A f \in Files : remux'[f] = "no"
      /\ NoRequest.at = "idle"
      /\ torn' = torn \cup {f \in rows : Removing(f)}
      /\ stray' = stray \cup {f \in Files \ rows : Stored(f)}
      /\ ended' = TRUE
  BY NoRequestType DEF GalleryCrash, Remux, GalleryInv, GalleryTypeOK
<1>2. GalleryTypeOK'
  BY <1>1 DEF GalleryInv, GalleryTypeOK
<1>3. RowHasFile'
  BY <1>1 DEF GalleryInv, GalleryTypeOK, RowHasFile, Stored, Removing
<1>4. FileHasRow'
  BY <1>1 DEF GalleryInv, GalleryTypeOK, FileHasRow, Stored, Storing
<1>5. UploadInv'
  BY <1>1 DEF GalleryInv, GalleryTypeOK, UploadInv, Uploading, Owns, Stored, Complete,
     Promise!Complete
<1>6. DiskInv'
  BY <1>1 DEF GalleryInv, GalleryTypeOK, DiskInv, Stored, Complete, Promise!Complete
<1>7. DropInv'
  BY <1>1 DEF GalleryInv, GalleryTypeOK, DropInv, Drops, Stored
<1>8. NamingInv'
  BY <1>1 DEF GalleryInv, NamingInv
<1>9. QED
  BY <1>2, <1>3, <1>4, <1>5, <1>6, <1>7, <1>8 DEF GalleryInv

-----------------------------------------------------------------------------
LEMMA GalleryStarts == GalleryInit => GalleryInv
<1> SUFFICES ASSUME GalleryInit PROVE GalleryInv
  OBVIOUS
<1>1. GalleryTypeOK
  <2>1. disk \in [Files -> File] /\ remux \in [Files -> Remux]
    BY FileFacts DEF GalleryInit, Remux
  <2>2. album \in [Files -> Albums \cup {None}] /\ req \in [Requests -> Request]
    BY NoRequestType DEF GalleryInit
  <2>3. sends \in 0..MaxSends /\ edits \in 0..MaxEdits
    <3>1. sends = 0 /\ edits = 0
      BY DEF GalleryInit
    <3>2. QED
      BY <3>1, GalleryBoundsAssumption
  <2>4. /\ parts \in SUBSET Part /\ rows \in SUBSET Files /\ albums \in SUBSET Albums
        /\ arrived \in SUBSET (Part \cup Files)
        /\ torn \in SUBSET Files /\ revived \in SUBSET Files /\ stray \in SUBSET Files
        /\ ended \in BOOLEAN
    BY DEF GalleryInit
  <2>5. QED
    BY <2>1, <2>2, <2>3, <2>4 DEF GalleryTypeOK
<1>2. \A f \in Files : ~Stored(f) /\ remux[f] = "no"
  BY FileFacts DEF GalleryInit, Stored
<1>3. \A r \in Requests : req[r].at = "idle"
  BY NoRequestType DEF GalleryInit
<1>4. RowHasFile /\ FileHasRow /\ DiskInv
  BY <1>2 DEF GalleryInit, RowHasFile, FileHasRow, DiskInv
<1>5. UploadInv /\ DropInv /\ NamingInv
  BY <1>3 DEF UploadInv, Uploading, DropInv, NamingInv
<1>6. QED
  BY <1>1, <1>4, <1>5 DEF GalleryInv

LEMMA GalleryGoesOn == GalleryInv /\ [GalleryNext]_galleryVars => GalleryInv'
<1> SUFFICES ASSUME GalleryInv, [GalleryNext]_galleryVars PROVE GalleryInv'
  OBVIOUS
<1>1. ASSUME NEW i \in Part, NEW r \in Requests, NEW f \in Files, NEW a \in Albums \cup {None},
             SendPart(i, r, f, a)
      PROVE  GalleryInv'
  BY <1>1, SendPartKeeps
<1>2. ASSUME NEW r \in Requests, UploadStep(r) PROVE GalleryInv'
  BY <1>2, ReadPartKeeps, AssemblyFailsKeeps, AssembleKeeps, MoveFilesKeeps, FindAlbumFailsKeeps,
     MoveFailsKeeps, MakeThumbnailKeeps, SaveRowsKeeps, SaveRowsFailsKeeps DEF UploadStep
<1>3. ASSUME NEW r \in Requests, NEW F \in SUBSET Files, NEW a \in Albums \cup {None},
             UploadBulk(r, F, a) \/ Remove(r, F)
      PROVE  GalleryInv'
  BY <1>3, UploadBulkKeeps, RemoveKeeps
<1>4. ASSUME NEW r \in Requests, NEW f \in Files, NEW a \in Albums \cup {None}, UpdateMedia(r, f, a)
      PROVE  GalleryInv'
  BY <1>4, UpdateMediaKeeps
<1>5. ASSUME NEW r \in Requests, NEW f \in Papers, UploadDocument(r, f) \/ RemoveDocument(r, f)
      PROVE  GalleryInv'
  BY <1>5, UploadDocumentKeeps, RemoveDocumentKeeps
<1>6. ASSUME NEW r \in Requests, NEW a \in Albums, UpdateAlbum(r, a) \/ RemoveAlbum(r, a)
      PROVE  GalleryInv'
  BY <1>6, UpdateAlbumKeeps, RemoveAlbumKeeps
<1>7. ASSUME NEW r \in Requests,
             DeleteRows(r) \/ DeleteFails(r) \/ SaveMedia(r) \/ SaveAlbum(r) \/ DropAlbum(r)
      PROVE  GalleryInv'
  BY <1>7, DeleteRowsKeeps, DeleteFailsKeeps, SaveMediaKeeps, SaveAlbumKeeps, DropAlbumKeeps
<1>8. ASSUME NEW a \in Albums, CreateAlbum(a) PROVE GalleryInv'
  BY <1>8, CreateAlbumKeeps
<1>9. ASSUME NEW f \in Files, StartRemux(f) \/ FinishRemux(f) \/ FailRemux(f) PROVE GalleryInv'
  BY <1>9, StartRemuxKeeps, FinishRemuxKeeps, FailRemuxKeeps
<1>10. CASE GalleryCrash
  BY <1>10, GalleryCrashKeeps
<1>11. CASE UNCHANGED galleryVars
  BY <1>11 DEF galleryVars, GalleryInv, GalleryTypeOK, RowHasFile, FileHasRow, UploadInv, DiskInv,
     DropInv, NamingInv, Stored, Removing, Storing, Uploading, Owns, Drops, Complete,
     Promise!Complete
<1>12. QED
  BY <1>1, <1>2, <1>3, <1>4, <1>5, <1>6, <1>7, <1>8, <1>9, <1>10, <1>11 DEF GalleryNext

LEMMA GalleryHolds == GallerySpec => []GalleryInv
  BY GalleryStarts, GalleryGoesOn, PTL DEF GallerySpec

-----------------------------------------------------------------------------
(* What readers see.  In every state a file is shown whole, and only when  *)
(* all of it has arrived, or not at all; hence every step that brings      *)
(* nothing in is a Show, and those that bring something in show nothing    *)
(* new.                                                                    *)
LEMMA ArrivingShowsNothing ==
  ASSUME GalleryInv,
         \/ \E i \in Part, r \in Requests, f \in Files, a \in Albums \cup {None} :
              SendPart(i, r, f, a)
         \/ \E r \in Requests, F \in SUBSET Files, a \in Albums \cup {None} : UploadBulk(r, F, a)
         \/ \E r \in Requests, f \in Papers : UploadDocument(r, f)
  PROVE  Promise!Arrive /\ Shown' = Shown
<1>1. PICK new \in SUBSET (Part \cup Files) :
        /\ arrived' = arrived \cup new
        /\ rows' = rows
        /\ \A f \in Files : disk'[f] = disk[f] \/ f \notin rows
  <2>1. CASE \E i \in Part, r \in Requests, f \in Files, a \in Albums \cup {None} :
               SendPart(i, r, f, a)
    <3>1. PICK i \in Part, r \in Requests, f \in Files, a \in Albums \cup {None} :
            SendPart(i, r, f, a)
      BY <2>1
    <3>2. arrived' = arrived \cup {i} /\ rows' = rows
      BY <3>1 DEF SendPart
    <3>3. disk' = disk \/ (f \notin rows /\ disk' = [disk EXCEPT ![f].at = "temp"])
      BY <3>1 DEF SendPart, Unused
    <3>4. \A g \in Files : disk'[g] = disk[g] \/ g \notin rows
      BY <3>3 DEF GalleryInv, GalleryTypeOK
    <3>5. QED
      BY <3>2, <3>4
  <2>2. CASE \E r \in Requests, F \in SUBSET Files, a \in Albums \cup {None} : UploadBulk(r, F, a)
    BY <2>2 DEF UploadBulk, Unused
  <2>3. CASE \E r \in Requests, f \in Papers : UploadDocument(r, f)
    BY <2>3, KindsAssumption DEF UploadDocument, Unused, GalleryInv, GalleryTypeOK
  <2>4. QED
    BY <2>1, <2>2, <2>3
<1>2. Promise!Arrive
  BY <1>1 DEF Promise!Arrive, Part
<1>3. Shown' = Shown
  BY <1>1 DEF Shown, Stored
<1>4. QED
  BY <1>2, <1>3

LEMMA OthersBringNothing ==
  ASSUME [GalleryNext]_galleryVars,
         ~ \/ \E i \in Part, r \in Requests, f \in Files, a \in Albums \cup {None} :
                SendPart(i, r, f, a)
           \/ \E r \in Requests, F \in SUBSET Files, a \in Albums \cup {None} : UploadBulk(r, F, a)
           \/ \E r \in Requests, f \in Papers : UploadDocument(r, f)
  PROVE  arrived' = arrived
<1>1. ASSUME NEW r \in Requests, UploadStep(r) PROVE arrived' = arrived
  BY <1>1 DEF UploadStep, ReadPart, AssemblyFails, Assemble, MoveFiles, FindAlbumFails,
     MoveFails, MakeThumbnail,
     SaveRows, SaveRowsFails
<1>2. ASSUME NEW r \in Requests, NEW F, NEW f, NEW a,
             \/ Remove(r, F) \/ UpdateMedia(r, f, a) \/ RemoveDocument(r, f)
             \/ UpdateAlbum(r, a) \/ RemoveAlbum(r, a)
             \/ DeleteRows(r) \/ DeleteFails(r) \/ SaveMedia(r) \/ SaveAlbum(r) \/ DropAlbum(r)
      PROVE  arrived' = arrived
  BY <1>2 DEF Remove, UpdateMedia, RemoveDocument, UpdateAlbum, RemoveAlbum, DeleteRows, DeleteFails,
     SaveMedia, SaveAlbum, DropAlbum
<1>3. ASSUME NEW f, NEW a,
             \/ CreateAlbum(a) \/ StartRemux(f) \/ FinishRemux(f) \/ FailRemux(f)
             \/ GalleryCrash \/ UNCHANGED galleryVars
      PROVE  arrived' = arrived
  BY <1>3 DEF CreateAlbum, StartRemux, FinishRemux, FailRemux, GalleryCrash, galleryVars
<1>4. QED
  BY <1>1, <1>2, <1>3 DEF GalleryNext

LEMMA GalleryShows ==
  GalleryInv /\ GalleryInv' /\ [GalleryNext]_galleryVars
    => [Promise!UploadsNext]_<<arrived, Shown>>
<1> SUFFICES ASSUME GalleryInv, GalleryInv', [GalleryNext]_galleryVars
             PROVE  [Promise!UploadsNext]_<<arrived, Shown>>
  OBVIOUS
<1> DEFINE Arrives ==
      \/ \E i \in Part, r \in Requests, f \in Files, a \in Albums \cup {None} :
           SendPart(i, r, f, a)
      \/ \E r \in Requests, F \in SUBSET Files, a \in Albums \cup {None} : UploadBulk(r, F, a)
      \/ \E r \in Requests, f \in Papers : UploadDocument(r, f)
<1>1. CASE Arrives
  BY <1>1, ArrivingShowsNothing DEF Promise!UploadsNext
<1>2. CASE ~Arrives
  <2>1. arrived' = arrived
    BY <1>2, OthersBringNothing
  <2>2. DOMAIN Shown' = Files
    BY DEF Shown
  <2>3. ASSUME NEW f \in Files
        PROVE  Shown'[f] = <<>> \/ (Shown'[f] = Whole /\ Promise!Complete(f))
    <3>1. Shown'[f] = <<>> \/ (disk'[f].at = "stored" /\ Shown'[f] = disk'[f].data)
      BY DEF Shown, Stored
    <3>2. disk'[f].at = "stored" => disk'[f].data = Whole /\ Promise!Complete(f)
      BY <2>1 DEF GalleryInv, DiskInv, Stored, Complete, Promise!Complete
    <3>3. QED
      BY <3>1, <3>2
  <2>4. Promise!Show
    BY <2>2, <2>3 DEF Promise!Show, Promise!Nothing, Promise!Whole, Whole, Part
  <2>5. QED
    BY <2>1, <2>4 DEF Promise!UploadsNext
<1>3. QED
  BY <1>1, <1>2

(* Implementation of Uploads, for any number of parts, files, albums and   *)
(* requests: whatever parts are repeated or out of order, assemblies       *)
(* overlap, rows are removed and written again, or the process ends, a     *)
(* reader never gets a part of a file, or a file before it has arrived.    *)
THEOREM FilesAreShownWhole == GallerySpec => ShownWhole
<1>1. GalleryInit => Promise!UploadsInit
  BY FileFacts DEF GalleryInit, Promise!UploadsInit, Promise!Nothing, Shown, Stored
<1>2. GalleryInv /\ GalleryInv' /\ [GalleryNext]_galleryVars
        => [Promise!UploadsNext]_<<arrived, Shown>>
  BY GalleryShows
<1>3. QED
  BY <1>1, <1>2, GalleryHolds, PTL DEF GallerySpec, ShownWhole, Promise!UploadsSpec

(* The types of the gallery: what every operation of GalleryService,       *)
(* AlbumService and DocumentService leaves behind is well formed.          *)
THEOREM GalleryTypes == GallerySpec => []GalleryTypeOK
<1>1. GalleryInv => GalleryTypeOK
  BY DEF GalleryInv
<1>2. QED
  BY <1>1, GalleryHolds, PTL

(* Rows and files match for all instances: a row of galleries without its  *)
(* file is one of an unfinished removal, or one that a save wrote back,    *)
(* and storage does not fill up with files that have no row, but by a      *)
(* crash, ffmpeg, an album that was dropped while media came to it, or     *)
(* files that a removal or a clean-up could not unlink.                    *)
THEOREM RowsAndFiles == GallerySpec => []RowsMatchFiles
<1>1. GalleryInv => RowsMatchFiles
  BY DEF GalleryInv, RowsMatchFiles
<1>2. QED
  BY <1>1, GalleryHolds, PTL

(***************************************************************************)
(* Company profile: a logo is held by one row, or by one insertion that    *)
(* has not saved its row yet; a kept copy is the stored row, or a change   *)
(* that will drop the copy is under way.                                   *)
(***************************************************************************)

(* The steps of a change.                                                  *)
ChangeAt == {"idle", "getting", "querying", "setting", "inserting", "saving", "removing",
             "listing", "dropping"}

(* Rows, copies and changes, and what an update of one keeps.              *)
LEMMA RowType ==
  /\ NoRow \in Row /\ NoRow.logo = NoLogo
  /\ \A x \in Row : x.live \in BOOLEAN /\ x.text \in 0..MaxChanges /\ x.logo \in Logos \cup {NoLogo}
  /\ \A x \in Row, b \in BOOLEAN :
       [x EXCEPT !.live = b] \in Row /\ [x EXCEPT !.live = b].logo = x.logo
  /\ \A x \in Row, l \in Logos \cup {NoLogo} :
       [x EXCEPT !.logo = l] \in Row /\ [x EXCEPT !.logo = l].logo = l
  /\ \A n \in 0..MaxChanges, l \in Logos \cup {NoLogo}, b \in BOOLEAN :
       [live |-> b, text |-> n, logo |-> l] \in Row
<1>1. NoRow \in Row /\ NoRow.logo = NoLogo
  BY ChangesAssumption DEF Row, NoRow
<1>2. \A x \in Row :
        x.live \in BOOLEAN /\ x.text \in 0..MaxChanges /\ x.logo \in Logos \cup {NoLogo}
  BY DEF Row
<1>3. \A x \in Row, b \in BOOLEAN :
       [x EXCEPT !.live = b] \in Row /\ [x EXCEPT !.live = b].logo = x.logo
  BY DEF Row
<1>4. \A x \in Row, l \in Logos \cup {NoLogo} :
       [x EXCEPT !.logo = l] \in Row /\ [x EXCEPT !.logo = l].logo = l
  BY DEF Row
<1>5. \A n \in 0..MaxChanges, l \in Logos \cup {NoLogo}, b \in BOOLEAN :
       [live |-> b, text |-> n, logo |-> l] \in Row
  BY DEF Row
<1>6. QED
  BY <1>1, <1>2, <1>3, <1>4, <1>5

LEMMA CopyType ==
  /\ NoCopy \in Copy
  /\ \A x \in Copy : x.row \in Row /\ x.excused \in BOOLEAN
  /\ \A x \in Copy : LET y == [x EXCEPT !.excused = TRUE] IN y \in Copy /\ y.excused
  /\ \A x \in Copy, row \in Row : LET y == [x EXCEPT !.row = row] IN y \in Copy /\ y.row = row
<1>1. NoCopy \in Copy
  BY RowType DEF Copy, NoCopy
<1>2. \A x \in Copy : x.row \in Row /\ x.excused \in BOOLEAN
  BY DEF Copy
<1>3. \A x \in Copy : LET y == [x EXCEPT !.excused = TRUE] IN y \in Copy /\ y.excused
  BY DEF Copy
<1>4. \A x \in Copy, row \in Row : LET y == [x EXCEPT !.row = row] IN y \in Copy /\ y.row = row
  BY DEF Copy
<1>5. QED
  BY <1>1, <1>2, <1>3, <1>4

LEMMA ChangeType ==
  ASSUME NEW x \in Change
  PROVE  /\ x.at \in ChangeAt /\ x.id \in Profiles /\ x.row \in Row
         /\ x.old \in Logos \cup {NoLogo} /\ x.copy \in Copy
  BY DEF Change, ChangeAt

LEMMA NoChangeType == NoChange \in Change /\ NoChange.at = "idle"
<1>1. (CHOOSE p \in Profiles : TRUE) \in Profiles
  BY ProfilesAssumption
<1>2. NoChange \in Change
  BY <1>1, RowType, CopyType DEF Change, NoChange
<1>3. QED
  BY <1>2 DEF NoChange

LEMMA ChangeMoves ==
  ASSUME NEW x \in Change, NEW at \in ChangeAt
  PROVE  LET y == [x EXCEPT !.at = at]
         IN /\ y \in Change /\ y.at = at
            /\ y.id = x.id /\ y.row = x.row /\ y.old = x.old /\ y.copy = x.copy
  BY DEF Change, ChangeAt

LEMMA ChangeKeeps ==
  ASSUME NEW x \in Change, NEW c \in Copy
  PROVE  LET y == [x EXCEPT !.copy = c]
         IN /\ y \in Change /\ y.copy = c
            /\ y.at = x.at /\ y.id = x.id /\ y.row = x.row /\ y.old = x.old
  BY DEF Change

LEMMA InsertStarts ==
  ASSUME NEW x \in Change, NEW row \in Row
  PROVE  LET y == [x EXCEPT !.at = "inserting", !.reads = TRUE, !.row = row]
         IN y \in Change /\ y.at = "inserting" /\ y.row = row
  BY DEF Change, ChangeAt

LEMMA RemovalStarts ==
  ASSUME NEW x \in Change, NEW p \in Profiles
  PROVE  LET y == [x EXCEPT !.at = "removing", !.id = p]
         IN y \in Change /\ y.at = "removing"
  BY DEF Change, ChangeAt

-----------------------------------------------------------------------------
(* A logo that is stored for a profile, or that a request will store or    *)
(* has replaced there.                                                     *)
Holds(p, l) ==
  \/ profile[p].logo = l
  \/ \E r \in Changers : /\ change[r].at = "saving" /\ change[r].id = p
                         /\ l \in {change[r].row.logo, change[r].old}
Inserts(r, l) == change[r].at = "inserting" /\ change[r].row.logo = l

(* Inductive: LogoExists stays as every logo belongs to one profile, and   *)
(* one that is about to be inserted to none, so that whoever is done with  *)
(* a profile has put an end to all that refers to the logo it removed.     *)
OneHolder == \A l \in Logos, p, q \in Profiles : Holds(p, l) /\ Holds(q, l) => p = q
InsertInv ==
  \A r \in Changers, l \in Logos : Inserts(r, l) =>
    /\ l \in logos
    /\ \A p \in Profiles : ~Holds(p, l)
    /\ \A q \in Changers : Inserts(q, l) => q = r
LogoInv == LogoExists /\ OneHolder /\ InsertInv

(* Inductive: CopyIsFresh stays as a copy that is about to be kept is      *)
(* fresh, or was read before a change.                                     *)
KeptInv ==
  \A r \in Changers : change[r].at = "setting" =>
    change[r].copy.excused \/ Fresh(change[r].copy.row)
CopyInv == CopyIsFresh /\ KeptInv

ProfileInv == ProfileTypeOK /\ LogoInv /\ CopyInv

(* Steps that leave logos and what refers to them alone.                   *)
LEMMA LogosUntouched ==
  ASSUME ProfileTypeOK, LogoInv, logos' = logos, lost \subseteq lost',
         \A p \in Profiles : profile'[p].logo = profile[p].logo,
         \A r \in Changers : change'[r].at \in {"saving", "inserting"} =>
           /\ change'[r].at = change[r].at /\ change'[r].id = change[r].id
           /\ change'[r].row = change[r].row /\ change'[r].old = change[r].old,
         \A r \in Changers : change[r].at = "saving" =>
           change'[r].at = "saving" \/ change[r].old \in lost' \cup {NoLogo}
  PROVE  LogoInv'
<1>1. ASSUME NEW p \in Profiles, NEW l, Holds(p, l)' PROVE Holds(p, l)
  BY <1>1 DEF Holds
<1>2. ASSUME NEW r \in Changers, NEW l, Inserts(r, l)' PROVE Inserts(r, l)
  BY <1>2 DEF Inserts
<1>3. LogoExists'
  BY DEF LogoInv, LogoExists
<1>4. OneHolder'
  BY <1>1 DEF LogoInv, OneHolder
<1>5. InsertInv'
  BY <1>1, <1>2 DEF LogoInv, InsertInv
<1>6. QED
  BY <1>3, <1>4, <1>5 DEF LogoInv

(* Steps that leave the row alone, and steps that save one.                *)
LEMMA CopyUntouched ==
  ASSUME CopyInv, profile' = profile,
         \/ cache' = NoCopy \/ cache'.excused
         \/ \E r \in Changers : change[r].at = "setting" /\ cache' = change[r].copy
         \/ /\ cache' = cache
            /\ \A r \in Changers : change[r].at \in {"listing", "dropping"} =>
                 change'[r].at \in {"listing", "dropping"},
         \A r \in Changers : change'[r].at = "setting" =>
           \/ change[r].at = "setting" /\ change'[r].copy = change[r].copy
           \/ Fresh(change'[r].copy.row)
  PROVE  CopyInv'
<1>1. \A row : Fresh(row) <=> Fresh(row)'
  BY DEF Fresh
<1>2. CopyIsFresh'
  BY <1>1 DEF CopyInv, CopyIsFresh, KeptInv
<1>3. KeptInv'
  BY <1>1 DEF CopyInv, KeptInv
<1>4. QED
  BY <1>2, <1>3 DEF CopyInv

LEMMA CopySaved ==
  ASSUME NEW r \in Changers, change'[r].at = "listing",
         \A q \in Changers : change'[q].at = "setting" => change'[q].copy.excused
  PROVE  CopyInv'
  BY DEF CopyInv, CopyIsFresh, KeptInv

(* What Saved does to the requests.                                        *)
LEMMA SavedFacts ==
  ASSUME ProfileTypeOK, NEW r \in Changers, NEW row, change' = Saved(r, row)
  PROVE  /\ change' \in [Changers -> Change]
         /\ change'[r].at = "listing"
         /\ \A q \in Changers \ {r} :
              /\ change'[q].at = change[q].at /\ change'[q].id = change[q].id
              /\ change'[q].row = change[q].row /\ change'[q].old = change[q].old
         /\ \A q \in Changers : change'[q].at = "setting" => change'[q].copy.excused
<1>1. change'[r] = [change[r] EXCEPT !.at = "listing"]
  BY DEF Saved
<1>2. change'[r] \in Change /\ change'[r].at = "listing"
  <2>1. change[r] \in Change /\ "listing" \in ChangeAt
    BY DEF ProfileTypeOK, ChangeAt
  <2>2. QED
    BY <1>1, <2>1, ChangeMoves
<1>3. ASSUME NEW q \in Changers \ {r}
      PROVE  /\ change'[q] \in Change
             /\ change'[q].at = change[q].at /\ change'[q].id = change[q].id
             /\ change'[q].row = change[q].row /\ change'[q].old = change[q].old
             /\ change'[q].at = "setting" => change'[q].copy.excused
  <2>1. change[q] \in Change
    BY DEF ProfileTypeOK
  <2>2. CASE change[q].at = "setting"
    <3>1. PICK c : c = [change[q].copy EXCEPT !.excused = TRUE]
      OBVIOUS
    <3>2. c \in Copy /\ c.excused
      BY <2>1, <3>1, ChangeType, CopyType
    <3>3. change'[q] = [change[q] EXCEPT !.copy = c]
      BY <2>2, <3>1 DEF Saved
    <3>4. QED
      BY <2>1, <3>2, <3>3, ChangeKeeps
  <2>3. CASE change[q].at # "setting"
    BY <2>1, <2>3 DEF Saved
  <2>4. QED
    BY <2>2, <2>3
<1>4. DOMAIN change' = Changers /\ change' = [q \in Changers |-> change'[q]]
  BY DEF Saved
<1>5. QED
  BY <1>2, <1>3, <1>4

(* A request that reads the profile, or is done with a change.             *)
LEMMA DroppedFacts ==
  ASSUME NEW r \in Changers, ProfileTypeOK
  PROVE  Dropped(r) \in Change /\ Dropped(r).at \in {"getting", "idle"}
<1>1. ASSUME NEW at \in {"getting", "idle"}
      PROVE  [NoChange EXCEPT !.at = at] \in Change /\ [NoChange EXCEPT !.at = at].at = at
  <2>1. at \in ChangeAt
    BY DEF ChangeAt
  <2>2. QED
    BY <2>1, NoChangeType, ChangeMoves
<1>2. Dropped(r) \in {[NoChange EXCEPT !.at = "getting"], [NoChange EXCEPT !.at = "idle"]}
  BY DEF Dropped
<1>3. QED
  BY <1>1, <1>2

-----------------------------------------------------------------------------
LEMMA ReadsKeep ==
  ASSUME ProfileInv, NEW r \in Changers,
         GetProfile(r) \/ ReadCopy(r) \/ QueryProfile(r) \/ SetCopy(r)
  PROVE  ProfileInv'
<1>0. /\ ProfileTypeOK /\ change[r] \in Change
      /\ change[r].at \in {"idle", "getting", "querying", "setting"}
  BY DEF ProfileInv, ProfileTypeOK, GetProfile, ReadCopy, QueryProfile, SetCopy
<1>1. UNCHANGED <<profile, logos, changes, lost>>
  BY DEF GetProfile, ReadCopy, QueryProfile, SetCopy
<1>2. PICK x \in Change :
        /\ change' = [change EXCEPT ![r] = x]
        /\ x.at \in {"idle", "getting", "querying", "setting"}
        /\ x.at = "setting" => Fresh(x.copy.row)
  <2>1. CASE GetProfile(r)
    <3>1. change' = [change EXCEPT ![r] = [change[r] EXCEPT !.at = "getting"]]
      BY <2>1 DEF GetProfile
    <3>2. QED
      BY <1>0, <3>1, ChangeMoves DEF ChangeAt
  <2>2. CASE ReadCopy(r)
    <3>1. PICK x : x = [NoChange EXCEPT !.at = "querying"]
      OBVIOUS
    <3>2. x \in Change /\ x.at = "querying"
      BY <3>1, NoChangeType, ChangeMoves DEF ChangeAt
    <3>3. change' = [change EXCEPT ![r] = NoChange] \/ change' = [change EXCEPT ![r] = x]
      BY <2>2, <3>1 DEF ReadCopy
    <3>4. QED
      BY <3>2, <3>3, NoChangeType
  <2>3. CASE QueryProfile(r) /\ change' = [change EXCEPT ![r] = NoChange]
    BY <2>3, NoChangeType
  <2>4. CASE QueryProfile(r) /\ change' # [change EXCEPT ![r] = NoChange]
    <3>1. PICK p \in Profiles :
            /\ profile[p].live
            /\ change' = [change EXCEPT ![r].at = "setting", ![r].copy.row = profile[p]]
      BY <2>4 DEF QueryProfile
    <3>2. PICK c : c = [change[r].copy EXCEPT !.row = profile[p]]
      OBVIOUS
    <3>3. c \in Copy /\ c.row = profile[p]
      BY <1>0, <3>2, ChangeType, CopyType DEF ProfileTypeOK
    <3>4. PICK x : x = [change[r] EXCEPT !.at = "setting"]
      OBVIOUS
    <3>5. x \in Change /\ x.at = "setting" /\ x.copy = change[r].copy
      BY <1>0, <3>4, ChangeMoves DEF ChangeAt
    <3>6. PICK y : y = [x EXCEPT !.copy = c]
      OBVIOUS
    <3>7. y \in Change /\ y.at = "setting" /\ y.copy = c
      BY <3>3, <3>5, <3>6, ChangeKeeps
    <3>8. change' = [change EXCEPT ![r] = y]
      BY <1>0, <3>1, <3>2, <3>4, <3>6 DEF ProfileTypeOK, Change
    <3>9. QED
      BY <3>1, <3>3, <3>7, <3>8 DEF Fresh
  <2>5. CASE SetCopy(r)
    BY <2>5, NoChangeType DEF SetCopy
  <2>6. QED
    BY <2>1, <2>2, <2>3, <2>4, <2>5
<1>3. /\ \A q \in Changers \ {r} : change'[q] = change[q]
      /\ change'[r] = x /\ change' \in [Changers -> Change]
  BY <1>0, <1>2 DEF ProfileTypeOK
<1>4. \/ cache' = cache
      \/ change[r].at = "setting" /\ cache' = change[r].copy
  BY DEF GetProfile, ReadCopy, QueryProfile, SetCopy
<1>5. ProfileTypeOK'
  BY <1>0, <1>1, <1>3, <1>4, ChangeType DEF ProfileTypeOK
<1>6. LogoInv'
  BY <1>0, <1>1, <1>2, <1>3, LogosUntouched DEF ProfileInv
<1>7. CopyInv'
  BY <1>0, <1>1, <1>2, <1>3, <1>4, CopyUntouched DEF ProfileInv, Fresh
<1>8. QED
  BY <1>5, <1>6, <1>7 DEF ProfileInv

(* A request whose change is saved or not, and that drops the copies.      *)
LEMMA EndsKeep ==
  ASSUME ProfileInv, NEW r \in Changers,
         ChangeFails(r) \/ ListKeys(r) \/ DropCopy(r) \/ DropFails(r)
  PROVE  ProfileInv'
<1>0. ProfileTypeOK /\ change[r] \in Change /\ cache \in Copy
  BY DEF ProfileInv, ProfileTypeOK
<1>1. UNCHANGED <<profile, logos, changes>>
  BY DEF ChangeFails, ListKeys, DropCopy, DropFails
<1>2. PICK x \in Change :
        /\ change' = [change EXCEPT ![r] = x]
        /\ x.at \in {"idle", "getting", "dropping"}
        /\ x.at = "dropping" => cache # NoCopy /\ UNCHANGED <<cache, lost>>
  <2>1. CASE ChangeFails(r)
    BY <2>1, NoChangeType DEF ChangeFails
  <2>2. CASE ListKeys(r)
    <3>1. PICK x : x = [change[r] EXCEPT !.at = "dropping"]
      OBVIOUS
    <3>2. x \in Change /\ x.at = "dropping"
      BY <1>0, <3>1, ChangeMoves DEF ChangeAt
    <3>3. \/ cache # NoCopy /\ change' = [change EXCEPT ![r] = x]
          \/ change' = [change EXCEPT ![r] = Dropped(r)]
      BY <2>2, <3>1 DEF ListKeys
    <3>4. QED
      BY <1>0, <2>2, <3>2, <3>3, DroppedFacts DEF ListKeys
  <2>3. CASE DropCopy(r) \/ DropFails(r)
    BY <1>0, <2>3, DroppedFacts DEF DropCopy, DropFails
  <2>4. QED
    BY <2>1, <2>2, <2>3
<1>3. /\ \A q \in Changers \ {r} : change'[q] = change[q]
      /\ change'[r] = x /\ change' \in [Changers -> Change]
  BY <1>0, <1>2 DEF ProfileTypeOK
<1>4. /\ lost \subseteq lost' /\ lost' \subseteq Logos
      /\ change[r].at = "saving" => change[r].old \in lost' \cup {NoLogo}
  BY <1>0, ChangeType DEF ChangeFails, ListKeys, DropCopy, DropFails, ProfileTypeOK
<1>5. cache' \in Copy
  BY <1>0, CopyType DEF ChangeFails, ListKeys, DropCopy, DropFails
<1>6. \/ cache' = NoCopy \/ cache'.excused
      \/ /\ cache' = cache
         /\ change[r].at \in {"listing", "dropping"} => x.at = "dropping"
  <2>1. CASE ChangeFails(r)
    BY <2>1 DEF ChangeFails
  <2>2. CASE ListKeys(r)
    BY <1>2, <1>3, <2>2, ChangeMoves, <1>0 DEF ListKeys, ChangeAt
  <2>3. CASE DropCopy(r) \/ DropFails(r)
    BY <1>0, <2>3, CopyType DEF DropCopy, DropFails
  <2>4. QED
    BY <2>1, <2>2, <2>3
<1>7. ProfileTypeOK'
  BY <1>0, <1>1, <1>3, <1>4, <1>5 DEF ProfileTypeOK
<1>8. LogoInv'
  BY <1>0, <1>1, <1>2, <1>3, <1>4, LogosUntouched DEF ProfileInv
<1>9. CopyInv'
  BY <1>1, <1>2, <1>3, <1>6, CopyUntouched DEF ProfileInv
<1>10. QED
  BY <1>7, <1>8, <1>9 DEF ProfileInv

(* A change begins: x is what the request goes on with.                    *)
LEMMA ChangeBegins ==
  ASSUME ProfileTypeOK, NEW r \in Changers, NEW x \in Change, BeginChange(r, x)
  PROVE  /\ change' \in [Changers -> Change] /\ changes' \in 0..MaxChanges
         /\ change[r].at = "idle" /\ change'[r] = x
         /\ \A q \in Changers \ {r} : change'[q] = change[q]
         /\ changes + 1 \in 0..MaxChanges
  BY ChangesAssumption DEF ProfileTypeOK, BeginChange

(* A name that nobody uses, and what is on disk after it was placed.       *)
LEMMA NewLogoFacts ==
  ASSUME NEW l, NewLogo(l)
  PROVE  /\ \A p \in Profiles : ~Holds(p, l)
         /\ \A r \in Changers : ~Inserts(r, l)
  BY ProfilesAssumption DEF NewLogo, Holds, Inserts

LEMMA CheckNoneKeeps ==
  ASSUME ProfileInv, NEW r \in Changers, NEW l \in Logos \cup {NoLogo}, CheckNone(r, l)
  PROVE  ProfileInv'
<1>0. ProfileTypeOK
  BY DEF ProfileInv
<1>1. PICK x : /\ x \in Change /\ x.at = "inserting" /\ x.row.logo = l
               /\ BeginChange(r, x)
  <2>1. PICK row : row = [live |-> TRUE, text |-> changes + 1, logo |-> l]
    OBVIOUS
  <2>2. changes + 1 \in 0..MaxChanges
    BY <1>0, ChangesAssumption DEF CheckNone, BeginChange, ProfileTypeOK
  <2>3. row \in Row /\ row.logo = l
    BY <2>1, <2>2, RowType
  <2>4. PICK x : x = [NoChange EXCEPT !.at = "inserting", !.reads = TRUE, !.row = row]
    OBVIOUS
  <2>5. x \in Change /\ x.at = "inserting" /\ x.row = row
    BY <2>3, <2>4, NoChangeType, InsertStarts
  <2>6. BeginChange(r, x)
    BY <2>1, <2>4 DEF CheckNone
  <2>7. QED
    BY <2>3, <2>5, <2>6
<1>2. /\ change' \in [Changers -> Change] /\ changes' \in 0..MaxChanges
      /\ change[r].at = "idle" /\ change'[r] = x
      /\ \A q \in Changers \ {r} : change'[q] = change[q]
  BY <1>0, <1>1, ChangeBegins
<1>3. /\ UNCHANGED <<profile, cache, lost>>
      /\ l = NoLogo \/ NewLogo(l)
      /\ logos' = (logos \ {NoLogo}) \cup ({l} \ {NoLogo})
  BY DEF CheckNone, Placed
<1>4. ProfileTypeOK'
  BY <1>0, <1>2, <1>3 DEF ProfileTypeOK
<1>5. LogoInv'
  <2>1. \A p \in Profiles : \A k : Holds(p, k)' <=> Holds(p, k)
    BY <1>1, <1>2, <1>3 DEF Holds
  <2>2. \A q \in Changers \ {r} : \A k : Inserts(q, k)' <=> Inserts(q, k)
    BY <1>2 DEF Inserts
  <2>3. \A k : Inserts(r, k)' => k = l
    BY <1>1, <1>2 DEF Inserts
  <2>4. LogoExists'
    BY <1>0, <1>1, <1>2, <1>3, NoLogoAssumption DEF ProfileInv, LogoInv, LogoExists, ProfileTypeOK
  <2>5. OneHolder'
    BY <2>1 DEF ProfileInv, LogoInv, OneHolder
  <2>6. InsertInv'
    <3> SUFFICES ASSUME NEW q \in Changers, NEW k \in Logos, Inserts(q, k)'
                 PROVE  /\ k \in logos'
                        /\ \A p \in Profiles : ~Holds(p, k)'
                        /\ \A s \in Changers : Inserts(s, k)' => s = q
      BY DEF InsertInv
    <3>1. CASE q = r
      BY <1>3, <2>1, <2>2, <2>3, <3>1, NewLogoFacts, NoLogoAssumption
    <3>2. CASE q # r
      <4>1. Inserts(q, k)
        BY <2>2, <3>2
      <4>2. k \in logos /\ k # NoLogo /\ (\A p \in Profiles : ~Holds(p, k))
        BY <4>1, NoLogoAssumption DEF ProfileInv, LogoInv, InsertInv
      <4>3. k # l
        BY <1>3, <4>2, NewLogoFacts DEF NewLogo
      <4>4. QED
        BY <1>3, <2>1, <2>2, <2>3, <4>1, <4>2, <4>3 DEF ProfileInv, LogoInv, InsertInv
    <3>3. QED
      BY <3>1, <3>2
  <2>7. QED
    BY <2>4, <2>5, <2>6 DEF LogoInv
<1>6. CopyInv'
  BY <1>1, <1>2, <1>3, CopyUntouched DEF ProfileInv
<1>7. QED
  BY <1>4, <1>5, <1>6 DEF ProfileInv

(* A change of a row is worked out: its logo is replaced by l, or stays.   *)
LEMMA ReplacingKeeps ==
  ASSUME ProfileInv, NEW r \in Changers, NEW p \in Profiles, NEW l \in Logos \cup {NoLogo},
         NEW x \in Change, BeginChange(r, x), x.at = "saving", x.id = p,
         \/ x.old = NoLogo /\ x.row.logo = profile[p].logo /\ l = NoLogo
         \/ x.old = profile[p].logo /\ x.row.logo = l,
         l = NoLogo \/ NewLogo(l),
         logos' = Placed(x.old, l), UNCHANGED <<profile, cache, lost>>
  PROVE  ProfileInv'
<1>0. ProfileTypeOK
  BY DEF ProfileInv
<1>1. /\ change' \in [Changers -> Change] /\ changes' \in 0..MaxChanges
      /\ change[r].at = "idle" /\ change'[r] = x
      /\ \A q \in Changers \ {r} : change'[q] = change[q]
  BY <1>0, ChangeBegins
<1>2. logos' = (logos \ {x.old}) \cup ({l} \ {NoLogo})
  BY DEF Placed
<1>3. ProfileTypeOK'
  BY <1>0, <1>1, <1>2 DEF ProfileTypeOK
<1>4. \A q \in Profiles, k \in Logos : Holds(q, k)' => Holds(q, k) \/ (q = p /\ k = l)
  BY <1>1, NoLogoAssumption DEF Holds
<1>5. \A q \in Changers : \A k : Inserts(q, k)' => Inserts(q, k)
  BY <1>1 DEF Inserts
<1>6. LogoExists'
  <2> SUFFICES ASSUME NEW q \in Profiles, profile[q].logo \notin logos' \cup lost \cup {NoLogo}
               PROVE  \E s \in Changers :
                        change'[s].at = "saving" /\ change'[s].old = profile[q].logo
    BY DEF LogoExists
  <2>1. CASE profile[q].logo = x.old
    BY <1>1, <2>1
  <2>2. CASE profile[q].logo # x.old
    <3>1. PICK s \in Changers : change[s].at = "saving" /\ change[s].old = profile[q].logo
      BY <1>2, <2>2 DEF ProfileInv, LogoInv, LogoExists
    <3>2. QED
      BY <1>1, <3>1
  <2>3. QED
    BY <2>1, <2>2
<1>7. OneHolder'
  <2> SUFFICES ASSUME NEW k \in Logos, NEW q \in Profiles, NEW s \in Profiles,
                      Holds(q, k)', Holds(s, k)'
               PROVE  q = s
    BY DEF OneHolder
  <2>1. CASE k = l
    BY <1>4, <2>1, NewLogoFacts, NoLogoAssumption
  <2>2. CASE k # l
    BY <1>4, <2>2 DEF ProfileInv, LogoInv, OneHolder
  <2>3. QED
    BY <2>1, <2>2
<1>8. InsertInv'
  <2> SUFFICES ASSUME NEW q \in Changers, NEW k \in Logos, Inserts(q, k)'
               PROVE  /\ k \in logos'
                      /\ \A s \in Profiles : ~Holds(s, k)'
                      /\ \A s \in Changers : Inserts(s, k)' => s = q
    BY DEF InsertInv
  <2>1. Inserts(q, k) /\ k # NoLogo
    BY <1>5, NoLogoAssumption
  <2>2. k \in logos /\ (\A s \in Profiles : ~Holds(s, k))
    BY <2>1 DEF ProfileInv, LogoInv, InsertInv
  <2>3. k # l
    BY <2>1, NewLogoFacts
  <2>4. k # x.old
    BY <2>1, <2>2 DEF Holds
  <2>5. QED
    BY <1>2, <1>4, <1>5, <2>1, <2>2, <2>3, <2>4 DEF ProfileInv, LogoInv, InsertInv
<1>9. CopyInv'
  BY <1>1, CopyUntouched DEF ProfileInv
<1>10. QED
  BY <1>3, <1>6, <1>7, <1>8, <1>9 DEF ProfileInv, LogoInv

LEMMA UpdateProfileKeeps ==
  ASSUME ProfileInv, NEW r \in Changers, NEW p \in Profiles, NEW l \in Logos \cup {NoLogo},
         UpdateProfile(r, p, l)
  PROVE  ProfileInv'
<1>1. ProfileTypeOK /\ profile[p] \in Row /\ profile[p].logo \in Logos \cup {NoLogo}
  BY RowType DEF ProfileInv, ProfileTypeOK
<1>2. PICK old : old = IF l = NoLogo THEN NoLogo ELSE profile[p].logo
  OBVIOUS
<1>3. PICK row : row = [live |-> TRUE, text |-> changes + 1,
                        logo |-> IF l = NoLogo THEN profile[p].logo ELSE l]
  OBVIOUS
<1>4. changes + 1 \in 0..MaxChanges
  BY <1>1, ChangesAssumption DEF UpdateProfile, BeginChange, ProfileTypeOK
<1>5. /\ row \in Row /\ old \in Logos \cup {NoLogo}
      /\ row.logo = IF l = NoLogo THEN profile[p].logo ELSE l
  BY <1>1, <1>2, <1>3, <1>4, RowType
<1>6. PICK x : x = [NoChange EXCEPT !.at = "saving", !.id = p, !.old = old, !.reads = TRUE,
                                    !.row = row]
  OBVIOUS
<1>7. x \in Change /\ x.at = "saving" /\ x.id = p /\ x.old = old /\ x.row = row
  <2>1. NoChange \in Change /\ row \in Row /\ old \in Logos \cup {NoLogo}
    BY <1>5, NoChangeType
  <2>2. QED
    BY <1>6, <2>1 DEF Change
<1>8. /\ BeginChange(r, x) /\ logos' = Placed(old, l) /\ (l = NoLogo \/ NewLogo(l))
      /\ UNCHANGED <<profile, cache, lost>>
  BY <1>2, <1>3, <1>6 DEF UpdateProfile
<1>9. QED
  BY <1>2, <1>5, <1>7, <1>8, ReplacingKeeps

LEMMA ReplaceLogoKeeps ==
  ASSUME ProfileInv, NEW r \in Changers, NEW p \in Profiles, NEW l \in Logos \cup {NoLogo},
         ReplaceLogo(r, p, l)
  PROVE  ProfileInv'
<1>1. ProfileTypeOK /\ profile[p] \in Row /\ profile[p].logo \in Logos \cup {NoLogo}
  BY RowType DEF ProfileInv, ProfileTypeOK
<1>2. PICK row : row = [profile[p] EXCEPT !.logo = l]
  OBVIOUS
<1>3. row \in Row /\ row.logo = l
  BY <1>1, <1>2, RowType
<1>4. PICK x : x = [NoChange EXCEPT !.at = "saving", !.id = p, !.old = profile[p].logo, !.row = row]
  OBVIOUS
<1>5. x \in Change /\ x.at = "saving" /\ x.id = p /\ x.old = profile[p].logo /\ x.row = row
  <2>1. NoChange \in Change /\ row \in Row
    BY <1>3, NoChangeType
  <2>2. QED
    BY <1>1, <1>4, <2>1 DEF Change
<1>6. /\ BeginChange(r, x) /\ logos' = Placed(profile[p].logo, l) /\ (l = NoLogo \/ NewLogo(l))
      /\ UNCHANGED <<profile, cache, lost>>
  BY <1>2, <1>4 DEF ReplaceLogo
<1>7. QED
  BY <1>3, <1>5, <1>6, ReplacingKeeps

LEMMA RemoveProfileKeeps ==
  ASSUME ProfileInv, NEW r \in Changers, NEW p \in Profiles, RemoveProfile(r, p)
  PROVE  ProfileInv'
<1>0. ProfileTypeOK
  BY DEF ProfileInv
<1>1. PICK x : x = [NoChange EXCEPT !.at = "removing", !.id = p]
  OBVIOUS
<1>2. x \in Change /\ x.at = "removing"
  BY <1>1, NoChangeType, RemovalStarts
<1>3. BeginChange(r, x) /\ UNCHANGED <<profile, logos, cache, lost>>
  BY <1>1 DEF RemoveProfile
<1>4. /\ change' \in [Changers -> Change] /\ changes' \in 0..MaxChanges
      /\ change[r].at = "idle" /\ change'[r] = x
      /\ \A q \in Changers \ {r} : change'[q] = change[q]
  BY <1>0, <1>2, <1>3, ChangeBegins
<1>5. ProfileTypeOK'
  BY <1>0, <1>3, <1>4 DEF ProfileTypeOK
<1>6. LogoInv'
  BY <1>0, <1>2, <1>3, <1>4, LogosUntouched DEF ProfileInv
<1>7. CopyInv'
  BY <1>2, <1>3, <1>4, CopyUntouched DEF ProfileInv
<1>8. QED
  BY <1>5, <1>6, <1>7 DEF ProfileInv

-----------------------------------------------------------------------------
LEMMA InsertProfileKeeps ==
  ASSUME ProfileInv, NEW r \in Changers, NEW p \in Profiles, InsertProfile(r, p)
  PROVE  ProfileInv'
<1>0. ProfileTypeOK /\ change[r].at = "inserting"
  BY DEF ProfileInv, InsertProfile
<1>1. PICK row : row = change[r].row
  OBVIOUS
<1>2. /\ row \in Row /\ profile' = [profile EXCEPT ![p] = row]
      /\ profile[p].logo = NoLogo /\ change' = Saved(r, row)
      /\ UNCHANGED <<logos, cache, changes, lost>>
  BY <1>0, <1>1, ChangeType, RowType DEF InsertProfile, ProfileTypeOK
<1>3. /\ change' \in [Changers -> Change] /\ change'[r].at = "listing"
      /\ \A q \in Changers \ {r} :
           /\ change'[q].at = change[q].at /\ change'[q].id = change[q].id
           /\ change'[q].row = change[q].row /\ change'[q].old = change[q].old
      /\ \A q \in Changers : change'[q].at = "setting" => change'[q].copy.excused
  BY <1>0, <1>2, SavedFacts
<1>4. /\ profile' \in [Profiles -> Row] /\ profile'[p].logo = row.logo
      /\ \A q \in Profiles \ {p} : profile'[q] = profile[q]
  BY <1>0, <1>2 DEF ProfileTypeOK
<1>5. ProfileTypeOK'
  BY <1>0, <1>2, <1>3, <1>4 DEF ProfileTypeOK
<1>6. \A k \in Logos : row.logo = k => Inserts(r, k)
  BY <1>0, <1>1 DEF Inserts
<1>7. row.logo \in logos \cup {NoLogo}
  BY <1>2, <1>6, RowType DEF ProfileInv, LogoInv, InsertInv
<1>8. LogoExists'
  <2> SUFFICES ASSUME NEW q \in Profiles, profile'[q].logo \notin logos \cup lost \cup {NoLogo}
               PROVE  \E s \in Changers :
                        change'[s].at = "saving" /\ change'[s].old = profile'[q].logo
    BY <1>2 DEF LogoExists
  <2>1. q # p
    BY <1>4, <1>7
  <2>2. PICK s \in Changers : change[s].at = "saving" /\ change[s].old = profile[q].logo
    BY <1>4, <2>1 DEF ProfileInv, LogoInv, LogoExists
  <2>3. QED
    BY <1>0, <1>3, <1>4, <2>1, <2>2
<1>9. \A q \in Profiles, k \in Logos : Holds(q, k)' => Holds(q, k) \/ (q = p /\ k = row.logo)
  BY <1>3, <1>4, NoLogoAssumption DEF Holds
<1>10. \A q \in Changers : \A k : Inserts(q, k)' => Inserts(q, k) /\ q # r
  BY <1>3 DEF Inserts
<1>11. OneHolder'
  <2> SUFFICES ASSUME NEW k \in Logos, NEW q \in Profiles, NEW s \in Profiles,
                      Holds(q, k)', Holds(s, k)'
               PROVE  q = s
    BY DEF OneHolder
  <2>1. CASE k = row.logo
    BY <1>6, <1>9, <2>1 DEF ProfileInv, LogoInv, InsertInv
  <2>2. CASE k # row.logo
    BY <1>9, <2>2 DEF ProfileInv, LogoInv, OneHolder
  <2>3. QED
    BY <2>1, <2>2
<1>12. InsertInv'
  <2> SUFFICES ASSUME NEW q \in Changers, NEW k \in Logos, Inserts(q, k)'
               PROVE  /\ k \in logos'
                      /\ \A s \in Profiles : ~Holds(s, k)'
                      /\ \A s \in Changers : Inserts(s, k)' => s = q
    BY DEF InsertInv
  <2>1. Inserts(q, k) /\ q # r
    BY <1>10
  <2>2. k # row.logo
    BY <1>6, <2>1 DEF ProfileInv, LogoInv, InsertInv
  <2>3. QED
    BY <1>2, <1>9, <1>10, <2>1, <2>2 DEF ProfileInv, LogoInv, InsertInv
<1>13. CopyInv'
  BY <1>3, CopySaved
<1>14. QED
  BY <1>5, <1>8, <1>11, <1>12, <1>13 DEF ProfileInv, LogoInv

LEMMA SaveProfileKeeps ==
  ASSUME ProfileInv, NEW r \in Changers, SaveProfile(r)
  PROVE  ProfileInv'
<1>0. ProfileTypeOK /\ change[r].at = "saving"
  BY DEF ProfileInv, SaveProfile
<1>1. PICK row, p : row = change[r].row /\ p = change[r].id
  OBVIOUS
<1>2. row \in Row /\ p \in Profiles /\ profile[p] \in Row
  BY <1>0, <1>1, ChangeType DEF ProfileTypeOK
<1>3. PICK new : /\ new \in Row /\ new.logo = row.logo
                 /\ profile' = [profile EXCEPT ![p] = new]
  <2>1. PICK live \in {profile[p].live, TRUE} :
          profile' = [profile EXCEPT ![p] = [row EXCEPT !.live = live]]
    BY <1>1 DEF SaveProfile
  <2>2. live \in BOOLEAN
    BY <1>2, RowType
  <2>3. [row EXCEPT !.live = live] \in Row /\ [row EXCEPT !.live = live].logo = row.logo
    BY <1>2, <2>2, RowType
  <2>4. QED
    BY <2>1, <2>3
<1>4. /\ lost' = lost \cup ({row.logo} \ (logos \cup {NoLogo}))
      /\ change' = Saved(r, row) /\ UNCHANGED <<logos, cache, changes>>
  BY <1>1 DEF SaveProfile
<1>5. /\ change' \in [Changers -> Change] /\ change'[r].at = "listing"
      /\ \A q \in Changers \ {r} :
           /\ change'[q].at = change[q].at /\ change'[q].id = change[q].id
           /\ change'[q].row = change[q].row /\ change'[q].old = change[q].old
      /\ \A q \in Changers : change'[q].at = "setting" => change'[q].copy.excused
  BY <1>0, <1>4, SavedFacts
<1>6. /\ profile' \in [Profiles -> Row] /\ profile'[p].logo = row.logo
      /\ \A q \in Profiles \ {p} : profile'[q] = profile[q]
  BY <1>0, <1>2, <1>3 DEF ProfileTypeOK
<1>7. ProfileTypeOK'
  BY <1>0, <1>2, <1>4, <1>5, <1>6, RowType DEF ProfileTypeOK
<1>8. \A q \in Profiles, k \in Logos : Holds(q, k)' => Holds(q, k)
  BY <1>0, <1>1, <1>5, <1>6 DEF Holds
<1>9. \A q \in Changers : \A k : Inserts(q, k)' => Inserts(q, k)
  BY <1>5 DEF Inserts
<1>10. LogoExists'
  <2> SUFFICES ASSUME NEW q \in Profiles, profile'[q].logo \notin logos \cup lost' \cup {NoLogo}
               PROVE  \E s \in Changers :
                        change'[s].at = "saving" /\ change'[s].old = profile'[q].logo
    BY <1>4 DEF LogoExists
  <2>1. q # p
    BY <1>4, <1>6
  <2>2. PICK s \in Changers : change[s].at = "saving" /\ change[s].old = profile[q].logo
    BY <1>4, <1>6, <2>1 DEF ProfileInv, LogoInv, LogoExists
  <2>3. s # r
    <3>1. profile[q].logo \in Logos
      BY <1>0, <1>6, <2>1, RowType DEF ProfileTypeOK
    <3>2. s = r => Holds(p, profile[q].logo) /\ Holds(q, profile[q].logo)
      BY <1>1, <2>2 DEF Holds
    <3>3. QED
      BY <1>2, <2>1, <3>1, <3>2 DEF ProfileInv, LogoInv, OneHolder
  <2>4. QED
    BY <1>5, <1>6, <2>1, <2>2, <2>3
<1>11. OneHolder'
  BY <1>8 DEF ProfileInv, LogoInv, OneHolder
<1>12. InsertInv'
  BY <1>4, <1>8, <1>9 DEF ProfileInv, LogoInv, InsertInv
<1>13. CopyInv'
  BY <1>5, CopySaved
<1>14. QED
  BY <1>7, <1>10, <1>11, <1>12, <1>13 DEF ProfileInv, LogoInv

LEMMA SoftDeleteKeeps ==
  ASSUME ProfileInv, NEW r \in Changers, SoftDelete(r)
  PROVE  ProfileInv'
<1>0. ProfileTypeOK /\ change[r].at = "removing"
  BY DEF ProfileInv, SoftDelete
<1>1. PICK p : p = change[r].id
  OBVIOUS
<1>2. p \in Profiles /\ profile[p] \in Row
  BY <1>0, <1>1, ChangeType DEF ProfileTypeOK
<1>3. PICK new : /\ new \in Row /\ new.logo = profile[p].logo
                 /\ profile' = [profile EXCEPT ![p] = new]
  <2>1. profile' = [profile EXCEPT ![p] = [profile[p] EXCEPT !.live = FALSE]]
    BY <1>1 DEF SoftDelete
  <2>2. QED
    BY <1>2, <2>1, RowType
<1>4. change' = Saved(r, NoRow) /\ UNCHANGED <<logos, cache, changes, lost>>
  BY DEF SoftDelete
<1>5. /\ change' \in [Changers -> Change] /\ change'[r].at = "listing"
      /\ \A q \in Changers \ {r} :
           /\ change'[q].at = change[q].at /\ change'[q].id = change[q].id
           /\ change'[q].row = change[q].row /\ change'[q].old = change[q].old
      /\ \A q \in Changers : change'[q].at = "setting" => change'[q].copy.excused
  BY <1>0, <1>4, SavedFacts
<1>6. /\ profile' \in [Profiles -> Row]
      /\ \A q \in Profiles : profile'[q].logo = profile[q].logo
  BY <1>0, <1>2, <1>3 DEF ProfileTypeOK
<1>7. ProfileTypeOK'
  BY <1>0, <1>4, <1>5, <1>6 DEF ProfileTypeOK
<1>8. LogoInv'
  BY <1>0, <1>4, <1>5, <1>6, LogosUntouched DEF ProfileInv
<1>9. CopyInv'
  BY <1>5, CopySaved
<1>10. QED
  BY <1>7, <1>8, <1>9 DEF ProfileInv

-----------------------------------------------------------------------------
LEMMA ExpireCopyKeeps ==
  ASSUME ProfileInv, ExpireCopy
  PROVE  ProfileInv'
<1>1. cache' = NoCopy /\ UNCHANGED <<profile, logos, change, changes, lost>>
  BY DEF ExpireCopy
<1>2. ProfileTypeOK'
  BY <1>1, CopyType DEF ProfileInv, ProfileTypeOK
<1>3. LogoInv'
  BY <1>1, LogosUntouched DEF ProfileInv
<1>4. CopyInv'
  BY <1>1, CopyUntouched DEF ProfileInv
<1>5. QED
  BY <1>2, <1>3, <1>4 DEF ProfileInv

LEMMA ProfileCrashKeeps ==
  ASSUME ProfileInv, ProfileCrash
  PROVE  ProfileInv'
<1>0. ProfileTypeOK
  BY DEF ProfileInv
<1>1. \A q \in Changers : change'[q] = NoChange
  BY DEF ProfileCrash
<1>2. change' \in [Changers -> Change]
  BY NoChangeType DEF ProfileCrash
<1>3. /\ lost \subseteq lost' /\ lost' \subseteq Logos
      /\ \A q \in Changers : change[q].at = "saving" => change[q].old \in lost' \cup {NoLogo}
  <2>1. lost' = lost \cup ({change[q].old : q \in {s \in Changers : change[s].at = "saving"}}
                             \ {NoLogo})
    BY DEF ProfileCrash
  <2>2. \A q \in Changers : change[q].old \in Logos \cup {NoLogo}
    BY <1>0, ChangeType DEF ProfileTypeOK
  <2>3. QED
    BY <1>0, <2>1, <2>2 DEF ProfileTypeOK
<1>4. /\ cache' \in Copy
      /\ \/ cache' = NoCopy \/ cache'.excused
         \/ /\ cache' = cache
            /\ \A q \in Changers : change[q].at \notin {"listing", "dropping"}
  BY <1>0, CopyType DEF ProfileCrash, ProfileTypeOK
<1>5. ProfileTypeOK'
  BY <1>0, <1>2, <1>3, <1>4 DEF ProfileTypeOK, ProfileCrash
<1>6. LogoInv'
  BY <1>0, <1>1, <1>3, NoChangeType, LogosUntouched DEF ProfileInv, ProfileCrash
<1>7. CopyInv'
  BY <1>1, <1>4, NoChangeType, CopyUntouched DEF ProfileInv, ProfileCrash
<1>8. QED
  BY <1>5, <1>6, <1>7 DEF ProfileInv

-----------------------------------------------------------------------------
LEMMA ProfileStarts == ProfileInit => ProfileInv
<1> SUFFICES ASSUME ProfileInit PROVE ProfileInv
  OBVIOUS
<1>1. /\ \A p \in Profiles : profile[p].logo = NoLogo
      /\ \A r \in Changers : change[r].at = "idle"
  BY RowType, NoChangeType DEF ProfileInit
<1>2. ProfileTypeOK
  BY RowType, CopyType, NoChangeType, ChangesAssumption DEF ProfileInit, ProfileTypeOK
<1>3. LogoInv
  BY <1>1, NoLogoAssumption DEF LogoInv, LogoExists, OneHolder, InsertInv, Holds, Inserts
<1>4. CopyInv
  BY <1>1 DEF ProfileInit, CopyInv, CopyIsFresh, KeptInv
<1>5. QED
  BY <1>2, <1>3, <1>4 DEF ProfileInv

LEMMA ProfileGoesOn == ProfileInv /\ [ProfileNext]_profileVars => ProfileInv'
<1> SUFFICES ASSUME ProfileInv, [ProfileNext]_profileVars PROVE ProfileInv'
  OBVIOUS
<1>1. ASSUME NEW r \in Changers, GetProfile(r) \/ ReadCopy(r) \/ QueryProfile(r) \/ SetCopy(r)
      PROVE  ProfileInv'
  BY <1>1, ReadsKeep
<1>2. ASSUME NEW r \in Changers, NEW l \in Logos \cup {NoLogo}, CheckNone(r, l)
      PROVE  ProfileInv'
  BY <1>2, CheckNoneKeeps
<1>3. ASSUME NEW r \in Changers, NEW l \in Logos \cup {NoLogo}, NEW p \in Profiles,
             UpdateProfile(r, p, l) \/ ReplaceLogo(r, p, l)
      PROVE  ProfileInv'
  BY <1>3, UpdateProfileKeeps, ReplaceLogoKeeps
<1>4. ASSUME NEW r \in Changers, NEW p \in Profiles, RemoveProfile(r, p) \/ InsertProfile(r, p)
      PROVE  ProfileInv'
  BY <1>4, RemoveProfileKeeps, InsertProfileKeeps
<1>5. ASSUME NEW r \in Changers, SaveProfile(r) \/ SoftDelete(r) PROVE ProfileInv'
  BY <1>5, SaveProfileKeeps, SoftDeleteKeeps
<1>6. ASSUME NEW r \in Changers, ChangeFails(r) \/ ListKeys(r) \/ DropCopy(r) \/ DropFails(r)
      PROVE  ProfileInv'
  BY <1>6, EndsKeep
<1>7. CASE ExpireCopy
  BY <1>7, ExpireCopyKeeps
<1>8. CASE ProfileCrash
  BY <1>8, ProfileCrashKeeps
<1>9. CASE UNCHANGED profileVars
  BY <1>9 DEF profileVars, ProfileInv, ProfileTypeOK, LogoInv, LogoExists, OneHolder, InsertInv,
     Holds, Inserts, CopyInv, CopyIsFresh, KeptInv, Fresh
<1>10. QED
  BY <1>1, <1>2, <1>3, <1>4, <1>5, <1>6, <1>7, <1>8, <1>9 DEF ProfileNext

(* ShownAsStored for any number of profiles, logos and requests: the logo  *)
(* of the profile is on disk and the cached copy is the row, but for the   *)
(* requests that are about to make it so and for those that failed.        *)
THEOREM ProfileIsShownAsStored == ProfileSpec => []ShownAsStored
<1>1. ProfileInv => ShownAsStored
  BY DEF ProfileInv, LogoInv, CopyInv, ShownAsStored
<1>2. QED
  BY <1>1, ProfileStarts, ProfileGoesOn, PTL DEF ProfileSpec

(* The types of the company profile.                                       *)
THEOREM ProfileTypes == ProfileSpec => []ProfileTypeOK
<1>1. ProfileInv => ProfileTypeOK
  BY DEF ProfileInv
<1>2. QED
  BY <1>1, ProfileStarts, ProfileGoesOn, PTL DEF ProfileSpec

------------------------------------------------------------------------------
(* What keeps files, together.                                              *)

LEMMA FilesStart == MCInit => GalleryInit /\ StreamingInit /\ ProfileInit
BY DEF MCInit

(* While one of the three is busy the others stand still.                   *)
LEMMA OneIsBusy ==
  [MCNext]_mcVars =>
    /\ [GalleryNext]_galleryVars
    /\ [StreamingNext]_streamingVars
    /\ [ProfileNext]_profileVars
<1> SUFFICES ASSUME [MCNext]_mcVars
             PROVE  /\ [GalleryNext]_galleryVars
                    /\ [StreamingNext]_streamingVars
                    /\ [ProfileNext]_profileVars
  OBVIOUS
<1>1. CASE GalleryNext /\ UNCHANGED <<streamingVars, profileVars>>
  BY <1>1
<1>2. CASE StreamingNext /\ UNCHANGED <<galleryVars, profileVars>>
  BY <1>2
<1>3. CASE ProfileNext /\ UNCHANGED <<galleryVars, streamingVars>>
  BY <1>3
<1>4. CASE UNCHANGED mcVars
  BY <1>4 DEF mcVars
<1>5. QED
  BY <1>1, <1>2, <1>3, <1>4 DEF MCNext

(* The gallery, the streaming and the company profile share no state: what *)
(* each of them does beside the others is what it does alone, so that what *)
(* is proved of each holds of the three together.                          *)
THEOREM FilesKeepApart == MCSpec => GallerySpec /\ StreamingSpec /\ ProfileSpec
<1>1. MCInit => GalleryInit /\ StreamingInit /\ ProfileInit
  BY FilesStart
<1>2. [MCNext]_mcVars => /\ [GalleryNext]_galleryVars
                        /\ [StreamingNext]_streamingVars
                        /\ [ProfileNext]_profileVars
  BY OneIsBusy
<1>3. QED
  BY <1>1, <1>2, PTL DEF MCSpec, GallerySpec, StreamingSpec, ProfileSpec

(* The types of the three together.                                        *)
THEOREM FilesAreTyped == MCSpec => []TypeOK
<1>1. StreamingInv => StreamingTypeOK
  BY DEF StreamingInv
<1>2. StreamingSpec => []StreamingTypeOK
  BY <1>1, StreamingStarts, StreamingGoesOn, PTL DEF StreamingSpec
<1>3. GalleryTypeOK /\ StreamingTypeOK /\ ProfileTypeOK => TypeOK
  BY DEF TypeOK
<1>4. QED
  BY <1>2, <1>3, FilesKeepApart, GalleryTypes, ProfileTypes, PTL
==============================================================================
