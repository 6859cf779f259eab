------------------------------ MODULE Gallery ------------------------------
(***************************************************************************)
(* The media gallery, GalleryService and AlbumService, and the documents   *)
(* of DocumentService.  A file arrives in parts (upload-chunk) or in one   *)
(* piece (upload-bulk, documents/upload), is moved from the temporary      *)
(* folder to where it stays, and gets a row; videos are rewritten in the   *)
(* background afterwards.  File and row are removed together, alone, in    *)
(* bulk or with the album.                                                 *)
(*                                                                         *)
(* Every operation is a request that runs from one wait to the next; file  *)
(* operations between two waits are synchronous and belong to the step.    *)
(* The names of stored files are unique, so a file that was used is not    *)
(* used again.  Thumbnails are waited for and not kept track of.           *)
(***************************************************************************)
EXTENDS Naturals, Sequences, FiniteSets

CONSTANTS
  NParts,   \* parts of a chunked upload
  Files,    \* names of stored files
  Videos,   \* those that are videos
  Papers,   \* those that are documents, kept by DocumentService
  Albums,   \* identities of albums
  Requests, \* slots for requests under way
  MaxSends, \* bound: how many parts are sent, repetitions included
  MaxEdits, \* bound: how many requests other than uploads of parts begin
  None      \* no album

ASSUME PartsAssumption == NParts \in Nat \ {0}
ASSUME KindsAssumption ==
  Videos \subseteq Files /\ Papers \subseteq Files /\ Videos \cap Papers = {}
ASSUME GalleryNoneAssumption == None \notin Albums
ASSUME GalleryBoundsAssumption == MaxSends \in Nat /\ MaxEdits \in Nat

VARIABLES
  parts,   \* the .part files in the folder of the chunked upload
  disk,    \* the files: where they are and what they hold
  remux,   \* the background work on a video
  rows,    \* the rows of galleries, by file name
  album,   \* their album_id
  albums,  \* the rows of albums
  req,     \* the requests
  arrived, \* history: what clients have sent
  sends,   \* how many parts were sent
  edits,   \* how many other requests began
  ended,   \* history: a chunked upload was stored or answered with an error
  torn,    \* history: files removed by a request that did not finish, or
           \* whose row was saved meanwhile
  revived, \* history: rows written again by a save of an older copy
  stray    \* history: files left behind by a crash, a rewritten video, a row
           \* that went with its album, or an unlink that failed

galleryVars ==
  <<parts, disk, remux, rows, album, albums, req, arrived, sends, edits, ended,
    torn, revived, stray>>

-----------------------------------------------------------------------------
Part == 1..NParts
Whole == [i \in Part |-> i]

NoFile == [at |-> "none", data |-> <<>>]
File == [at : {"none", "temp", "stored"}, data : {SubSeq(Whole, 1, n) : n \in 0..NParts}]

(* "thumb": the frame is being taken; "copying": ffmpeg has the file open. *)
Remux == {"no", "thumb", "copying"}

Request ==
  [at : {"idle", "reading", "finding", "storing", "removing", "moving", "naming", "dropping"},
   chunked : BOOLEAN, files : SUBSET Files, album : Albums \cup {None},
   todo : SUBSET Files]
NoRequest ==
  [at |-> "idle", chunked |-> FALSE, files |-> {}, album |-> None, todo |-> {}]
Doing(at, files, a) == [NoRequest EXCEPT !.at = at, !.files = files, !.album = a]

Stored(f) == disk[f].at = "stored"
FilesOf(a) == {f \in rows : album[f] = a}
Removing(f) == \E r \in Requests : req[r].at \in {"removing", "dropping"} /\ f \in req[r].files
Storing(f) == \E r \in Requests : req[r].at = "storing" /\ f \in req[r].files

(* A name nothing knows yet.                                               *)
Unused(f) ==
  /\ disk[f] = NoFile /\ remux[f] = "no"
  /\ f \notin rows \cup torn \cup revived \cup stray \cup arrived
  /\ \A r \in Requests : f \notin req[r].files

GalleryTypeOK ==
  /\ parts \in SUBSET Part
  /\ disk \in [Files -> File]
  /\ remux \in [Files -> Remux]
  /\ rows \in SUBSET Files
  /\ album \in [Files -> Albums \cup {None}]
  /\ albums \in SUBSET Albums
  /\ req \in [Requests -> Request]
  /\ arrived \in SUBSET (Part \cup Files)
  /\ sends \in 0..MaxSends
  /\ edits \in 0..MaxEdits
  /\ ended \in BOOLEAN
  /\ torn \in SUBSET Files /\ revived \in SUBSET Files /\ stray \in SUBSET Files

GalleryInit ==
  /\ parts = {}
  /\ disk = [f \in Files |-> NoFile]
  /\ remux = [f \in Files |-> "no"]
  /\ rows = {}
  /\ album = [f \in Files |-> None]
  /\ albums \in SUBSET Albums
  /\ req = [r \in Requests |-> NoRequest]
  /\ arrived = {}
  /\ sends = 0 /\ edits = 0
  /\ ended = FALSE
  /\ torn = {} /\ revived = {} /\ stray = {}

(* A request begins, ends, or goes on.                                     *)
Begin(r, does) ==
  /\ req[r].at = "idle" /\ edits < MaxEdits
  /\ req' = [req EXCEPT ![r] = does]
  /\ edits' = edits + 1
Done(r) == req' = [req EXCEPT ![r] = NoRequest]

(* The request ends with an error; a chunked upload loses its parts, those *)
(* that were sent again meanwhile included, or the folder cannot be        *)
(* removed.                                                                *)
Failed(r) ==
  /\ parts' = parts \/ (req[r].chunked /\ parts' = {})
  /\ ended' = (ended \/ req[r].chunked)
  /\ Done(r)

(* unlinkSync                                                              *)
Unlinked(F) == [f \in Files |-> IF f \in F THEN NoFile ELSE disk[f]]

(* removeFile of each: a file that cannot be unlinked stays, which is      *)
(* logged and told to nobody.                                              *)
RemoveFiles(F) ==
  \E kept \in SUBSET F :
    /\ disk' = Unlinked(F \ kept)
    /\ stray' = stray \cup {f \in kept : Stored(f)}

-----------------------------------------------------------------------------
(* handleChunkUpload                                                       *)

(* Mutant of AllPartsWith: looked for before the part is moved.            *)
AllPartsBefore(i) == parts = Part

AllPartsWith(i) == parts \cup {i} = Part

(* A part arrives and is moved to the others, without a wait before it is  *)
(* looked whether they are complete.  An upload whose parts are all there  *)
(* is put together, also by a part that was sent again meanwhile.          *)
SendPart(i, r, f, a) ==
  /\ sends < MaxSends
  /\ sends' = sends + 1
  /\ arrived' = arrived \cup {i}
  /\ parts' = parts \cup {i}
  /\ \/ ~AllPartsWith(i) /\ UNCHANGED <<disk, req>>
     \/ /\ AllPartsWith(i)
        /\ req[r].at = "idle" /\ Unused(f) /\ f \notin Papers
        /\ req' = [req EXCEPT ![r] = [Doing("reading", {f}, a) EXCEPT !.chunked = TRUE]]
        /\ disk' = [disk EXCEPT ![f].at = "temp"]
  /\ UNCHANGED <<remux, rows, album, albums, edits, ended, torn, revived, stray>>

Readable(i) == i \in parts

(* The next part is opened and copied to the end of the assembled file.    *)
ReadPart(r) ==
  \E f \in req[r].files :
    LET i == Len(disk[f].data) + 1
    IN /\ req[r].at = "reading" /\ i <= NParts
       /\ Readable(i)
       /\ disk' = [disk EXCEPT ![f].data = Append(@, i)]
       /\ UNCHANGED <<parts, remux, rows, album, albums, req, arrived, sends, edits, ended,
                      torn, revived, stray>>

(* A part is not there any more, as another assembly has removed the       *)
(* folder, or it cannot be read, or the folder cannot be removed.  What    *)
(* was assembled is unlinked and the folder removed, unless the file       *)
(* cannot be.                                                              *)
AssemblyFails(r) ==
  /\ req[r].at = "reading"
  /\ disk' = Unlinked(req[r].files) \/ UNCHANGED <<disk, parts>>
  /\ Failed(r)
  /\ UNCHANGED <<remux, rows, album, albums, arrived, sends, edits, torn, revived, stray>>

(* Mutant of Assembled: the last part is forgotten.                        *)
AssembledButLast(f) == Len(disk[f].data) >= NParts - 1

Assembled(f) == Len(disk[f].data) = NParts

Assemble(r) ==
  /\ req[r].at = "reading" /\ \A f \in req[r].files : Assembled(f)
  /\ parts' = {}
  /\ req' = [req EXCEPT ![r].at = "finding"]
  /\ UNCHANGED <<disk, remux, rows, album, albums, arrived, sends, edits, ended,
                 torn, revived, stray>>

-----------------------------------------------------------------------------
(* processAndSaveFiles                                                     *)

UploadBulk(r, F, a) ==
  /\ F # {} /\ F \cap Papers = {}
  /\ \A f \in F : Unused(f)
  /\ Begin(r, Doing("finding", F, a))
  /\ arrived' = arrived \cup F
  /\ disk' = [f \in Files |-> IF f \in F THEN [at |-> "temp", data |-> Whole] ELSE disk[f]]
  /\ UNCHANGED <<parts, remux, rows, album, albums, sends, ended, torn, revived, stray>>

(* The album was looked for (one that is not there is kept as the id).     *)
(* The files are moved; photos are waited for to get their thumbnails,     *)
(* videos are left to the background.                                      *)
MoveFiles(r) ==
  LET F == req[r].files
  IN /\ req[r].at = "finding"
     /\ disk' = [f \in Files |-> IF f \in F THEN [disk[f] EXCEPT !.at = "stored"] ELSE disk[f]]
     /\ remux' = [f \in Files |-> IF f \in F \cap Videos THEN "thumb" ELSE remux[f]]
     /\ req' = [req EXCEPT ![r].at = "storing", ![r].todo = F \ Videos]
     /\ UNCHANGED <<parts, rows, album, albums, arrived, sends, edits, ended,
                    torn, revived, stray>>

(* The query failed.  Only handleChunkUpload removes its temporary file:   *)
(* the try of processAndSaveFiles begins after the query.                  *)
FindAlbumFails(r) ==
  /\ req[r].at = "finding" /\ req[r].album # None
  /\ \/ req[r].chunked /\ disk' = Unlinked(req[r].files)
     \/ UNCHANGED <<disk, parts>>
  /\ Failed(r)
  /\ UNCHANGED <<remux, rows, album, albums, arrived, sends, edits, torn, revived, stray>>

(* Some files could be moved and some not; the clean-up goes through those *)
(* that were, then through the temporary ones, and ends at the first that  *)
(* cannot be unlinked.  The videos among them are in the background by     *)
(* then.                                                                   *)
MoveFails(r) ==
  LET F == req[r].files
  IN /\ req[r].at = "finding"
     /\ \E moved, kept \in SUBSET F :
          /\ moved # F
          /\ disk' = [f \in Files |->
                        IF f \in F \ kept THEN NoFile
                        ELSE IF f \in moved THEN [disk[f] EXCEPT !.at = "stored"] ELSE disk[f]]
          /\ remux' = [f \in Files |-> IF f \in moved \cap Videos THEN "thumb" ELSE remux[f]]
          /\ stray' = stray \cup (moved \cap kept)
          /\ kept # {} => parts' = parts
     /\ Failed(r)
     /\ UNCHANGED <<rows, album, albums, arrived, sends, edits, torn, revived>>

MakeThumbnail(r, f) ==
  /\ req[r].at = "storing" /\ f \in req[r].todo
  /\ req' = [req EXCEPT ![r].todo = @ \ {f}]
  /\ UNCHANGED <<parts, disk, remux, rows, album, albums, arrived, sends, edits, ended,
                 torn, revived, stray>>

(* All rows are inserted or none; the album must be there.                 *)
SaveRows(r) ==
  /\ req[r].at = "storing" /\ req[r].todo = {}
  /\ req[r].album \in albums \cup {None}
  /\ rows' = rows \cup req[r].files
  /\ album' = [f \in Files |-> IF f \in req[r].files THEN req[r].album ELSE album[f]]
  /\ ended' = (ended \/ req[r].chunked)
  /\ Done(r)
  /\ UNCHANGED <<parts, disk, remux, albums, arrived, sends, edits, torn, revived, stray>>

(* Mutant of Rollback: the files that were moved stay.                     *)
RollbackNothing(F) == disk

Rollback(F) == Unlinked(F)

(* The clean-up ends at the first file that cannot be unlinked.            *)
SaveRowsFails(r) ==
  /\ req[r].at = "storing" /\ req[r].todo = {}
  /\ \E kept \in SUBSET req[r].files :
       /\ disk' = Rollback(req[r].files \ kept)
       /\ stray' = stray \cup kept
  /\ Failed(r)
  /\ UNCHANGED <<remux, rows, album, albums, arrived, sends, edits, torn, revived>>

(* The background: a frame is taken, then ffmpeg copies the file, if it is *)
(* still there, and the copy is renamed over it, whether it is still there *)
(* or not.                                                                 *)
StartRemux(f) ==
  /\ remux[f] = "thumb"
  /\ remux' = [remux EXCEPT ![f] = IF Stored(f) THEN "copying" ELSE "no"]
  /\ UNCHANGED <<parts, disk, rows, album, albums, req, arrived, sends, edits, ended,
                 torn, revived, stray>>

FinishRemux(f) ==
  /\ remux[f] = "copying"
  /\ remux' = [remux EXCEPT ![f] = "no"]
  /\ disk' = [disk EXCEPT ![f] = [at |-> "stored", data |-> Whole]]
  /\ stray' = stray \cup ({f} \ {g \in Files : Stored(g)})
  /\ UNCHANGED <<parts, rows, album, albums, req, arrived, sends, edits, ended, torn, revived>>

(* ffmpeg fails or is ended by its time limit.                             *)
FailRemux(f) ==
  /\ remux[f] = "copying"
  /\ remux' = [remux EXCEPT ![f] = "no"]
  /\ UNCHANGED <<parts, disk, rows, album, albums, req, arrived, sends, edits, ended,
                 torn, revived, stray>>

-----------------------------------------------------------------------------
(* remove, removeBulk: the files go first, then the rows.                  *)

Remove(r, F) ==
  /\ F # {} /\ F \subseteq rows \ Papers
  /\ Begin(r, Doing("removing", F, None))
  /\ RemoveFiles(F)
  /\ UNCHANGED <<parts, remux, rows, album, albums, arrived, sends, ended, torn, revived>>

DeleteRows(r) ==
  /\ req[r].at = "removing"
  /\ rows' = rows \ req[r].files
  /\ Done(r)
  /\ UNCHANGED <<parts, disk, remux, album, albums, arrived, sends, edits, ended,
                 torn, revived, stray>>

DeleteFails(r) ==
  /\ req[r].at \in {"removing", "dropping"}
  /\ torn' = torn \cup (req[r].files \cap rows)
  /\ Done(r)
  /\ UNCHANGED <<parts, disk, remux, rows, album, albums, arrived, sends, edits, ended,
                 revived, stray>>

(* Media that are saved while their files are being removed: they may be   *)
(* out of the album by the time it is deleted with its media.              *)
SavedOver(F) == torn \cup {f \in F : Removing(f)}

(* update: the row is found, and saved as a whole: inserted again when it  *)
(* has been removed meanwhile.  The new album is the one asked for, or the *)
(* old one (the loaded album takes precedence over the id).                *)
UpdateMedia(r, f, a) ==
  /\ f \in rows \ Papers /\ a \in Albums \cup {album[f]}
  /\ Begin(r, Doing("moving", {f}, a))
  /\ UNCHANGED <<parts, disk, remux, rows, album, albums, arrived, sends, ended,
                 torn, revived, stray>>

SaveMedia(r) ==
  /\ req[r].at = "moving"
  /\ \/ \* the save fails: the album is not there, or the database
        UNCHANGED <<rows, album, revived>>
     \/ /\ req[r].album \in albums \cup {None}
        /\ rows' = rows \cup req[r].files
        /\ album' = [f \in Files |-> IF f \in req[r].files THEN req[r].album ELSE album[f]]
        /\ revived' = revived \cup (req[r].files \ rows)
  /\ torn' = SavedOver(req[r].files)
  /\ Done(r)
  /\ UNCHANGED <<parts, disk, remux, albums, arrived, sends, edits, ended, stray>>

-----------------------------------------------------------------------------
(* AlbumService: names are not told apart.                                 *)

CreateAlbum(a) ==
  /\ a \notin albums
  /\ edits < MaxEdits
  /\ edits' = edits + 1
  /\ albums' = albums \cup {a}
  /\ UNCHANGED <<parts, disk, remux, rows, album, req, arrived, sends, ended,
                 torn, revived, stray>>

(* update loads the album with its media and saves it with them: the       *)
(* relation cascades, so media removed meanwhile are inserted again, and   *)
(* media that came to the album meanwhile lose it.                         *)
UpdateAlbum(r, a) ==
  /\ a \in albums
  /\ Begin(r, Doing("naming", FilesOf(a), a))
  /\ UNCHANGED <<parts, disk, remux, rows, album, albums, arrived, sends, ended,
                 torn, revived, stray>>

SaveAlbum(r) ==
  LET a == req[r].album
      F == req[r].files
  IN /\ req[r].at = "naming"
     /\ \/ UNCHANGED <<rows, album, albums, revived>> \* the name is taken, or an error
        \/ /\ albums' = albums \cup {a}
           /\ rows' = rows \cup F
           /\ album' = [f \in Files |-> IF f \in F THEN a
                                        ELSE IF f \in FilesOf(a) THEN None ELSE album[f]]
           /\ revived' = revived \cup (F \ rows)
     /\ torn' = SavedOver(F \cup FilesOf(a))
     /\ Done(r)
     /\ UNCHANGED <<parts, disk, remux, arrived, sends, edits, ended, stray>>

Loaded(a) == FilesOf(a)

(* remove: the files of the loaded media, then the row; the database       *)
(* deletes the media it has by then with it.                               *)
RemoveAlbum(r, a) ==
  /\ a \in albums
  /\ Begin(r, Doing("dropping", Loaded(a), a))
  /\ RemoveFiles(Loaded(a))
  /\ UNCHANGED <<parts, remux, rows, album, albums, arrived, sends, ended, torn, revived>>

DropAlbum(r) ==
  LET F == FilesOf(req[r].album)
  IN /\ req[r].at = "dropping"
     /\ albums' = albums \ {req[r].album}
     /\ rows' = rows \ F
     /\ stray' = stray \cup (F \ req[r].files)
     /\ Done(r)
     /\ UNCHANGED <<parts, disk, remux, album, arrived, sends, edits, ended, torn, revived>>

-----------------------------------------------------------------------------
(* DocumentService: a document goes to its place and gets its row in the   *)
(* steps of SaveRows and SaveRowsFails, without an album or a thumbnail.   *)

UploadDocument(r, f) ==
  /\ f \in Papers /\ Unused(f)
  /\ Begin(r, Doing("storing", {f}, None))
  /\ arrived' = arrived \cup {f}
  /\ disk' = [disk EXCEPT ![f] = [at |-> "stored", data |-> Whole]]
  /\ UNCHANGED <<parts, remux, rows, album, albums, sends, ended, torn, revived, stray>>

(* remove: the file goes first; the row goes in DeleteRows.                *)
RemoveDocument(r, f) ==
  /\ f \in rows \cap Papers
  /\ Begin(r, Doing("removing", {f}, None))
  /\ RemoveFiles({f})
  /\ UNCHANGED <<parts, remux, rows, album, albums, arrived, sends, ended, torn, revived>>

-----------------------------------------------------------------------------
(* The process ends: requests and background work are gone, temporary      *)
(* files, parts, stored files and rows stay as they are.                   *)
GalleryCrash ==
  /\ req' = [r \in Requests |-> NoRequest]
  /\ remux' = [f \in Files |-> "no"]
  /\ torn' = torn \cup {f \in rows : Removing(f)}
  /\ stray' = stray \cup {f \in Files \ rows : Stored(f)}
  /\ ended' = TRUE
  /\ UNCHANGED <<parts, disk, rows, album, albums, arrived, sends, edits, revived>>

-----------------------------------------------------------------------------
UploadStep(r) ==
  \/ ReadPart(r) \/ AssemblyFails(r) \/ Assemble(r)
  \/ MoveFiles(r) \/ FindAlbumFails(r) \/ MoveFails(r)
  \/ (\E f \in Files : MakeThumbnail(r, f))
  \/ SaveRows(r) \/ SaveRowsFails(r)

GalleryNext ==
  \/ \E i \in Part, r \in Requests, f \in Files, a \in Albums \cup {None} : SendPart(i, r, f, a)
  \/ \E r \in Requests :
       \/ UploadStep(r)
       \/ \E F \in SUBSET Files :
            (\E a \in Albums \cup {None} : UploadBulk(r, F, a)) \/ Remove(r, F)
       \/ \E f \in Files, a \in Albums \cup {None} : UpdateMedia(r, f, a)
       \/ \E f \in Papers : UploadDocument(r, f) \/ RemoveDocument(r, f)
       \/ \E a \in Albums : UpdateAlbum(r, a) \/ RemoveAlbum(r, a)
       \/ DeleteRows(r) \/ DeleteFails(r) \/ SaveMedia(r) \/ SaveAlbum(r) \/ DropAlbum(r)
  \/ \E a \in Albums : CreateAlbum(a)
  \/ \E f \in Files : StartRemux(f) \/ FinishRemux(f) \/ FailRemux(f)
  \/ GalleryCrash

(* Reads, thumbnails and queries end while the process runs.               *)
GalleryFairness == \A r \in Requests : WF_galleryVars(UploadStep(r))

GallerySpec == GalleryInit /\ [][GalleryNext]_galleryVars /\ GalleryFairness

-----------------------------------------------------------------------------
(* A reader of a file gets it whole or not at all, and not before all of   *)
(* it has arrived: whatever parts are repeated or out of order, assemblies *)
(* overlap, rows are removed and written again, or the process ends.       *)
Shown ==
  [f \in Files |-> IF f \in rows /\ Stored(f) THEN disk[f].data ELSE <<>>]
Promise == INSTANCE Uploads WITH shown <- Shown
ShownWhole == Promise!UploadsSpec

(* A row has its file, unless a request that removes it is under way, did  *)
(* not finish or met a save of the row, or a save of an older copy brought *)
(* the row back.                                                           *)
RowHasFile == \A f \in rows : Stored(f) \/ Removing(f) \/ f \in torn \cup revived

(* A stored file has its row or is about to get it, unless the process     *)
(* ended in between, ffmpeg wrote a removed video again, the row was       *)
(* deleted with its album after the album's files were, or a removal or a  *)
(* clean-up could not unlink the file and went on without it.              *)
FileHasRow == \A f \in Files : Stored(f) => f \in rows \cup stray \/ Storing(f)

(* Rows and files match: what the moves and the clean-up of GalleryService,*)
(* the removals and the saves of several requests leave differs only by    *)
(* the exceptions that the two parts name.                                 *)
RowsMatchFiles == RowHasFile /\ FileHasRow

(* When all parts have arrived, the upload ends in rows or in an error:    *)
(* it is not that every part is acknowledged and nobody puts them          *)
(* together.                                                               *)
UploadEnds == (Part \subseteq arrived) ~> ended
=============================================================================
