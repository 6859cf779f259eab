----------------------------- MODULE Streaming -----------------------------
(***************************************************************************)
(* Videos in pieces: streamMedia of GalleryService and of WhatsappService  *)
(* and getMedia of ChatUploadController, each with arithmetic of its own.  *)
(* A range is bytes=first-last; first or last that parseInt cannot read or *)
(* that are left out are <<>>: without first it is a suffix, bytes=-N.     *)
(***************************************************************************)
EXTENDS Integers, Sequences

CONSTANTS
  MaxSize, \* bound: the largest file and the largest number in a range
  MaxSpan  \* MAX_CHUNK_SIZE of WhatsApp and chat

ASSUME StreamingAssumption == MaxSize \in Nat \ {0} /\ MaxSpan \in Nat \ {0}

VARIABLES
  server, \* which of the three serves the file
  size,   \* the size of the file
  asked,  \* the range that was asked for
  reply   \* 206 with a range, or 416

streamingVars == <<server, size, asked, reply>>

-----------------------------------------------------------------------------
Number == {<<>>} \cup {<<n>> : n \in 0..MaxSize}
Least(a, b) == IF a < b THEN a ELSE b

Unsatisfiable == [status |-> 416, first |-> 0, last |-> 0]
Partial(first, last) ==
  IF first > last THEN Unsatisfiable
  ELSE [status |-> 206, first |-> first, last |-> last]

(* Mutant of GalleryRange: the last byte is taken for the size.            *)
GalleryRangePast(first, last, n) ==
  IF first = <<>> \/ first[1] >= n THEN Unsatisfiable
  ELSE Partial(first[1], IF last = <<>> THEN n ELSE Least(last[1], n))

GalleryRange(first, last, n) ==
  IF first = <<>> \/ first[1] >= n THEN Unsatisfiable
  ELSE Partial(first[1], IF last = <<>> THEN n - 1 ELSE Least(last[1], n - 1))

(* Mutant of Capped: one byte too many is left of a range that is too      *)
(* long, and none of one without an end.                                   *)
CappedShort(first, last) ==
  IF last = <<>> THEN first - 1 ELSE Least(last[1], first + MaxSpan)

(* At most MAX_CHUNK_SIZE bytes from the first.                            *)
Capped(first, last) ==
  IF last = <<>> THEN first + MaxSpan - 1 ELSE Least(last[1], first + MaxSpan - 1)

WhatsappRange(first, last, n) ==
  IF first = <<>> \/ first[1] >= n THEN Unsatisfiable
  ELSE Partial(first[1], Least(Capped(first[1], last), n - 1))

(* The same, with 8 MB for 3.                                              *)
ChatRange(first, last, n) == WhatsappRange(first, last, n)

Serve(by, first, last, n) ==
  CASE by = "gallery" -> GalleryRange(first, last, n)
    [] by = "whatsapp" -> WhatsappRange(first, last, n)
    [] by = "chat" -> ChatRange(first, last, n)

-----------------------------------------------------------------------------
StreamingTypeOK ==
  /\ server \in {"gallery", "whatsapp", "chat"}
  /\ size \in 0..MaxSize
  /\ asked \in Number \X Number
  /\ reply.status \in {206, 416}
  /\ {reply.first, reply.last} \subseteq 0..(MaxSize - 1) \* positions of bytes

StreamingInit ==
  /\ server \in {"gallery", "whatsapp", "chat"}
  /\ size \in 0..MaxSize
  /\ asked = <<<<>>, <<>>>>
  /\ reply = Unsatisfiable

(* A player that goes on, a seek, or a probe.                              *)
Ask(first, last) ==
  /\ asked' = <<first, last>>
  /\ reply' = Serve(server, first, last, size)
  /\ UNCHANGED <<server, size>>

StreamingNext == \E first, last \in Number : Ask(first, last)

StreamingSpec == StreamingInit /\ [][StreamingNext]_streamingVars

-----------------------------------------------------------------------------
(* The bytes of a file of n bytes that a range asks for: a suffix bytes=-N *)
(* asks for the last N of them.                                            *)
Wanted(first, last, n) ==
  {b \in 0..(n - 1) :
     IF first = <<>> THEN last # <<>> /\ b >= n - last[1]
     ELSE b >= first[1] /\ (last # <<>> => b <= last[1])}
Served(r) == IF r.status = 206 THEN r.first .. r.last ELSE {}
Cap(by, n) == IF by = "gallery" THEN n ELSE MaxSpan

(* What is served is what was asked for, as far as it lies in the file:    *)
(* from the first byte on, nothing outside of the range or the file, all   *)
(* of it in the gallery and at least the first MAX_CHUNK_SIZE bytes        *)
(* elsewhere: so a player that asks on from the last byte it has reaches   *)
(* the end.  A range with a first byte is refused only when no byte of it  *)
(* is in the file.  A suffix is the exception: bytes=-N is answered 416 by *)
(* all three, as parts[0] is no number, and its bytes may well be there.   *)
RangeAsAsked ==
  LET first == asked[1]
      wanted == Wanted(first, asked[2], size)
  IN /\ Served(reply) \subseteq wanted
     /\ first # <<>> =>
          Served(reply) = {b \in wanted : b < first[1] + Cap(server, size)}
=============================================================================
