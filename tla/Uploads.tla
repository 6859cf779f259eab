------------------------------ MODULE Uploads ------------------------------
(* What an upload promises, without requests, albums or disk: parts of a   *)
(* file arrive, and a file is shown to readers either not at all or as a   *)
(* whole, and not before everything it consists of has arrived.            *)
EXTENDS Naturals

CONSTANTS
  NParts, \* the number of parts a chunked file is sent in
  Files   \* the files that can be shown

VARIABLES
  arrived, \* the parts, and the files sent in one piece, that have arrived
  shown    \* what a reader of a file gets

Nothing == <<>>
Whole == [i \in 1..NParts |-> i]
Complete(f) == f \in arrived \/ 1..NParts \subseteq arrived

UploadsInit ==
  /\ arrived = {}
  /\ shown = [f \in Files |-> Nothing]

Arrive == \E new \in SUBSET (1..NParts \cup Files) : arrived' = arrived \cup new

(* Files are put in front of readers or taken away, in one piece.          *)
Show ==
  /\ DOMAIN shown' = Files
  /\ \A f \in Files :
       \/ shown'[f] \in {shown[f], Nothing}
       \/ Complete(f) /\ shown'[f] = Whole

UploadsNext == (Arrive /\ UNCHANGED shown) \/ (Show /\ UNCHANGED arrived)

UploadsSpec == UploadsInit /\ [][UploadsNext]_<<arrived, shown>>
=============================================================================
