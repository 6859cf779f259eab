--------------------------- MODULE MCAuthSession ---------------------------
(* An instance of AuthSession.  The slots are alike.                       *)
EXTENDS AuthSession, TLC

CONSTANTS r1, r2, r3, old, new

TwoRequests == {r1, r2}
ThreeRequests == {r1, r2, r3}
TwoPasswords == {old, new}
Slots == Permutations(Requests)
=============================================================================
