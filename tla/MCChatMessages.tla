--------------------------- MODULE MCChatMessages ---------------------------
(* An instance of ChatMessages: a root message and a reply by the other    *)
(* participant; the slots are alike.                                       *)
EXTENDS ChatMessages, TLC

CONSTANTS ann, bob, root, reply, r1, r2

TwoUsers == {ann, bob}
TwoMessages == {root, reply}
AuthorOfTwo == root :> ann @@ reply :> bob
ParentOfTwo == root :> None @@ reply :> root
TwoRequests == {r1, r2}
Slots == Permutations(Requests)
=============================================================================
