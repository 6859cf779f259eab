---------------------------- MODULE MCChatRooms ----------------------------
(* An instance of ChatRooms: the creator, who uses HTTP only, and another  *)
(* user with a socket.  Each sends a message, so that the socket is that   *)
(* of the sender once and that of a recipient once; the requests are alike.*)
EXTENDS ChatRooms, TLC

CONSTANTS ann, bob, b1, m1, m2, r1, r2

TwoUsers == {ann, bob}
SocketOfBob == b1 :> bob
TwoMessages == {m1, m2}
OneByEach == m1 :> ann @@ m2 :> bob
TwoRequests == {r1, r2}
Alike == Permutations(Requests)
=============================================================================
