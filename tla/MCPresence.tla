----------------------------- MODULE MCPresence -----------------------------
(* Instances of Presence.  In the first, two accounts, one with two tabs:  *)
(* the second tab is what handleDisconnect's check is for, the other       *)
(* account is the onlooker.  In the second, one account with two tabs, for *)
(* the property that needs fairness.                                       *)
EXTENDS Presence, TLC

CONSTANTS ann, bob, a1, a2, b1

TwoUsers == {ann, bob}
ThreeSockets == {a1, a2, b1}
TabsOfTwo == a1 :> ann @@ a2 :> ann @@ b1 :> bob

TabsOfAnn == Permutations({a1, a2})

OneUser == {ann}
TwoSockets == {a1, a2}
TabsOfOne == a1 :> ann @@ a2 :> ann

(* Runs without a crash, for what the code promises of orderly runs.       *)
OrderlySpec == Init /\ [][Running]_vars
=============================================================================
