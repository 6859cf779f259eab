------------------------------ MODULE Delivery ------------------------------
(* What a conversation promises to the clients of its participants,        *)
(* without rooms, handshakes or the turns of a broadcast: a saved message  *)
(* is put before the clients of invited users one by one or with all that  *)
(* is saved, it stays there as long as the client does, and it has not     *)
(* been sent around before every client that attends has it.               *)

CONSTANTS
  Users,   \* accounts
  Sockets, \* connections of their clients
  Owner,   \* the user of each
  Messages \* the messages of the conversation

VARIABLES
  invited,   \* the users that were ever asked into the conversation
  saved,     \* the messages that are stored
  shown,     \* the messages each client has been given
  attending, \* the clients that have loaded the messages, of users that have
             \* taken part ever since
  told       \* the messages that have been sent around

deliveryVars == <<invited, saved, shown, attending, told>>

DeliveryInit ==
  /\ invited \in SUBSET Users
  /\ saved = {} /\ attending = {} /\ told = {}
  /\ shown = [s \in Sockets |-> {}]

Invite(u) ==
  /\ invited' = invited \cup {u}
  /\ UNCHANGED <<saved, shown, attending, told>>

Save(m) ==
  /\ saved' = saved \cup {m}
  /\ UNCHANGED <<invited, shown, attending, told>>

(* The message reaches some clients of invited users.  It has been sent    *)
(* around when none that attends is without it.                            *)
Show(m) ==
  /\ m \in saved
  /\ DOMAIN shown' = Sockets
  /\ \A s \in Sockets :
       \/ shown'[s] = shown[s]
       \/ Owner[s] \in invited /\ shown'[s] = shown[s] \cup {m}
  /\ \/ told' = told
     \/ told' = told \cup {m} /\ \A s \in attending : m \in shown'[s]
  /\ UNCHANGED <<invited, saved, attending>>

(* A client is given all there is, and may attend from now on.             *)
Load(s) ==
  /\ Owner[s] \in invited
  /\ shown' = [shown EXCEPT ![s] = @ \cup saved]
  /\ attending' \in {attending, attending \cup {s}}
  /\ UNCHANGED <<invited, saved, told>>

Withdraw(u) ==
  /\ attending' = {s \in attending : Owner[s] # u}
  /\ UNCHANGED <<invited, saved, shown, told>>

Go(s) ==
  /\ shown' = [shown EXCEPT ![s] = {}]
  /\ attending' = attending \ {s}
  /\ UNCHANGED <<invited, saved, told>>

(* All clients go; a message that was being sent around may not have been. *)
GoAll ==
  /\ shown' = [s \in Sockets |-> {}]
  /\ attending' = {}
  /\ told' \in SUBSET told
  /\ UNCHANGED <<invited, saved>>

DeliveryNext ==
  \/ \E u \in Users : Invite(u) \/ Withdraw(u)
  \/ \E m \in Messages : Save(m) \/ Show(m)
  \/ \E s \in Sockets : Load(s) \/ Go(s)
  \/ GoAll

DeliverySpec == DeliveryInit /\ [][DeliveryNext]_deliveryVars
=============================================================================
