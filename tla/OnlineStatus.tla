---------------------------- MODULE OnlineStatus ----------------------------
(* What the online status of users promises, without Redis, handshakes or  *)
(* events under way: a user is online from a handshake of his until his    *)
(* last socket has gone or his status vanishes on its own, clients are     *)
(* told when it begins and when it ends, and otherwise change their        *)
(* picture of others only when they have asked.                            *)

CONSTANTS
  Users,   \* accounts
  Sockets, \* connections of their clients
  Owner    \* the user of each

VARIABLES
  store,  \* the users with the status online
  here,   \* the sockets that a handshake has put online
  ready,  \* those of them whose handshake is done
  shown,  \* the users each client shows as online
  due,    \* users of whom clients are still to be told
  unsaid  \* users of whom clients were told nothing, or that they came when
          \* they had gone

statusVars == <<store, here, ready, shown, due, unsaid>>

(* Clients are right about everyone of whom all is said.                   *)
Agreed ==
  \A s \in ready, u \in Users \ (due \cup unsaid) : u \in shown[s] <=> u \in store

StatusInit ==
  /\ store = {} /\ here = {} /\ ready = {} /\ due = {} /\ unsaid = {}
  /\ shown = [s \in Sockets |-> {}]

(* The handshake of s, whose client may have gone, puts its user online.   *)
Arrive(s) ==
  LET u == Owner[s]
  IN /\ store' = store \cup {u}
     /\ here' \in {here, here \cup {s}}
     /\ due' = due \cup {u}
     /\ unsaid' \in {unsaid, unsaid \ {u}}
     /\ UNCHANGED <<ready, shown>>

(* Clients are told, and s, if it is still there, is given a list.         *)
SayArrived(s) ==
  LET u == Owner[s]
  IN /\ u \in due
     /\ due' \in {due, due \ {u}}
     /\ \/ s \in here /\ ready' = ready \cup {s} /\ u \in shown'[s] /\ UNCHANGED unsaid
        \/ s \notin here /\ unsaid' = unsaid \cup {u} /\ shown'[s] = shown[s] /\ UNCHANGED ready
     /\ DOMAIN shown' = Sockets
     /\ \A q \in Sockets \ {s} :
          /\ shown'[q] \in {shown[q], shown[q] \cup {u}}
          /\ q \in ready => u \in shown'[q]
     /\ UNCHANGED <<store, here>>

(* The client of s goes; the status ends with the last socket of its user. *)
Leave(s) ==
  LET u == Owner[s]
  IN /\ here' = here \ {s} /\ ready' = ready \ {s}
     /\ shown' = [shown EXCEPT ![s] = {}]
     /\ \/ /\ \A q \in here' : Owner[q] # u
           /\ store' = store \ {u}
           /\ due' = due \cup {u}
           /\ unsaid' = unsaid \ {u}
        \/ UNCHANGED <<store, due, unsaid>>

SayLeft(u) ==
  /\ u \in due
  /\ due' \in {due, due \ {u}}
  /\ shown' = [s \in Sockets |-> shown[s] \ {u}]
  /\ UNCHANGED <<store, here, ready, unsaid>>

(* The client of s, that has asked, is given a list.                       *)
Answer(s) ==
  /\ DOMAIN shown' = Sockets
  /\ \A q \in Sockets \ {s} : shown'[q] = shown[q]
  /\ UNCHANGED <<store, here, ready, due, unsaid>>

Vanish(u) ==
  /\ store' = store \ {u}
  /\ unsaid' = unsaid \cup {u}
  /\ UNCHANGED <<here, ready, shown, due>>

(* All clients go and nothing is said of it.                               *)
Stop ==
  /\ here' = {} /\ ready' = {} /\ due' = {}
  /\ shown' = [s \in Sockets |-> {}]
  /\ UNCHANGED <<store, unsaid>>

StatusNext ==
  /\ \/ \E s \in Sockets : Arrive(s) \/ SayArrived(s) \/ Leave(s) \/ Answer(s)
     \/ \E u \in Users : SayLeft(u) \/ Vanish(u)
     \/ Stop
  /\ Agreed'

StatusSpec == StatusInit /\ [][StatusNext]_statusVars
=============================================================================
