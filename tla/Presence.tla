------------------------------ MODULE Presence ------------------------------
(***************************************************************************)
(* Online status of the users of one tenant: PresenceService (a Redis key  *)
(* with a time to live per user), the connection life cycle of ChatGateway *)
(* that writes it, and the part of AuthService.logout that deletes it.     *)
(*                                                                         *)
(* One Node process serves everything, so the code between two awaits is   *)
(* one step.  All Redis commands share one connection: they take effect in *)
(* the order they are issued and their replies resume the handlers in that *)
(* order, which is the queue "replies".  The Socket.IO adapter is the      *)
(* in-memory one, so join, fetchSockets and emit never leave the process   *)
(* and are part of the step that calls them.                               *)
(***************************************************************************)
EXTENDS Naturals, Sequences

CONSTANTS
  Users,      \* accounts of the tenant
  Sockets,    \* socket slots; a slot serves one connection at a time
  Owner,      \* the account whose token a slot's client presents
  MaxReplies  \* bound: commands of Redis unanswered at a time

ASSUME OwnerAssumption == Owner \in [Sockets -> Users]
ASSUME MaxRepliesAssumption == MaxReplies \in Nat

VARIABLES
  connected,  \* sockets in the rooms tenant:{t} and user:{u}
  handler,    \* how far handleConnection of a slot has come
  key,        \* presence:{t}:{u} in Redis, by the life it has left
  replies,    \* answers of Redis the process has not handled yet
  view,       \* the users a client shows as online
  silent,     \* history: users whose key vanished with no event since
  overtaken   \* history: users announced online for a socket already gone

vars == <<connected, handler, key, replies, view, silent, overtaken>>

-----------------------------------------------------------------------------
SocketsOf(u) == {s \in Sockets : Owner[s] = u}
Live(u) == SocketsOf(u) \cap connected

(* "fresh": more than one heartbeat interval is left of the 35 s;          *)
(* "due": less than one; "forever": a key without a time to live.          *)
KeyState == {"absent", "due", "fresh", "forever"}
Phase == {"idle", "joining", "marking", "fetching", "serving"}

(* Mutant of OnlineUsers: getOnlineUsers splits the key at a wrong index.  *)
OnlineUsersWrongPart == {key[u] : u \in Users}

OnlineUsers == {u \in Users : key[u] # "absent"}

Reply ==
  [op : {"setex"}, sock : Sockets]
    \cup [op : {"keys", "list"}, sock : Sockets, online : SUBSET Users]
    \cup [op : {"del"}, user : Users]
    \cup [op : {"logout"}, user : Users, found : BOOLEAN]

TypeOK ==
  /\ connected \in SUBSET Sockets
  /\ handler \in [Sockets -> Phase]
  /\ key \in [Users -> KeyState]
  /\ replies \in Seq(Reply)
  /\ view \in [Sockets -> SUBSET Users]
  /\ silent \in SUBSET Users
  /\ overtaken \in SUBSET Users

Init ==
  /\ connected = {}
  /\ handler = [s \in Sockets |-> "idle"]
  /\ key = [u \in Users |-> "absent"]
  /\ replies = <<>>
  /\ view = [s \in Sockets |-> {}]
  /\ silent = {}
  /\ overtaken = {}

-----------------------------------------------------------------------------
(* PresenceService: what each Redis command does to the key.               *)
(* Mutant of SetOnline: SET in place of SETEX.                             *)
SetOnlineForGood(u) == [key EXCEPT ![u] = "forever"]

SetOnline(u) == [key EXCEPT ![u] = "fresh"]
SetOffline(u) == [key EXCEPT ![u] = "absent"]
(* Mutant of RefreshPresence: SETEX in place of EXPIRE.                    *)
RefreshOrSet(u) == [key EXCEPT ![u] = "fresh"]

RefreshPresence(u) == [key EXCEPT ![u] = IF @ = "absent" THEN @ ELSE "fresh"]

(* A tenant broadcast reaches every socket in the room tenant:{t}.         *)
ShowOnline(u) ==
  [s \in Sockets |-> IF s \in connected THEN view[s] \cup {u} ELSE view[s]]
ShowOffline(u) == [s \in Sockets |-> view[s] \ {u}]

(* A get_online_users request of this slot is unanswered.                  *)
Listing(s) == \E i \in DOMAIN replies : replies[i].op = "list" /\ replies[i].sock = s

Issue(command) ==
  /\ Len(replies) < MaxReplies
  /\ replies' = Append(replies, command)

-----------------------------------------------------------------------------
(* A client connects with a valid token: its slot joins the tenant and the *)
(* user room and waits for the database to list its conversations.  A      *)
(* rejected token leaves no trace, so it is no action.                     *)
Connect(s) ==
  /\ s \notin connected /\ handler[s] = "idle" /\ ~Listing(s)
  /\ connected' = connected \cup {s}
  /\ handler' = [handler EXCEPT ![s] = "joining"]
  /\ UNCHANGED <<key, replies, view, silent, overtaken>>

(* The conversations are listed (or the query failed, which is ignored):   *)
(* SETEX is issued, whether or not the client is still there.              *)
MarkOnline(s) ==
  /\ handler[s] = "joining"
  /\ handler' = [handler EXCEPT ![s] = "marking"]
  /\ key' = SetOnline(Owner[s])
  /\ silent' = silent \ {Owner[s]}
  /\ Issue([op |-> "setex", sock |-> s])
  /\ UNCHANGED <<connected, view, overtaken>>

(* Mutant of Drop: handleDisconnect does not look for other sockets.       *)
DropUnchecked(s) ==
  LET u == Owner[s]
  IN /\ connected' = connected \ {s}
     /\ view' = [view EXCEPT ![s] = {}]
     /\ key' = SetOffline(u)
     /\ silent' = silent \ {u}
     /\ overtaken' = overtaken \ {u}
     /\ Issue([op |-> "del", user |-> u])

(* The socket is gone from its rooms before handleDisconnect runs.  The    *)
(* key is deleted when the room user:{u} is then empty.                    *)
Drop(s) ==
  LET u == Owner[s]
  IN /\ connected' = connected \ {s}
     /\ view' = [view EXCEPT ![s] = {}]
     /\ \/ /\ Live(u) = {s}
           /\ key' = SetOffline(u)
           /\ silent' = silent \ {u}
           /\ overtaken' = overtaken \ {u}
           /\ Issue([op |-> "del", user |-> u])
        \/ /\ Live(u) # {s}
           /\ UNCHANGED <<key, silent, overtaken, replies>>

(* The client goes away, at any point of its handshake.  A handshake under *)
(* way is not cancelled.                                                   *)
Disconnect(s) ==
  /\ s \in connected
  /\ Drop(s)
  /\ handler' = [handler EXCEPT ![s] = IF @ = "serving" THEN "idle" ELSE @]

(* setOnline throws: the catch block disconnects the client, if it is not  *)
(* gone already.                                                           *)
MarkOnlineFails(s) ==
  /\ handler[s] = "joining"
  /\ handler' = [handler EXCEPT ![s] = "idle"]
  /\ \/ s \in connected /\ Drop(s)
     \/ /\ s \notin connected
        /\ UNCHANGED <<connected, key, replies, view, silent, overtaken>>

(* A heartbeat renews the time to live of the key, if there is a key.      *)
Heartbeat(s) ==
  /\ s \in connected
  /\ key' = RefreshPresence(Owner[s])
  /\ UNCHANGED <<connected, handler, replies, view, silent,
                 overtaken>>

(* The client asks for the list again; one request at a time is modelled.  *)
GetOnlineUsers(s) ==
  /\ s \in connected /\ ~Listing(s)
  /\ Issue([op |-> "list", sock |-> s, online |-> OnlineUsers])
  /\ UNCHANGED <<connected, handler, key, view, silent, overtaken>>

(* AuthService.logout of account u, over HTTP, looks for the keys that     *)
(* match "*:{u}": the presence key is one of them.                         *)
LogoutFindsKeys(u) ==
  /\ Issue([op |-> "logout", user |-> u, found |-> u \in OnlineUsers])
  /\ UNCHANGED <<connected, handler, key, view, silent, overtaken>>

-----------------------------------------------------------------------------
(* The replies of Redis, each resuming the handler that waits for it.      *)

(* SETEX is done: the handshake asks for the users that are online.        *)
OnMarked(s) ==
  /\ handler' = [handler EXCEPT ![s] = "fetching"]
  /\ replies' = Append(Tail(replies),
                       [op |-> "keys", sock |-> s, online |-> OnlineUsers])
  /\ UNCHANGED <<connected, key, view, silent, overtaken>>

(* The list is there: it is sent to the client (lost when the client is    *)
(* gone), then user_online goes to the whole tenant in either case.        *)
OnFetched(s, online) ==
  LET u == Owner[s]
  IN /\ replies' = Tail(replies)
     /\ \/ /\ s \in connected
           /\ handler' = [handler EXCEPT ![s] = "serving"]
           /\ view' = [ShowOnline(u) EXCEPT ![s] = online \cup {u}]
           /\ UNCHANGED overtaken
        \/ /\ s \notin connected
           /\ handler' = [handler EXCEPT ![s] = "idle"]
           /\ view' = ShowOnline(u)
           /\ overtaken' = overtaken \cup {u}
     /\ UNCHANGED <<connected, key, silent>>

(* The answer to get_online_users replaces what the client shows.          *)
OnListed(s, online) ==
  /\ view' = [view EXCEPT ![s] = IF s \in connected THEN online ELSE @]
  /\ replies' = Tail(replies)
  /\ UNCHANGED <<connected, handler, key, silent, overtaken>>

(* The key of a disconnected user is deleted: user_offline is broadcast.   *)
OnDeleted(u) ==
  /\ view' = ShowOffline(u)
  /\ replies' = Tail(replies)
  /\ UNCHANGED <<connected, handler, key, silent, overtaken>>

(* logout deletes what it found, without a word to the gateway.            *)
OnLogoutKeys(u, found) ==
  /\ key' = IF found THEN SetOffline(u) ELSE key
  /\ silent' = IF found THEN silent \cup {u} ELSE silent
  /\ replies' = Tail(replies)
  /\ UNCHANGED <<connected, handler, view, overtaken>>

HandleReply ==
  /\ replies # <<>>
  /\ LET r == Head(replies)
     IN \/ r.op = "setex" /\ OnMarked(r.sock)
        \/ r.op = "keys" /\ OnFetched(r.sock, r.online)
        \/ r.op = "list" /\ OnListed(r.sock, r.online)
        \/ r.op = "del" /\ OnDeleted(r.user)
        \/ r.op = "logout" /\ OnLogoutKeys(r.user, r.found)

-----------------------------------------------------------------------------
(* Time passes for a key nobody renews: Redis drops it, and nobody is told.*)
Age(u) ==
  /\ key[u] \in {"fresh", "due"}
  /\ key' = [key EXCEPT ![u] = IF @ = "fresh" THEN "due" ELSE "absent"]
  /\ silent' = IF key[u] = "due" THEN silent \cup {u} ELSE silent
  /\ UNCHANGED <<connected, handler, replies, view, overtaken>>

(* The process dies and restarts: the sockets and every handler under way  *)
(* are gone, the keys stay in Redis.                                       *)
Crash ==
  /\ connected' = {}
  /\ handler' = [s \in Sockets |-> "idle"]
  /\ replies' = <<>>
  /\ view' = [s \in Sockets |-> {}]
  /\ UNCHANGED <<key, silent, overtaken>>

Running ==
  \/ \E s \in Sockets :
       \/ Connect(s) \/ MarkOnline(s) \/ MarkOnlineFails(s) \/ Disconnect(s)
       \/ Heartbeat(s) \/ GetOnlineUsers(s)
  \/ \E u \in Users : LogoutFindsKeys(u) \/ Age(u)
  \/ HandleReply

Next == Running \/ Crash

(* The process handles what it has received, the database answers, and a   *)
(* key that no connected client can renew runs out of time.  Nothing is    *)
(* assumed of the clients.                                                 *)
Fairness ==
  /\ WF_vars(HandleReply)
  /\ \A s \in Sockets : WF_vars(MarkOnline(s) \/ MarkOnlineFails(s))
  /\ \A u \in Users : WF_vars(Live(u) = {} /\ Age(u))

Spec == Init /\ [][Next]_vars /\ Fairness

-----------------------------------------------------------------------------
(* A socket has passed setOnline of its handshake.                         *)
Marked(s) == s \in connected /\ handler[s] \in {"marking", "fetching", "serving"}

(* The key of a user who has a marked socket is there, unless it ran out   *)
(* of time or a logout took it: closing one of several tabs, a reconnect   *)
(* that races the old socket's disconnect, or a failed handshake never     *)
(* takes a present user offline (handleDisconnect's fetchSockets check).   *)
PresentUserIsOnline ==
  \A s \in Sockets : Marked(s) => key[Owner[s]] # "absent" \/ Owner[s] \in silent

(* While a user_offline is on its way, no socket of that user has got past *)
(* the answer to its SETEX: user_offline never overtakes the user_online   *)
(* of a reconnect and leaves a present user shown as absent.               *)
NoLateOffline ==
  \A i \in DOMAIN replies :
    replies[i].op = "del" =>
      \A s \in Live(replies[i].user) : handler[s] \in {"joining", "marking"}

(* Something about user u is still to be announced.                        *)
Announcing(u) ==
  \/ \E s \in SocketsOf(u) : handler[s] \in {"marking", "fetching"}
  \/ \E i \in DOMAIN replies : replies[i].op = "del" /\ replies[i].user = u

(* What a client whose handshake is done shows of a user is what Redis     *)
(* says, whenever nothing about that user is under way: snapshots and      *)
(* broadcasts are never applied in an order that leaves a stale picture.   *)
(* Left out are a key that vanished with no event (time, logout) and a     *)
(* user announced by a handshake that outlived its socket.                 *)
ViewsAgree ==
  \A s \in connected, u \in Users :
    /\ handler[s] = "serving"
    /\ ~Announcing(u)
    /\ u \notin silent \cup overtaken
    => (u \in view[s] <=> key[u] # "absent")

(* A user without a socket is offline in the end, or connects again: the   *)
(* time to live cleans up after a crash and after a handshake that marks a *)
(* client online when it has already gone.                                 *)
GhostsExpire ==
  \A u \in Users : Live(u) = {} ~> (key[u] = "absent" \/ Live(u) # {})

(* handleDisconnect's comment: on disconnect "delete the online status and *)
(* broadcast to the tenant" unless another socket is active.  So a user    *)
(* who has no socket, and about whom nothing is under way, is shown online *)
(* by no client (silent changes of the key aside).                         *)
GoneUserIsNotShown ==
  \A u \in Users :
    /\ Live(u) = {}
    /\ \A s \in SocketsOf(u) : handler[s] = "idle"
    /\ ~Announcing(u)
    /\ u \notin silent
    => \A s \in connected : handler[s] = "serving" => u \notin view[s]

-----------------------------------------------------------------------------
(* Redis, the handshakes and the events together keep the promise of       *)
(* OnlineStatus.  Beyond the invariants it says what a step may do: a user *)
(* comes online by a handshake only - a heartbeat renews what is there,    *)
(* and brings back no key that has run out or that a logout has deleted    *)
(* (refreshPresence) -, the disconnect that takes him offline is that of   *)
(* his last socket, and what a client shows of him changes only by         *)
(* user_online, user_offline or the list that the client has asked for.    *)
Here == {s \in Sockets : Marked(s)}
Ready == {s \in connected : handler[s] = "serving"}
Due == {u \in Users : Announcing(u)}

Status ==
  INSTANCE OnlineStatus WITH
    store <- OnlineUsers, here <- Here, ready <- Ready, shown <- view,
    due <- Due, unsaid <- silent \cup overtaken

ShowsStatus == Status!StatusSpec
=============================================================================
