----------------------------- MODULE ChatRooms -----------------------------
(***************************************************************************)
(* Who gets what is said in one conversation: the participants of          *)
(* ConversationService, the Socket.IO room conversation:{id} that          *)
(* ChatGateway keeps for them, and the broadcast of a new message.         *)
(*                                                                         *)
(* Rows and rooms are changed by different requests and nothing but        *)
(* joining ties them together.  A step is what a handler does between two  *)
(* awaits with the query it waited for, or the query alone where other     *)
(* awaits follow before anything is done with its result.  The rooms are   *)
(* in the memory of the process: joining and emitting are part of the step *)
(* that calls them, and the disconnect of a socket ends what its handlers  *)
(* could still do to a room.  Nobody's role ever changes: the only admin   *)
(* is the creator.                                                         *)
(***************************************************************************)
EXTENDS Naturals, FiniteSets

CONSTANTS
  Users,    \* accounts of the tenant
  Creator,  \* the one that created the conversation
  Sockets,  \* socket slots; a slot serves one connection at a time
  Owner,    \* the account whose token a slot's client presents
  Messages, \* the messages that may be sent
  Sender,   \* who sends each of them
  Requests  \* slots for changes of the participants under way at a time

ASSUME CreatorAssumption == Creator \in Users
ASSUME OwnerAssumption == Owner \in [Sockets -> Users]
ASSUME SenderAssumption == Sender \in [Messages -> Users]

VARIABLES
  row,     \* chat_conversation_participants: the row of each user
  online,  \* sockets in the room of their user
  room,    \* sockets in the room of the conversation
  handler, \* how far handleConnection of a slot has come
  asked,   \* what else a slot's client waits for
  cast,    \* the way of each message to the sockets
  shown,   \* the messages the client of each socket has been given
  change,  \* the requests that change participants
  loaded   \* history: sockets whose client has loaded the messages, of users
           \* that have taken part ever since

vars == <<row, online, room, handler, asked, cast, shown, change, loaded>>

-----------------------------------------------------------------------------
RowState == {"none", "active", "left"}

Active == {u \in Users : row[u] = "active"}
SocketsOf(users) == {s \in Sockets : Owner[s] \in users}

(* listing: the conversations are being read; counting: they were, and     *)
(* this one was among them.                                                *)
Handshake == {"idle", "listing", "counting", "serving"}
Asked == {"nothing", "joining", "messages"}

(* to: the participants whose turn is still to come.  A message is blind   *)
(* when they could not be looked up, and lost when it was sent around      *)
(* blindly or not at all.                                                  *)
Cast ==
  [at : {"none", "checked", "saved", "looked", "blind", "telling", "done", "lost"},
   to : SUBSET Users]
NoCast == [at |-> "none", to |-> {}]

Saved == {m \in Messages : cast[m].at \notin {"none", "checked"}}

Change ==
  [at : {"idle", "looking", "inserting", "reloading", "restoring", "asking", "leaving"},
   user : Users]
NoChange == [at |-> "idle", user |-> Creator]

TypeOK ==
  /\ row \in [Users -> RowState]
  /\ online \in SUBSET Sockets
  /\ room \in SUBSET Sockets
  /\ handler \in [Sockets -> Handshake]
  /\ asked \in [Sockets -> Asked]
  /\ cast \in [Messages -> Cast]
  /\ shown \in [Sockets -> SUBSET Messages]
  /\ change \in [Requests -> Change]
  /\ loaded \in SUBSET Sockets

(* The conversation has just been created, with any other participants.    *)
Init ==
  /\ row \in [Users -> {"none", "active"}] /\ row[Creator] = "active"
  /\ online = {}
  /\ room = {}
  /\ handler = [s \in Sockets |-> "idle"]
  /\ asked = [s \in Sockets |-> "nothing"]
  /\ cast = [m \in Messages |-> NoCast]
  /\ shown = [s \in Sockets |-> {}]
  /\ change = [r \in Requests |-> NoChange]
  /\ loaded = {}

-----------------------------------------------------------------------------
(* handleConnection: the socket is in its user's room, the conversations   *)
(* are listed.                                                             *)
Connect(s) ==
  /\ s \notin online
  /\ online' = online \cup {s}
  /\ handler' = [handler EXCEPT ![s] = "listing"]
  /\ UNCHANGED <<row, room, asked, cast, shown, change, loaded>>

(* Mutant of Listed: the conversation is found whoever asks.               *)
ListedForAll(s) == TRUE

(* findAllByUser finds the conversation for the user of s.                 *)
Listed(s) == row[Owner[s]] = "active"

ListConversations(s) ==
  /\ handler[s] = "listing"
  /\ \/ Listed(s) /\ handler' = [handler EXCEPT ![s] = "counting"]
     \/ \* not listed, or the query failed, which is ignored
        handler' = [handler EXCEPT ![s] = "serving"]
  /\ UNCHANGED <<row, online, room, asked, cast, shown, change, loaded>>

(* The unread messages are counted, the socket joins what was listed.      *)
AutoJoin(s) ==
  /\ handler[s] = "counting"
  /\ handler' = [handler EXCEPT ![s] = "serving"]
  /\ room' = room \cup {s}
  /\ UNCHANGED <<row, online, asked, cast, shown, change, loaded>>

(* A socket that goes is in no room any more.                              *)
Disconnect(s) ==
  /\ s \in online
  /\ online' = online \ {s}
  /\ room' = room \ {s}
  /\ handler' = [handler EXCEPT ![s] = "idle"]
  /\ asked' = [asked EXCEPT ![s] = "nothing"]
  /\ shown' = [shown EXCEPT ![s] = {}]
  /\ loaded' = loaded \ {s}
  /\ UNCHANGED <<row, cast, change>>

(* join_conversation and findMessages begin with assertParticipant.        *)
Ask(s, what) ==
  /\ s \in online /\ asked[s] = "nothing"
  /\ row[Owner[s]] = "active"
  /\ asked' = [asked EXCEPT ![s] = what]
  /\ UNCHANGED <<row, online, room, handler, cast, shown, change, loaded>>

JoinConversation(s) ==
  /\ asked[s] = "joining"
  /\ asked' = [asked EXCEPT ![s] = "nothing"]
  /\ room' = room \cup {s}
  /\ UNCHANGED <<row, online, handler, cast, shown, change, loaded>>

FindMessages(s) ==
  /\ asked[s] = "messages"
  /\ asked' = [asked EXCEPT ![s] = "nothing"]
  /\ shown' = [shown EXCEPT ![s] = @ \cup Saved]
  /\ loaded' = IF row[Owner[s]] = "active" THEN loaded \cup {s} ELSE loaded
  /\ UNCHANGED <<row, online, room, handler, cast, change>>

LeaveConversation(s) ==
  /\ s \in online
  /\ room' = room \ {s}
  /\ UNCHANGED <<row, online, handler, asked, cast, shown, change, loaded>>

-----------------------------------------------------------------------------
(* A message, over its socket or over HTTP: its sender is a participant,   *)
(* then it is saved.                                                       *)
CheckSender(m) ==
  /\ cast[m].at = "none" /\ row[Sender[m]] = "active"
  /\ cast' = [cast EXCEPT ![m].at = "checked"]
  /\ UNCHANGED <<row, online, room, handler, asked, shown, change, loaded>>

SaveMessage(m) ==
  /\ cast[m].at = "checked"
  /\ cast' = [cast EXCEPT ![m].at = "saved"]
  /\ UNCHANGED <<row, online, room, handler, asked, shown, change, loaded>>

(* Mutant of Recipients: the rows are not mapped to their users.           *)
RecipientRows(m) == {[user |-> u, leftAt |-> row[u]] : u \in Active}

(* Mutant of Recipients: the sender is left out too early.                 *)
RecipientsButSender(m) == Active \ {Sender[m]}

Recipients(m) == Active

(* broadcastNewMessage looks up the conversation with its participants; if *)
(* that fails it goes on with none.                                        *)
LookUp(m) ==
  /\ cast[m].at = "saved"
  /\ \/ cast' = [cast EXCEPT ![m].at = "looked", ![m].to = Recipients(m)]
     \/ cast' = [cast EXCEPT ![m].at = "blind"]
  /\ UNCHANGED <<row, online, room, handler, asked, shown, change, loaded>>

Told(m, sockets) ==
  shown' = [s \in Sockets |->
              IF s \in online \cap sockets THEN shown[s] \cup {m} ELSE shown[s]]

(* The next of the recipients that are not the sender is sent the message  *)
(* in his own room; the broadcast ends after the last of them.             *)
Tell(m, already) ==
  LET to == cast[m].to \ {Sender[m]}
  IN \/ /\ to = {}
        /\ cast' = [cast EXCEPT ![m] = [at |-> "done", to |-> {}]]
        /\ Told(m, already)
     \/ \E u \in to :
          /\ cast' = [cast EXCEPT ![m] = [at |-> "telling", to |-> to \ {u}]]
          /\ Told(m, already \cup SocketsOf({u}))

(* The sockets of all participants join the room, the message goes to the  *)
(* room and to the first of the recipients.                                *)
Broadcast(m) ==
  /\ cast[m].at = "looked"
  /\ room' = room \cup (online \cap SocketsOf(cast[m].to))
  /\ Tell(m, room')
  /\ UNCHANGED <<row, online, handler, asked, change, loaded>>

BroadcastBlindly(m) ==
  /\ cast[m].at = "blind"
  /\ cast' = [cast EXCEPT ![m].at = "lost"]
  /\ Told(m, room)
  /\ UNCHANGED <<row, online, room, handler, asked, change, loaded>>

(* His notification is stored, or cannot be, and the next one is told.     *)
Notify(m) ==
  /\ cast[m].at = "telling"
  /\ Tell(m, {})
  /\ UNCHANGED <<row, online, room, handler, asked, change, loaded>>

-----------------------------------------------------------------------------
(* addParticipant and removeParticipant, one query after the other.  A     *)
(* request that is refused, or has nothing to write, leaves no trace.      *)
Goes(r, u, at) == change' = [change EXCEPT ![r] = [at |-> at, user |-> u]]
Ends(r) == change' = [change EXCEPT ![r] = NoChange]
User(r) == change[r].user

(* addParticipant: the caller is a participant and the admin, ...          *)
AskToAdd(r, u) ==
  /\ change[r].at = "idle" /\ row[Creator] = "active"
  /\ Goes(r, u, "looking")
  /\ UNCHANGED <<row, online, room, handler, asked, cast, shown, loaded>>

(* ... the user has no row, or has left.                                   *)
LookToAdd(r) ==
  /\ change[r].at = "looking"
  /\ \/ row[User(r)] = "none" /\ Goes(r, User(r), "inserting")
     \/ row[User(r)] = "left" /\ Goes(r, User(r), "reloading")
     \/ row[User(r)] = "active" /\ Ends(r)
  /\ UNCHANGED <<row, online, room, handler, asked, cast, shown, loaded>>

(* The new row is inserted, unless there is one by now (unique constraint).*)
Insert(r) ==
  /\ change[r].at = "inserting"
  /\ row' = [row EXCEPT ![User(r)] = IF @ = "none" THEN "active" ELSE @]
  /\ Ends(r)
  /\ UNCHANGED <<online, room, handler, asked, cast, shown, loaded>>

(* save reads the row again: leftAt is written if it is not null already.  *)
Reload(r) ==
  /\ change[r].at = "reloading"
  /\ \/ row[User(r)] = "left" /\ Goes(r, User(r), "restoring")
     \/ row[User(r)] # "left" /\ Ends(r)
  /\ UNCHANGED <<row, online, room, handler, asked, cast, shown, loaded>>

Restore(r) ==
  /\ change[r].at = "restoring"
  /\ row' = [row EXCEPT ![User(r)] = "active"]
  /\ Ends(r)
  /\ UNCHANGED <<online, room, handler, asked, cast, shown, loaded>>

(* removeParticipant: the user is a participant who leaves by himself, or  *)
(* the caller has to be the admin, which is looked up next.                *)
LookToRemove(r, u) ==
  /\ change[r].at = "idle" /\ row[u] = "active"
  /\ \/ Goes(r, u, "leaving")
     \/ u # Creator /\ Goes(r, u, "asking")
  /\ UNCHANGED <<row, online, room, handler, asked, cast, shown, loaded>>

AskToRemove(r) ==
  /\ change[r].at = "asking"
  /\ \/ row[Creator] = "active" /\ Goes(r, User(r), "leaving")
     \/ row[Creator] # "active" /\ Ends(r)
  /\ UNCHANGED <<row, online, room, handler, asked, cast, shown, loaded>>

(* save writes the new leftAt, which differs from any that is there.       *)
Leave(r) ==
  /\ change[r].at = "leaving"
  /\ row' = [row EXCEPT ![User(r)] = "left"]
  /\ loaded' = loaded \ SocketsOf({User(r)})
  /\ Ends(r)
  /\ UNCHANGED <<online, room, handler, asked, cast, shown>>

-----------------------------------------------------------------------------
(* The process dies and restarts: no socket, no request under way; a       *)
(* message that was not sent around by then never will be.                 *)
Crash ==
  /\ online' = {} /\ room' = {} /\ loaded' = {}
  /\ handler' = [s \in Sockets |-> "idle"]
  /\ asked' = [s \in Sockets |-> "nothing"]
  /\ cast' = [m \in Messages |->
                IF m \notin Saved THEN NoCast
                ELSE IF cast[m].at = "done" THEN cast[m]
                ELSE [at |-> "lost", to |-> {}]]
  /\ shown' = [s \in Sockets |-> {}]
  /\ change' = [r \in Requests |-> NoChange]
  /\ UNCHANGED row

Next ==
  \/ \E s \in Sockets :
       \/ Connect(s) \/ ListConversations(s) \/ AutoJoin(s) \/ Disconnect(s)
       \/ Ask(s, "joining") \/ JoinConversation(s) \/ LeaveConversation(s)
       \/ Ask(s, "messages") \/ FindMessages(s)
  \/ \E m \in Messages :
       CheckSender(m) \/ SaveMessage(m) \/ LookUp(m)
       \/ Broadcast(m) \/ BroadcastBlindly(m) \/ Notify(m)
  \/ \E r \in Requests :
       \/ \E u \in Users : AskToAdd(r, u) \/ LookToRemove(r, u)
       \/ LookToAdd(r) \/ Insert(r) \/ Reload(r) \/ Restore(r)
       \/ AskToRemove(r) \/ Leave(r)
  \/ Crash

Spec == Init /\ [][Next]_vars

-----------------------------------------------------------------------------
(* What a client loads and what it is sent leave no gap: when a message    *)
(* has been sent around, whoever has loaded the messages over HTTP since   *)
(* his socket connected, and has taken part ever since, has got it one way *)
(* or the other, in the room or not, and the other sockets of the sender   *)
(* too (findMessages and broadcastNewMessage).  It takes that messages are *)
(* saved before the participants are looked up, and the sockets of all of  *)
(* them then join the room.  Left out are broadcasts that could not look.  *)
NoGap ==
  \A m \in Messages :
    cast[m].at \in {"telling", "done"} =>
      \A s \in loaded : m \in shown[s]

(* Nobody gets a message, or a place in the room, who never was a          *)
(* participant: a row that a handshake, a join or a broadcast found stays, *)
(* however late they use it.                                               *)
OnlyInvited ==
  \A s \in Sockets : s \in room \/ shown[s] # {} => row[Owner[s]] # "none"

-----------------------------------------------------------------------------
(* The conversation keeps the promise of Delivery: a message is sent       *)
(* around from when the room has been told, and attending is having loaded *)
(* the messages.  Beyond NoGap and OnlyInvited it says what a step may do: *)
(* a client gets nothing that is not saved, loses nothing while it is      *)
(* there, and no message but by loading or by its broadcast (findMessages  *)
(* and broadcastNewMessage).                                               *)
Invitees == {u \in Users : row[u] # "none"}
SentAround == {m \in Messages : cast[m].at \in {"telling", "done"}}

Promise ==
  INSTANCE Delivery WITH
    invited <- Invitees, saved <- Saved, attending <- loaded, told <- SentAround

Delivers == Promise!DeliverySpec
=============================================================================
