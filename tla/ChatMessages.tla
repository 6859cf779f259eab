---------------------------- MODULE ChatMessages ----------------------------
(***************************************************************************)
(* The messages of one conversation: MessageService (send, update, remove, *)
(* markRead, markThreadRead) and ConversationService.markAllRead with the  *)
(* unread count it resets, and its update, which names the conversation.   *)
(* The participants do not change here.                                    *)
(*                                                                         *)
(* Requests run concurrently; a step of one is what it does between two    *)
(* awaits with the query it waited for.  A message is dated with the start *)
(* of the transaction that inserts it (the default now() of Postgres), not *)
(* with its commit, and to the microsecond; a Date of the program holds    *)
(* whole milliseconds.  The clock counts ticks, TicksPerMs of them to a    *)
(* millisecond, and is the same for the program and the database.          *)
(***************************************************************************)
EXTENDS Naturals, FiniteSets

CONSTANTS
  Users,     \* participants of the conversation
  Messages,  \* the messages that may be sent
  Author,    \* who sends each of them
  Parent,    \* the message each of them replies to, None for a root
  Requests,  \* slots for edits, removals and read marks under way at a time
  TicksPerMs, \* ticks of the clock in a millisecond
  MaxTime,   \* bound of the clock
  None

ASSUME AuthorAssumption == Author \in [Messages -> Users]
ASSUME ParentAssumption == Parent \in [Messages -> Messages \cup {None}]
ASSUME NoneAssumption == None \notin Messages \cup Users
ASSUME TimeAssumption ==
  TicksPerMs \in Nat \ {0} /\ MaxTime \in Nat \ {0}

VARIABLES
  now,        \* the clock
  msg,        \* rows of chat_messages; at = 0: no such row yet
  opened,     \* start of the transaction under way for a message, 0: none
  conv,       \* lastMessageId and lastActivityAt of the conversation
  lastRead,   \* lastReadAt of each participant, 0: never
  read,       \* message_read_receipts: the messages each participant has read
  req,        \* the requests under way
  overtaken,  \* history: a send committed after one that had begun later, or
              \* while the conversation was read to be named
  buried      \* history: messages removed with nothing else under way for them

vars == <<now, msg, opened, conv, lastRead, read, req, overtaken, buried>>

-----------------------------------------------------------------------------
Time == 0 .. MaxTime
Ms(t) == t - (t % TicksPerMs)  \* a time of the database as a Date
Column == {"text", "deleted"}
InboxColumn == {"last", "activity"}
Conversation == [last : Messages \cup {None}, activity : Time]
Row == [at : Time, text : {"first", "edited", None}, deleted : BOOLEAN]
NoRow == [at |-> 0, text |-> None, deleted |-> FALSE]

Phase ==
  {"idle",
   "saving", "writing",                             \* update, remove
   "naming", "renaming",                            \* update of the conversation
   "stamping", "listing", "comparing", "inserting", \* markAllRead, markThreadRead
   "done", "failed"}

(* message: what is edited, or the thread that is marked (None: all of     *)
(* them); entity and dirty: the row as read and changed, and the columns   *)
(* save will write; inbox: the conversation as read to be named; stamp:    *)
(* the lastReadAt to write; todo: the receipts to insert.  known and late  *)
(* are history: the messages that were there when the request began, and   *)
(* whether a mark of the same user was under way by then, or a change of   *)
(* the same message at any time of the request.                            *)
Request ==
  [at : Phase, user : Users \cup {None}, message : Messages \cup {None},
   entity : Row, inbox : Conversation, dirty : SUBSET (Column \cup InboxColumn), stamp : Time,
   todo : SUBSET Messages, known : SUBSET Messages, late : BOOLEAN]

Done ==
  [at |-> "idle", user |-> None, message |-> None, entity |-> NoRow,
   inbox |-> [last |-> None, activity |-> 0], dirty |-> {}, stamp |-> 0, todo |-> {}, known |-> {}, late |-> FALSE]

Sent == {m \in Messages : msg[m].at # 0}
OfOthers(u) == {m \in Sent : Author[m] # u}
Root(m) == Parent[m] = None

TypeOK ==
  /\ now \in Time \ {0}
  /\ msg \in [Messages -> Row]
  /\ opened \in [Messages -> Time]
  /\ conv \in Conversation
  /\ lastRead \in [Users -> Time]
  /\ read \in [Users -> SUBSET Messages]
  /\ req \in [Requests -> Request]
  /\ overtaken \in BOOLEAN
  /\ buried \in SUBSET Messages

Init ==
  /\ now = 1
  /\ msg = [m \in Messages |-> NoRow]
  /\ opened = [m \in Messages |-> 0]
  /\ conv = [last |-> None, activity |-> 0]
  /\ lastRead = [u \in Users |-> 0]
  /\ read = [u \in Users |-> {}]
  /\ req = [r \in Requests |-> Done]
  /\ overtaken = FALSE
  /\ buried = {}

Goes(r, request) == req' = [req EXCEPT ![r] = request]

-----------------------------------------------------------------------------
(* send: the parent is looked up, the transaction starts.                  *)
Begin(m) ==
  /\ opened[m] = 0 /\ m \notin Sent
  /\ Parent[m] \in Sent \cup {None}
  /\ opened' = [opened EXCEPT ![m] = now]
  /\ UNCHANGED <<now, msg, conv, lastRead, read, req, overtaken, buried>>

(* Mutant of Inbox: a reply becomes the last message of the conversation.  *)
InboxOfAny(m) == [last |-> m, activity |-> Ms(opened[m])]

(* Mutant of Inbox: the id of the sender is written for the message's.     *)
InboxOfSender(m) ==
  [last |-> IF Root(m) THEN Author[m] ELSE conv.last, activity |-> Ms(opened[m])]

(* What send writes to the conversation: a reply is not its last message.  *)
Inbox(m) ==
  [last |-> IF Root(m) THEN m ELSE conv.last, activity |-> Ms(opened[m])]

(* The row and the conversation are written and committed together; the    *)
(* row lock on the conversation orders the commits.                        *)
Commit(m) ==
  /\ opened[m] # 0
  /\ msg' = [msg EXCEPT ![m] = [at |-> opened[m], text |-> "first", deleted |-> FALSE]]
  /\ conv' = Inbox(m)
  /\ opened' = [opened EXCEPT ![m] = 0]
  /\ overtaken' = (overtaken \/ (\E n \in Sent : msg[n].at > opened[m])
                            \/ \E q \in Requests : req[q].at = "naming")
  /\ UNCHANGED <<now, lastRead, read, req, buried>>

(* The transaction fails; the client may send again.                       *)
Rollback(m) ==
  /\ opened[m] # 0
  /\ opened' = [opened EXCEPT ![m] = 0]
  /\ UNCHANGED <<now, msg, conv, lastRead, read, req, overtaken, buried>>

-----------------------------------------------------------------------------
(* The author's update and remove read the row, change the entity and save *)
(* it: save reads the row again and writes the columns that differ.        *)
(* Mutant of Editable: update does not look at isDeleted.                  *)
EditableEvenDeleted(m) == m \in Sent

Editable(m) == m \in Sent /\ ~msg[m].deleted

(* The updates and removals of m that are under way.                       *)
Changing(m) == {q \in Requests : req[q].at \in {"saving", "writing"} /\ req[q].message = m}

ReadRow(r, m, entity) ==
  /\ req[r].at = "idle"
  /\ req' = [q \in Requests |->
               IF q = r THEN [Done EXCEPT !.at = "saving", !.message = m,
                                          !.entity = entity, !.late = Changing(m) # {}]
               ELSE IF q \in Changing(m) THEN [req[q] EXCEPT !.late = TRUE]
               ELSE req[q]]
  /\ UNCHANGED <<now, msg, opened, conv, lastRead, read, overtaken, buried>>

ReadForUpdate(r, m) == Editable(m) /\ ReadRow(r, m, [msg[m] EXCEPT !.text = "edited"])

ReadForRemove(r, m) ==
  m \in Sent /\ ReadRow(r, m, [msg[m] EXCEPT !.text = None, !.deleted = TRUE])

Reload(r) ==
  /\ req[r].at = "saving"
  /\ LET e == req[r].entity
         row == msg[req[r].message]
     IN Goes(r, [req[r] EXCEPT !.at = "writing",
                               !.dirty = {c \in Column : e[c] # row[c]}])
  /\ UNCHANGED <<now, msg, opened, conv, lastRead, read, overtaken, buried>>

Write(r) ==
  LET m == req[r].message
      e == req[r].entity
      value(c) == IF c \in req[r].dirty THEN e[c] ELSE msg[m][c]
  IN /\ req[r].at = "writing"
     /\ msg' = [msg EXCEPT ![m].text = value("text"), ![m].deleted = value("deleted")]
     /\ buried' = IF e.deleted /\ ~req[r].late THEN buried \cup {m} ELSE buried
     /\ Goes(r, Done)
     /\ UNCHANGED <<now, opened, conv, lastRead, read, overtaken>>

-----------------------------------------------------------------------------
(* The admin gives the conversation a name: its row is saved as a message  *)
(* is, with the inbox it had when it was read.  A save that finds no other *)
(* inbox leaves it alone and is over here.                                 *)
ReadForRename(r) ==
  /\ req[r].at = "idle"
  /\ Goes(r, [Done EXCEPT !.at = "naming", !.inbox = conv])
  /\ UNCHANGED <<now, msg, opened, conv, lastRead, read, overtaken, buried>>

ReloadConversation(r) ==
  LET dirty == {c \in InboxColumn : req[r].inbox[c] # conv[c]}
  IN /\ req[r].at = "naming"
     /\ Goes(r, IF dirty = {} THEN Done
                ELSE [req[r] EXCEPT !.at = "renaming", !.dirty = dirty])
     /\ UNCHANGED <<now, msg, opened, conv, lastRead, read, overtaken, buried>>

Rename(r) ==
  LET value(c) == IF c \in req[r].dirty THEN req[r].inbox[c] ELSE conv[c]
  IN /\ req[r].at = "renaming"
     /\ conv' = [last |-> value("last"), activity |-> value("activity")]
     /\ Goes(r, Done)
     /\ UNCHANGED <<now, msg, opened, lastRead, read, overtaken, buried>>

-----------------------------------------------------------------------------
(* What countUnread counts for u.                                          *)
Unread(u) ==
  {m \in OfOthers(u) : ~msg[m].deleted /\ msg[m].at > lastRead[u]}

(* The replies of others that a mark covers.                               *)
Covers(request, m) ==
  /\ ~Root(m)
  /\ request.message \in {None, Parent[m]}

(* markAllRead: the UPDATE of lastReadAt is issued with the current time.  *)
MarkAllRead(r, u) ==
  /\ req[r].at = "idle"
  /\ Goes(r, [Done EXCEPT !.at = "stamping", !.user = u, !.stamp = Ms(now), !.known = OfOthers(u),
                !.late = \E q \in Requests : req[q].at = "stamping" /\ req[q].user = u])
  /\ UNCHANGED <<now, msg, opened, conv, lastRead, read, overtaken, buried>>

Stamp(r) ==
  /\ req[r].at = "stamping"
  /\ lastRead' = [lastRead EXCEPT ![req[r].user] = req[r].stamp]
  /\ Goes(r, [req[r] EXCEPT !.at = "listing", !.stamp = 0])
  /\ UNCHANGED <<now, msg, opened, conv, read, overtaken, buried>>

MarkThreadRead(r, u, m) ==
  /\ req[r].at = "idle" /\ m \in Sent
  /\ Goes(r, [Done EXCEPT !.at = "listing", !.user = u, !.message = m,
                          !.known = OfOthers(u), !.late = TRUE])
  /\ UNCHANGED <<now, msg, opened, conv, lastRead, read, overtaken, buried>>

(* The replies are listed, then the receipts that are there are taken off. *)
List(r) ==
  LET found == {m \in OfOthers(req[r].user) : Covers(req[r], m)}
  IN /\ req[r].at = "listing"
     /\ Goes(r, [req[r] EXCEPT !.at = IF found = {} THEN "done" ELSE "comparing",
                               !.todo = found])
     /\ UNCHANGED <<now, msg, opened, conv, lastRead, read, overtaken, buried>>

(* Mutant of Missing: the receipts that exist are kept, the others dropped.*)
MissingInverted(request) == request.todo \cap read[request.user]

Missing(request) == request.todo \ read[request.user]

Compare(r) ==
  /\ req[r].at = "comparing"
  /\ Goes(r, [req[r] EXCEPT !.at = IF Missing(req[r]) = {} THEN "done" ELSE "inserting",
                            !.todo = Missing(req[r])])
  /\ UNCHANGED <<now, msg, opened, conv, lastRead, read, overtaken, buried>>

(* All receipts are inserted, or none: one that exists by now breaks the   *)
(* unique constraint, and any INSERT may fail.                             *)
Insert(r) ==
  LET u == req[r].user
  IN /\ req[r].at = "inserting"
     /\ \/ /\ req[r].todo \cap read[u] = {}
           /\ read' = [read EXCEPT ![u] = @ \cup req[r].todo]
           /\ Goes(r, [req[r] EXCEPT !.at = "done"])
        \/ /\ read' = read
           /\ Goes(r, [req[r] EXCEPT !.at = "failed"])
     /\ UNCHANGED <<now, msg, opened, conv, lastRead, overtaken, buried>>

(* The request is answered.                                                *)
Answer(r) ==
  /\ req[r].at \in {"done", "failed"}
  /\ Goes(r, Done)
  /\ UNCHANGED <<now, msg, opened, conv, lastRead, read, overtaken, buried>>

(* markRead inserts one receipt, ON CONFLICT DO NOTHING.  (A receipt of    *)
(* one's own message is left out: no query ever looks at it.)              *)
MarkRead(u, m) ==
  /\ m \in OfOthers(u)
  /\ read' = [read EXCEPT ![u] = @ \cup {m}]
  /\ UNCHANGED <<now, msg, opened, conv, lastRead, req, overtaken, buried>>

-----------------------------------------------------------------------------
Tick ==
  /\ now < MaxTime
  /\ now' = now + 1
  /\ UNCHANGED <<msg, opened, conv, lastRead, read, req, overtaken, buried>>

(* The process dies: transactions roll back, requests are gone.            *)
Crash ==
  /\ opened' = [m \in Messages |-> 0]
  /\ req' = [r \in Requests |-> Done]
  /\ UNCHANGED <<now, msg, conv, lastRead, read, overtaken, buried>>

Next ==
  \/ \E m \in Messages : Begin(m) \/ Commit(m) \/ Rollback(m)
  \/ \E r \in Requests :
       \/ \E m \in Messages : ReadForUpdate(r, m) \/ ReadForRemove(r, m)
       \/ Reload(r) \/ Write(r)
       \/ ReadForRename(r) \/ ReloadConversation(r) \/ Rename(r)
       \/ \E u \in Users : MarkAllRead(r, u) \/ \E m \in Messages : MarkThreadRead(r, u, m)
       \/ Stamp(r) \/ List(r) \/ Compare(r) \/ Insert(r) \/ Answer(r)
  \/ \E u \in Users, m \in Messages : MarkRead(u, m)
  \/ Tick
  \/ Crash

Spec == Init /\ [][Next]_vars

-----------------------------------------------------------------------------
(* A message that was removed while no other change of it was under way    *)
(* stays removed and empty: update refuses deleted messages, and a second  *)
(* remove does no harm.                                                    *)
QuietRemovalFinal == \A m \in buried : msg[m].deleted /\ msg[m].text = None

(* As long as sends commit in the order in which they began, and none does *)
(* while the conversation is read to be named, the inbox shows a newest    *)
(* root message, and the conversation is dated with the newest message,    *)
(* reply or root (send's denormalised columns).                            *)
InboxFollowsSends ==
  ~overtaken /\ Sent # {} =>
    /\ \A m \in Sent : Ms(msg[m].at) <= conv.activity
    /\ \E m \in Sent : Ms(msg[m].at) = conv.activity
    /\ \A m \in Sent : Root(m) =>
         conv.last \in Sent /\ Root(conv.last) /\ msg[m].at <= msg[conv.last].at

(* When markAllRead or markThreadRead has succeeded, every reply it covers *)
(* and that was there when it began has a receipt, whatever other marks    *)
(* ran meanwhile; and of the messages that were there, markAllRead leaves  *)
(* none unread but those of the very millisecond of the mark, unless an    *)
(* older mark of the same user was still to write its time.                *)
MarkedIsRead ==
  \A r \in Requests :
    req[r].at = "done" =>
      /\ \A m \in req[r].known : Covers(req[r], m) => m \in read[req[r].user]
      /\ ~req[r].late =>
           \A m \in req[r].known \cap Unread(req[r].user) :
             Ms(msg[m].at) <= lastRead[req[r].user]

(* remove's comment: "the content of the message is deleted but the record *)
(* stays", and update's: "cannot edit a message that has been deleted".    *)
RemovedIsEmpty == \A m \in Messages : msg[m].deleted => msg[m].text = None
=============================================================================
