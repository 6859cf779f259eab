------------------------------ MODULE WhatsApp ------------------------------
(***************************************************************************)
(* The inbox of a WhatsApp device on top of its session: what arrives on a *)
(* socket (messages.upsert, messaging-history.set, contacts.upsert) and    *)
(* what is sent (sendMessage, startBroadcast) becomes rows of              *)
(* whatsapp_logs and whatsapp_contacts and the count of unread messages in *)
(* Redis that the gateway shows.                                           *)
(*                                                                         *)
(* Every writer looks for its row first and inserts it later; neither      *)
(* table has a unique index.  The same message comes more than once: on an *)
(* old and a new socket, live and in the history, and what was sent here   *)
(* comes back as an echo.  Texts, media and the forms of a number are left *)
(* out; one contact and one tenant are modelled.                           *)
(***************************************************************************)
EXTENDS WaSession, Sequences, Functions

CONSTANTS
  Incoming,      \* messages others send
  Outgoing,      \* messages sendMessage is asked to send
  Pong,          \* the answer to each incoming message, None unless it says /ping
  Recipients,    \* the broadcast: a sequence of outgoing messages
  Handlers,      \* slots for handlers of an arriving message
  Filings,       \* slots for writers of the contact
  MaxDeliveries, \* bound: how often a message arrives
  MaxContacts    \* bound: how many rows the contact may get

ASSUME MessagesAssumption == Incoming \cap Outgoing = {} /\ None \notin Outgoing \cup Handlers
ASSUME PongAssumption == Pong \in [Incoming -> Outgoing \cup {None}]
ASSUME RecipientsAssumption == Recipients \in Seq(Outgoing) /\ Recipients # <<>>
ASSUME BoundsAssumption == MaxDeliveries \in Nat /\ MaxContacts \in Nat

VARIABLES
  log,      \* whatsapp_logs: the rows of each message
  book,     \* whatsapp_contacts: the rows of the contact
  handler,  \* arriving messages being handled
  filing,   \* writers of the contact
  arrived,  \* how often each message has come
  commands, \* Redis: INCR and SET on their way
  unread,   \* Redis: wa:unread:tenant:{id}
  replies,  \* their replies on their way back
  badge,    \* the last count the gateway has emitted
  send,     \* the calls of sendMessage
  cast,     \* the broadcast
  raced,    \* history: messages that were checked while another writer was at work
  bookRaced, \* history: the same for the contact
  cutOff,   \* history: outgoing messages whose call a crash ended once they were sent
  cut       \* history: an emission was lost since the last one

inboxVars ==
  <<log, book, handler, filing, arrived, commands, unread, replies, badge, send, cast,
    raced, bookRaced, cutOff, cut>>
vars == <<sessionVars, inboxVars>>

Messages == Incoming \cup Outgoing

-----------------------------------------------------------------------------
Handler ==
  [at : {"idle", "device", "dedup", "saving", "counting"},
   msg : Messages \cup {None}, live : BOOLEAN]
NoHandler == [at |-> "idle", msg |-> None, live |-> TRUE]

(* row: the row that was found, 0 for none.                                *)
Filing == [at : {"idle", "finding", "saving"}, row : 0..MaxContacts]
NoFiling == [at |-> "idle", row |-> 0]

(* INCR by a handler, SET to 0 by resetUnreadCount (None).                 *)
Command == Handlers \cup {None}
Reply == [by : Command, count : Nat]

(* sock: the socket the call holds, None once that is gone.                *)
Send ==
  [at : {"idle", "device", "number", "composing", "recording", "done", "failed"},
   sock : Sockets \cup {None}, by : {"http", "cast", "ping"}]
NoSend == [at |-> "idle", sock |-> None, by |-> "http"]

(* next: the recipient whose turn it is.                                   *)
Cast == [at : {"idle", "checking", "running", "over"}, next : 1..Len(Recipients)]
NoCast == [at |-> "idle", next |-> 1]

InboxTypeOK ==
  /\ log \in [Messages -> Nat]
  /\ book \in SUBSET (1..MaxContacts)
  /\ handler \in [Handlers -> Handler]
  /\ filing \in [Filings -> Filing]
  /\ arrived \in [Messages -> 0..MaxDeliveries]
  /\ commands \in Seq(Command)
  /\ unread \in Nat
  /\ replies \in Seq(Reply)
  /\ badge \in Nat
  /\ send \in [Outgoing -> Send]
  /\ cast \in Cast
  /\ raced \in SUBSET Messages
  /\ bookRaced \in BOOLEAN
  /\ cutOff \in SUBSET Outgoing
  /\ cut \in BOOLEAN
TypeOK == SessionTypeOK /\ InboxTypeOK

InboxInit ==
  /\ log = [m \in Messages |-> 0]
  /\ book = {}
  /\ handler = [h \in Handlers |-> NoHandler]
  /\ filing = [f \in Filings |-> NoFiling]
  /\ arrived = [m \in Messages |-> 0]
  /\ commands = <<>> /\ unread = 0 /\ replies = <<>> /\ badge = 0
  /\ send = [x \in Outgoing |-> NoSend]
  /\ cast = NoCast
  /\ raced = {} /\ bookRaced = FALSE /\ cutOff = {} /\ cut = FALSE

-----------------------------------------------------------------------------
(* Arriving messages                                                       *)

(* A socket hands over a message: live (messages.upsert; an echo when it   *)
(* was sent from here) or as part of the history, whose handler skips      *)
(* what is not incoming and does not look for the device.                  *)
Receive(h, m, s) ==
  /\ handler[h].at = "idle"
  /\ sock[s].at = "open"
  /\ arrived[m] < MaxDeliveries
  /\ m \in Outgoing => send[m].at \in {"recording", "done"} \/ m \in cutOff
  /\ arrived' = [arrived EXCEPT ![m] = @ + 1]
  /\ \/ handler' = [handler EXCEPT ![h] = [at |-> "device", msg |-> m, live |-> TRUE]]
     \/ /\ m \in Incoming
        /\ handler' = [handler EXCEPT ![h] = [at |-> "dedup", msg |-> m, live |-> FALSE]]
  /\ UNCHANGED <<log, book, filing, commands, unread, replies, badge, send, cast,
                 raced, bookRaced, cutOff, cut>>

(* The device's row is found, with the names of a group's sender.          *)
FindReceiver(h) ==
  /\ handler[h].at = "device"
  /\ handler' = [handler EXCEPT ![h] =
       IF row = "none" THEN NoHandler ELSE [@ EXCEPT !.at = "dedup"]]
  /\ UNCHANGED <<log, book, filing, arrived, commands, unread, replies, badge, send, cast,
                 raced, bookRaced, cutOff, cut>>

(* Others that have looked for the row of m, or need not, and will write.  *)
Writing(m) ==
  \/ \E h \in Handlers : handler[h].at = "saving" /\ handler[h].msg = m
  \/ m \in Outgoing /\ send[m].at = "recording"

(* Mutant of Known: the row is not looked for.                             *)
KnownNever(m) == FALSE

(* findOneBy({messageId, deviceId}) finds a row.                           *)
Known(m) == log[m] > 0

Dedup(h) ==
  LET m == handler[h].msg
  IN /\ handler[h].at = "dedup"
     /\ handler' = [handler EXCEPT ![h] =
          IF Known(m) THEN NoHandler ELSE [@ EXCEPT !.at = "saving"]]
     /\ raced' = IF ~Known(m) /\ Writing(m) THEN raced \cup {m} ELSE raced
     /\ UNCHANGED <<log, book, filing, arrived, commands, unread, replies, badge, send, cast,
                    bookRaced, cutOff, cut>>

(* The contact is written in the background, but not for a group or for a  *)
(* sender whose number is hidden.                                          *)
StartFiling(f) == filing[f].at = "idle" /\ filing' = [filing EXCEPT ![f].at = "finding"]

(* sendMessage's first check, before its first await.                      *)
CanSend == active # None /\ HasUser(active)
StartSend(x, by) ==
  send' = [send EXCEPT ![x] = [at |-> "device", by |-> by,
                               sock |-> IF Alive(active) THEN active ELSE None]]

(* The end of a handler: a /ping that came live is answered, also when its *)
(* row or its count could not be written.  The answer is awaited outside   *)
(* of every try: when it cannot be sent, the rejection ends the process    *)
(* (ProcessCrash).                                                         *)
Finish(h) ==
  LET m == handler[h].msg
      asked == m \in Incoming /\ handler[h].live /\ Pong[m] # None /\ send[Pong[m]].at = "idle"
  IN /\ handler' = [handler EXCEPT ![h] = NoHandler]
     /\ asked => CanSend
     /\ IF asked THEN StartSend(Pong[m], "ping") ELSE UNCHANGED send

(* The media have been loaded, or not, and the row is saved or not.  An    *)
(* incoming live message that was saved is counted.                        *)
SaveLog(h) ==
  LET m == handler[h].msg
  IN /\ handler[h].at = "saving"
     /\ \/ Finish(h) /\ UNCHANGED <<log, filing, commands>>
        \/ /\ log' = [log EXCEPT ![m] = @ + 1]
           /\ \/ /\ m \in Incoming /\ handler[h].live
                 /\ handler' = [handler EXCEPT ![h].at = "counting"]
                 /\ commands' = Append(commands, h)
                 /\ (\E f \in Filings : StartFiling(f)) \/ UNCHANGED filing
                 /\ UNCHANGED send
              \/ /\ m \in Outgoing \/ ~handler[h].live
                 /\ Finish(h)
                 /\ UNCHANGED <<filing, commands>>
     /\ UNCHANGED <<book, arrived, unread, replies, badge, cast,
                    raced, bookRaced, cutOff, cut>>

-----------------------------------------------------------------------------
(* The count of unread messages                                            *)

MarkAllSeen ==
  /\ None \notin Range(commands)
  /\ commands' = Append(commands, None)
  /\ UNCHANGED <<log, book, handler, filing, arrived, unread, replies, badge, send, cast,
                 raced, bookRaced, cutOff, cut>>

(* Redis executes in the order of the connection, or fails the command; a  *)
(* handler goes on without it.                                             *)
Execute ==
  LET by == Head(commands) IN
  /\ commands # <<>>
  /\ commands' = Tail(commands)
  /\ \/ /\ unread' = IF by = None THEN 0 ELSE unread + 1
        /\ replies' = Append(replies, [by |-> by, count |-> unread'])
        /\ UNCHANGED <<handler, send>>
     \/ /\ IF by = None THEN UNCHANGED <<handler, send>> ELSE Finish(by)
        /\ UNCHANGED <<unread, replies>>
  /\ UNCHANGED <<log, book, filing, arrived, badge, cast, raced, bookRaced, cutOff, cut>>

(* Mutant of Emitted: the handler counts for itself.                       *)
EmittedLocally(reply) == badge + 1

(* What emitUnreadUpdate is given.                                         *)
Emitted(reply) == reply.count

(* The reply comes and is emitted to the tenant's room.                    *)
OnReply ==
  LET reply == Head(replies) IN
  /\ replies # <<>>
  /\ replies' = Tail(replies)
  /\ badge' = Emitted(reply)
  /\ cut' = FALSE
  /\ \/ reply.by = None /\ UNCHANGED <<handler, send>>
     \/ reply.by # None /\ Finish(reply.by)
  /\ UNCHANGED <<log, book, filing, arrived, commands, unread, cast, raced, bookRaced, cutOff>>

-----------------------------------------------------------------------------
(* The contact: contacts.upsert, the history, upsertContactFromMessage and *)
(* saveContact all look for it and save it later.                          *)

BeginFiling(f) ==
  /\ StartFiling(f)
  /\ UNCHANGED <<log, book, handler, arrived, commands, unread, replies, badge, send, cast,
                 raced, bookRaced, cutOff, cut>>

FindContact(f) ==
  /\ filing[f].at = "finding"
  /\ \/ \E r \in book : filing' = [filing EXCEPT ![f] = [at |-> "saving", row |-> r]]
     \/ book = {} /\ filing' = [filing EXCEPT ![f].at = "saving"]
  /\ bookRaced' = (bookRaced \/ \E g \in Filings \ {f} : filing[g].at = "saving")
  /\ UNCHANGED <<log, book, handler, arrived, commands, unread, replies, badge, send, cast,
                 raced, cutOff, cut>>

(* Mutant of Kept: a new row whatever was found.                           *)
KeptAnew(f) == 1..MaxContacts \ book

(* What save writes: the row that was found, inserted again if it has been *)
(* deleted since, or a new one.                                            *)
Kept(f) == IF filing[f].row = 0 THEN 1..MaxContacts \ book ELSE {filing[f].row}

SaveContact(f) ==
  /\ filing[f].at = "saving"
  /\ filing' = [filing EXCEPT ![f] = NoFiling]
  /\ \/ UNCHANGED book \* the save fails
     \/ \E r \in Kept(f) : book' = book \cup {r}
  /\ UNCHANGED <<log, handler, arrived, commands, unread, replies, badge, send, cast,
                 raced, bookRaced, cutOff, cut>>

DeleteContact ==
  /\ \E r \in book : book' = book \ {r}
  /\ UNCHANGED <<log, handler, filing, arrived, commands, unread, replies, badge, send, cast,
                 raced, bookRaced, cutOff, cut>>

-----------------------------------------------------------------------------
(* sendMessage                                                             *)

Fails(x) == send' = [send EXCEPT ![x].at = "failed", ![x].sock = None]

(* POST send; it fails at once without a socket that has a user.           *)
SendMessage(x) ==
  /\ send[x].at = "idle" /\ x \notin Range(Recipients) \cup Range(Pong)
  /\ CanSend
  /\ StartSend(x, "http")
  /\ UNCHANGED <<log, book, handler, filing, arrived, commands, unread, replies, badge, cast,
                 raced, bookRaced, cutOff, cut>>

(* The device is found, of this tenant; the number is on WhatsApp, or      *)
(* cannot be checked within five seconds; typing is simulated; media and   *)
(* quotation are put together.  The tenant is that of the request, for an  *)
(* answer that of the request whose call made the socket: a socket made at *)
(* start-up has none and cannot answer (ProcessCrash).                     *)
Prepare(x) ==
  /\ \/ send[x].at = "device" /\ row # "none" /\ send' = [send EXCEPT ![x].at = "number"]
     \/ send[x].at = "number" /\ send' = [send EXCEPT ![x].at = "composing"]
  /\ UNCHANGED <<log, book, handler, filing, arrived, commands, unread, replies, badge, cast,
                 raced, bookRaced, cutOff, cut>>

(* sock.sendMessage on the socket of the beginning, which must be open     *)
(* still; the phone network has it now.                                    *)
Deliver(x) ==
  /\ send[x].at = "composing"
  /\ send[x].sock # None /\ sock[send[x].sock].at = "open"
  /\ send' = [send EXCEPT ![x].at = "recording"]
  /\ UNCHANGED <<log, book, handler, filing, arrived, commands, unread, replies, badge, cast,
                 raced, bookRaced, cutOff, cut>>

(* Mutant of Unrecorded: the failure of the save is that of the call.     *)
UnrecordedFails == "failed"

(* How the call ends when the row cannot be saved: the failure is logged.  *)
Unrecorded == "done"

(* The row of what was sent, without a look for one.                       *)
Record(x) ==
  /\ send[x].at = "recording"
  /\ \/ /\ log' = [log EXCEPT ![x] = @ + 1]
        /\ send' = [send EXCEPT ![x].at = "done", ![x].sock = None]
     \/ /\ send' = [send EXCEPT ![x].at = Unrecorded, ![x].sock = None]
        /\ UNCHANGED log
  /\ UNCHANGED <<book, handler, filing, arrived, commands, unread, replies, badge, cast,
                 raced, bookRaced, cutOff, cut>>

(* No row, another tenant's, a number without WhatsApp, a closed socket:   *)
(* for the answer to /ping that is the end of the process.                 *)
SendFails(x) ==
  /\ send[x].at \in {"device", "number", "composing"} /\ send[x].by # "ping"
  /\ Fails(x)
  /\ UNCHANGED <<log, book, handler, filing, arrived, commands, unread, replies, badge, cast,
                 raced, bookRaced, cutOff, cut>>

-----------------------------------------------------------------------------
(* startBroadcast and runBroadcastBackground                               *)

StartBroadcast ==
  /\ cast.at = "idle" /\ CanSend
  /\ cast' = [cast EXCEPT !.at = "checking"]
  /\ UNCHANGED <<log, book, handler, filing, arrived, commands, unread, replies, badge, send,
                 raced, bookRaced, cutOff, cut>>

(* Then the request is answered, and the rest runs in the background.      *)
CheckBroadcast ==
  /\ cast.at = "checking"
  /\ \/ row # "none" /\ cast' = [cast EXCEPT !.at = "running"]
     \/ cast' = [cast EXCEPT !.at = "over"]
  /\ UNCHANGED <<log, book, handler, filing, arrived, commands, unread, replies, badge, send,
                 raced, bookRaced, cutOff, cut>>

(* Mutant of Advance: the loop runs one too far.                           *)
AdvancePast ==
  IF cast.next <= Len(Recipients) THEN [cast EXCEPT !.next = @ + 1] ELSE [cast EXCEPT !.at = "over"]

(* The loop's next turn.                                                   *)
Advance ==
  IF cast.next < Len(Recipients) THEN [cast EXCEPT !.next = @ + 1] ELSE [cast EXCEPT !.at = "over"]

(* One recipient after the other, each through the socket registered then. *)
NextRecipient ==
  LET x == Recipients[cast.next] IN
  /\ cast.at = "running"
  /\ \/ send[x].at = "idle" /\ CanSend /\ StartSend(x, "cast") /\ UNCHANGED cast
     \/ send[x].at = "idle" /\ ~CanSend /\ Fails(x) /\ UNCHANGED cast
     \/ /\ send[x].at \in {"done", "failed"}
        /\ cast' = Advance
        /\ UNCHANGED send
  /\ UNCHANGED <<log, book, handler, filing, arrived, commands, unread, replies, badge,
                 raced, bookRaced, cutOff, cut>>

-----------------------------------------------------------------------------
(* The session reaches into the inbox                                      *)

(* A first login and clearData empty the tenant's logs, then its contacts. *)
ResetInbox ==
  /\ \/ /\ (\E s \in Sockets : ResetLogs(s)) \/ ClearLogs
        /\ log' = [m \in Messages |-> 0] \/ UNCHANGED log
        /\ UNCHANGED book
     \/ /\ (\E s \in Sockets : ResetContacts(s)) \/ ClearContacts
        /\ book' = {} \/ UNCHANGED book
        /\ UNCHANGED log
  /\ UNCHANGED <<handler, filing, arrived, commands, unread, replies, badge, send, cast,
                 raced, bookRaced, cutOff, cut>>

(* Calls of sendMessage lose the socket that goes.                         *)
LoseSocket ==
  /\ SessionStep
  /\ send' = [x \in Outgoing |->
       IF send[x].sock # None /\ sock'[send[x].sock].at = "none"
       THEN [send[x] EXCEPT !.sock = None] ELSE send[x]]
  /\ UNCHANGED <<log, book, handler, filing, arrived, commands, unread, replies, badge, cast,
                 raced, bookRaced, cutOff, cut>>

(* What was under way in the process is lost with it: handlers, replies,   *)
(* the rest of a broadcast, and rows of what was sent already.  Redis may  *)
(* still execute what it was sent.                                         *)
CrashInbox ==
  /\ handler' = [h \in Handlers |-> NoHandler]
  /\ filing' = [f \in Filings |-> NoFiling]
  /\ commands' = <<>> /\ replies' = <<>>
  /\ unread' \in {unread, IF commands = <<>> THEN unread
                          ELSE IF Head(commands) = None THEN 0 ELSE unread + 1}
  /\ cut' = (cut \/ commands \o replies # <<>>)
  /\ cutOff' = cutOff \cup {x \in Outgoing : send[x].at = "recording"}
  /\ send' = [x \in Outgoing |-> IF send[x].at \in {"idle", "done"} THEN send[x]
                                 ELSE [send[x] EXCEPT !.at = "failed", !.sock = None]]
  /\ cast' = IF cast.at = "idle" THEN cast ELSE [cast EXCEPT !.at = "over"]
  /\ UNCHANGED <<log, book, arrived, badge, raced, bookRaced>>

ProcessCrash == Crash /\ CrashInbox

InboxStep ==
  \/ \E h \in Handlers :
       \/ \E m \in Messages, s \in Sockets : Receive(h, m, s)
       \/ FindReceiver(h) \/ Dedup(h) \/ SaveLog(h)
  \/ \E f \in Filings : BeginFiling(f) \/ FindContact(f) \/ SaveContact(f)
  \/ DeleteContact
  \/ MarkAllSeen \/ Execute \/ OnReply
  \/ \E x \in Outgoing : SendMessage(x) \/ Prepare(x) \/ Deliver(x) \/ Record(x) \/ SendFails(x)
  \/ StartBroadcast \/ CheckBroadcast \/ NextRecipient

Init == SessionInit /\ InboxInit
Next ==
  \/ InboxStep /\ UNCHANGED sessionVars
  \/ LoseSocket \/ ResetInbox \/ ProcessCrash

Spec == Init /\ [][Next]_vars /\ SessionFairness

-----------------------------------------------------------------------------
(* A message is logged once, however often it arrives - live, in the       *)
(* history, as the echo of what was sent - unless two of its writers were  *)
(* at work at one time: the check for duplicates only fails for those.     *)
LoggedOnce == \A m \in Messages \ raced : log[m] <= 1

(* The contact has one row, unless two of its writers overlapped, however  *)
(* often it is deleted while one is at work.                               *)
OneContact == ~bookRaced => Cardinality(book) <= 1

(* The badge follows Redis: when nothing is under way between them, the    *)
(* count shown last is the count in Redis, also when messages arrive while *)
(* the count is being reset.  A crash may keep an emission back.           *)
BadgeIsUnread == commands = <<>> /\ replies = <<>> /\ ~cut => badge = unread

(* A call of sendMessage that failed has left nothing behind: no row, and  *)
(* no echo of it comes from the phone network, so that it may be made      *)
(* again and nothing is sent twice.  It holds because the save of the row, *)
(* after the message has gone out, cannot fail the call, also when the     *)
(* echo has come and was logged meanwhile.  Only a crash of the process    *)
(* fails a call whose message is out.                                      *)
FailedIsUnsent == \A x \in Outgoing \ cutOff :
  send[x].at = "failed" => log[x] = 0 /\ arrived[x] = 0
=============================================================================
