------------------------- MODULE ChatMessagesProofs -------------------------
(***************************************************************************)
(* Proofs about ChatMessages, for every set of users, messages and request *)
(* slots and every granularity and bound of the clock.                     *)
(***************************************************************************)
EXTENDS ChatMessages, TLAPS

(* A Date is a time of the clock that is not later, and cutting times to   *)
(* milliseconds keeps their order.                                         *)
LEMMA MsBound == ASSUME NEW t \in Nat PROVE Ms(t) \in 0 .. t
<1>1. t % TicksPerMs \in 0 .. t
  BY TimeAssumption
<1> QED
  BY <1>1 DEF Ms

LEMMA MsMonotone ==
  ASSUME NEW s \in Nat, NEW t \in Nat, s <= t PROVE Ms(s) <= Ms(t)
<1> DEFINE k == TicksPerMs
           p == s \div k
           q == t \div k
<1>1. k \in Nat \ {0}
  BY TimeAssumption
<1>2. /\ p \in Nat /\ q \in Nat
      /\ s % k \in 0 .. (k - 1) /\ t % k \in 0 .. (k - 1)
      /\ s = k * p + (s % k) /\ t = k * q + (t % k)
  BY <1>1
<1> QED
  BY <1>1, <1>2 DEF Ms

LEMMA MsOfTime == ASSUME NEW t \in Time PROVE Ms(t) \in Time /\ Ms(t) <= t
<1>1. t \in Nat /\ MaxTime \in Nat
  BY TimeAssumption DEF Time
<1> QED
  BY <1>1, MsBound DEF Time

-----------------------------------------------------------------------------
LEMMA DoneType == Done \in Request /\ Done.at = "idle" /\ NoRow \in Row
<1>1. NoRow \in Row
  BY TimeAssumption DEF NoRow, Row, Time
<1>2. 0 \in Time
  BY TimeAssumption DEF Time
<1> QED
  BY <1>1, <1>2 DEF Done, Request, Phase, Conversation

(* A request that goes on, and the others, which do not.                   *)
LEMMA GoesStep ==
  ASSUME TypeOK, NEW r \in Requests, NEW request \in Request, Goes(r, request)
  PROVE  /\ req' \in [Requests -> Request]
         /\ req'[r] = request
         /\ \A q \in Requests : q # r => req'[q] = req[q]
BY DEF Goes, TypeOK

(* The entity that update or remove is going to save.                      *)
LEMMA ReadStep ==
  ASSUME TypeOK, NEW r \in Requests, NEW m \in Messages, NEW e \in Row,
         ReadRow(r, m, e)
  PROVE  /\ req' \in [Requests -> Request]
         /\ req'[r].at = "saving" /\ req'[r].message = m /\ req'[r].entity = e
         /\ req'[r].late = (Changing(m) # {})
         /\ \A q \in Changing(m) \ {r} : req'[q] = [req[q] EXCEPT !.late = TRUE]
         /\ \A q \in Requests \ {r} : q \notin Changing(m) => req'[q] = req[q]
         /\ req[r].at = "idle"
         /\ UNCHANGED <<now, msg, opened, conv, lastRead, read, overtaken, buried>>
<1> DEFINE mine == [Done EXCEPT !.at = "saving", !.message = m, !.entity = e,
                                !.late = Changing(m) # {}]
<1>1. mine \in Request
  BY DoneType DEF Request, Phase
<1>2. \A q \in Requests : req[q] \in Request /\ [req[q] EXCEPT !.late = TRUE] \in Request
  BY DEF TypeOK, Request
<1>3. mine.at = "saving" /\ mine.message = m /\ mine.entity = e
      /\ mine.late = (Changing(m) # {})
  BY DEF Done
<1> HIDE DEF mine
<1>4. req' \in [Requests -> Request] /\ req'[r] = mine
  BY <1>1, <1>2 DEF ReadRow, mine
<1>5. Changing(m) \in SUBSET Requests
  BY DEF Changing
<1> HIDE DEF mine
<1> QED
  BY <1>3, <1>4, <1>5 DEF ReadRow

(* A save has its message, a mark its user.                                *)
Form(request) ==
  /\ request.at \in {"saving", "writing"} => request.message \in Messages
  /\ request.at \in {"stamping", "listing", "comparing", "inserting", "done", "failed"}
       => request.user \in Users

FormInv == \A q \in Requests : Form(req[q])

LEMMA FormGoes ==
  ASSUME TypeOK, FormInv, NEW r \in Requests, NEW request \in Request,
         Goes(r, request), Form(request)
  PROVE  FormInv'
<1>1. ASSUME NEW q \in Requests PROVE Form(req'[q])
  <2>1. CASE q = r
    BY <2>1, GoesStep
  <2>2. CASE q # r
    BY <2>2, GoesStep DEF FormInv
  <2> QED
    BY <2>1, <2>2
<1> QED
  BY <1>1 DEF FormInv, Form

LEMMA ReadSame ==
  ASSUME TypeOK, NEW r \in Requests, NEW m \in Messages, NEW e \in Row,
         ReadRow(r, m, e), NEW q \in Requests \ {r}
  PROVE  /\ req'[q].at = req[q].at /\ req'[q].user = req[q].user
         /\ req'[q].message = req[q].message /\ req'[q].entity = req[q].entity
         /\ req'[q].inbox = req[q].inbox
         /\ req'[q].dirty = req[q].dirty /\ req'[q].stamp = req[q].stamp
         /\ req'[q].todo = req[q].todo /\ req'[q].known = req[q].known
         /\ req'[q].late = (req[q].late \/ q \in Changing(m))
<1>1. req[q] \in Request
  BY DEF TypeOK
<1>2. CASE q \in Changing(m)
  <2>1. req'[q] = [req[q] EXCEPT !.late = TRUE]
    BY <1>2, ReadStep
  <2> QED
    BY <1>1, <1>2, <2>1 DEF Request
<1>3. CASE q \notin Changing(m)
  <2>1. req'[q] = req[q]
    BY <1>3, ReadStep
  <2>2. req[q].late = (req[q].late \/ q \in Changing(m))
    BY <1>1, <1>3 DEF Request
  <2> QED
    BY <2>1, <2>2
<1> QED
  BY <1>2, <1>3

Others(r) == \A q \in Requests : q # r => req'[q] = req[q]

(* What the steps of a renaming make of its request and of the inbox.      *)
LEMMA NamingStep ==
  ASSUME TypeOK, NEW r \in Requests,
         ReadForRename(r) \/ ReloadConversation(r) \/ Rename(r)
  PROVE  /\ UNCHANGED <<now, msg, opened, lastRead, read, overtaken, buried>>
         /\ conv' \in Conversation
         /\ req' \in [Requests -> Request] /\ Others(r)
         /\ req'[r].at \in {"idle", "naming", "renaming"}
         /\ req'[r].at = "naming" => req'[r].inbox = conv
         /\ req'[r].at = "renaming" => req[r].at = "naming" /\ req[r].inbox # conv
         /\ conv' # conv => req[r].at = "renaming"
<1>1. CASE ReadForRename(r)
  <2> DEFINE new == [Done EXCEPT !.at = "naming", !.inbox = conv]
  <2>1. new \in Request /\ new.at = "naming" /\ new.inbox = conv
    BY DoneType DEF TypeOK, Request, Phase
  <2>2. Goes(r, new)
    BY <1>1 DEF ReadForRename
  <2> HIDE DEF new
  <2>3. req' \in [Requests -> Request] /\ req'[r] = new /\ Others(r)
    BY <2>1, <2>2, GoesStep DEF Others
  <2> QED
    BY <1>1, <2>1, <2>3 DEF ReadForRename, TypeOK
<1>2. CASE ReloadConversation(r)
  <2> DEFINE dirty == {c \in InboxColumn : req[r].inbox[c] # conv[c]}
             new == [req[r] EXCEPT !.at = "renaming", !.dirty = dirty]
  <2>1. dirty \in SUBSET InboxColumn /\ (dirty # {} => req[r].inbox # conv)
    OBVIOUS
  <2>2. Goes(r, IF dirty = {} THEN Done ELSE new) /\ req[r].at = "naming"
    BY <1>2 DEF ReloadConversation
  <2> HIDE DEF dirty
  <2>3. new \in Request /\ new.at = "renaming"
    BY <2>1 DEF TypeOK, Request, Phase
  <2> HIDE DEF new
  <2>4. PICK to \in Request : /\ Goes(r, to)
                              /\ to = Done \/ (to = new /\ req[r].inbox # conv)
    BY <2>1, <2>2, <2>3, DoneType
  <2>5. req' \in [Requests -> Request] /\ req'[r] = to /\ Others(r)
    BY <2>4, GoesStep DEF Others
  <2> QED
    BY <1>2, <2>2, <2>3, <2>4, <2>5, DoneType DEF ReloadConversation, TypeOK
<1>3. CASE Rename(r)
  <2>1. req[r].inbox \in Conversation /\ conv \in Conversation
    BY DEF TypeOK, Request
  <2>2. conv' \in Conversation /\ req[r].at = "renaming" /\ Goes(r, Done)
    BY <1>3, <2>1 DEF Rename, Conversation
  <2>3. req' \in [Requests -> Request] /\ req'[r] = Done /\ Others(r)
    BY <2>2, DoneType, GoesStep DEF Others
  <2> QED
    BY <1>3, <2>2, <2>3, DoneType DEF Rename
<1> QED
  BY <1>1, <1>2, <1>3

LEMMA TypeStep == TypeOK /\ FormInv /\ [Next]_vars => TypeOK'
<1> SUFFICES ASSUME TypeOK, FormInv, [Next]_vars PROVE TypeOK'
  OBVIOUS
<1>0. 1 \in Time /\ 0 \in Time
  BY TimeAssumption DEF Time
<1>1. ASSUME NEW m \in Messages, Begin(m) PROVE TypeOK'
  BY <1>1 DEF Begin, TypeOK
<1>2. ASSUME NEW m \in Messages, Commit(m) PROVE TypeOK'
  <2>1. opened[m] \in Time /\ Ms(opened[m]) \in Time
    BY MsOfTime DEF TypeOK
  <2>2. [at |-> opened[m], text |-> "first", deleted |-> FALSE] \in Row
    BY <2>1 DEF Row
  <2>3. msg' \in [Messages -> Row] /\ opened' \in [Messages -> Time]
    BY <1>0, <1>2, <2>2 DEF Commit, TypeOK
  <2>4. conv' \in Conversation
    BY <1>2, <2>1 DEF Commit, Inbox, TypeOK, Conversation
  <2>5. overtaken' \in BOOLEAN
    BY <1>2 DEF Commit
  <2> QED
    BY <1>2, <2>3, <2>4, <2>5 DEF Commit, TypeOK
<1>3. ASSUME NEW m \in Messages, Rollback(m) PROVE TypeOK'
  BY <1>0, <1>3 DEF Rollback, TypeOK
<1>4. ASSUME NEW r \in Requests, NEW m \in Messages, ReadForUpdate(r, m) PROVE TypeOK'
  <2>1. [msg[m] EXCEPT !.text = "edited"] \in Row
    BY DEF TypeOK, Row
  <2>2. ReadRow(r, m, [msg[m] EXCEPT !.text = "edited"])
    BY <1>4 DEF ReadForUpdate
  <2> QED
    BY <2>1, <2>2, ReadStep DEF TypeOK
<1>5. ASSUME NEW r \in Requests, NEW m \in Messages, ReadForRemove(r, m) PROVE TypeOK'
  <2>1. [msg[m] EXCEPT !.text = None, !.deleted = TRUE] \in Row
    BY DEF TypeOK, Row
  <2>2. ReadRow(r, m, [msg[m] EXCEPT !.text = None, !.deleted = TRUE])
    BY <1>5 DEF ReadForRemove
  <2> QED
    BY <2>1, <2>2, ReadStep DEF TypeOK
<1>6. ASSUME NEW r \in Requests, Reload(r) PROVE TypeOK'
  <2> DEFINE d == {c \in Column : req[r].entity[c] # msg[req[r].message][c]}
  <2>1. [req[r] EXCEPT !.at = "writing", !.dirty = d] \in Request
    BY DEF TypeOK, Request, Phase
  <2>2. Goes(r, [req[r] EXCEPT !.at = "writing", !.dirty = d])
    BY <1>6 DEF Reload
  <2>3. req' \in [Requests -> Request]
    BY <2>1, <2>2, GoesStep
  <2> QED
    BY <1>6, <2>3 DEF Reload, TypeOK
<1>7. ASSUME NEW r \in Requests, Write(r) PROVE TypeOK'
  <2> DEFINE m == req[r].message
             e == req[r].entity
  <2>1. req' \in [Requests -> Request]
    BY <1>7, DoneType, GoesStep DEF Write
  <2>2. e \in Row
    BY DEF TypeOK, Request
  <2>3. msg' \in [Messages -> Row]
    BY <1>7, <2>2 DEF Write, TypeOK, Row, Column
  <2>4. m \in Messages
    BY <1>7 DEF Write, FormInv, Form
  <2>5. buried' \in {buried, buried \cup {m}}
    BY <1>7 DEF Write
  <2>6. buried' \in SUBSET Messages
    BY <2>4, <2>5 DEF TypeOK
  <2> QED
    BY <1>7, <2>1, <2>3, <2>6 DEF Write, TypeOK
<1>8. ASSUME NEW r \in Requests, NEW u \in Users, MarkAllRead(r, u) PROVE TypeOK'
  <2> DEFINE q == [Done EXCEPT !.at = "stamping", !.user = u, !.stamp = Ms(now),
                     !.known = OfOthers(u),
                     !.late = \E p \in Requests : req[p].at = "stamping" /\ req[p].user = u]
  <2>1. Ms(now) \in Time /\ OfOthers(u) \in SUBSET Messages
    BY MsOfTime DEF TypeOK, OfOthers, Sent
  <2>2. q \in Request
    BY <2>1, DoneType DEF Request, Phase
  <2>3. Goes(r, q)
    BY <1>8 DEF MarkAllRead
  <2> QED
    BY <1>8, <2>2, <2>3, GoesStep DEF MarkAllRead, TypeOK
<1>9. ASSUME NEW r \in Requests, Stamp(r) PROVE TypeOK'
  <2>1. [req[r] EXCEPT !.at = "listing", !.stamp = 0] \in Request
    BY <1>0 DEF TypeOK, Request, Phase
  <2>2. req' \in [Requests -> Request]
    BY <1>9, <2>1, GoesStep DEF Stamp
  <2>3. req[r].stamp \in Time
    BY DEF TypeOK, Request
  <2> QED
    BY <1>9, <2>2, <2>3 DEF Stamp, TypeOK
<1>10. ASSUME NEW r \in Requests, NEW u \in Users, NEW m \in Messages,
              MarkThreadRead(r, u, m)
       PROVE  TypeOK'
  <2> DEFINE q == [Done EXCEPT !.at = "listing", !.user = u, !.message = m,
                               !.known = OfOthers(u), !.late = TRUE]
  <2>1. q \in Request
    BY DoneType DEF Request, Phase, OfOthers, Sent
  <2>2. Goes(r, q)
    BY <1>10 DEF MarkThreadRead
  <2> QED
    BY <1>10, <2>1, <2>2, GoesStep DEF MarkThreadRead, TypeOK
<1>11. ASSUME NEW r \in Requests, List(r) PROVE TypeOK'
  <2> DEFINE found == {m \in OfOthers(req[r].user) : Covers(req[r], m)}
             q == [req[r] EXCEPT !.at = IF found = {} THEN "done" ELSE "comparing",
                                 !.todo = found]
  <2>1. found \in SUBSET Messages
    BY DEF OfOthers, Sent
  <2> HIDE DEF found
  <2>2. q \in Request
    BY <2>1 DEF TypeOK, Request, Phase
  <2>3. Goes(r, q)
    BY <1>11 DEF List, found
  <2> QED
    BY <1>11, <2>2, <2>3, GoesStep DEF List, TypeOK
<1>12. ASSUME NEW r \in Requests, Compare(r) PROVE TypeOK'
  <2> DEFINE q == [req[r] EXCEPT !.at = IF Missing(req[r]) = {} THEN "done" ELSE "inserting",
                                 !.todo = Missing(req[r])]
  <2>1. Missing(req[r]) \in SUBSET Messages
    BY DEF Missing, TypeOK, Request
  <2>2. q \in Request
    BY <2>1 DEF TypeOK, Request, Phase
  <2>3. Goes(r, q)
    BY <1>12 DEF Compare
  <2> QED
    BY <1>12, <2>2, <2>3, GoesStep DEF Compare, TypeOK
<1>13. ASSUME NEW r \in Requests, Insert(r) PROVE TypeOK'
  <2>1. /\ [req[r] EXCEPT !.at = "done"] \in Request
        /\ [req[r] EXCEPT !.at = "failed"] \in Request
    BY DEF TypeOK, Request, Phase
  <2>2. req' \in [Requests -> Request]
    BY <1>13, <2>1, GoesStep DEF Insert
  <2>3. read' \in [Users -> SUBSET Messages]
    BY <1>13 DEF Insert, TypeOK, Request
  <2> QED
    BY <1>13, <2>2, <2>3 DEF Insert, TypeOK
<1>14. ASSUME NEW r \in Requests, Answer(r) PROVE TypeOK'
  BY <1>14, DoneType, GoesStep DEF Answer, TypeOK
<1>15. ASSUME NEW u \in Users, NEW m \in Messages, MarkRead(u, m) PROVE TypeOK'
  BY <1>15 DEF MarkRead, TypeOK
<1>16. ASSUME Tick PROVE TypeOK'
  <2>1. now' \in Time \ {0}
    BY <1>16, TimeAssumption DEF Tick, TypeOK, Time
  <2> QED
    BY <1>16, <2>1 DEF Tick, TypeOK
<1>17. ASSUME Crash PROVE TypeOK'
  BY <1>0, <1>17, DoneType DEF Crash, TypeOK
<1>18. ASSUME UNCHANGED vars PROVE TypeOK'
  BY <1>18 DEF vars, TypeOK
<1>19. ASSUME NEW r \in Requests, ReadForRename(r) \/ ReloadConversation(r) \/ Rename(r)
       PROVE  TypeOK'
  BY <1>19, NamingStep DEF TypeOK
<1> QED
  BY <1>1, <1>2, <1>3, <1>4, <1>5, <1>6, <1>7, <1>8, <1>9, <1>10, <1>11, <1>12,
     <1>13, <1>14, <1>15, <1>16, <1>17, <1>18, <1>19 DEF Next

LEMMA FormStep == TypeOK /\ FormInv /\ [Next]_vars => FormInv'
<1> SUFFICES ASSUME TypeOK, FormInv, [Next]_vars PROVE FormInv'
  OBVIOUS
<1>0. \A q \in Requests : req[q] \in Request
  BY DEF TypeOK
<1>1. ASSUME NEW r \in Requests, NEW m \in Messages, NEW e \in Row, ReadRow(r, m, e)
      PROVE  FormInv'
  <2>1. ASSUME NEW q \in Requests PROVE Form(req'[q])
    <3>1. CASE q = r
      <4>1. req'[q].at = "saving" /\ req'[q].message = m
        BY <1>1, <3>1, ReadStep
      <4> QED
        BY <4>1 DEF Form
    <3>2. CASE q # r
      BY <1>1, <3>2, ReadSame DEF Form, FormInv
    <3> QED
      BY <3>1, <3>2
  <2> QED
    BY <2>1 DEF FormInv, Form
<1>2. ASSUME NEW r \in Requests, NEW m \in Messages, ReadForUpdate(r, m) PROVE FormInv'
  <2>1. [msg[m] EXCEPT !.text = "edited"] \in Row
    BY DEF TypeOK, Row
  <2> QED
    BY <1>1, <1>2, <2>1 DEF ReadForUpdate
<1>3. ASSUME NEW r \in Requests, NEW m \in Messages, ReadForRemove(r, m) PROVE FormInv'
  <2>1. [msg[m] EXCEPT !.text = None, !.deleted = TRUE] \in Row
    BY DEF TypeOK, Row
  <2> QED
    BY <1>1, <1>3, <2>1 DEF ReadForRemove
<1>4. ASSUME NEW r \in Requests, Reload(r) PROVE FormInv'
  <2>1. PICK d \in SUBSET Column : Goes(r, [req[r] EXCEPT !.at = "writing", !.dirty = d])
    BY <1>4 DEF Reload
  <2> DEFINE q == [req[r] EXCEPT !.at = "writing", !.dirty = d]
  <2>2. q \in Request /\ q.at = "writing" /\ q.message = req[r].message
    BY <1>0 DEF Request, Phase
  <2>3. q.message \in Messages
    BY <1>4, <2>2 DEF Reload, FormInv, Form
  <2>4. Form(q)
    BY <2>2, <2>3 DEF Form
  <2> QED
    BY <2>1, <2>2, <2>4, FormGoes
<1>5. Form(Done)
  BY DoneType DEF Form
<1>6. ASSUME NEW r \in Requests, Goes(r, Done) PROVE FormInv'
  BY <1>5, <1>6, DoneType, FormGoes
<1>7. ASSUME NEW r \in Requests, NEW u \in Users, MarkAllRead(r, u) PROVE FormInv'
  <2>1. Ms(now) \in Time /\ OfOthers(u) \in SUBSET Messages
    BY MsOfTime DEF TypeOK, OfOthers, Sent
  <2>2. PICK b \in BOOLEAN :
          Goes(r, [Done EXCEPT !.at = "stamping", !.user = u, !.stamp = Ms(now),
                               !.known = OfOthers(u), !.late = b])
    BY <1>7 DEF MarkAllRead
  <2> DEFINE q == [Done EXCEPT !.at = "stamping", !.user = u, !.stamp = Ms(now),
                               !.known = OfOthers(u), !.late = b]
  <2>3. q \in Request
    BY <2>1, DoneType DEF Request, Phase
  <2>4. Form(q)
    BY DoneType DEF Form, Request
  <2> QED
    BY <2>2, <2>3, <2>4, FormGoes
<1>8. ASSUME NEW r \in Requests, NEW u \in Users, NEW m \in Messages, MarkThreadRead(r, u, m)
      PROVE  FormInv'
  <2> DEFINE q == [Done EXCEPT !.at = "listing", !.user = u, !.message = m,
                               !.known = OfOthers(u), !.late = TRUE]
  <2>1. q \in Request
    BY DoneType DEF Request, Phase, OfOthers, Sent
  <2>2. Form(q)
    BY DoneType DEF Form, Request
  <2> QED
    BY <1>8, <2>1, <2>2, FormGoes DEF MarkThreadRead
<1>9. ASSUME NEW r \in Requests, req[r].at \in {"stamping", "listing", "comparing", "inserting"},
             NEW q \in Request, Goes(r, q), q.user = req[r].user,
             q.at \in {"listing", "comparing", "inserting", "done", "failed"}
      PROVE  FormInv'
  <2>1. Form(q)
    BY <1>9 DEF FormInv, Form
  <2> QED
    BY <1>9, <2>1, FormGoes
<1>10. ASSUME NEW r \in Requests, Stamp(r) PROVE FormInv'
  <2> DEFINE q == [req[r] EXCEPT !.at = "listing", !.stamp = 0]
  <2>0. 0 \in Time
    BY TimeAssumption DEF Time
  <2>1. q \in Request /\ q.at = "listing" /\ q.user = req[r].user
    BY <1>0, <2>0 DEF Request, Phase
  <2>2. Goes(r, q) /\ req[r].at = "stamping"
    BY <1>10 DEF Stamp
  <2> QED
    BY <1>9, <2>1, <2>2
<1>11. ASSUME NEW r \in Requests, List(r) PROVE FormInv'
  <2> DEFINE found == {m \in OfOthers(req[r].user) : Covers(req[r], m)}
             q == [req[r] EXCEPT !.at = IF found = {} THEN "done" ELSE "comparing",
                                 !.todo = found]
  <2>1. found \in SUBSET Messages
    BY DEF OfOthers, Sent
  <2> HIDE DEF found
  <2>2. q \in Request /\ q.at \in {"comparing", "done"} /\ q.user = req[r].user
    BY <1>0, <2>1 DEF Request, Phase
  <2>3. Goes(r, q) /\ req[r].at = "listing"
    BY <1>11 DEF List, found
  <2> QED
    BY <1>9, <2>2, <2>3
<1>12. ASSUME NEW r \in Requests, Compare(r) PROVE FormInv'
  <2> DEFINE q == [req[r] EXCEPT !.at = IF Missing(req[r]) = {} THEN "done" ELSE "inserting",
                                 !.todo = Missing(req[r])]
  <2>1. Missing(req[r]) \in SUBSET Messages
    BY <1>0 DEF Missing, Request
  <2>2. q \in Request /\ q.at \in {"inserting", "done"} /\ q.user = req[r].user
    BY <1>0, <2>1 DEF Request, Phase
  <2>3. Goes(r, q) /\ req[r].at = "comparing"
    BY <1>12 DEF Compare
  <2> QED
    BY <1>9, <2>2, <2>3
<1>13. ASSUME NEW r \in Requests, Insert(r) PROVE FormInv'
  <2>1. ASSUME NEW to \in {"done", "failed"}, Goes(r, [req[r] EXCEPT !.at = to])
        PROVE  FormInv'
    <3> DEFINE q == [req[r] EXCEPT !.at = to]
    <3>1. q \in Request /\ q.at = to /\ q.user = req[r].user
      BY <1>0 DEF Request, Phase
    <3> QED
      BY <1>9, <1>13, <2>1, <3>1 DEF Insert
  <2> QED
    BY <1>13, <2>1 DEF Insert
<1>14. ASSUME UNCHANGED req PROVE FormInv'
  BY <1>14 DEF FormInv, Form
<1>15. ASSUME Crash PROVE FormInv'
  BY <1>5, <1>15 DEF Crash, FormInv, Form
<1>16. ASSUME NEW r \in Requests, ReadForRename(r) \/ ReloadConversation(r) \/ Rename(r)
       PROVE  FormInv'
  BY <1>16, NamingStep DEF FormInv, Form, Others
<1> QED
  BY <1>2, <1>3, <1>4, <1>6, <1>7, <1>8, <1>10, <1>11, <1>12, <1>13, <1>14, <1>15, <1>16
     DEF Next, vars, Begin, Commit, Rollback, Write, Answer, MarkRead, Tick

LEMMA InitTypes == Init => TypeOK /\ FormInv
<1> SUFFICES ASSUME Init PROVE TypeOK /\ FormInv
  OBVIOUS
<1>1. 0 \in Time /\ 1 \in Time
  BY TimeAssumption DEF Time
<1>2. req \in [Requests -> Request] /\ msg \in [Messages -> Row]
  BY DoneType DEF Init
<1>3. /\ opened \in [Messages -> Time] /\ lastRead \in [Users -> Time]
      /\ now \in Time \ {0}
      /\ conv \in Conversation
  BY <1>1 DEF Init, Conversation
<1>4. TypeOK
  BY <1>2, <1>3 DEF Init, TypeOK
<1>5. FormInv
  BY DoneType DEF Init, FormInv, Form
<1> QED
  BY <1>4, <1>5

(* Every state is well typed.                                              *)
THEOREM MessagesTypeOK == Spec => []TypeOK
<1>1. TypeOK /\ FormInv /\ [Next]_vars => (TypeOK /\ FormInv)'
  BY TypeStep, FormStep
<1> QED
  BY <1>1, InitTypes, PTL DEF Spec

-----------------------------------------------------------------------------
(* A read mark goes on for the same user, message and known messages.      *)
GoesOn(r) ==
  /\ req'[r].user = req[r].user /\ req'[r].message = req[r].message
  /\ req'[r].known = req[r].known /\ req'[r].late = req[r].late
  /\ Others(r)

LEMMA MarkAllStep ==
  ASSUME TypeOK, NEW r \in Requests, NEW u \in Users, MarkAllRead(r, u)
  PROVE  /\ req[r].at = "idle" /\ req'[r].at = "stamping" /\ req'[r].user = u
         /\ req'[r].message = None /\ req'[r].known = OfOthers(u)
         /\ req'[r].stamp = Ms(now)
         /\ req'[r].late = (\E q \in Requests : req[q].at = "stamping" /\ req[q].user = u)
         /\ Others(r)
<1> DEFINE b == \E q \in Requests : req[q].at = "stamping" /\ req[q].user = u
           new == [Done EXCEPT !.at = "stamping", !.user = u, !.stamp = Ms(now),
                               !.known = OfOthers(u), !.late = b]
<1>1. /\ new.at = "stamping" /\ new.user = u /\ new.message = None
      /\ new.known = OfOthers(u) /\ new.stamp = Ms(now) /\ new.late = b
  BY DEF Done
<1>2. Goes(r, new) /\ req[r].at = "idle"
  BY DEF MarkAllRead
<1> HIDE DEF new
<1>3. req'[r] = new /\ Others(r)
  BY <1>2 DEF Goes, TypeOK, Others
<1> QED
  BY <1>1, <1>2, <1>3

LEMMA MarkThreadStep ==
  ASSUME TypeOK, NEW r \in Requests, NEW u \in Users, NEW m \in Messages,
         MarkThreadRead(r, u, m)
  PROVE  /\ req[r].at = "idle" /\ req'[r].at = "listing" /\ req'[r].user = u
         /\ req'[r].message = m /\ req'[r].known = OfOthers(u) /\ req'[r].late
         /\ Others(r)
<1> DEFINE new == [Done EXCEPT !.at = "listing", !.user = u, !.message = m,
                               !.known = OfOthers(u), !.late = TRUE]
<1>1. /\ new.at = "listing" /\ new.user = u /\ new.message = m
      /\ new.known = OfOthers(u) /\ new.late
  BY DEF Done
<1>2. Goes(r, new) /\ req[r].at = "idle"
  BY DEF MarkThreadRead
<1> HIDE DEF new
<1>3. req'[r] = new /\ Others(r)
  BY <1>2 DEF Goes, TypeOK, Others
<1> QED
  BY <1>1, <1>2, <1>3

LEMMA StampStep ==
  ASSUME TypeOK, NEW r \in Requests, Stamp(r)
  PROVE  req[r].at = "stamping" /\ req'[r].at = "listing" /\ GoesOn(r)
<1> DEFINE new == [req[r] EXCEPT !.at = "listing", !.stamp = 0]
<1>1. /\ new.at = "listing" /\ new.user = req[r].user /\ new.message = req[r].message
      /\ new.known = req[r].known /\ new.late = req[r].late
  BY DEF TypeOK, Request
<1>2. Goes(r, new) /\ req[r].at = "stamping"
  BY DEF Stamp
<1> HIDE DEF new
<1>3. req'[r] = new /\ Others(r)
  BY <1>2 DEF Goes, TypeOK, Others
<1> QED
  BY <1>1, <1>2, <1>3 DEF GoesOn

LEMMA ListStep ==
  ASSUME TypeOK, NEW r \in Requests, List(r)
  PROVE  /\ req[r].at = "listing" /\ GoesOn(r)
         /\ req'[r].todo = {m \in OfOthers(req[r].user) : Covers(req[r], m)}
         /\ req'[r].at = IF req'[r].todo = {} THEN "done" ELSE "comparing"
<1> DEFINE found == {m \in OfOthers(req[r].user) : Covers(req[r], m)}
           new == [req[r] EXCEPT !.at = IF found = {} THEN "done" ELSE "comparing",
                                 !.todo = found]
<1>1. Goes(r, new) /\ req[r].at = "listing"
  BY DEF List
<1> HIDE DEF found
<1>2. /\ new.at = (IF found = {} THEN "done" ELSE "comparing")
      /\ new.user = req[r].user /\ new.message = req[r].message
      /\ new.known = req[r].known /\ new.late = req[r].late /\ new.todo = found
  BY DEF TypeOK, Request
<1> HIDE DEF new
<1>3. req'[r] = new /\ Others(r)
  BY <1>1 DEF Goes, TypeOK, Others
<1> QED
  BY <1>1, <1>2, <1>3 DEF GoesOn, found

LEMMA CompareStep ==
  ASSUME TypeOK, NEW r \in Requests, Compare(r)
  PROVE  /\ req[r].at = "comparing" /\ GoesOn(r)
         /\ req'[r].todo = Missing(req[r])
         /\ req'[r].at = IF req'[r].todo = {} THEN "done" ELSE "inserting"
<1> DEFINE found == Missing(req[r])
           new == [req[r] EXCEPT !.at = IF found = {} THEN "done" ELSE "inserting",
                                 !.todo = found]
<1>1. Goes(r, new) /\ req[r].at = "comparing"
  BY DEF Compare
<1> HIDE DEF found
<1>2. /\ new.at = (IF found = {} THEN "done" ELSE "inserting")
      /\ new.user = req[r].user /\ new.message = req[r].message
      /\ new.known = req[r].known /\ new.late = req[r].late /\ new.todo = found
  BY DEF TypeOK, Request
<1> HIDE DEF new
<1>3. req'[r] = new /\ Others(r)
  BY <1>1 DEF Goes, TypeOK, Others
<1> QED
  BY <1>1, <1>2, <1>3 DEF GoesOn, found

LEMMA InsertStep ==
  ASSUME TypeOK, NEW r \in Requests, Insert(r)
  PROVE  /\ req[r].at = "inserting" /\ GoesOn(r)
         /\ \/ /\ req'[r].at = "done"
               /\ read' = [read EXCEPT ![req[r].user] = @ \cup req[r].todo]
            \/ req'[r].at = "failed" /\ read' = read
<1>1. ASSUME NEW to \in {"done", "failed"}, Goes(r, [req[r] EXCEPT !.at = to])
      PROVE  req'[r].at = to /\ GoesOn(r)
  <2> DEFINE new == [req[r] EXCEPT !.at = to]
  <2>1. /\ new.at = to /\ new.user = req[r].user /\ new.message = req[r].message
        /\ new.known = req[r].known /\ new.late = req[r].late
    BY DEF TypeOK, Request
  <2>2. Goes(r, new)
    BY <1>1
  <2> HIDE DEF new
  <2>3. req'[r] = new /\ Others(r)
    BY <2>2 DEF Goes, TypeOK, Others
  <2> QED
    BY <2>1, <2>3 DEF GoesOn
<1> QED
  BY <1>1 DEF Insert

LEMMA AnswerStep ==
  ASSUME TypeOK, NEW r \in Requests, Answer(r)
  PROVE  req'[r].at = "idle" /\ Others(r)
BY DoneType DEF Answer, Goes, TypeOK, Others

-----------------------------------------------------------------------------
(* What a save carries, and what of it is still true of the row: only the  *)
(* save that is alone with its message knows the columns it does not       *)
(* write.  rows and gone stand for msg and buried.                         *)
Saving(request, rows, gone) ==
  request.at \in {"saving", "writing"} =>
    /\ rows[request.message].at # 0
    /\ request.entity.deleted => request.entity.text = None
    /\ request.message \in gone => request.entity.deleted
    /\ request.at = "writing" /\ ~request.late =>
         \A c \in Column \ request.dirty : request.entity[c] = rows[request.message][c]

Alone ==
  \A p, q \in Requests :
    /\ p # q
    /\ req[p].at \in {"saving", "writing"} /\ req[q].at \in {"saving", "writing"}
    /\ req[p].message = req[q].message
    => req[p].late

RowsInv ==
  \A m \in Messages :
    /\ opened[m] # 0 => msg[m].at = 0
    /\ m \in buried => msg[m].at # 0 /\ msg[m].deleted /\ msg[m].text = None

RemovalInv == RowsInv /\ Alone /\ \A q \in Requests : Saving(req[q], msg, buried)

(* The steps that leave the rows alone and start or advance no save.       *)
LEMMA RemovalAside ==
  ASSUME TypeOK, FormInv, RemovalInv, UNCHANGED <<msg, buried>>,
         \A m \in Messages : opened'[m] # 0 => msg[m].at = 0,
         \A q \in Requests : req'[q] = req[q] \/ req'[q].at \notin {"saving", "writing"}
  PROVE  RemovalInv'
<1>1. RowsInv'
  BY DEF RemovalInv, RowsInv
<1>2. Alone'
  BY DEF RemovalInv, Alone
<1>3. ASSUME NEW q \in Requests PROVE Saving(req'[q], msg', buried')
  BY DEF RemovalInv, Saving
<1> QED
  BY <1>1, <1>2, <1>3 DEF RemovalInv, Saving

LEMMA RemovalRead ==
  ASSUME TypeOK, FormInv, RemovalInv, NEW r \in Requests, NEW m \in Messages,
         NEW e \in Row, ReadRow(r, m, e), msg[m].at # 0,
         e.deleted => e.text = None, m \in buried => e.deleted
  PROVE  RemovalInv'
<1>1. UNCHANGED <<msg, opened, buried>>
  BY ReadStep
<1>2. RowsInv'
  BY <1>1 DEF RemovalInv, RowsInv
<1>3. ASSUME NEW p \in Requests, NEW q \in Requests, p # q,
             req'[p].at \in {"saving", "writing"}, req'[q].at \in {"saving", "writing"},
             req'[p].message = req'[q].message
      PROVE  req'[p].late
  <2>1. CASE p = r
    <3>1. req[q].at \in {"saving", "writing"} /\ req[q].message = m
      BY <1>3, <2>1, ReadSame, ReadStep
    <3>2. q \in Changing(m)
      BY <3>1 DEF Changing
    <3>3. Changing(m) # {}
      BY <3>2
    <3> QED
      BY <2>1, <3>3, ReadStep
  <2>2. CASE q = r
    <3>1. req[p].at \in {"saving", "writing"} /\ req[p].message = m
      BY <1>3, <2>2, ReadSame, ReadStep
    <3>2. p \in Changing(m)
      BY <3>1 DEF Changing
    <3> QED
      BY <1>3, <2>2, <3>2, ReadSame
  <2>3. CASE p # r /\ q # r
    <3>1. req[p].late
      BY <1>3, <2>3, ReadSame DEF RemovalInv, Alone
    <3> QED
      BY <2>3, <3>1, ReadSame
  <2> QED
    BY <2>1, <2>2, <2>3
<1>4. ASSUME NEW q \in Requests PROVE Saving(req'[q], msg', buried')
  <2>1. CASE q = r
    BY <1>1, <2>1, ReadStep DEF Saving
  <2>2. CASE q # r
    <3>1. Saving(req[q], msg, buried) /\ (req'[q].late \/ ~req[q].late)
      BY <2>2, ReadSame DEF RemovalInv
    <3> QED
      BY <1>1, <2>2, <3>1, ReadSame DEF Saving
  <2> QED
    BY <2>1, <2>2
<1> QED
  BY <1>2, <1>3, <1>4 DEF RemovalInv, Alone, Saving

LEMMA RemovalReload ==
  ASSUME TypeOK, FormInv, RemovalInv, NEW r \in Requests, Reload(r)
  PROVE  RemovalInv'
<1> DEFINE row == msg[req[r].message]
           d == {c \in Column : req[r].entity[c] # row[c]}
           new == [req[r] EXCEPT !.at = "writing", !.dirty = d]
<1>1. req[r] \in Request /\ req[r].at = "saving"
  BY DEF Reload, TypeOK
<1>2. new \in Request
  BY <1>1 DEF Request, Phase
<1>3. /\ new.at = "writing" /\ new.dirty = d /\ new.message = req[r].message
      /\ new.entity = req[r].entity /\ new.late = req[r].late
  BY <1>1 DEF Request
<1>4. Goes(r, new) /\ UNCHANGED <<msg, opened, buried>>
  BY DEF Reload
<1> HIDE DEF new
<1>5. req'[r] = new /\ \A q \in Requests : q # r => req'[q] = req[q]
  BY <1>2, <1>4, GoesStep
<1>6. RowsInv'
  BY <1>4 DEF RemovalInv, RowsInv
<1>7. \A q \in Requests :
        /\ req'[q].at \in {"saving", "writing"} => req[q].at \in {"saving", "writing"}
        /\ req'[q].message = req[q].message /\ req'[q].late = req[q].late
  BY <1>1, <1>3, <1>5
<1>8. Alone'
  BY <1>7 DEF RemovalInv, Alone
<1>9. ASSUME NEW q \in Requests PROVE Saving(req'[q], msg', buried')
  <2>1. CASE q = r
    <3>1. Saving(req[r], msg, buried)
      BY DEF RemovalInv
    <3>2. \A c \in Column \ d : req[r].entity[c] = row[c]
      OBVIOUS
    <3> QED
      BY <1>1, <1>3, <1>4, <1>5, <2>1, <3>1, <3>2 DEF Saving
  <2>2. CASE q # r
    BY <1>4, <1>5, <2>2 DEF RemovalInv
  <2> QED
    BY <2>1, <2>2
<1> QED
  BY <1>6, <1>8, <1>9 DEF RemovalInv, Saving

LEMMA RemovalWrite ==
  ASSUME TypeOK, FormInv, RemovalInv, NEW r \in Requests, Write(r)
  PROVE  RemovalInv'
<1> DEFINE m == req[r].message
           e == req[r].entity
           d == req[r].dirty
<1>1. /\ req[r].at = "writing" /\ UNCHANGED opened
      /\ m \in Messages /\ e \in Row /\ req[r].late \in BOOLEAN
  BY DEF Write, FormInv, Form, TypeOK, Request
<1>2. Saving(req[r], msg, buried)
  BY DEF RemovalInv
<1>3. /\ msg[m].at # 0
      /\ e.deleted => e.text = None
      /\ m \in buried => e.deleted
      /\ ~req[r].late => \A c \in Column \ d : e[c] = msg[m][c]
  BY <1>1, <1>2 DEF Saving
<1>4. req'[r] = Done /\ \A q \in Requests : q # r => req'[q] = req[q]
  BY DoneType, GoesStep DEF Write
<1>5. /\ msg'[m].at = msg[m].at
      /\ msg'[m].text = IF "text" \in d THEN e.text ELSE msg[m].text
      /\ msg'[m].deleted = IF "deleted" \in d THEN e.deleted ELSE msg[m].deleted
      /\ \A n \in Messages : n # m => msg'[n] = msg[n]
  <2>1. msg[m] \in Row
    BY <1>1 DEF TypeOK
  <2> QED
    BY <1>1, <2>1 DEF Write, TypeOK, Row
<1>6. \A n \in Messages : n \in buried' <=> n \in buried \/ (n = m /\ e.deleted /\ ~req[r].late)
  BY <1>1 DEF Write
<1>7. RowsInv'
  <2>1. ASSUME NEW n \in Messages, n # m
        PROVE  /\ opened'[n] # 0 => msg'[n].at = 0
               /\ n \in buried' => msg'[n].at # 0 /\ msg'[n].deleted /\ msg'[n].text = None
    BY <1>1, <1>5, <1>6, <2>1 DEF RemovalInv, RowsInv
  <2>2. opened'[m] # 0 => msg'[m].at = 0
    BY <1>1, <1>5 DEF RemovalInv, RowsInv
  <2>3. ASSUME m \in buried PROVE msg'[m].at # 0 /\ msg'[m].deleted /\ msg'[m].text = None
    <3>1. msg[m].deleted /\ msg[m].text = None
      BY <1>1, <2>3 DEF RemovalInv, RowsInv
    <3> QED
      BY <1>3, <1>5, <2>3, <3>1
  <2>4. ASSUME e.deleted, ~req[r].late
        PROVE  msg'[m].at # 0 /\ msg'[m].deleted /\ msg'[m].text = None
    <3>1. "text" \in d \/ msg[m].text = None
      <4>1. "text" \in d \/ e["text"] = msg[m]["text"]
        BY <1>3, <2>4 DEF Column
      <4> QED
        BY <1>3, <2>4, <4>1
    <3>2. "deleted" \in d \/ msg[m].deleted
      <4>1. "deleted" \in d \/ e["deleted"] = msg[m]["deleted"]
        BY <1>3, <2>4 DEF Column
      <4> QED
        BY <2>4, <4>1
    <3> QED
      BY <1>3, <1>5, <2>4, <3>1, <3>2
  <2> HIDE DEF m, e, d
  <2> QED
    BY <1>1, <1>6, <2>1, <2>2, <2>3, <2>4 DEF RowsInv
<1>8. Alone'
  BY <1>4, DoneType DEF RemovalInv, Alone
<1>9. ASSUME NEW q \in Requests PROVE Saving(req'[q], msg', buried')
  <2>1. CASE q = r
    BY <1>4, <2>1, DoneType DEF Saving
  <2>2. CASE q # r /\ req[q].at \in {"saving", "writing"} /\ req[q].message = m
    <3>1. req[r].late /\ req[q].late
      BY <1>1, <2>2 DEF RemovalInv, Alone
    <3>2. Saving(req[q], msg, buried) /\ req'[q] = req[q]
      BY <1>4, <2>2 DEF RemovalInv
    <3>3. m \in buried' <=> m \in buried
      BY <1>1, <1>6, <3>1
    <3> QED
      BY <1>1, <1>5, <2>2, <3>1, <3>2, <3>3 DEF Saving
  <2>3. CASE q # r /\ req[q].at \in {"saving", "writing"} /\ req[q].message # m
    <3>1. Saving(req[q], msg, buried) /\ req'[q] = req[q] /\ req[q].message \in Messages
      BY <1>4, <2>3 DEF RemovalInv, FormInv, Form
    <3>2. /\ msg'[req[q].message] = msg[req[q].message]
          /\ req[q].message \in buried' <=> req[q].message \in buried
      BY <1>5, <1>6, <2>3, <3>1
    <3> QED
      BY <3>1, <3>2 DEF Saving
  <2>4. CASE q # r /\ req[q].at \notin {"saving", "writing"}
    BY <1>4, <2>4 DEF Saving
  <2> QED
    BY <2>1, <2>2, <2>3, <2>4
<1> QED
  BY <1>7, <1>8, <1>9 DEF RemovalInv, Saving

LEMMA RemovalCommit ==
  ASSUME TypeOK, FormInv, RemovalInv, NEW m \in Messages, Commit(m)
  PROVE  RemovalInv'
<1>1. /\ opened[m] # 0 /\ msg[m].at = 0 /\ m \notin buried /\ UNCHANGED <<req, buried>>
      /\ opened'[m] = 0
      /\ \A n \in Messages : n # m => msg'[n] = msg[n] /\ opened'[n] = opened[n]
  BY DEF Commit, RemovalInv, RowsInv, TypeOK
<1>2. RowsInv'
  BY <1>1 DEF RemovalInv, RowsInv
<1>3. Alone'
  BY <1>1 DEF RemovalInv, Alone
<1>4. ASSUME NEW q \in Requests PROVE Saving(req'[q], msg', buried')
  <2>1. Saving(req[q], msg, buried) /\ Form(req[q])
    BY DEF RemovalInv, FormInv
  <2>2. req[q].at \in {"saving", "writing"} => req[q].message \in Messages \ {m}
    BY <1>1, <2>1 DEF Saving, Form
  <2> QED
    BY <1>1, <2>1, <2>2 DEF Saving
<1> QED
  BY <1>2, <1>3, <1>4 DEF RemovalInv, Saving

LEMMA RemovalStep == TypeOK /\ FormInv /\ RemovalInv /\ [Next]_vars => RemovalInv'
<1> SUFFICES ASSUME TypeOK, FormInv, RemovalInv, [Next]_vars PROVE RemovalInv'
  OBVIOUS
<1>0. \A m \in Messages : msg[m] \in Row /\ (opened[m] # 0 => msg[m].at = 0)
  BY DEF TypeOK, RemovalInv, RowsInv
<1>1. ASSUME NEW m \in Messages, Begin(m) PROVE RemovalInv'
  <2>1. \A n \in Messages : opened'[n] # 0 => msg[n].at = 0
    BY <1>0, <1>1 DEF Begin, Sent, TypeOK
  <2> QED
    BY <1>1, <2>1, RemovalAside DEF Begin
<1>2. ASSUME NEW m \in Messages, Rollback(m) PROVE RemovalInv'
  <2>1. \A n \in Messages : opened'[n] # 0 => msg[n].at = 0
    BY <1>0, <1>2 DEF Rollback, TypeOK
  <2> QED
    BY <1>2, <2>1, RemovalAside DEF Rollback
<1>3. ASSUME NEW r \in Requests, NEW m \in Messages, ReadForUpdate(r, m) PROVE RemovalInv'
  <2> DEFINE e == [msg[m] EXCEPT !.text = "edited"]
  <2>1. e \in Row /\ e.deleted = msg[m].deleted
    BY <1>0 DEF Row
  <2>2. msg[m].at # 0 /\ ~msg[m].deleted /\ m \notin buried
    BY <1>3 DEF ReadForUpdate, Editable, Sent, RemovalInv, RowsInv
  <2>3. ReadRow(r, m, e)
    BY <1>3 DEF ReadForUpdate
  <2> HIDE DEF e
  <2> QED
    BY <2>1, <2>2, <2>3, RemovalRead
<1>4. ASSUME NEW r \in Requests, NEW m \in Messages, ReadForRemove(r, m) PROVE RemovalInv'
  <2> DEFINE e == [msg[m] EXCEPT !.text = None, !.deleted = TRUE]
  <2>1. e \in Row /\ e.deleted /\ e.text = None
    BY <1>0 DEF Row
  <2>2. msg[m].at # 0 /\ ReadRow(r, m, e)
    BY <1>4 DEF ReadForRemove, Sent
  <2> HIDE DEF e
  <2> QED
    BY <2>1, <2>2, RemovalRead
<1>5. ASSUME UNCHANGED <<msg, opened, buried, req>> PROVE RemovalInv'
  BY <1>0, <1>5, RemovalAside
<1>6. ASSUME Crash PROVE RemovalInv'
  BY <1>6, DoneType, RemovalAside DEF Crash
<1>7. ASSUME NEW r \in Requests, Reload(r) \/ Write(r) PROVE RemovalInv'
  BY <1>7, RemovalReload, RemovalWrite
<1>8. ASSUME NEW m \in Messages, Commit(m) PROVE RemovalInv'
  BY <1>8, RemovalCommit
<1>9. ASSUME NEW r \in Requests,
              Stamp(r) \/ List(r) \/ Compare(r) \/ Insert(r) \/ Answer(r)
       PROVE  RemovalInv'
  <2>1. UNCHANGED <<msg, opened, buried>>
    BY <1>9 DEF Stamp, List, Compare, Insert, Answer
  <2>2. Others(r) /\ req'[r].at \notin {"saving", "writing"}
    BY <1>9, StampStep, ListStep, CompareStep, InsertStep, AnswerStep DEF GoesOn
  <2> QED
    BY <1>0, <2>1, <2>2, RemovalAside DEF Others
<1>10. ASSUME NEW r \in Requests, NEW u \in Users,
              MarkAllRead(r, u) \/ \E m \in Messages : MarkThreadRead(r, u, m)
       PROVE  RemovalInv'
  <2>1. UNCHANGED <<msg, opened, buried>>
    BY <1>10 DEF MarkAllRead, MarkThreadRead
  <2>2. Others(r) /\ req'[r].at \notin {"saving", "writing"}
    BY <1>10, MarkAllStep, MarkThreadStep
  <2> QED
    BY <1>0, <2>1, <2>2, RemovalAside DEF Others
<1>11. ASSUME NEW r \in Requests, ReadForRename(r) \/ ReloadConversation(r) \/ Rename(r)
       PROVE  RemovalInv'
  BY <1>0, <1>11, NamingStep, RemovalAside DEF Others
<1> QED
  BY <1>1, <1>2, <1>3, <1>4, <1>5, <1>6, <1>7, <1>8, <1>9, <1>10, <1>11
     DEF Next, vars, MarkRead, Tick

LEMMA InitRemoval == Init => RemovalInv
BY DoneType DEF Init, RemovalInv, RowsInv, Alone, Saving

(* A removal that nothing disturbs is final (QuietRemovalFinal), for every *)
(* number of messages, users and requests.                                 *)
THEOREM QuietRemovalIsFinal == Spec => []QuietRemovalFinal
<1>1. Init => TypeOK /\ FormInv /\ RemovalInv
  BY InitTypes, InitRemoval
<1>2. TypeOK /\ FormInv /\ RemovalInv /\ [Next]_vars => (TypeOK /\ FormInv /\ RemovalInv)'
  BY TypeStep, FormStep, RemovalStep
<1>3. TypeOK /\ RemovalInv => QuietRemovalFinal
  BY DEF TypeOK, RemovalInv, RowsInv, QuietRemovalFinal
<1> QED
  BY <1>1, <1>2, <1>3, PTL DEF Spec

-----------------------------------------------------------------------------
(* A step that keeps what the inbox is about: which messages are there and *)
(* how they are dated.                                                     *)
LEMMA InboxAside ==
  ASSUME InboxFollowsSends, UNCHANGED <<conv, overtaken>>,
         \A m \in Messages : msg'[m].at = msg[m].at
  PROVE  InboxFollowsSends'
<1>1. Sent' = Sent
  BY DEF Sent
<1>2. Sent \in SUBSET Messages
  BY DEF Sent
<1> QED
  BY <1>1, <1>2 DEF InboxFollowsSends, Root, Ms

LEMMA InboxCommit ==
  ASSUME TypeOK, RemovalInv, InboxFollowsSends, NEW m \in Messages, Commit(m)
  PROVE  InboxFollowsSends'
<1>0. \A t \in Time : t \in Nat
  BY TimeAssumption DEF Time
<1>1. /\ opened[m] \in Nat /\ opened[m] # 0 /\ msg[m].at = 0
      /\ msg'[m].at = opened[m]
      /\ \A n \in Messages : n # m => msg'[n] = msg[n]
      /\ \A n \in Messages : msg[n] \in Row /\ msg[n].at \in Nat
  BY <1>0 DEF Commit, TypeOK, RemovalInv, RowsInv, Row
<1>2. /\ Sent' = Sent \cup {m} /\ m \notin Sent /\ Sent \in SUBSET Messages
      /\ \A n \in Sent : n # m /\ msg'[n] = msg[n]
  BY <1>1 DEF Sent
<1>3. /\ conv'.activity = Ms(opened[m])
      /\ conv'.last = IF Root(m) THEN m ELSE conv.last
  BY DEF Commit, Inbox
<1> SUFFICES ASSUME ~overtaken'
             PROVE  /\ \A n \in Sent' : Ms(msg'[n].at) <= conv'.activity
                    /\ \E n \in Sent' : Ms(msg'[n].at) = conv'.activity
                    /\ \A n \in Sent' : Root(n) =>
                         /\ conv'.last \in Sent' /\ Root(conv'.last)
                         /\ msg'[n].at <= msg'[conv'.last].at
  BY DEF InboxFollowsSends, Root, Ms
<1>4. ~overtaken /\ \A n \in Sent : msg[n].at <= opened[m]
  <2>1. ~overtaken /\ \A n \in Sent : ~(msg[n].at > opened[m])
    BY DEF Commit
  <2> QED
    BY <1>1, <1>2, <2>1
<1>5. \A n \in Sent' : msg'[n].at \in Nat /\ msg'[n].at <= opened[m]
  <2>1. msg'[m].at \in Nat /\ msg'[m].at <= opened[m]
    BY <1>1
  <2>2. \A n \in Sent : msg'[n] = msg[n] /\ msg[n].at \in Nat /\ msg[n].at <= opened[m]
    BY <1>1, <1>2, <1>4
  <2>3. \A n \in Sent : msg'[n].at \in Nat /\ msg'[n].at <= opened[m]
    BY <2>2
  <2> QED
    BY <1>2, <2>1, <2>3
<1>6. \A n \in Sent' : Ms(msg'[n].at) <= conv'.activity
  BY <1>1, <1>3, <1>5, MsMonotone
<1>7. \E n \in Sent' : Ms(msg'[n].at) = conv'.activity
  BY <1>1, <1>2, <1>3
<1>8. ASSUME NEW n \in Sent', Root(n)
      PROVE  /\ conv'.last \in Sent' /\ Root(conv'.last)
             /\ msg'[n].at <= msg'[conv'.last].at
  <2>1. CASE Root(m)
    BY <1>1, <1>2, <1>3, <1>5, <2>1
  <2>2. CASE ~Root(m)
    <3>1. n \in Sent /\ conv'.last = conv.last
      BY <1>2, <1>3, <1>8, <2>2
    <3>2. conv.last \in Sent /\ Root(conv.last) /\ msg[n].at <= msg[conv.last].at
      BY <1>4, <1>8, <3>1 DEF InboxFollowsSends
    <3> QED
      BY <1>2, <3>1, <3>2
  <2> QED
    BY <2>1, <2>2
<1> QED
  BY <1>6, <1>7, <1>8

(* A conversation that is read to be named is as it was read, and none is  *)
(* about to be written over, until a send is overtaken.                    *)
NamingInv ==
  ~overtaken =>
    \A q \in Requests :
      /\ req[q].at = "naming" => req[q].inbox = conv
      /\ req[q].at # "renaming"

(* The steps that name nothing.                                            *)
LEMMA NamingAside ==
  ASSUME NamingInv, UNCHANGED <<conv, overtaken>>,
         \A q \in Requests :
           \/ req'[q].at = req[q].at /\ req'[q].inbox = req[q].inbox
           \/ req'[q].at \notin {"naming", "renaming"}
  PROVE  NamingInv'
BY DEF NamingInv

LEMMA NamingKept ==
  ASSUME TypeOK, FormInv, NamingInv, [Next]_vars PROVE NamingInv'
<1>1. ASSUME NEW m \in Messages, Commit(m) PROVE NamingInv'
  BY <1>1 DEF Commit, NamingInv
<1>2. ASSUME NEW r \in Requests, ReadForRename(r) \/ ReloadConversation(r) \/ Rename(r)
      PROVE  NamingInv'
  <2> SUFFICES ASSUME ~overtaken', NEW q \in Requests
               PROVE  /\ req'[q].at = "naming" => req'[q].inbox = conv'
                      /\ req'[q].at # "renaming"
    BY DEF NamingInv
  <2>1. ~overtaken /\ conv' = conv
    BY <1>2, NamingStep DEF NamingInv
  <2>2. CASE q = r
    BY <1>2, <2>1, <2>2, NamingStep DEF NamingInv
  <2>3. CASE q # r
    BY <1>2, <2>1, <2>3, NamingStep DEF NamingInv, Others
  <2> QED
    BY <2>2, <2>3
<1>3. ASSUME NEW r \in Requests, NEW m \in Messages, NEW e \in Row, ReadRow(r, m, e)
      PROVE  NamingInv'
  <2>1. \A q \in Requests \ {r} : req'[q].at = req[q].at /\ req'[q].inbox = req[q].inbox
    BY <1>3, ReadSame
  <2>2. req'[r].at = "saving" /\ UNCHANGED <<conv, overtaken>>
    BY <1>3, ReadStep
  <2> QED
    BY <2>1, <2>2, NamingAside
<1>4. ASSUME NEW r \in Requests, NEW m \in Messages,
             ReadForUpdate(r, m) \/ ReadForRemove(r, m)
      PROVE  NamingInv'
  <2> DEFINE edited == [msg[m] EXCEPT !.text = "edited"]
             emptied == [msg[m] EXCEPT !.text = None, !.deleted = TRUE]
  <2>1. edited \in Row /\ emptied \in Row
    BY DEF TypeOK, Row
  <2>2. ReadRow(r, m, edited) \/ ReadRow(r, m, emptied)
    BY <1>4 DEF ReadForUpdate, ReadForRemove
  <2> HIDE DEF edited, emptied
  <2> QED
    BY <1>3, <2>1, <2>2
<1>5. ASSUME NEW r \in Requests, Reload(r) PROVE NamingInv'
  <2>1. PICK d \in SUBSET Column : Goes(r, [req[r] EXCEPT !.at = "writing", !.dirty = d])
    BY <1>5 DEF Reload
  <2>2. req'[r].at = "writing" /\ Others(r)
    BY <2>1 DEF Goes, TypeOK, Request, Others
  <2> QED
    BY <1>5, <2>2, NamingAside DEF Reload, Others
<1>6. ASSUME NEW r \in Requests, Write(r) PROVE NamingInv'
  <2>1. req'[r].at = "idle" /\ Others(r)
    BY <1>6, GoesStep, DoneType DEF Write, Others
  <2> QED
    BY <1>6, <2>1, NamingAside DEF Write, Others
<1>7. ASSUME NEW r \in Requests, Stamp(r) \/ List(r) \/ Compare(r) \/ Insert(r) \/ Answer(r)
      PROVE  NamingInv'
  <2>1. UNCHANGED <<conv, overtaken>>
    BY <1>7 DEF Stamp, List, Compare, Insert, Answer
  <2>2. Others(r) /\ req'[r].at \notin {"naming", "renaming"}
    BY <1>7, StampStep, ListStep, CompareStep, InsertStep, AnswerStep DEF GoesOn
  <2> QED
    BY <2>1, <2>2, NamingAside DEF Others
<1>8. ASSUME NEW r \in Requests, NEW u \in Users,
             MarkAllRead(r, u) \/ \E m \in Messages : MarkThreadRead(r, u, m)
      PROVE  NamingInv'
  <2>1. UNCHANGED <<conv, overtaken>>
    BY <1>8 DEF MarkAllRead, MarkThreadRead
  <2>2. Others(r) /\ req'[r].at \notin {"naming", "renaming"}
    BY <1>8, MarkAllStep, MarkThreadStep
  <2> QED
    BY <2>1, <2>2, NamingAside DEF Others
<1>9. ASSUME UNCHANGED <<conv, overtaken, req>> PROVE NamingInv'
  BY <1>9, NamingAside
<1>10. ASSUME Crash PROVE NamingInv'
  BY <1>10, DoneType, NamingAside DEF Crash
<1> QED
  BY <1>1, <1>2, <1>4, <1>5, <1>6, <1>7, <1>8, <1>9, <1>10
     DEF Next, vars, Begin, Rollback, MarkRead, Tick

(* No step but a commit brings or dates a message, and but for commits the *)
(* inbox is only written by who names the conversation.                    *)
LEMMA DatesKept ==
  ASSUME TypeOK, FormInv, [Next]_vars, \A m \in Messages : ~Commit(m),
         \A r \in Requests : ~Rename(r)
  PROVE  /\ UNCHANGED <<conv, overtaken>>
         /\ \A m \in Messages : msg'[m].at = msg[m].at
<1>1. ASSUME NEW r \in Requests, Write(r)
      PROVE  /\ UNCHANGED <<conv, overtaken>>
             /\ \A m \in Messages : msg'[m].at = msg[m].at
  <2>1. req[r].message \in Messages /\ \A m \in Messages : msg[m] \in Row
    BY <1>1 DEF Write, FormInv, Form, TypeOK
  <2> QED
    BY <1>1, <2>1 DEF Write, TypeOK, Row
<1>2. ASSUME UNCHANGED <<msg, conv, overtaken>>
      PROVE  /\ UNCHANGED <<conv, overtaken>>
             /\ \A m \in Messages : msg'[m].at = msg[m].at
  BY <1>2
<1> QED
  BY <1>1, <1>2
     DEF Next, vars, Begin, Rollback, ReadForUpdate, ReadForRemove, ReadRow, Reload,
         ReadForRename, ReloadConversation,
         MarkAllRead, MarkThreadRead, Stamp, List, Compare, Insert, Answer, MarkRead,
         Tick, Crash

(* The inbox follows the sends (InboxFollowsSends), for every number of    *)
(* messages and every way they reply to each other.                        *)
THEOREM InboxIsInOrder == Spec => []InboxFollowsSends
<1> DEFINE Inv == TypeOK /\ FormInv /\ RemovalInv /\ NamingInv /\ InboxFollowsSends
<1>1. Init => Inv
  <2>1. Init => InboxFollowsSends /\ NamingInv
    BY DoneType DEF Init, InboxFollowsSends, NamingInv, Sent, NoRow
  <2> QED
    BY <2>1, InitTypes, InitRemoval
<1>2. Inv /\ [Next]_vars => Inv'
  <2>1. ASSUME Inv, NEW r \in Requests, Rename(r) PROVE InboxFollowsSends'
    BY <2>1 DEF Rename, NamingInv, InboxFollowsSends
  <2>2. Inv /\ [Next]_vars => InboxFollowsSends'
    BY <2>1, InboxCommit, InboxAside, DatesKept
  <2> QED
    BY <2>2, TypeStep, FormStep, RemovalStep, NamingKept
<1>3. Inv => InboxFollowsSends
  OBVIOUS
<1> QED
  BY <1>1, <1>2, <1>3, PTL DEF Spec

-----------------------------------------------------------------------------
(* What a mark has achieved by each of its steps, of the messages that were*)
(* there when it began.  rows, receipts and stamps stand for msg, read and *)
(* lastRead.                                                               *)
MarkPhase == {"stamping", "listing", "comparing", "inserting", "done"}

MarkOf(request, rows, receipts, stamps) ==
  request.at \in MarkPhase =>
    /\ \A m \in request.known : rows[m].at # 0 /\ Author[m] # request.user
    /\ \A m \in request.known : Covers(request, m) =>
         /\ request.at = "comparing" => m \in request.todo
         /\ request.at = "inserting" => m \in request.todo \cup receipts[request.user]
         /\ request.at = "done" => m \in receipts[request.user]
    /\ ~request.late =>
         \A m \in request.known :
           Ms(rows[m].at) <= (IF request.at = "stamping" THEN request.stamp
                              ELSE stamps[request.user])

(* A mark of the same user that began later will not write an older time.  *)
LaterOf(earlier, later, rows) ==
  earlier.at \in MarkPhase /\ ~earlier.late /\ later.at = "stamping"
    /\ earlier.user = later.user =>
    \A m \in earlier.known : Ms(rows[m].at) <= later.stamp

ClockInv == \A m \in Messages : msg[m].at <= now /\ opened[m] <= now

MarkInv ==
  /\ ClockInv
  /\ \A q \in Requests : MarkOf(req[q], msg, read, lastRead)
  /\ \A p, q \in Requests : p # q => LaterOf(req[p], req[q], msg)

(* The dates of the messages that are there, and the receipts, stay.       *)
Steady ==
  /\ \A m \in Messages : msg[m].at # 0 => msg'[m].at = msg[m].at
  /\ \A u \in Users, m \in Messages : m \in read[u] => m \in read'[u]

LEMMA MarkKept ==
  ASSUME TypeOK, FormInv, MarkInv, Steady, lastRead' = lastRead, NEW q \in Requests
  PROVE  MarkOf(req[q], msg', read', lastRead')
<1>1. MarkOf(req[q], msg, read, lastRead) /\ req[q].known \in SUBSET Messages
  BY DEF MarkInv, TypeOK, Request
<1>2. req[q].at \in MarkPhase => req[q].user \in Users
  BY DEF FormInv, Form, MarkPhase
<1>3. req[q].at \in MarkPhase => \A m \in req[q].known : msg'[m].at = msg[m].at
  BY <1>1 DEF MarkOf, Steady
<1> QED
  BY <1>1, <1>2, <1>3 DEF MarkOf, Steady

LEMMA LaterKept ==
  ASSUME TypeOK, MarkInv, Steady, NEW p \in Requests, NEW q \in Requests, p # q
  PROVE  LaterOf(req[p], req[q], msg')
<1>1. LaterOf(req[p], req[q], msg) /\ MarkOf(req[p], msg, read, lastRead)
      /\ req[p].known \in SUBSET Messages
  BY DEF MarkInv, TypeOK, Request
<1>2. req[p].at \in MarkPhase => \A m \in req[p].known : msg'[m].at = msg[m].at
  BY <1>1 DEF MarkOf, Steady
<1> QED
  BY <1>1, <1>2 DEF LaterOf

(* A step of r keeps the invariant when it does so for r.                  *)
LEMMA MarkBy ==
  ASSUME TypeOK, FormInv, MarkInv, Steady, lastRead' = lastRead, ClockInv',
         NEW r \in Requests, Others(r),
         MarkOf(req'[r], msg', read', lastRead'),
         \A p \in Requests \ {r} :
           LaterOf(req[p], req'[r], msg') /\ LaterOf(req'[r], req[p], msg')
  PROVE  MarkInv'
<1>1. ASSUME NEW q \in Requests PROVE MarkOf(req'[q], msg', read', lastRead')
  BY MarkKept DEF Others
<1>2. ASSUME NEW p \in Requests, NEW q \in Requests, p # q
      PROVE  LaterOf(req'[p], req'[q], msg')
  <2>1. CASE p # r /\ q # r
    BY <1>2, <2>1, LaterKept DEF Others
  <2>2. CASE p = r
    BY <1>2, <2>2 DEF Others
  <2>3. CASE q = r
    BY <1>2, <2>3 DEF Others
  <2> QED
    BY <2>1, <2>2, <2>3
<1> QED
  BY <1>1, <1>2 DEF MarkInv, MarkOf, LaterOf, Covers, Root, Ms

(* A step that starts or advances no mark.                                 *)
LEMMA MarkAside ==
  ASSUME TypeOK, FormInv, MarkInv, Steady, lastRead' = lastRead, ClockInv',
         \A q \in Requests :
           \/ /\ req'[q].at = req[q].at /\ req'[q].user = req[q].user
              /\ req'[q].message = req[q].message /\ req'[q].known = req[q].known
              /\ req'[q].todo = req[q].todo /\ req'[q].stamp = req[q].stamp
              /\ req[q].late => req'[q].late
           \/ req'[q].at \notin MarkPhase
  PROVE  MarkInv'
<1>1. ASSUME NEW q \in Requests PROVE MarkOf(req'[q], msg', read', lastRead')
  <2>1. MarkOf(req[q], msg', read', lastRead')
    BY MarkKept
  <2> QED
    BY <2>1 DEF MarkOf, Covers
<1>2. ASSUME NEW p \in Requests, NEW q \in Requests, p # q
      PROVE  LaterOf(req'[p], req'[q], msg')
  <2>1. LaterOf(req[p], req[q], msg')
    BY <1>2, LaterKept
  <2> QED
    BY <2>1 DEF LaterOf, MarkPhase
<1> QED
  BY <1>1, <1>2 DEF MarkInv, MarkOf, LaterOf, Covers, Root, Ms

LEMMA MarkAllKeeps ==
  ASSUME TypeOK, FormInv, MarkInv, NEW r \in Requests, NEW u \in Users, MarkAllRead(r, u)
  PROVE  MarkInv'
<1>1. Steady /\ UNCHANGED <<msg, read, lastRead>> /\ ClockInv'
  BY DEF MarkAllRead, Steady, MarkInv, ClockInv
<1>2. \A m \in OfOthers(u) : m \in Messages /\ msg[m].at # 0 /\ Author[m] # u
  BY DEF OfOthers, Sent
<1>3. \A m \in OfOthers(u) : Ms(msg[m].at) <= Ms(now)
  <2>1. \A t \in Time : t \in Nat
    BY TimeAssumption DEF Time
  <2>2. now \in Nat /\ \A m \in Messages : msg[m].at \in Nat
    BY <2>1 DEF TypeOK, Row
  <2>3. \A m \in OfOthers(u) : msg[m].at \in Nat /\ msg[m].at <= now
    BY <1>2, <2>2 DEF MarkInv, ClockInv
  <2> QED
    BY <2>2, <2>3, MsMonotone
<1>4. MarkOf(req'[r], msg', read', lastRead')
  BY <1>1, <1>2, <1>3, MarkAllStep DEF MarkOf
<1>5. ASSUME NEW p \in Requests \ {r}
      PROVE  LaterOf(req[p], req'[r], msg') /\ LaterOf(req'[r], req[p], msg')
  <2>1. LaterOf(req'[r], req[p], msg')
    <3>1. req'[r].user = u
          /\ (req[p].at = "stamping" /\ req[p].user = u => req'[r].late)
      <4> DEFINE b == \E q \in Requests : req[q].at = "stamping" /\ req[q].user = u
      <4>1. req'[r].user = u /\ req'[r].late = b
        BY MarkAllStep
      <4>2. req[p].at = "stamping" /\ req[p].user = u => b
        BY p \in Requests
      <4> HIDE DEF b
      <4> QED
        BY <4>1, <4>2
    <3> QED
      BY <3>1 DEF LaterOf
  <2>2. ASSUME req[p].at \in MarkPhase, req[p].user = u
        PROVE  \A m \in req[p].known : Ms(msg[m].at) <= Ms(now)
    <3>1. MarkOf(req[p], msg, read, lastRead) /\ req[p].known \in SUBSET Messages
      BY DEF MarkInv, TypeOK, Request
    <3>2. \A m \in req[p].known : m \in OfOthers(u)
      BY <2>2, <3>1 DEF MarkOf, OfOthers, Sent
    <3> QED
      BY <1>3, <3>2
  <2>3. LaterOf(req[p], req'[r], msg')
    BY <1>1, <2>2, MarkAllStep DEF LaterOf
  <2> QED
    BY <2>1, <2>3
<1> QED
  BY <1>1, <1>4, <1>5, MarkAllStep, MarkBy

LEMMA MarkThreadKeeps ==
  ASSUME TypeOK, FormInv, MarkInv, NEW r \in Requests, NEW u \in Users, NEW m \in Messages,
         MarkThreadRead(r, u, m)
  PROVE  MarkInv'
<1>1. Steady /\ UNCHANGED <<msg, read, lastRead>> /\ ClockInv'
  BY DEF MarkThreadRead, Steady, MarkInv, ClockInv
<1>2. \A n \in OfOthers(u) : msg[n].at # 0 /\ Author[n] # u
  BY DEF OfOthers, Sent
<1>3. MarkOf(req'[r], msg', read', lastRead')
  BY <1>1, <1>2, MarkThreadStep DEF MarkOf
<1>4. \A p \in Requests \ {r} :
        LaterOf(req[p], req'[r], msg') /\ LaterOf(req'[r], req[p], msg')
  BY MarkThreadStep DEF LaterOf
<1> QED
  BY <1>1, <1>3, <1>4, MarkThreadStep, MarkBy

(* r goes on from one phase after its stamp to the next.                   *)
LEMMA MarkGoesOn ==
  ASSUME TypeOK, FormInv, MarkInv, NEW r \in Requests, GoesOn(r), Steady,
         lastRead' = lastRead, msg' = msg, ClockInv',
         req[r].at \in MarkPhase \ {"stamping"},
         req'[r].at \in {"comparing", "inserting", "done"},
         \A m \in req[r].known : Covers(req[r], m) =>
           /\ req'[r].at = "comparing" => m \in req'[r].todo
           /\ req'[r].at = "inserting" => m \in req'[r].todo \cup read'[req[r].user]
           /\ req'[r].at = "done" => m \in read'[req[r].user]
  PROVE  MarkInv'
<1>1. MarkOf(req[r], msg, read, lastRead)
  BY DEF MarkInv
<1>2. /\ req'[r].user = req[r].user /\ req'[r].message = req[r].message
      /\ req'[r].known = req[r].known /\ req'[r].late = req[r].late /\ Others(r)
  BY DEF GoesOn
<1>3. MarkOf(req'[r], msg', read', lastRead')
  <2>1. \A m : Covers(req'[r], m) <=> Covers(req[r], m)
    BY <1>2 DEF Covers
  <2> QED
    BY <1>1, <1>2, <2>1 DEF MarkOf, MarkPhase
<1>4. ASSUME NEW p \in Requests \ {r}
      PROVE  LaterOf(req[p], req'[r], msg') /\ LaterOf(req'[r], req[p], msg')
  <2>1. LaterOf(req[p], req'[r], msg')
    BY DEF LaterOf
  <2>2. LaterOf(req[r], req[p], msg)
    BY DEF MarkInv
  <2> QED
    BY <1>2, <2>1, <2>2 DEF LaterOf, MarkPhase
<1> QED
  BY <1>2, <1>3, <1>4, MarkBy

LEMMA ListKeeps ==
  ASSUME TypeOK, FormInv, MarkInv, NEW r \in Requests, List(r) PROVE MarkInv'
<1>1. Steady /\ UNCHANGED <<msg, read, lastRead>> /\ ClockInv'
  BY DEF List, Steady, MarkInv, ClockInv
<1>2. req[r].at = "listing" /\ MarkOf(req[r], msg, read, lastRead)
      /\ req[r].known \in SUBSET Messages
  BY ListStep DEF MarkInv, TypeOK, Request
<1>3. \A m \in req[r].known : Covers(req[r], m) => m \in req'[r].todo
  <2>1. \A m \in req[r].known : m \in OfOthers(req[r].user)
    BY <1>2 DEF MarkOf, MarkPhase, OfOthers, Sent
  <2> QED
    BY <2>1, ListStep
<1>4. req'[r].at = "done" => req'[r].todo = {}
  BY ListStep
<1>5. req'[r].at \in {"comparing", "done"}
  BY ListStep
<1> QED
  BY <1>1, <1>2, <1>3, <1>4, <1>5, ListStep, MarkGoesOn DEF MarkPhase

LEMMA CompareKeeps ==
  ASSUME TypeOK, FormInv, MarkInv, NEW r \in Requests, Compare(r) PROVE MarkInv'
<1>1. Steady /\ UNCHANGED <<msg, read, lastRead>> /\ ClockInv'
  BY DEF Compare, Steady, MarkInv, ClockInv
<1>2. req[r].at = "comparing" /\ MarkOf(req[r], msg, read, lastRead)
  BY CompareStep DEF MarkInv
<1>3. \A m \in req[r].known : Covers(req[r], m) =>
        m \in req'[r].todo \cup read[req[r].user]
  BY <1>2, CompareStep DEF MarkOf, MarkPhase, Missing
<1>4. req'[r].at = "done" => req'[r].todo = {}
  BY CompareStep
<1>5. req'[r].at \in {"inserting", "done"}
  BY CompareStep
<1> QED
  BY <1>1, <1>2, <1>3, <1>4, <1>5, CompareStep, MarkGoesOn DEF MarkPhase

LEMMA InsertKeeps ==
  ASSUME TypeOK, FormInv, MarkInv, NEW r \in Requests, Insert(r) PROVE MarkInv'
<1>1. UNCHANGED <<msg, lastRead>> /\ ClockInv' /\ req[r].at = "inserting"
  BY InsertStep DEF Insert, MarkInv, ClockInv
<1>2. MarkOf(req[r], msg, read, lastRead) /\ req[r].user \in Users
  BY <1>1 DEF MarkInv, FormInv, Form
<1>3. CASE req'[r].at = "failed" /\ read' = read
  <2>1. Steady
    BY <1>1, <1>3 DEF Steady
  <2>2. \A q \in Requests : req'[q] = req[q] \/ req'[q].at \notin MarkPhase
    BY <1>3, InsertStep DEF GoesOn, Others, MarkPhase
  <2>3. \A q \in Requests : req'[q] = req[q] =>
          /\ req'[q].at = req[q].at /\ req'[q].user = req[q].user
          /\ req'[q].message = req[q].message /\ req'[q].known = req[q].known
          /\ req'[q].todo = req[q].todo /\ req'[q].stamp = req[q].stamp
          /\ req[q].late => req'[q].late
    OBVIOUS
  <2> QED
    BY <1>1, <2>1, <2>2, <2>3, MarkAside
<1>4. CASE /\ req'[r].at = "done"
           /\ read' = [read EXCEPT ![req[r].user] = @ \cup req[r].todo]
  <2>1. Steady
    BY <1>1, <1>4 DEF Steady, TypeOK
  <2>2. read'[req[r].user] = read[req[r].user] \cup req[r].todo
    BY <1>2, <1>4 DEF TypeOK
  <2>3. \A m \in req[r].known : Covers(req[r], m) => m \in read'[req[r].user]
    BY <1>1, <1>2, <2>2 DEF MarkOf, MarkPhase
  <2> QED
    BY <1>1, <1>4, <2>1, <2>3, InsertStep, MarkGoesOn DEF MarkPhase
<1> QED
  BY <1>3, <1>4, InsertStep

LEMMA StampKeeps ==
  ASSUME TypeOK, FormInv, MarkInv, NEW r \in Requests, Stamp(r) PROVE MarkInv'
<1> DEFINE u == req[r].user
<1>1. /\ UNCHANGED <<msg, read>> /\ ClockInv'
      /\ req[r].at = "stamping" /\ req'[r].at = "listing"
      /\ req'[r].user = u /\ req'[r].message = req[r].message
      /\ req'[r].known = req[r].known /\ req'[r].late = req[r].late /\ Others(r)
  BY StampStep DEF Stamp, MarkInv, ClockInv, GoesOn
<1>2. u \in Users /\ lastRead' = [lastRead EXCEPT ![u] = req[r].stamp]
  BY <1>1 DEF Stamp, FormInv, Form
<1>3. lastRead'[u] = req[r].stamp /\ \A v \in Users : v # u => lastRead'[v] = lastRead[v]
  BY <1>2 DEF TypeOK
<1>4. ASSUME NEW q \in Requests PROVE MarkOf(req'[q], msg', read', lastRead')
  <2>1. MarkOf(req[q], msg, read, lastRead)
    BY DEF MarkInv
  <2>2. CASE q = r
    BY <1>1, <1>3, <2>1, <2>2 DEF MarkOf, MarkPhase, Covers
  <2>3. CASE q # r /\ req[q].at \in MarkPhase /\ req[q].user = u
    <3>1. LaterOf(req[q], req[r], msg)
      BY <2>3 DEF MarkInv
    <3> QED
      BY <1>1, <1>3, <2>1, <2>3, <3>1 DEF MarkOf, LaterOf, Others
  <2>4. CASE q # r /\ req[q].at \in MarkPhase /\ req[q].user # u
    <3>1. req[q].user \in Users
      BY <2>4 DEF FormInv, Form, MarkPhase
    <3> QED
      BY <1>1, <1>3, <2>1, <2>4, <3>1 DEF MarkOf, Others
  <2>5. CASE q # r /\ req[q].at \notin MarkPhase
    BY <1>1, <2>5 DEF MarkOf, Others
  <2> QED
    BY <2>2, <2>3, <2>4, <2>5
<1>5. ASSUME NEW p \in Requests, NEW q \in Requests, p # q
      PROVE  LaterOf(req'[p], req'[q], msg')
  <2>1. LaterOf(req[p], req[q], msg)
    BY <1>5 DEF MarkInv
  <2> QED
    BY <1>1, <1>5, <2>1 DEF LaterOf, Others, MarkPhase
<1> QED
  BY <1>1, <1>4, <1>5 DEF MarkInv, MarkOf, LaterOf, Covers, Root, Ms

(* A step of r after which r is no mark.                                   *)
LEMMA MarkLeft ==
  ASSUME TypeOK, FormInv, MarkInv, Steady, lastRead' = lastRead, ClockInv',
         NEW r \in Requests, Others(r), req'[r].at \notin MarkPhase
  PROVE  MarkInv'
<1>1. ASSUME NEW q \in Requests PROVE MarkOf(req'[q], msg', read', lastRead')
  BY MarkKept DEF Others, MarkOf
<1>2. ASSUME NEW p \in Requests, NEW q \in Requests, p # q
      PROVE  LaterOf(req'[p], req'[q], msg')
  BY <1>2, LaterKept DEF Others, LaterOf, MarkPhase
<1> QED
  BY <1>1, <1>2 DEF MarkInv, MarkOf, LaterOf, Covers, Root, Ms

(* The steps that leave the requests, and all that is dated or stamped,    *)
(* alone.                                                                  *)
LEMMA MarkSame ==
  ASSUME TypeOK, FormInv, MarkInv, Steady, lastRead' = lastRead, ClockInv', req' = req
  PROVE  MarkInv'
BY MarkAside

LEMMA CommitKeeps ==
  ASSUME TypeOK, FormInv, RemovalInv, MarkInv, NEW m \in Messages, Commit(m)
  PROVE  MarkInv'
<1>1. opened[m] # 0 /\ msg[m].at = 0 /\ opened[m] <= now
  BY DEF Commit, RemovalInv, RowsInv, MarkInv, ClockInv
<1>2. /\ msg'[m].at = opened[m]
      /\ \A n \in Messages : n # m => msg'[n] = msg[n]
      /\ \A n \in Messages : opened'[n] = IF n = m THEN 0 ELSE opened[n]
  BY DEF Commit, TypeOK
<1>3. Steady
  BY <1>1, <1>2 DEF Steady, Commit
<1>4. ClockInv'
  <2>1. now \in Nat
    BY TimeAssumption DEF TypeOK, Time
  <2> QED
    BY <1>1, <1>2, <2>1 DEF ClockInv, Commit, MarkInv
<1> QED
  BY <1>3, <1>4, MarkSame DEF Commit

LEMMA WriteKeeps ==
  ASSUME TypeOK, FormInv, MarkInv, NEW r \in Requests, Write(r)
  PROVE  MarkInv'
<1>1. \A m \in Messages : msg'[m].at = msg[m].at
  <2>1. req[r].message \in Messages /\ \A m \in Messages : msg[m] \in Row
    BY DEF Write, FormInv, Form, TypeOK
  <2> QED
    BY <2>1 DEF Write, TypeOK, Row
<1>2. Steady
  BY <1>1 DEF Steady, Write
<1>3. ClockInv'
  BY <1>1 DEF ClockInv, Write, MarkInv
<1>4. Goes(r, Done)
  BY DEF Write
<1>5. Others(r) /\ req'[r].at = "idle"
  BY <1>4, GoesStep, DoneType DEF Others
<1>6. lastRead' = lastRead
  BY DEF Write
<1> QED
  BY <1>2, <1>3, <1>5, <1>6, MarkLeft DEF MarkPhase

LEMMA ReloadKeeps ==
  ASSUME TypeOK, FormInv, MarkInv, NEW r \in Requests, Reload(r)
  PROVE  MarkInv'
<1> DEFINE dirty == {c \in Column : req[r].entity[c] # msg[req[r].message][c]}
           new == [req[r] EXCEPT !.at = "writing", !.dirty = dirty]
<1>1. Goes(r, new) /\ Steady /\ ClockInv' /\ lastRead' = lastRead
  BY DEF Reload, Steady, ClockInv, MarkInv
<1>2. new.at = "writing"
  BY DEF TypeOK, Request
<1> HIDE DEF new
<1>3. req'[r] = new /\ Others(r)
  BY <1>1 DEF Goes, TypeOK, Others
<1> QED
  BY <1>1, <1>2, <1>3, MarkLeft DEF MarkPhase

LEMMA ReadKeeps ==
  ASSUME TypeOK, FormInv, MarkInv, NEW r \in Requests, NEW m \in Messages, NEW e \in Row,
         ReadRow(r, m, e)
  PROVE  MarkInv'
<1>1. Steady /\ ClockInv' /\ lastRead' = lastRead
  BY DEF ReadRow, Steady, ClockInv, MarkInv
<1>2. req'[r].at \notin MarkPhase
  BY ReadStep DEF MarkPhase
<1>3. \A q \in Requests \ {r} :
         /\ req'[q].at = req[q].at /\ req'[q].user = req[q].user
         /\ req'[q].message = req[q].message /\ req'[q].known = req[q].known
         /\ req'[q].todo = req[q].todo /\ req'[q].stamp = req[q].stamp
         /\ req[q].late => req'[q].late
  BY ReadSame
<1> QED
  BY <1>1, <1>2, <1>3, MarkAside

LEMMA MarkStep == TypeOK /\ FormInv /\ RemovalInv /\ MarkInv /\ [Next]_vars => MarkInv'
<1> SUFFICES ASSUME TypeOK, FormInv, RemovalInv, MarkInv, [Next]_vars PROVE MarkInv'
  OBVIOUS
<1>0. now \in Nat /\ \A m \in Messages : msg[m] \in Row /\ msg[m].at \in Nat /\ opened[m] \in Nat
  BY TimeAssumption DEF TypeOK, Row, Time
<1>1. ASSUME NEW m \in Messages, Begin(m) \/ Rollback(m) PROVE MarkInv'
  <2>1. Steady /\ UNCHANGED <<req, lastRead>>
    BY <1>1 DEF Begin, Rollback, Steady
  <2>2. ClockInv'
    BY <1>0, <1>1 DEF Begin, Rollback, ClockInv, MarkInv, TypeOK
  <2> QED
    BY <2>1, <2>2, MarkSame
<1>2. ASSUME NEW r \in Requests, NEW m \in Messages,
             ReadForUpdate(r, m) \/ ReadForRemove(r, m)
      PROVE  MarkInv'
  <2> DEFINE edited == [msg[m] EXCEPT !.text = "edited"]
             emptied == [msg[m] EXCEPT !.text = None, !.deleted = TRUE]
  <2>1. edited \in Row /\ emptied \in Row
    BY <1>0 DEF Row
  <2>2. ReadRow(r, m, edited) \/ ReadRow(r, m, emptied)
    BY <1>2 DEF ReadForUpdate, ReadForRemove
  <2> HIDE DEF edited, emptied
  <2> QED
    BY <2>1, <2>2, ReadKeeps
<1>3. ASSUME NEW r \in Requests, Answer(r) PROVE MarkInv'
  <2>1. Steady /\ ClockInv' /\ lastRead' = lastRead
    BY <1>3 DEF Answer, Steady, ClockInv, MarkInv
  <2>2. Others(r) /\ req'[r].at \notin MarkPhase
    BY <1>3, AnswerStep DEF MarkPhase
  <2> QED
    BY <2>1, <2>2, MarkLeft
<1>4. ASSUME NEW u \in Users, NEW m \in Messages, MarkRead(u, m) PROVE MarkInv'
  <2>1. Steady /\ ClockInv' /\ UNCHANGED <<req, lastRead>>
    BY <1>4 DEF MarkRead, Steady, ClockInv, MarkInv, TypeOK
  <2> QED
    BY <2>1, MarkSame
<1>5. CASE Tick
  <2>1. Steady /\ UNCHANGED <<req, lastRead>>
    BY <1>5 DEF Tick, Steady
  <2>2. ClockInv'
    BY <1>0, <1>5 DEF Tick, ClockInv, MarkInv
  <2> QED
    BY <2>1, <2>2, MarkSame
<1>6. CASE Crash
  <2>1. Steady /\ lastRead' = lastRead
    BY <1>6 DEF Crash, Steady
  <2>2. ClockInv'
    BY <1>0, <1>6 DEF Crash, ClockInv, MarkInv
  <2>3. \A q \in Requests : req'[q].at \notin MarkPhase
    BY <1>6, DoneType DEF Crash, MarkPhase
  <2> QED
    BY <2>1, <2>2, <2>3, MarkAside
<1>7. CASE UNCHANGED vars
  <2>1. Steady /\ ClockInv' /\ UNCHANGED <<req, lastRead>>
    BY <1>7 DEF vars, Steady, ClockInv, MarkInv
  <2> QED
    BY <2>1, MarkSame
<1>8. ASSUME NEW r \in Requests, ReadForRename(r) \/ ReloadConversation(r) \/ Rename(r)
      PROVE  MarkInv'
  <2>1. UNCHANGED <<now, msg, opened, lastRead, read>> /\ Others(r)
        /\ req'[r].at \notin MarkPhase
    BY <1>8, NamingStep DEF MarkPhase
  <2>2. Steady /\ ClockInv'
    BY <2>1 DEF Steady, ClockInv, MarkInv
  <2> QED
    BY <2>1, <2>2, MarkLeft
<1> QED
  BY <1>1, <1>2, <1>3, <1>4, <1>5, <1>6, <1>7, <1>8, CommitKeeps, WriteKeeps, ReloadKeeps,
     MarkAllKeeps, MarkThreadKeeps, StampKeeps, ListKeeps, CompareKeeps, InsertKeeps
     DEF Next

(* A mark that has succeeded covers what was there when it began           *)
(* (MarkedIsRead), for every number of users, messages and marks under way *)
(* and whatever the granularity of the clock.                              *)
THEOREM MarkedStaysRead == Spec => []MarkedIsRead
<1> DEFINE Inv == TypeOK /\ FormInv /\ RemovalInv /\ MarkInv
<1>1. Init => Inv
  <2>1. Init => MarkInv
    BY DoneType DEF Init, MarkInv, MarkOf, LaterOf, ClockInv, MarkPhase, NoRow
  <2> QED
    BY <2>1, InitTypes, InitRemoval
<1>2. Inv /\ [Next]_vars => Inv'
  BY TypeStep, FormStep, RemovalStep, MarkStep
<1>3. Inv => MarkedIsRead
  <2> SUFFICES ASSUME Inv, NEW r \in Requests, req[r].at = "done"
               PROVE  /\ \A m \in req[r].known : Covers(req[r], m) => m \in read[req[r].user]
                      /\ ~req[r].late =>
                           \A m \in req[r].known \cap Unread(req[r].user) :
                             Ms(msg[m].at) <= lastRead[req[r].user]
    BY DEF MarkedIsRead
  <2>1. MarkOf(req[r], msg, read, lastRead)
    BY DEF MarkInv
  <2> QED
    BY <2>1 DEF MarkOf, MarkPhase
<1> QED
  BY <1>1, <1>2, <1>3, PTL DEF Spec
=============================================================================
