------------------------- MODULE AuthSessionProofs -------------------------
(***************************************************************************)
(* What the runs of AuthSession show on a small instance, proved for any   *)
(* number of requests, passwords and seconds.                              *)
(***************************************************************************)
EXTENDS AuthSession, TLAPS

(* A token about to be replaced by its own refresh is in its grace; so is  *)
(* one that was replaced that way under a refresh that presents it.        *)
(* current: the row's token, begun: tokens whose grace has begun, over:    *)
(* those whose grace is over.                                              *)
CalmOf(request, current, begun, over) ==
  /\ request.at \in {"keeping", "storing"} => request.fresh \in Seconds
  /\ request.at \in {"asking", "checking", "keeping"} => request.token \in Seconds
  /\ request.at = "storing" /\ request.token # None => request.token \in begun
  /\ request.calm = "own" /\ request.at \in {"asking", "checking"}
       => current # None /\ (current = request.token \/ request.token \in begun)
  /\ request.calm = "own" /\ request.at = "checking"
       => request.entity.token = request.token \/ request.token \in begun
  /\ request.calm = "own" /\ request.at = "rejected" => request.token \in over

CalmInv == \A q \in Requests : CalmOf(req[q], row.token, grace \cup lapsed, lapsed)

CalmNow(request) == CalmOf(request, row.token, grace \cup lapsed, lapsed)
CalmNext(request) == CalmOf(request, row'.token, grace' \cup lapsed', lapsed')

(* After a quiet end of the session no request is on its way to write a    *)
(* token.                                                                  *)
QuietInv ==
  revoked = "quiet" =>
    /\ row.token = None
    /\ \A q \in Requests :
         /\ req[q].at \notin {"comparing", "checking", "keeping", "storing"}
         /\ req[q].at \in {"saving", "writing"} => req[q].entity.token = None

-----------------------------------------------------------------------------
LEMMA DoneType ==
  Done \in Request /\ Done.at = "idle" /\ Done.calm = "no" /\ Done.token = None
<1>1. SomePassword \in Passwords
  BY PasswordsAssumption DEF SomePassword
<1> QED
  BY <1>1 DEF Done, Idle, Request, Row, Phase

(* A request that goes on, and the others, which do not.                   *)
LEMMA GoesStep ==
  ASSUME TypeOK, NEW r \in Requests, NEW request \in Request, Goes(r, request)
  PROVE  /\ req' \in [Requests -> Request]
         /\ req'[r] = request
         /\ \A q \in Requests : q # r => req'[q] = req[q]
BY DEF Goes, TypeOK

(* q is as it was, but for what it remembers of the row's token.           *)
Same(q) ==
  /\ req'[q].at = req[q].at /\ req'[q].token = req[q].token
  /\ req'[q].fresh = req[q].fresh /\ req'[q].entity = req[q].entity
  /\ req'[q].dirty = req[q].dirty

LEMMA DisturbStep ==
  ASSUME TypeOK, NEW r \in Requests, EndsAndDisturbs(r)
  PROVE  /\ req' \in [Requests -> Request]
         /\ req'[r] = Done
         /\ \A q \in Requests : req'[q].calm = "no"
         /\ \A q \in Requests : q # r => Same(q)
<1>1. \A q \in Requests : [req[q] EXCEPT !.calm = "no"] \in Request
  BY DEF TypeOK, Request
<1>2. req' \in [Requests -> Request] /\ req'[r] = Done
  BY <1>1, DoneType DEF EndsAndDisturbs
<1>3. ASSUME NEW q \in Requests, q # r PROVE Same(q) /\ req'[q].calm = "no"
  <2>1. req'[q] = [req[q] EXCEPT !.calm = "no"] /\ req[q] \in Request
    BY <1>3 DEF EndsAndDisturbs, TypeOK
  <2> QED
    BY <2>1 DEF Same, Request
<1> QED
  BY <1>2, <1>3, DoneType

LEMMA RotateStep ==
  ASSUME TypeOK, NEW r \in Requests, EndsAndRotates(r)
  PROVE  /\ req' \in [Requests -> Request]
         /\ req'[r] = Done
         /\ \A q \in Requests : q # r =>
              /\ Same(q)
              /\ req'[q].calm = "own" =>
                   /\ req[q].calm = "own"
                   /\ req[q].token # row.token \/ req[q].token = req[r].token
<1>1. \A q \in Requests : [req[q] EXCEPT !.calm = "tab"] \in Request
  BY DEF TypeOK, Request
<1>2. req' \in [Requests -> Request] /\ req'[r] = Done
  BY <1>1, DoneType DEF EndsAndRotates, TypeOK
<1>3. ASSUME NEW q \in Requests, q # r
      PROVE  /\ Same(q)
             /\ req'[q].calm = "own" =>
                  /\ req[q].calm = "own"
                  /\ req[q].token # row.token \/ req[q].token = req[r].token
  <2>1. req[q] \in Request
    BY DEF TypeOK
  <2> DEFINE turned == /\ req[q].calm = "own"
                       /\ req[q].token = row.token /\ req[q].token # req[r].token
  <2>2. CASE turned
    <3>1. req'[q] = [req[q] EXCEPT !.calm = "tab"]
      BY <1>3, <2>2 DEF EndsAndRotates
    <3> QED
      BY <2>1, <3>1 DEF Same, Request
  <2>3. CASE ~turned
    <3>1. req'[q] = req[q]
      BY <1>3, <2>3 DEF EndsAndRotates
    <3> QED
      BY <2>3, <3>1 DEF Same
  <2> QED
    BY <2>2, <2>3
<1> QED
  BY <1>2, <1>3

-----------------------------------------------------------------------------
(* The requests that the actions make are well typed.                      *)
LEMMA RequestTypes ==
  ASSUME TypeOK, NEW r \in Requests
  PROVE  /\ [Done EXCEPT !.at = "comparing"] \in Request
         /\ [Done EXCEPT !.at = "revoking"] \in Request
         /\ [Done EXCEPT !.at = "storing", !.fresh = now] \in Request
         /\ [req[r] EXCEPT !.at = "rejected"] \in Request
         /\ [req[r] EXCEPT !.at = "storing"] \in Request
         /\ [req[r] EXCEPT !.at = "checking", !.entity = row] \in Request
         /\ [req[r] EXCEPT !.at = "writing",
                           !.dirty = {c \in Column : req[r].entity[c] # row[c]}] \in Request
         /\ [Done EXCEPT !.at = "keeping", !.token = req[r].token, !.fresh = now,
                         !.calm = req[r].calm] \in Request
         /\ \A e \in Row : [Done EXCEPT !.at = "saving", !.entity = e] \in Request
         /\ \A t \in Seconds :
              [Done EXCEPT !.at = "asking", !.token = t,
                           !.calm = IF row.token = t THEN "own" ELSE "no"] \in Request
BY DoneType DEF TypeOK, Request, Phase

LEMMA EditsType == ASSUME NEW e \in Row PROVE Edits(e) \subseteq Row
<1>1. \A p \in Passwords : Reset(e, p) \in Row /\ [e EXCEPT !.password = p] \in Row
  BY DEF Reset, Row
<1> QED
  BY <1>1 DEF Edits

LEMMA TypeStep ==
  ASSUME TypeOK, CalmInv, [Next]_vars
  PROVE  TypeOK'
<1>1. ASSUME NEW r \in Requests, LoginRead(r) PROVE TypeOK'
  BY <1>1, RequestTypes, GoesStep DEF LoginRead, TypeOK
<1>2. ASSUME NEW r \in Requests, LoginSign(r) PROVE TypeOK'
  BY <1>2, RequestTypes, GoesStep DEF LoginSign, TypeOK
<1>3. ASSUME NEW r \in Requests, SwitchBack(r) PROVE TypeOK'
  BY <1>3, RequestTypes, GoesStep DEF SwitchBack, TypeOK
<1>4. ASSUME NEW r \in Requests, Store(r) PROVE TypeOK'
  <2>1. req[r].fresh \in Seconds
    BY <1>4 DEF Store, CalmInv, CalmOf
  <2>2. row' \in Row /\ held' \in SUBSET Seconds
    BY <1>4, <2>1 DEF Store, TypeOK, Row
  <2>3. req' \in [Requests -> Request]
    BY <1>4, DisturbStep, RotateStep DEF Store
  <2> QED
    BY <1>4, <2>2, <2>3 DEF Store, TypeOK
<1>5. ASSUME NEW r \in Requests, AskRefresh(r) PROVE TypeOK'
  <2>1. held \subseteq Seconds
    BY DEF TypeOK
  <2>2. req' \in [Requests -> Request]
    BY <1>5, <2>1, RequestTypes, GoesStep DEF AskRefresh
  <2> QED
    BY <1>5, <2>2 DEF AskRefresh, TypeOK
<1>6. ASSUME NEW r \in Requests, ReadRow(r) PROVE TypeOK'
  BY <1>6, RequestTypes, GoesStep DEF ReadRow, TypeOK
<1>7. ASSUME NEW r \in Requests, CheckGrace(r) PROVE TypeOK'
  BY <1>7, RequestTypes, GoesStep DEF CheckGrace, TypeOK
<1>8. ASSUME NEW r \in Requests, KeepGrace(r) PROVE TypeOK'
  <2>1. req' \in [Requests -> Request]
    BY <1>8, RequestTypes, GoesStep DEF KeepGrace
  <2>2. req[r].token \in Seconds
    BY <1>8 DEF KeepGrace, CalmInv, CalmOf
  <2>3. grace' \in SUBSET Seconds
    BY <1>8, <2>2 DEF KeepGrace, GraceKey, TypeOK
  <2> QED
    BY <1>8, <2>1, <2>3 DEF KeepGrace, TypeOK
<1>9. ASSUME NEW r \in Requests, Reject(r) PROVE TypeOK'
  BY <1>9, DoneType, GoesStep DEF Reject, Ends, TypeOK
<1>10. ASSUME NEW r \in Requests, Logout(r) PROVE TypeOK'
  BY <1>10, RequestTypes, GoesStep DEF Logout, TypeOK
<1>11. ASSUME NEW r \in Requests, Revoke(r) PROVE TypeOK'
  BY <1>11, DisturbStep DEF Revoke, RevokedBy, TypeOK, Row
<1>12. ASSUME NEW r \in Requests, ReadEntity(r) PROVE TypeOK'
  <2>1. Edits(row) \subseteq Row
    BY EditsType DEF TypeOK
  <2>2. req' \in [Requests -> Request]
    BY <1>12, <2>1, RequestTypes, GoesStep DEF ReadEntity
  <2> QED
    BY <1>12, <2>2 DEF ReadEntity, TypeOK
<1>13. ASSUME NEW r \in Requests, Reload(r) PROVE TypeOK'
  <2>1. req' \in [Requests -> Request]
    BY <1>13, RequestTypes, GoesStep DEF Reload
  <2> QED
    BY <1>13, <2>1 DEF Reload, TypeOK
<1>14. ASSUME NEW r \in Requests, Write(r) PROVE TypeOK'
  <2>1. req[r].entity \in Row /\ row \in Row
    BY DEF TypeOK, Request
  <2>2. row' \in Row
    BY <1>14, <2>1 DEF Write, Row, Column
  <2>3. req' \in [Requests -> Request]
    BY <1>14, DoneType, GoesStep, DisturbStep DEF Write, Ends
  <2>4. revoked' \in {"no", "busy", "quiet"}
    BY <1>14 DEF Write, RevokedBy, TypeOK
  <2> QED
    BY <1>14, <2>2, <2>3, <2>4 DEF Write, TypeOK
<1>15. CASE Tick
  BY <1>15, MaxSecondsAssumption DEF Tick, TypeOK, Seconds
<1>16. ASSUME NEW t \in Seconds, GraceExpires(t) PROVE TypeOK'
  BY <1>16 DEF GraceExpires, TypeOK
<1>17. CASE Crash
  BY <1>17, DoneType DEF Crash, TypeOK
<1>18. CASE UNCHANGED vars
  BY <1>18 DEF vars, TypeOK
<1> QED
  BY <1>1, <1>2, <1>3, <1>4, <1>5, <1>6, <1>7, <1>8, <1>9, <1>10, <1>11, <1>12,
     <1>13, <1>14, <1>15, <1>16, <1>17, <1>18 DEF Next

-----------------------------------------------------------------------------
(* The row and the grace keys do not change but for grace periods that     *)
(* begin, and r goes on in a way that CalmOf allows.                       *)
LEMMA CalmGoes ==
  ASSUME TypeOK, CalmInv, NEW r \in Requests, NEW request \in Request,
         Goes(r, request), row' = row, lapsed' = lapsed, grace \subseteq grace',
         CalmNext(request)
  PROVE  CalmInv'
<1>1. req'[r] = request /\ \A q \in Requests : q # r => req'[q] = req[q]
  BY GoesStep
<1>2. ASSUME NEW q \in Requests, q # r PROVE CalmNext(req'[q])
  <2>1. req'[q] = req[q]
    BY <1>1, <1>2
  <2> QED
    BY <2>1 DEF CalmInv, CalmOf, CalmNow, CalmNext
<1>3. CalmNext(req'[r])
  BY <1>1 DEF CalmOf, CalmNow, CalmNext
<1> QED
  BY <1>2, <1>3 DEF CalmInv, CalmNow, CalmNext

LEMMA CalmDone == CalmNext(Done)
BY DoneType DEF CalmOf, CalmNow, CalmNext

(* r ends a session or begins one: no request is calm any more.            *)
LEMMA CalmDisturb ==
  ASSUME TypeOK, CalmInv, NEW r \in Requests, EndsAndDisturbs(r),
         UNCHANGED <<grace, lapsed>>
  PROVE  CalmInv'
<1>1. /\ req'[r] = Done
      /\ \A q \in Requests : req'[q].calm = "no"
      /\ \A q \in Requests : q # r => Same(q)
  BY DisturbStep
<1>2. ASSUME NEW q \in Requests, q # r PROVE CalmNext(req'[q])
  BY <1>1, <1>2 DEF Same, CalmInv, CalmOf, CalmNow, CalmNext
<1>3. CalmNext(req'[r])
  BY <1>1, CalmDone DEF CalmOf, CalmNow, CalmNext
<1> QED
  BY <1>2, <1>3 DEF CalmInv, CalmNow, CalmNext

(* A refresh replaces the row's token.  Whoever still presents the old one *)
(* is calm only if it was that refresh's own, whose grace has begun.       *)
LEMMA CalmRotate ==
  ASSUME TypeOK, CalmInv, NEW r \in Requests, EndsAndRotates(r),
         req[r].at = "storing", req[r].token # None,
         row' = [row EXCEPT !.token = req[r].fresh], UNCHANGED <<grace, lapsed>>
  PROVE  CalmInv'
<1>1. /\ req'[r] = Done
      /\ \A q \in Requests : q # r =>
           /\ Same(q)
           /\ req'[q].calm = "own" =>
                /\ req[q].calm = "own"
                /\ req[q].token # row.token \/ req[q].token = req[r].token
  BY RotateStep
<1>2. row'.token \in Seconds /\ req[r].token \in grace \cup lapsed
  BY DEF CalmInv, CalmOf, CalmNow, CalmNext, TypeOK, Row
<1>3. ASSUME NEW q \in Requests, q # r PROVE CalmNext(req'[q])
  <2>1. Same(q) /\ CalmNow(req[q])
    BY <1>1, <1>3 DEF CalmInv, CalmNow, CalmNext
  <2>2. ASSUME req'[q].calm = "own", req[q].at \in {"asking", "checking"}
        PROVE  req[q].token \in grace \cup lapsed
    BY <1>1, <1>2, <1>3, <2>1, <2>2 DEF CalmOf, CalmNow, CalmNext
  <2> QED
    BY <1>1, <1>2, <1>3, <2>1, <2>2, NoneAssumption DEF Same, CalmOf, CalmNow, CalmNext
<1>4. CalmNext(req'[r])
  BY <1>1, CalmDone DEF CalmOf, CalmNow, CalmNext
<1> QED
  BY <1>3, <1>4 DEF CalmInv, CalmNow, CalmNext

LEMMA CalmStep ==
  ASSUME TypeOK, CalmInv, [Next]_vars
  PROVE  CalmInv'
<1>1. ASSUME NEW r \in Requests, LoginRead(r) PROVE CalmInv'
  <2> DEFINE request == [Done EXCEPT !.at = "comparing"]
  <2>1. request \in Request /\ CalmNext(request)
    BY RequestTypes, DoneType DEF CalmOf, CalmNow, CalmNext, Request
  <2> QED
    BY <1>1, <2>1, CalmGoes DEF LoginRead
<1>2. ASSUME NEW r \in Requests, LoginSign(r) \/ SwitchBack(r) PROVE CalmInv'
  <2> DEFINE request == [Done EXCEPT !.at = "storing", !.fresh = now]
  <2>0. request \in Request
    BY <1>2, RequestTypes
  <2>1. /\ request.at = "storing" /\ request.fresh = now
        /\ request.token = None /\ request.calm = "no"
    BY DoneType DEF Request
  <2> HIDE DEF request
  <2>2. CalmNext(request)
    BY <2>1 DEF CalmOf, CalmNext, TypeOK
  <2> QED
    BY <1>2, <2>0, <2>2, CalmGoes DEF LoginSign, SwitchBack, request
<1>3. ASSUME NEW r \in Requests, Store(r) PROVE CalmInv'
  BY <1>3, CalmDisturb, CalmRotate DEF Store
<1>4. ASSUME NEW r \in Requests, AskRefresh(r) PROVE CalmInv'
  <2>1. PICK t \in Seconds :
          Goes(r, [Done EXCEPT !.at = "asking", !.token = t,
                               !.calm = IF row.token = t THEN "own" ELSE "no"])
    BY <1>4 DEF AskRefresh, TypeOK
  <2> DEFINE request == [Done EXCEPT !.at = "asking", !.token = t,
                                     !.calm = IF row.token = t THEN "own" ELSE "no"]
  <2>2. request \in Request
    BY RequestTypes
  <2>3. /\ request.at = "asking" /\ request.token = t
        /\ request.calm = IF row.token = t THEN "own" ELSE "no"
    BY DoneType DEF Request
  <2> HIDE DEF request
  <2>4. CalmNext(request)
    BY <1>4, <2>3, NoneAssumption DEF AskRefresh, CalmOf, CalmNow, CalmNext
  <2> QED
    BY <1>4, <2>1, <2>2, <2>4, CalmGoes DEF AskRefresh, request
<1>5. ASSUME NEW r \in Requests, ReadRow(r) PROVE CalmInv'
  <2>1. req[r] \in Request /\ CalmNow(req[r]) /\ req[r].at = "asking"
    BY <1>5 DEF ReadRow, TypeOK, CalmInv, CalmNow, CalmNext
  <2>2. CASE row.token = None
    <3> DEFINE request == [req[r] EXCEPT !.at = "rejected"]
    <3>1. request \in Request /\ request.at = "rejected" /\ request.calm = req[r].calm
      BY <2>1, RequestTypes DEF Request
    <3> HIDE DEF request
    <3>2. CalmNext(request)
      BY <2>1, <2>2, <3>1 DEF CalmOf, CalmNow, CalmNext
    <3> QED
      BY <1>5, <2>2, <3>1, <3>2, CalmGoes DEF ReadRow, request
  <2>3. CASE row.token # None
    <3> DEFINE request == [req[r] EXCEPT !.at = "checking", !.entity = row]
    <3>1. request \in Request
      BY RequestTypes
    <3>2. /\ request.at = "checking" /\ request.entity = row
          /\ request.token = req[r].token /\ request.calm = req[r].calm
      BY <2>1 DEF Request
    <3> HIDE DEF request
    <3>3. CalmNext(request)
      BY <1>5, <2>1, <2>3, <3>2 DEF ReadRow, CalmOf, CalmNow, CalmNext
    <3> QED
      BY <1>5, <2>3, <3>1, <3>3, CalmGoes DEF ReadRow, request
  <2> QED
    BY <2>2, <2>3
<1>6. ASSUME NEW r \in Requests, CheckGrace(r) PROVE CalmInv'
  <2> DEFINE t == req[r].token
  <2>1. req[r] \in Request /\ CalmNow(req[r]) /\ req[r].at = "checking"
    BY <1>6 DEF CheckGrace, TypeOK, CalmInv, CalmNow, CalmNext
  <2>2. CASE req[r].entity.token = t \/ t \in grace
    <3> DEFINE request == [Done EXCEPT !.at = "keeping", !.token = t, !.fresh = now,
                                       !.calm = req[r].calm]
    <3>1. request \in Request
      BY RequestTypes
    <3>2. request.at = "keeping" /\ request.token = t /\ request.fresh = now
      BY DoneType DEF Request
    <3> HIDE DEF request
    <3>3. CalmNext(request)
      BY <2>1, <3>2 DEF CalmOf, CalmNow, CalmNext, TypeOK
    <3> QED
      BY <1>6, <2>2, <3>1, <3>3, CalmGoes DEF CheckGrace, request
  <2>3. CASE req[r].entity.token # t /\ t \notin grace
    <3> DEFINE request == [req[r] EXCEPT !.at = "rejected"]
    <3>1. request \in Request
      BY RequestTypes
    <3>2. request.at = "rejected" /\ request.token = t /\ request.calm = req[r].calm
      BY <2>1 DEF Request
    <3> HIDE DEF request
    <3>3. CalmNext(request)
      BY <1>6, <2>1, <2>3, <3>2 DEF CheckGrace, CalmOf, CalmNow, CalmNext
    <3> QED
      BY <1>6, <2>3, <3>1, <3>3, CalmGoes DEF CheckGrace, request
  <2> QED
    BY <2>2, <2>3
<1>7. ASSUME NEW r \in Requests, KeepGrace(r) PROVE CalmInv'
  <2> DEFINE request == [req[r] EXCEPT !.at = "storing"]
  <2>1. req[r] \in Request /\ CalmNow(req[r]) /\ req[r].at = "keeping"
    BY <1>7 DEF KeepGrace, TypeOK, CalmInv, CalmNow, CalmNext
  <2>2. request \in Request
    BY RequestTypes
  <2>3. request.at = "storing" /\ request.token = req[r].token
        /\ request.fresh = req[r].fresh
    BY <2>1 DEF Request
  <2> HIDE DEF request
  <2>4. CalmNext(request)
    BY <1>7, <2>1, <2>3 DEF KeepGrace, GraceKey, CalmOf, CalmNow, CalmNext
  <2> QED
    BY <1>7, <2>2, <2>4, CalmGoes DEF KeepGrace, request
<1>8. ASSUME NEW r \in Requests, Reject(r) PROVE CalmInv'
  BY <1>8, DoneType, CalmDone, CalmGoes DEF Reject, Ends
<1>9. ASSUME NEW r \in Requests, Logout(r) PROVE CalmInv'
  <2> DEFINE request == [Done EXCEPT !.at = "revoking"]
  <2>1. request \in Request /\ CalmNext(request)
    BY RequestTypes, DoneType DEF CalmOf, CalmNow, CalmNext, Request
  <2> QED
    BY <1>9, <2>1, CalmGoes DEF Logout
<1>10. ASSUME NEW r \in Requests, Revoke(r) PROVE CalmInv'
  BY <1>10, CalmDisturb DEF Revoke
<1>11. ASSUME NEW r \in Requests, ReadEntity(r) PROVE CalmInv'
  <2>1. PICK e \in Row : Goes(r, [Done EXCEPT !.at = "saving", !.entity = e])
    BY <1>11, EditsType DEF ReadEntity, TypeOK
  <2> DEFINE request == [Done EXCEPT !.at = "saving", !.entity = e]
  <2>2. request \in Request /\ CalmNext(request)
    BY RequestTypes, DoneType DEF CalmOf, CalmNow, CalmNext, Request
  <2> QED
    BY <1>11, <2>1, <2>2, CalmGoes DEF ReadEntity
<1>12. ASSUME NEW r \in Requests, Reload(r) PROVE CalmInv'
  <2> DEFINE request == [req[r] EXCEPT !.at = "writing",
                           !.dirty = {c \in Column : req[r].entity[c] # row[c]}]
  <2>1. request \in Request
    BY RequestTypes
  <2>2. request.at = "writing"
    BY <2>1 DEF TypeOK, Request
  <2> HIDE DEF request
  <2>3. CalmNext(request)
    BY <2>2 DEF CalmOf, CalmNow, CalmNext
  <2> QED
    BY <1>12, <2>1, <2>3, CalmGoes DEF Reload, request
<1>13. ASSUME NEW r \in Requests, Write(r) PROVE CalmInv'
  <2>1. CASE "token" \in req[r].dirty
    BY <1>13, <2>1, CalmDisturb DEF Write
  <2>2. CASE "token" \notin req[r].dirty
    <3>1. row'.token = row.token /\ UNCHANGED <<grace, lapsed>> /\ Goes(r, Done)
      BY <1>13, <2>2 DEF Write, Ends, Column
    <3>2. req'[r] = Done /\ \A q \in Requests : q # r => req'[q] = req[q]
      BY <3>1, DoneType, GoesStep
    <3>3. ASSUME NEW q \in Requests, q # r PROVE CalmNext(req'[q])
      <4>1. req'[q] = req[q] /\ CalmNow(req[q])
        BY <3>2, <3>3 DEF CalmInv, CalmNow, CalmNext
      <4> QED
        BY <3>1, <4>1 DEF CalmOf, CalmNow, CalmNext
    <3>4. CalmNext(req'[r])
      BY <3>2, CalmDone DEF CalmOf, CalmNow, CalmNext
    <3> QED
      BY <3>3, <3>4 DEF CalmInv, CalmNow, CalmNext
  <2> QED
    BY <2>1, <2>2
<1>14. CASE Tick
  BY <1>14 DEF Tick, CalmInv, CalmOf, CalmNow, CalmNext
<1>15. ASSUME NEW t \in Seconds, GraceExpires(t) PROVE CalmInv'
  BY <1>15 DEF GraceExpires, CalmInv, CalmOf, CalmNow, CalmNext
<1>16. CASE Crash
  BY <1>16, DoneType DEF Crash, CalmInv, CalmOf, CalmNow, CalmNext
<1>17. CASE UNCHANGED vars
  BY <1>17 DEF vars, CalmInv, CalmOf, CalmNow, CalmNext
<1> QED
  BY <1>1, <1>2, <1>3, <1>4, <1>5, <1>6, <1>7, <1>8, <1>9, <1>10, <1>11, <1>12,
     <1>13, <1>14, <1>15, <1>16, <1>17 DEF Next

-----------------------------------------------------------------------------
(* The session was ended quietly, so every other request is idle; or it    *)
(* was so before.                                                          *)
LEMMA QuietRevoke ==
  ASSUME TypeOK, QuietInv, NEW r \in Requests, EndsAndDisturbs(r),
         row'.token = None, revoked' = RevokedBy(r)
  PROVE  QuietInv'
<1>1. /\ req'[r] = Done
      /\ \A q \in Requests : q # r => Same(q)
  BY DisturbStep
<1>2. Done.at = "idle"
  BY DoneType
<1>3. CASE Others(r) = {}
  <2>1. \A q \in Requests : q # r => req[q].at = "idle"
    BY <1>3 DEF Others
  <2>2. \A q \in Requests : req'[q].at = "idle"
    BY <1>1, <1>2, <2>1 DEF Same
  <2> QED
    BY <2>2 DEF QuietInv
<1>4. CASE Others(r) # {}
  <2>1. revoked' = "quiet" => revoked = "quiet"
    BY <1>4 DEF RevokedBy
  <2> QED
    BY <1>1, <1>2, <2>1 DEF QuietInv, Same
<1> QED
  BY <1>3, <1>4

LEMMA QuietStep ==
  ASSUME TypeOK, QuietInv, [Next]_vars
  PROVE  QuietInv'
<1>1. ASSUME NEW r \in Requests, LoginRead(r) \/ SwitchBack(r) PROVE QuietInv'
  BY <1>1 DEF LoginRead, SwitchBack, QuietInv
<1>2. ASSUME NEW r \in Requests,
             \/ LoginSign(r) \/ Store(r) \/ CheckGrace(r) \/ KeepGrace(r)
      PROVE  QuietInv'
  <2>1. req[r].at \in {"comparing", "checking", "keeping", "storing"}
    BY <1>2 DEF LoginSign, Store, CheckGrace, KeepGrace
  <2>2. revoked # "quiet" /\ revoked' = revoked
    BY <1>2, <2>1 DEF QuietInv, LoginSign, Store, CheckGrace, KeepGrace
  <2> QED
    BY <2>2 DEF QuietInv
<1>3. ASSUME NEW r \in Requests, NEW request \in Request, Goes(r, request),
             UNCHANGED <<row, revoked>>,
             revoked = "quiet" =>
               /\ request.at \notin {"comparing", "checking", "keeping", "storing"}
               /\ request.at \in {"saving", "writing"} => request.entity.token = None
      PROVE  QuietInv'
  <2>1. req'[r] = request /\ \A q \in Requests : q # r => req'[q] = req[q]
    BY <1>3, GoesStep
  <2> QED
    BY <1>3, <2>1 DEF QuietInv
<1>4. ASSUME NEW r \in Requests, AskRefresh(r) PROVE QuietInv'
  <2>1. PICK t \in Seconds :
          Goes(r, [Done EXCEPT !.at = "asking", !.token = t,
                               !.calm = IF row.token = t THEN "own" ELSE "no"])
    BY <1>4 DEF AskRefresh, TypeOK
  <2> DEFINE request == [Done EXCEPT !.at = "asking", !.token = t,
                                     !.calm = IF row.token = t THEN "own" ELSE "no"]
  <2>2. request \in Request /\ request.at = "asking"
    BY RequestTypes, DoneType DEF Request
  <2> QED
    BY <1>3, <1>4, <2>1, <2>2 DEF AskRefresh
<1>5. ASSUME NEW r \in Requests, ReadRow(r) PROVE QuietInv'
  <2>1. CASE row.token = None
    <3> DEFINE request == [req[r] EXCEPT !.at = "rejected"]
    <3>1. request \in Request /\ request.at = "rejected"
      BY RequestTypes DEF TypeOK, Request
    <3> QED
      BY <1>3, <1>5, <2>1, <3>1 DEF ReadRow
  <2>2. CASE row.token # None
    <3>1. revoked # "quiet" /\ revoked' = revoked
      BY <1>5, <2>2 DEF QuietInv, ReadRow
    <3> QED
      BY <3>1 DEF QuietInv
  <2> QED
    BY <2>1, <2>2
<1>6. ASSUME NEW r \in Requests, Reject(r) PROVE QuietInv'
  BY <1>3, <1>6, DoneType DEF Reject, Ends
<1>7. ASSUME NEW r \in Requests, Logout(r) PROVE QuietInv'
  <2> DEFINE request == [Done EXCEPT !.at = "revoking"]
  <2>1. request \in Request /\ request.at = "revoking"
    BY RequestTypes, DoneType DEF Request
  <2> QED
    BY <1>3, <1>7, <2>1 DEF Logout
<1>8. ASSUME NEW r \in Requests, Revoke(r) PROVE QuietInv'
  <2>1. row'.token = None
    BY <1>8 DEF Revoke, TypeOK, Row
  <2> QED
    BY <1>8, <2>1, QuietRevoke DEF Revoke
<1>9. ASSUME NEW r \in Requests, ReadEntity(r) PROVE QuietInv'
  <2>1. PICK e \in Edits(row) : Goes(r, [Done EXCEPT !.at = "saving", !.entity = e])
    BY <1>9 DEF ReadEntity
  <2>2. e \in Row /\ (row.token = None => e.token = None)
    BY EditsType DEF Edits, Reset, TypeOK, Row
  <2> DEFINE request == [Done EXCEPT !.at = "saving", !.entity = e]
  <2>3. request \in Request /\ request.at = "saving" /\ request.entity = e
    BY <2>2, RequestTypes, DoneType DEF Request
  <2> QED
    BY <1>3, <1>9, <2>1, <2>2, <2>3 DEF ReadEntity, QuietInv
<1>10. ASSUME NEW r \in Requests, Reload(r) PROVE QuietInv'
  <2> DEFINE request == [req[r] EXCEPT !.at = "writing",
                           !.dirty = {c \in Column : req[r].entity[c] # row[c]}]
  <2>1. request \in Request
    BY RequestTypes
  <2>2. request.at = "writing" /\ request.entity = req[r].entity
    BY DEF TypeOK, Request
  <2>3. revoked = "quiet" => req[r].entity.token = None
    BY <1>10 DEF Reload, QuietInv
  <2> HIDE DEF request
  <2> QED
    BY <1>3, <1>10, <2>1, <2>2, <2>3 DEF Reload, request
<1>11. ASSUME NEW r \in Requests, Write(r) PROVE QuietInv'
  <2> DEFINE e == req[r].entity
  <2>1. CASE "token" \in req[r].dirty /\ e.token = None
    <3>1. row'.token = None
      BY <1>11, <2>1 DEF Write, Column
    <3> QED
      BY <1>11, <2>1, <3>1, QuietRevoke DEF Write
  <2>2. CASE "token" \in req[r].dirty /\ e.token # None
    <3>1. revoked # "quiet" /\ revoked' = revoked
      BY <1>11, <2>2 DEF Write, QuietInv
    <3> QED
      BY <3>1 DEF QuietInv
  <2>3. CASE "token" \notin req[r].dirty
    <3>1. row'.token = row.token /\ revoked' = revoked /\ Goes(r, Done)
      BY <1>11, <2>3 DEF Write, Ends, Column
    <3>2. req'[r] = Done /\ \A q \in Requests : q # r => req'[q] = req[q]
      BY <3>1, DoneType, GoesStep
    <3> QED
      BY <3>1, <3>2, DoneType DEF QuietInv
  <2> QED
    BY <2>1, <2>2, <2>3
<1>12. CASE Tick \/ \E t \in Seconds : GraceExpires(t)
  BY <1>12 DEF Tick, GraceExpires, QuietInv
<1>13. CASE Crash
  BY <1>13, DoneType DEF Crash, QuietInv
<1>14. CASE UNCHANGED vars
  BY <1>14 DEF vars, QuietInv
<1> QED
  BY <1>1, <1>2, <1>4, <1>5, <1>6, <1>7, <1>8, <1>9, <1>10, <1>11, <1>12,
     <1>13, <1>14 DEF Next

-----------------------------------------------------------------------------
LEMMA AuthInit == Init => TypeOK /\ CalmInv /\ QuietInv
<1>1. ASSUME Init PROVE TypeOK
  BY <1>1, DoneType, MaxSecondsAssumption DEF Init, TypeOK, Row, Seconds
<1>2. ASSUME Init PROVE CalmInv /\ QuietInv
  BY <1>2, DoneType DEF Init, CalmInv, CalmOf, QuietInv
<1> QED
  BY <1>1, <1>2

-----------------------------------------------------------------------------
(* AuthSession implements LoginSession: what a step of a request makes of  *)
(* the tokens it may store, and of the logins.                             *)
IsLogin(request) ==
  request.at = "comparing" \/ (request.at = "storing" /\ request.token = None)

LEMMA DoneStoresNothing == MayStore(Done) = {} /\ ~IsLogin(Done)
  BY DoneType DEF MayStore, IsLogin

(* The others keep their plans.                                            *)
OthersStay(r) ==
  \A q \in Requests : q # r =>
    MayStore(req'[q]) = MayStore(req[q]) /\ (IsLogin(req'[q]) <=> IsLogin(req[q]))

LEMMA SameStays ==
  ASSUME NEW r \in Requests, \A q \in Requests : q # r => Same(q)
  PROVE  OthersStay(r)
  BY DEF OthersStay, Same, MayStore, IsLogin

LEMMA GoesStays ==
  ASSUME TypeOK, NEW r \in Requests, NEW request \in Request, Goes(r, request)
  PROVE  OthersStay(r) /\ req'[r] = request
  BY GoesStep DEF OthersStay

LEMMA PlanMoves ==
  ASSUME NEW r \in Requests, OthersStay(r)
  PROVE  Promise!Plans(r, MayStore(req'[r]))
  BY DEF OthersStay, Promise!Plans

LEMMA LoginsMove ==
  ASSUME NEW r \in Requests, OthersStay(r)
  PROVE  /\ IsLogin(req'[r]) => Logins' = Logins \cup {r}
         /\ ~IsLogin(req'[r]) => Logins' = Logins \ {r}
         /\ (IsLogin(req'[r]) <=> IsLogin(req[r])) => Logins' = Logins
  BY DEF OthersStay, Logins, IsLogin

(* A step that the promise does not see, or that settles what r will do.   *)
LEMMA AsideKeeps ==
  ASSUME NEW r \in Requests, OthersStay(r), MayStore(req'[r]) = MayStore(req[r]),
         IsLogin(req'[r]) <=> IsLogin(req[r]), row'.token = row.token, held' = held
  PROVE  UNCHANGED Promise!loginVars
<1>1. \A q \in Requests : MayStore(req'[q]) = MayStore(req[q])
  BY DEF OthersStay
<1>2. Logins' = Logins
  BY LoginsMove
<1> QED
  BY <1>1, <1>2 DEF Promise!loginVars

LEMMA SettleKeeps ==
  ASSUME NEW r \in Requests, OthersStay(r), MayStore(req'[r]) \subseteq MayStore(req[r]),
         IsLogin(req'[r]) <=> IsLogin(req[r]), row'.token = row.token, held' = held
  PROVE  Promise!Settle(r)
<1>1. Promise!Plans(r, MayStore(req'[r])) /\ Logins' = Logins
  BY PlanMoves, LoginsMove
<1> QED
  BY <1>1 DEF Promise!Settle

LEMMA LoginKeeps ==
  ASSUME TypeOK, NEW r \in Requests, LoginRead(r) \/ SwitchBack(r)
  PROVE  Promise!LogIn(r)
<1>1. PICK request \in Request : Goes(r, request) /\ IsLogin(request)
  <2>1. CASE LoginRead(r)
    <3>1. IsLogin([Done EXCEPT !.at = "comparing"])
      BY DoneType DEF IsLogin, Request
    <3> QED
      BY <2>1, <3>1, RequestTypes DEF LoginRead
  <2>2. CASE SwitchBack(r)
    <3>1. IsLogin([Done EXCEPT !.at = "storing", !.fresh = now])
      BY DoneType DEF IsLogin, Request
    <3> QED
      BY <2>2, <3>1, RequestTypes DEF SwitchBack
  <2> QED
    BY <2>1, <2>2
<1>2. OthersStay(r) /\ req'[r] = request
  BY <1>1, GoesStays
<1>3. Promise!Plans(r, MayStore(req'[r])) /\ Logins' = Logins \cup {r}
  BY <1>1, <1>2, PlanMoves, LoginsMove
<1>4. MayStore(req[r]) = {}
  BY DEF MayStore, LoginRead, SwitchBack
<1>5. MayStore(req'[r]) \in SUBSET Seconds
  BY DEF MayStore
<1>6. UNCHANGED <<row, held>>
  BY DEF LoginRead, SwitchBack
<1> QED
  BY <1>3, <1>4, <1>5, <1>6 DEF Promise!LogIn

LEMMA LoginSignKeeps ==
  ASSUME TypeOK, NEW r \in Requests, LoginSign(r)
  PROVE  Promise!Settle(r)
<1> DEFINE request == [Done EXCEPT !.at = "storing", !.fresh = now]
<1>1. request \in Request /\ request.at = "storing" /\ request.token = None
  BY RequestTypes, DoneType DEF Request
<1>2. OthersStay(r) /\ req'[r] = request
  BY <1>1, GoesStays DEF LoginSign
<1> HIDE DEF request
<1>3. IsLogin(req'[r]) /\ IsLogin(req[r]) /\ MayStore(req'[r]) \subseteq MayStore(req[r])
  BY <1>1, <1>2 DEF IsLogin, MayStore, LoginSign
<1> QED
  BY <1>2, <1>3, SettleKeeps DEF LoginSign

LEMMA StoreKeeps ==
  ASSUME TypeOK, CalmInv, NEW r \in Requests, Store(r)
  PROVE  Promise!Put(r)
<1>1. OthersStay(r) /\ req'[r] = Done
  BY DisturbStep, RotateStep, SameStays DEF Store
<1>2. Promise!Plans(r, {}) /\ Logins' = Logins \ {r}
  BY <1>1, PlanMoves, LoginsMove, DoneStoresNothing
<1>3. req[r].at = "storing" /\ req[r].fresh \in Seconds
  BY DEF Store, CalmInv, CalmOf
<1>4. row'.token = req[r].fresh
  BY DEF Store, TypeOK, Row
<1>5. row'.token \in MayStore(req[r]) /\ held' \in {held, held \cup {row'.token}}
  BY <1>3, <1>4 DEF MayStore, Store
<1> QED
  BY <1>2, <1>5 DEF Promise!Put

LEMMA ReadRowKeeps ==
  ASSUME TypeOK, NEW r \in Requests, ReadRow(r)
  PROVE  Promise!FindOpen(r) \/ UNCHANGED Promise!loginVars
<1>1. MayStore(req[r]) = {} /\ ~IsLogin(req[r]) /\ UNCHANGED <<row, held>>
  BY DEF ReadRow, MayStore, IsLogin
<1>2. CASE row.token = None
  <2> DEFINE request == [req[r] EXCEPT !.at = "rejected"]
  <2>1. request \in Request /\ request.at = "rejected"
    BY RequestTypes DEF TypeOK, Request
  <2>2. OthersStay(r) /\ req'[r] = request
    BY <1>2, <2>1, GoesStays DEF ReadRow
  <2> HIDE DEF request
  <2>3. MayStore(req'[r]) = {} /\ ~IsLogin(req'[r])
    BY <2>1, <2>2 DEF MayStore, IsLogin
  <2> QED
    BY <1>1, <2>2, <2>3, AsideKeeps
<1>3. CASE row.token # None
  <2> DEFINE request == [req[r] EXCEPT !.at = "checking", !.entity = row]
  <2>1. request \in Request /\ request.at = "checking"
    BY RequestTypes DEF TypeOK, Request
  <2>2. OthersStay(r) /\ req'[r] = request
    BY <1>3, <2>1, GoesStays DEF ReadRow
  <2> HIDE DEF request
  <2>3. MayStore(req'[r]) = Seconds /\ ~IsLogin(req'[r])
    BY <2>1, <2>2 DEF MayStore, IsLogin
  <2>4. Promise!Plans(r, Seconds) /\ Logins' = Logins
    BY <1>1, <2>2, <2>3, PlanMoves, LoginsMove
  <2> QED
    BY <1>1, <1>3, <2>4 DEF Promise!FindOpen
<1> QED
  BY <1>2, <1>3

LEMMA CheckGraceKeeps ==
  ASSUME TypeOK, CalmInv, NEW r \in Requests, CheckGrace(r)
  PROVE  Promise!Settle(r)
<1>1. MayStore(req[r]) = Seconds /\ ~IsLogin(req[r]) /\ UNCHANGED <<row, held>>
  BY DEF CheckGrace, MayStore, IsLogin
<1>2. PICK request \in Request :
        Goes(r, request) /\ request.at \in {"keeping", "rejected"}
  <2>1. [Done EXCEPT !.at = "keeping", !.token = req[r].token, !.fresh = now,
                     !.calm = req[r].calm].at = "keeping"
    BY DoneType DEF Request
  <2>2. [req[r] EXCEPT !.at = "rejected"].at = "rejected"
    BY DEF TypeOK, Request
  <2> QED
    BY <2>1, <2>2, RequestTypes DEF CheckGrace
<1>3. OthersStay(r) /\ req'[r] = request
  BY <1>2, GoesStays
<1>4. MayStore(req'[r]) \subseteq Seconds /\ ~IsLogin(req'[r])
  BY <1>2, <1>3 DEF MayStore, IsLogin
<1> QED
  BY <1>1, <1>3, <1>4, SettleKeeps

LEMMA KeepGraceKeeps ==
  ASSUME TypeOK, CalmInv, NEW r \in Requests, KeepGrace(r)
  PROVE  UNCHANGED Promise!loginVars
<1> DEFINE request == [req[r] EXCEPT !.at = "storing"]
<1>1. /\ request \in Request /\ request.at = "storing"
      /\ request.token = req[r].token /\ request.fresh = req[r].fresh
  <2>1. req[r] \in Request
    BY DEF TypeOK
  <2>2. request \in Request
    BY RequestTypes
  <2> QED
    BY <2>1, <2>2 DEF Request
<1>2. OthersStay(r) /\ req'[r] = request
  BY <1>1, GoesStays DEF KeepGrace
<1>3. req[r].at = "keeping" /\ req[r].token # None
  BY NoneAssumption DEF KeepGrace, CalmInv, CalmOf
<1> HIDE DEF request
<1>4. MayStore(req'[r]) = MayStore(req[r]) /\ ~IsLogin(req'[r]) /\ ~IsLogin(req[r])
  BY <1>1, <1>2, <1>3 DEF MayStore, IsLogin
<1> QED
  BY <1>2, <1>4, AsideKeeps DEF KeepGrace

(* Steps that begin or end what stores no token.                           *)
LEMMA IdleKeeps ==
  ASSUME TypeOK, NEW r \in Requests, AskRefresh(r) \/ Reject(r) \/ Logout(r)
  PROVE  UNCHANGED Promise!loginVars
<1>1. PICK request \in Request :
        Goes(r, request) /\ request.at \in {"asking", "idle", "revoking"}
  <2>1. CASE AskRefresh(r)
    <3>1. PICK t \in Seconds :
            Goes(r, [Done EXCEPT !.at = "asking", !.token = t,
                                 !.calm = IF row.token = t THEN "own" ELSE "no"])
      BY <2>1 DEF AskRefresh, TypeOK
    <3>2. [Done EXCEPT !.at = "asking", !.token = t,
                       !.calm = IF row.token = t THEN "own" ELSE "no"].at = "asking"
      BY DoneType DEF Request
    <3> QED
      BY <3>1, <3>2, RequestTypes
  <2>2. CASE Reject(r)
    BY <2>2, DoneType DEF Reject, Ends
  <2>3. CASE Logout(r)
    <3>1. [Done EXCEPT !.at = "revoking"].at = "revoking"
      BY DoneType DEF Request
    <3> QED
      BY <2>3, <3>1, RequestTypes DEF Logout
  <2> QED
    BY <2>1, <2>2, <2>3
<1>2. OthersStay(r) /\ req'[r] = request
  BY <1>1, GoesStays
<1>3. MayStore(req[r]) = {} /\ ~IsLogin(req[r]) /\ UNCHANGED <<row, held>>
  BY DEF AskRefresh, Reject, Logout, MayStore, IsLogin
<1>4. MayStore(req'[r]) = {} /\ ~IsLogin(req'[r])
  BY <1>1, <1>2 DEF MayStore, IsLogin
<1> QED
  BY <1>2, <1>3, <1>4, AsideKeeps

LEMMA RevokeKeeps ==
  ASSUME TypeOK, NEW r \in Requests, Revoke(r)
  PROVE  Promise!End
<1>1. OthersStay(r) /\ req'[r] = Done
  BY DisturbStep, SameStays DEF Revoke
<1>2. MayStore(req[r]) = {} /\ ~IsLogin(req[r])
  BY DEF Revoke, MayStore, IsLogin
<1>3. \A q \in Requests : MayStore(req'[q]) = MayStore(req[q])
  BY <1>1, <1>2, DoneStoresNothing DEF OthersStay
<1>4. Logins' = Logins
  BY <1>1, <1>2, DoneStoresNothing, LoginsMove
<1>5. row'.token = None /\ held' = held
  BY DEF Revoke, TypeOK, Row
<1> QED
  BY <1>3, <1>4, <1>5 DEF Promise!End

LEMMA ReadEntityKeeps ==
  ASSUME TypeOK, NEW r \in Requests, ReadEntity(r)
  PROVE  Promise!FindOpen(r) \/ UNCHANGED Promise!loginVars
<1>1. MayStore(req[r]) = {} /\ ~IsLogin(req[r]) /\ UNCHANGED <<row, held>>
  BY DEF ReadEntity, MayStore, IsLogin
<1>2. PICK e \in Edits(row) : Goes(r, [Done EXCEPT !.at = "saving", !.entity = e])
  BY DEF ReadEntity
<1>3. e \in Row /\ e.token \in {row.token, None}
  BY EditsType DEF Edits, Reset, TypeOK, Row
<1> DEFINE request == [Done EXCEPT !.at = "saving", !.entity = e]
<1>4. request \in Request /\ request.at = "saving" /\ request.entity = e
  BY <1>3, RequestTypes, DoneType DEF Request
<1>5. OthersStay(r) /\ req'[r] = request
  BY <1>2, <1>4, GoesStays
<1> HIDE DEF request
<1>6. MayStore(req'[r]) = {t \in Seconds : t = e.token} /\ ~IsLogin(req'[r])
  BY <1>4, <1>5 DEF MayStore, IsLogin
<1>7. CASE e.token = None
  <2>1. MayStore(req'[r]) = {}
    BY <1>6, <1>7, NoneAssumption
  <2> QED
    BY <1>1, <1>5, <1>6, <2>1, AsideKeeps
<1>8. CASE e.token # None
  <2>1. row.token = e.token /\ row.token \in Seconds
    BY <1>3, <1>8 DEF TypeOK, Row
  <2>2. MayStore(req'[r]) = {row.token}
    BY <1>6, <2>1
  <2>3. Promise!Plans(r, {row.token}) /\ Logins' = Logins
    BY <1>1, <1>5, <1>6, <2>2, PlanMoves, LoginsMove
  <2> QED
    BY <1>1, <1>8, <2>1, <2>3 DEF Promise!FindOpen
<1> QED
  BY <1>7, <1>8

LEMMA ReloadKeeps ==
  ASSUME TypeOK, NEW r \in Requests, Reload(r)
  PROVE  UNCHANGED Promise!loginVars
<1> DEFINE request == [req[r] EXCEPT !.at = "writing",
                         !.dirty = {c \in Column : req[r].entity[c] # row[c]}]
<1>1. request \in Request /\ request.at = "writing" /\ request.entity = req[r].entity
  BY RequestTypes DEF TypeOK, Request
<1>2. OthersStay(r) /\ req'[r] = request
  BY <1>1, GoesStays DEF Reload
<1> HIDE DEF request
<1>3. MayStore(req'[r]) = MayStore(req[r]) /\ ~IsLogin(req'[r]) /\ ~IsLogin(req[r])
  BY <1>1, <1>2 DEF Reload, MayStore, IsLogin
<1> QED
  BY <1>2, <1>3, AsideKeeps DEF Reload

(* A save that writes the token stores the one that its request has read,  *)
(* or ends the session.                                                    *)
LEMMA WriteKeeps ==
  ASSUME TypeOK, NEW r \in Requests, Write(r)
  PROVE  Promise!Settle(r) \/ Promise!Put(r) \/ Promise!End
<1> DEFINE e == req[r].entity
<1>1. /\ req[r].at = "writing" /\ held' = held /\ e.token \in Seconds \cup {None}
      /\ MayStore(req[r]) = {t \in Seconds : t = e.token} /\ ~IsLogin(req[r])
  BY DEF Write, MayStore, IsLogin, TypeOK, Request, Row
<1>2. OthersStay(r) /\ req'[r] = Done
  <2>1. CASE EndsAndDisturbs(r)
    BY <2>1, DisturbStep, SameStays
  <2>2. CASE Ends(r)
    BY <2>2, DoneType, GoesStays DEF Ends
  <2> QED
    BY <2>1, <2>2 DEF Write
<1>3. Promise!Plans(r, {}) /\ Logins' = Logins /\ r \notin Logins
  BY <1>1, <1>2, DoneStoresNothing, PlanMoves, LoginsMove DEF Logins, IsLogin
<1>4. row'.token = IF "token" \in req[r].dirty THEN e.token ELSE row.token
  BY DEF Write, Column
<1>5. CASE "token" \notin req[r].dirty
  BY <1>1, <1>2, <1>4, <1>5, DoneStoresNothing, SettleKeeps
<1>6. CASE "token" \in req[r].dirty /\ e.token # None
  <2>1. row'.token \in MayStore(req[r]) /\ Logins' = Logins \ {r}
    BY <1>1, <1>3, <1>4, <1>6
  <2> QED
    BY <1>1, <1>3, <2>1 DEF Promise!Put
<1>7. CASE "token" \in req[r].dirty /\ e.token = None
  <2>1. MayStore(req[r]) = {}
    BY <1>1, <1>7, NoneAssumption
  <2>2. \A q \in Requests : MayStore(req'[q]) = MayStore(req[q])
    BY <1>2, <2>1, DoneStoresNothing DEF OthersStay
  <2> QED
    BY <1>1, <1>3, <1>4, <1>7, <2>2 DEF Promise!End
<1> QED
  BY <1>5, <1>6, <1>7

LEMMA CrashStops == ASSUME Crash PROVE Promise!Stop
<1>1. \A q \in Requests : req'[q] = Done
  BY DEF Crash
<1>2. Logins' = {}
  BY <1>1, DoneStoresNothing DEF Logins, IsLogin
<1>3. \A q \in Requests : MayStore(req'[q]) = {}
  BY <1>1, DoneStoresNothing
<1> QED
  BY <1>2, <1>3 DEF Crash, Promise!Stop

LEMMA LoginStep ==
  TypeOK /\ CalmInv /\ [Next]_vars => [Promise!LoginNext]_(Promise!loginVars)
<1> SUFFICES ASSUME TypeOK, CalmInv, [Next]_vars
             PROVE  [Promise!LoginNext]_(Promise!loginVars)
  OBVIOUS
<1>1. ASSUME NEW r \in Requests,
             LoginRead(r) \/ LoginSign(r) \/ SwitchBack(r) \/ Store(r)
      PROVE  Promise!LoginNext
  BY <1>1, LoginKeeps, LoginSignKeeps, StoreKeeps DEF Promise!LoginNext
<1>2. ASSUME NEW r \in Requests,
             AskRefresh(r) \/ ReadRow(r) \/ CheckGrace(r) \/ KeepGrace(r) \/ Reject(r)
      PROVE  [Promise!LoginNext]_(Promise!loginVars)
  BY <1>2, IdleKeeps, ReadRowKeeps, CheckGraceKeeps, KeepGraceKeeps DEF Promise!LoginNext
<1>3. ASSUME NEW r \in Requests, Logout(r) \/ Revoke(r)
      PROVE  [Promise!LoginNext]_(Promise!loginVars)
  BY <1>3, IdleKeeps, RevokeKeeps DEF Promise!LoginNext
<1>4. ASSUME NEW r \in Requests, ReadEntity(r) \/ Reload(r) \/ Write(r)
      PROVE  [Promise!LoginNext]_(Promise!loginVars)
  BY <1>4, ReadEntityKeeps, ReloadKeeps, WriteKeeps DEF Promise!LoginNext
<1>5. CASE Tick \/ (\E t \in Seconds : GraceExpires(t)) \/ UNCHANGED vars
  BY <1>5 DEF Tick, GraceExpires, vars, Promise!loginVars, Logins
<1>6. CASE Crash
  BY <1>6, CrashStops DEF Promise!LoginNext
<1> QED
  BY <1>1, <1>2, <1>3, <1>4, <1>5, <1>6 DEF Next

-----------------------------------------------------------------------------
(* The state is well typed in every behaviour.                             *)
THEOREM AuthTypeOK == Spec => []TypeOK
<1>1. TypeOK /\ CalmInv /\ [Next]_vars => (TypeOK /\ CalmInv)'
  BY TypeStep, CalmStep
<1> QED
  BY <1>1, AuthInit, PTL DEF Spec

(* No refresh of the current token is refused because the same token is    *)
(* refreshed by other tabs at the same time.                               *)
THEOREM ConcurrentRefreshIsSafe == Spec => []ConcurrentRefreshSurvives
<1>1. TypeOK /\ CalmInv /\ [Next]_vars => (TypeOK /\ CalmInv)'
  BY TypeStep, CalmStep
<1>2. CalmInv => ConcurrentRefreshSurvives
  BY DEF CalmInv, CalmOf, ConcurrentRefreshSurvives
<1> QED
  BY <1>1, <1>2, AuthInit, PTL DEF Spec

(* A session that ends with nothing else under way stays ended until the   *)
(* next login, whatever grace keys are alive.                              *)
THEOREM QuietRevocationIsFinal == Spec => []QuietRevocationFinal
<1>1. TypeOK /\ CalmInv /\ QuietInv /\ [Next]_vars => (TypeOK /\ CalmInv /\ QuietInv)'
  BY TypeStep, CalmStep, QuietStep
<1>2. QuietInv => QuietRevocationFinal
  BY DEF QuietInv, QuietRevocationFinal
<1> QED
  BY <1>1, <1>2, AuthInit, PTL DEF Spec

(* The requests of AuthService and UsersService keep the promise of        *)
(* LoginSession in every instance: a session that was ended comes back by  *)
(* a login or by a request that had found a token in the row before.       *)
THEOREM SessionIsKept == Spec => KeepsSession
<1>1. Init => Promise!LoginInit
  BY DoneStoresNothing DEF Init, Promise!LoginInit, Logins, IsLogin
<1>2. TypeOK /\ CalmInv /\ [Next]_vars => (TypeOK /\ CalmInv)'
  BY TypeStep, CalmStep
<1> QED
  BY <1>1, <1>2, LoginStep, AuthInit, PTL DEF Spec, KeepsSession, Promise!LoginSpec
=============================================================================
