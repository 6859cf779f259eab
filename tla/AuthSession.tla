---------------------------- MODULE AuthSession ----------------------------
(***************************************************************************)
(* The session of one account: AuthService's login, refresh, logout and    *)
(* switchBack, and the operations of UsersService that write the same row  *)
(* of the users table (updateRefreshToken, updateUser, toggleUserStatus,   *)
(* resetUserPassword, changePassword).                                     *)
(*                                                                         *)
(* Requests run concurrently.  A step of a request is what happens between *)
(* two awaits together with the query whose answer it waited for; queries  *)
(* of different requests use different connections of the pool and take    *)
(* effect in any order.  A token is a signed payload with the second of    *)
(* its signature, so it is named by that second: two tokens signed in one  *)
(* second are the same string.                                             *)
(***************************************************************************)
EXTENDS Naturals

CONSTANTS
  Requests,   \* slots for requests under way at a time
  Passwords,  \* what the password may be
  MaxSeconds, \* bound: distinct seconds at which tokens are signed
  None        \* no token

Seconds == 1 .. MaxSeconds

ASSUME NoneAssumption == None \notin Seconds \cup Passwords
ASSUME PasswordsAssumption == Passwords # {}
ASSUME MaxSecondsAssumption == MaxSeconds \in Nat \ {0}

VARIABLES
  row,      \* refreshToken and password of the account in the database
  grace,    \* tokens with a live refresh_grace key in Redis
  lapsed,   \* history: tokens whose grace key has run out
  held,     \* refresh tokens that reached a client
  now,      \* the second of the clock
  req,      \* the requests under way
  revoked   \* history: how the session was last ended, if nobody logged in since

vars == <<row, grace, lapsed, held, now, req, revoked>>

-----------------------------------------------------------------------------
Row == [token : Seconds \cup {None}, password : Passwords]
Column == {"token", "password"}

Phase ==
  {"idle",
   "comparing",                               \* login: password being compared
   "asking", "checking", "keeping",           \* refresh
   "rejected",
   "storing",                                 \* login, refresh: UPDATE to come
   "revoking",                                \* logout: UPDATE to come
   "saving", "writing"}                       \* save of a whole user entity

(* token: what a refresh presents, fresh: what was signed, entity: the row *)
(* as the request read and edited it, dirty: the columns save will write,  *)
(* calm: history, what has replaced the token that a refresh presented as  *)
(* the current one: at most a refresh of the same token ("own"), a refresh *)
(* of another token ("tab"), anything else ("no").                         *)
Request ==
  [at : Phase, token : Seconds \cup {None}, fresh : Seconds \cup {None},
   entity : Row, dirty : SUBSET Column, calm : {"own", "tab", "no"}]

Idle(password) ==
  [at |-> "idle", token |-> None, fresh |-> None,
   entity |-> [token |-> None, password |-> password], dirty |-> {}, calm |-> "no"]

SomePassword == CHOOSE p \in Passwords : TRUE
Done == Idle(SomePassword)

(* Any request but r may be under way.                                     *)
Others(r) == {q \in Requests \ {r} : req[q].at # "idle"}

(* The logins that have begun and whose token is not stored yet.           *)
Logins ==
  {q \in Requests :
     req[q].at = "comparing" \/ (req[q].at = "storing" /\ req[q].token = None)}

TypeOK ==
  /\ row \in Row
  /\ grace \in SUBSET Seconds
  /\ lapsed \in SUBSET Seconds
  /\ held \in SUBSET Seconds
  /\ now \in Seconds
  /\ req \in [Requests -> Request]
  /\ revoked \in {"no", "busy", "quiet"}

Init ==
  /\ \E p \in Passwords : row = [token |-> None, password |-> p]
  /\ grace = {}
  /\ lapsed = {}
  /\ held = {}
  /\ now = 1
  /\ req = [r \in Requests |-> Done]
  /\ revoked = "no"

-----------------------------------------------------------------------------
(* r goes on; r ends; r ends and every other request learns (as history)   *)
(* that the row's token was replaced by no refresh, or by a refresh.       *)
Goes(r, request) == req' = [req EXCEPT ![r] = request]
Ends(r) == Goes(r, Done)
EndsAndDisturbs(r) ==
  req' = [q \in Requests |-> IF q = r THEN Done ELSE [req[q] EXCEPT !.calm = "no"]]
EndsAndRotates(r) ==
  req' = [q \in Requests |->
            IF q = r THEN Done
            ELSE IF /\ req[q].calm = "own"
                    /\ req[q].token = row.token /\ req[q].token # req[r].token
                 THEN [req[q] EXCEPT !.calm = "tab"]
                 ELSE req[q]]

(* The row lost its token by r's doing: quietly, or with other requests    *)
(* under way that are no login.                                            *)
RevokedBy(r) ==
  IF Others(r) = {} THEN "quiet" ELSE IF Logins # {} THEN revoked ELSE "busy"

-----------------------------------------------------------------------------
(* login: the row is read, and the password sent is the one in it (any     *)
(* other leaves no trace); when it has been compared, tokens are signed.   *)
LoginRead(r) ==
  /\ req[r].at = "idle"
  /\ Goes(r, [Done EXCEPT !.at = "comparing"])
  /\ revoked' = "no"
  /\ UNCHANGED <<row, grace, lapsed, held, now>>

LoginSign(r) ==
  /\ req[r].at = "comparing"
  /\ Goes(r, [Done EXCEPT !.at = "storing", !.fresh = now])
  /\ UNCHANGED <<row, grace, lapsed, held, now, revoked>>

(* switchBack: a master returns from another account: a login without a    *)
(* password.                                                               *)
SwitchBack(r) ==
  /\ req[r].at = "idle"
  /\ Goes(r, [Done EXCEPT !.at = "storing", !.fresh = now])
  /\ revoked' = "no"
  /\ UNCHANGED <<row, grace, lapsed, held, now>>

(* updateRefreshToken of a login or a refresh, and its answer, which may   *)
(* be lost on the way to the client.                                       *)
Store(r) ==
  /\ req[r].at = "storing"
  /\ row' = [row EXCEPT !.token = req[r].fresh]
  /\ held' \in {held, held \cup {req[r].fresh}}
  /\ \/ req[r].token = None /\ EndsAndDisturbs(r)
     \/ req[r].token # None /\ EndsAndRotates(r)
  /\ UNCHANGED <<grace, lapsed, now, revoked>>

-----------------------------------------------------------------------------
(* refresh: a client presents a token that it holds.                       *)
AskRefresh(r) ==
  /\ req[r].at = "idle"
  /\ \E t \in held :
       Goes(r, [Done EXCEPT !.at = "asking", !.token = t,
                            !.calm = IF row.token = t THEN "own" ELSE "no"])
  /\ UNCHANGED <<row, grace, lapsed, held, now, revoked>>

(* Mutant of ReadRow: the check for a row without a token is missing.      *)
ReadRowUnchecked(r) ==
  /\ req[r].at = "asking"
  /\ Goes(r, [req[r] EXCEPT !.at = "checking", !.entity = row])
  /\ UNCHANGED <<row, grace, lapsed, held, now, revoked>>

(* The row is read; without a token in it the request is refused.          *)
ReadRow(r) ==
  /\ req[r].at = "asking"
  /\ \/ /\ row.token = None
        /\ Goes(r, [req[r] EXCEPT !.at = "rejected"])
     \/ /\ row.token # None
        /\ Goes(r, [req[r] EXCEPT !.at = "checking", !.entity = row])
  /\ UNCHANGED <<row, grace, lapsed, held, now, revoked>>

(* The grace key is looked up: the token is accepted when the row that was *)
(* read holds it or its grace lives, and the next one is signed.           *)
CheckGrace(r) ==
  LET t == req[r].token
  IN /\ req[r].at = "checking"
     /\ \/ /\ req[r].entity.token = t \/ t \in grace
           /\ Goes(r, [Done EXCEPT !.at = "keeping", !.token = t, !.fresh = now,
                                   !.calm = req[r].calm])
        \/ /\ req[r].entity.token # t /\ t \notin grace
           /\ Goes(r, [req[r] EXCEPT !.at = "rejected"])
     /\ UNCHANGED <<row, grace, lapsed, held, now, revoked>>

(* Mutant of GraceKey: the new token is kept in place of the old one.      *)
GraceKeyOfFresh(request) == request.fresh

(* The token whose grace period begins.                                    *)
GraceKey(request) == request.token

KeepGrace(r) ==
  /\ req[r].at = "keeping"
  /\ grace' = grace \cup {GraceKey(req[r])}
  /\ Goes(r, [req[r] EXCEPT !.at = "storing"])
  /\ UNCHANGED <<row, lapsed, held, now, revoked>>

(* The client is told 401.                                                 *)
Reject(r) ==
  /\ req[r].at = "rejected"
  /\ Ends(r)
  /\ UNCHANGED <<row, grace, lapsed, held, now, revoked>>

-----------------------------------------------------------------------------
(* logout, with any access token of the account (an impersonator's too):   *)
(* its UPDATE is issued and takes effect.                                  *)
Logout(r) ==
  /\ req[r].at = "idle"
  /\ Goes(r, [Done EXCEPT !.at = "revoking"])
  /\ UNCHANGED <<row, grace, lapsed, held, now, revoked>>

Revoke(r) ==
  /\ req[r].at = "revoking"
  /\ row' = [row EXCEPT !.token = None]
  /\ EndsAndDisturbs(r)
  /\ revoked' = RevokedBy(r)
  /\ UNCHANGED <<grace, lapsed, held, now>>

-----------------------------------------------------------------------------
(* What the operations that save a whole entity make of the row they read: *)
(* updateUser without a password and toggleUserStatus edit columns that    *)
(* are left out here, updateUser may set a password, resetUserPassword and *)
(* changePassword set one and end the session.                             *)
(* Mutant of Reset: a blank new password is stored as it is.               *)
ResetToBlank(entity, p) == [token |-> None, password |-> None]

Reset(entity, p) == [token |-> None, password |-> p]

Edits(entity) ==
  {entity} \cup {[entity EXCEPT !.password = p] : p \in Passwords}
    \cup {Reset(entity, p) : p \in Passwords \ {entity.password}}

ReadEntity(r) ==
  /\ req[r].at = "idle"
  /\ \E e \in Edits(row) : Goes(r, [Done EXCEPT !.at = "saving", !.entity = e])
  /\ UNCHANGED <<row, grace, lapsed, held, now, revoked>>

(* save reads the row again: the columns in which the entity differs from  *)
(* it are the ones it will write.                                          *)
Reload(r) ==
  /\ req[r].at = "saving"
  /\ Goes(r, [req[r] EXCEPT !.at = "writing",
                            !.dirty = {c \in Column : req[r].entity[c] # row[c]}])
  /\ UNCHANGED <<row, grace, lapsed, held, now, revoked>>

Write(r) ==
  LET e == req[r].entity
      dirty == req[r].dirty
  IN /\ req[r].at = "writing"
     /\ row' = [c \in Column |-> IF c \in dirty THEN e[c] ELSE row[c]]
     /\ \/ "token" \in dirty /\ EndsAndDisturbs(r)
        \/ "token" \notin dirty /\ Ends(r)
     /\ revoked' = IF "token" \in dirty /\ e.token = None THEN RevokedBy(r) ELSE revoked
     /\ UNCHANGED <<grace, lapsed, held, now>>

-----------------------------------------------------------------------------
Tick ==
  /\ now < MaxSeconds
  /\ now' = now + 1
  /\ UNCHANGED <<row, grace, lapsed, held, req, revoked>>

(* The 30 s of a grace key are over.                                       *)
GraceExpires(t) ==
  /\ t \in grace /\ t < now
  /\ grace' = grace \ {t}
  /\ lapsed' = lapsed \cup {t}
  /\ UNCHANGED <<row, held, now, req, revoked>>

(* The process dies and restarts: the requests under way are gone.         *)
Crash ==
  /\ req' = [r \in Requests |-> Done]
  /\ UNCHANGED <<row, grace, lapsed, held, now, revoked>>

Next ==
  \/ \E r \in Requests :
       \/ LoginRead(r) \/ LoginSign(r) \/ SwitchBack(r) \/ Store(r)
       \/ AskRefresh(r) \/ ReadRow(r) \/ CheckGrace(r) \/ KeepGrace(r) \/ Reject(r)
       \/ Logout(r) \/ Revoke(r)
       \/ ReadEntity(r) \/ Reload(r) \/ Write(r)
  \/ Tick
  \/ \E t \in Seconds : GraceExpires(t)
  \/ Crash

Spec == Init /\ [][Next]_vars

-----------------------------------------------------------------------------
(* A refresh that presents the current token is not refused because other  *)
(* tabs refresh the same token at the same time: refused means that the    *)
(* session was ended or taken over meanwhile, or that the 30 s of the      *)
(* token's grace were over.  It takes the order of refresh's two writes,   *)
(* grace key first and row second, and of the other's two reads.           *)
ConcurrentRefreshSurvives ==
  \A r \in Requests :
    req[r].at = "rejected" => req[r].calm # "own" \/ req[r].token \in lapsed

(* What refresh's comments say of it: the grace period is there "to handle *)
(* the race condition of multi-tab / concurrent requests", so that no tab  *)
(* is refused when only refreshes have replaced the token it presents.     *)
TabsSurvive ==
  \A r \in Requests :
    req[r].at = "rejected" => req[r].calm = "no" \/ req[r].token \in lapsed

(* A session ended while nothing else is under way stays ended until a     *)
(* login starts: a grace key that is still alive does not bring it back,   *)
(* and no save of an entity does.                                          *)
QuietRevocationFinal == revoked = "quiet" => row.token = None

(* logout promises that the session is gone, whatever else is under way:   *)
(* "revoke the right of the refresh token by setting it to null".          *)
RevocationFinal == revoked # "no" => row.token = None

-----------------------------------------------------------------------------
(* The row of the account keeps the promise of LoginSession: a refresh     *)
(* that read a token in it, and a save that read one, are the requests     *)
(* that may bring the session back after logout or a reset; whatever       *)
(* begins later finds no token, is refused (refresh) or stores none (save).*)
(* QuietRevocationFinal is the case that nothing of the kind is under way. *)
(* Clients get no token but when it is stored.                             *)
MayStore(request) ==
  {t \in Seconds :
     \/ request.at \in {"comparing", "checking"}
     \/ request.at \in {"keeping", "storing"} /\ t = request.fresh
     \/ request.at \in {"saving", "writing"} /\ t = request.entity.token}

Promise ==
  INSTANCE LoginSession WITH
    Tokens <- Seconds, token <- row.token, given <- held, logins <- Logins,
    plan <- [q \in Requests |-> MayStore(req[q])]

KeepsSession == Promise!LoginSpec
=============================================================================
