---------------------------- MODULE LoginSession ----------------------------
(* What the session of an account promises, without passwords, grace keys  *)
(* or queries: it begins with a login, every later token is stored by a    *)
(* request that began while the session lasted, and when it has ended      *)
(* nothing but such a request, or a login, brings a token back.            *)

CONSTANTS
  Requests, \* whatever may be under way
  Tokens,   \* refresh tokens
  None      \* no token: the session has ended

VARIABLES
  token,  \* the token that is stored
  given,  \* the tokens that clients have got
  logins, \* the requests that are logins
  plan    \* the tokens that each request may still store

loginVars == <<token, given, logins, plan>>

LoginInit ==
  /\ token = None
  /\ given = {}
  /\ logins = {}
  /\ plan = [r \in Requests |-> {}]

Plans(r, tokens) == plan' = [plan EXCEPT ![r] = tokens]

LogIn(r) ==
  /\ plan[r] = {}
  /\ logins' = logins \cup {r}
  /\ \E tokens \in SUBSET Tokens : Plans(r, tokens)
  /\ UNCHANGED <<token, given>>

(* A request finds the session open: it may sign a token, or store the one *)
(* that it has found again.                                                *)
FindOpen(r) ==
  /\ token # None
  /\ plan[r] = {}
  /\ \E tokens \in {Tokens, {token}} : Plans(r, tokens)
  /\ UNCHANGED <<token, given, logins>>

(* It signs one of them, or is refused, or has nothing to write.           *)
Settle(r) ==
  /\ \E tokens \in SUBSET plan[r] : Plans(r, tokens)
  /\ UNCHANGED <<token, given, logins>>

(* It stores a token, and may tell its client.                             *)
Put(r) ==
  /\ token' \in plan[r]
  /\ given' \in {given, given \cup {token'}}
  /\ logins' = logins \ {r}
  /\ Plans(r, {})

End ==
  /\ token' = None
  /\ UNCHANGED <<given, logins, plan>>

(* All requests are gone.                                                  *)
Stop ==
  /\ logins' = {}
  /\ plan' = [r \in Requests |-> {}]
  /\ UNCHANGED <<token, given>>

LoginNext ==
  \/ \E r \in Requests : LogIn(r) \/ FindOpen(r) \/ Settle(r) \/ Put(r)
  \/ End
  \/ Stop

LoginSpec == LoginInit /\ [][LoginNext]_loginVars
=============================================================================
