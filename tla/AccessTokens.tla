---------------------------- MODULE AccessTokens ----------------------------
(***************************************************************************)
(* The access tokens of one account: AuthService signs them (login,        *)
(* refresh, switchUser), JwtAuthGuard lets requests in that carry one, and *)
(* logout puts the one it came with on a blacklist in Redis for as long as *)
(* it would be valid.  The refresh token of the account is in AuthSession. *)
(*                                                                         *)
(* A token is a signed payload with the second of its signature, and is    *)
(* named by it: two tokens signed in one second are the same string.  The  *)
(* program counts whole seconds, Redis keeps a key from the moment it is   *)
(* set: the clock counts ticks, TicksPerSecond of them to a second.        *)
(***************************************************************************)
EXTENDS Integers

CONSTANTS
  Visits,         \* slots for requests under way
  TicksPerSecond, \* ticks of the clock in a second
  Lifetime,       \* seconds that a token is valid (JWT_EXPIRES_IN)
  MaxSeconds,     \* bound: tokens are signed in the first seconds only
  MaxTicks        \* bound of the clock

ASSUME AccessTokensAssumption ==
  /\ TicksPerSecond \in Nat \ {0} /\ Lifetime \in Nat \ {0}
  /\ MaxSeconds \in Nat /\ MaxTicks \in Nat

VARIABLES
  clock,   \* in ticks
  signed,  \* the tokens that clients hold
  barred,  \* blacklist_token keys: when each of them runs out, 0: no key
  visit,   \* the requests
  out      \* history: tokens that a logout has put on the blacklist, or
           \* found to have run out

accessTokenVars == <<clock, signed, barred, visit, out>>

-----------------------------------------------------------------------------
Tokens == 0 .. (MaxSeconds - 1)
Ticks == 0 .. MaxTicks
SecondOf(t) == t \div TicksPerSecond  \* Math.floor(Date.now() / 1000)
Exp(token) == token + Lifetime        \* the claim exp

(* A request: its token, whether the guard finds the token where it looks, *)
(* the seconds its SET gives the key, and history: whether the token was   *)
(* out before the request came.                                            *)
Visit ==
  [at : {"idle", "checking", "in", "revoking", "sweeping", "barring"},
   token : Tokens \cup {-1}, looked : BOOLEAN, left : 0 .. Lifetime, gone : BOOLEAN]
NoVisit ==
  [at |-> "idle", token |-> -1, looked |-> FALSE, left |-> 0, gone |-> FALSE]

AccessTokensTypeOK ==
  /\ clock \in Ticks
  /\ signed \in SUBSET Tokens
  /\ barred \in [Tokens -> Nat]
  /\ visit \in [Visits -> Visit]
  /\ out \in SUBSET Tokens

AccessTokensInit ==
  /\ clock = 0
  /\ signed = {}
  /\ barred = [token \in Tokens |-> 0]
  /\ visit = [v \in Visits |-> NoVisit]
  /\ out = {}

Expired(token) == SecondOf(clock) >= Exp(token)

-----------------------------------------------------------------------------
(* login, refresh and switchUser; what else they do is in AuthSession.     *)
SignToken ==
  /\ SecondOf(clock) \in Tokens
  /\ signed' = signed \cup {SecondOf(clock)}
  /\ UNCHANGED <<clock, barred, visit, out>>

(* canActivate: the GET of the blacklist; a token that is on it is refused.*)
(* The guard finds the token of a header that is written "Bearer <token>", *)
(* or else the one in the query; passport also takes it from a header that *)
(* spells the scheme otherwise, and of such a request no key is looked up. *)
Barred(token) == clock < barred[token]

CanActivate(v, token, looked) ==
  /\ visit[v].at = "idle" /\ token \in signed
  /\ looked => ~Barred(token)
  /\ visit' = [visit EXCEPT ![v] =
       [NoVisit EXCEPT !.at = "checking", !.token = token, !.looked = looked,
                       !.gone = token \in out]]
  /\ UNCHANGED <<clock, signed, barred, out>>

(* Redis has answered: passport verifies the signature and the time.       *)
Validate(v) ==
  /\ visit[v].at = "checking" /\ ~Expired(visit[v].token)
  /\ visit' = [visit EXCEPT ![v].at = "in"]
  /\ UNCHANGED <<clock, signed, barred, out>>

(* The request is refused (its token or its tenant has expired), answered, *)
(* or fails, in a logout with the UPDATE of the row.                       *)
EndVisit(v) ==
  /\ visit[v].at \in {"checking", "in", "revoking"}
  /\ visit' = [visit EXCEPT ![v] = NoVisit]
  /\ UNCHANGED <<clock, signed, barred, out>>

-----------------------------------------------------------------------------
(* logout                                                                  *)
Logout(v) ==
  /\ visit[v].at = "in"
  /\ visit' = [visit EXCEPT ![v].at = "revoking"]
  /\ UNCHANGED <<clock, signed, barred, out>>

(* The row has no refresh token any more; the user's keys are deleted,     *)
(* which the blacklist is not among, or Redis fails to.                    *)
Revoke(v) ==
  /\ visit[v].at = "revoking"
  /\ visit' = [visit EXCEPT ![v].at = "sweeping"]
  /\ UNCHANGED <<clock, signed, barred, out>>

(* Mutant of ExpiresIn: the current time is rounded up.                    *)
ExpiresInLess(token) == Exp(token) - SecondOf(clock + TicksPerSecond - 1)

ExpiresIn(token) == Exp(token) - SecondOf(clock)

(* The time that is left is computed; a token without any is answered, and *)
(* so is one that came in the query instead of the header: it is not       *)
(* barred.                                                                 *)
Decode(v) ==
  LET token == visit[v].token
      left == ExpiresIn(token)
  IN /\ visit[v].at = "sweeping"
     /\ \/ /\ left > 0
           /\ visit' = [visit EXCEPT ![v].at = "barring", ![v].left = left]
           /\ out' = out
        \/ /\ left <= 0
           /\ visit' = [visit EXCEPT ![v] = NoVisit]
           /\ out' = out \cup {token}
        \/ /\ visit' = [visit EXCEPT ![v] = NoVisit]
           /\ out' = out
     /\ UNCHANGED <<clock, signed, barred>>

(* SET with EX at Redis, whenever it gets there, or its failure, which is  *)
(* swallowed.                                                              *)
Bar(v) ==
  LET token == visit[v].token
  IN /\ visit[v].at = "barring"
     /\ \/ /\ barred' = [barred EXCEPT ![token] = clock + visit[v].left * TicksPerSecond]
           /\ out' = out \cup {token}
        \/ UNCHANGED <<barred, out>>
     /\ visit' = [visit EXCEPT ![v] = NoVisit]
     /\ UNCHANGED <<clock, signed>>

-----------------------------------------------------------------------------
Elapse ==
  /\ clock < MaxTicks
  /\ clock' = clock + 1
  /\ UNCHANGED <<signed, barred, visit, out>>

AccessTokensCrash ==
  /\ visit' = [v \in Visits |-> NoVisit]
  /\ UNCHANGED <<clock, signed, barred, out>>

AccessTokensNext ==
  \/ SignToken
  \/ \E v \in Visits :
       \/ \E token \in Tokens, looked \in BOOLEAN : CanActivate(v, token, looked)
       \/ Validate(v) \/ EndVisit(v)
       \/ Logout(v) \/ Revoke(v) \/ Decode(v) \/ Bar(v)
  \/ Elapse
  \/ AccessTokensCrash

AccessTokensSpec == AccessTokensInit /\ [][AccessTokensNext]_accessTokenVars

-----------------------------------------------------------------------------
(* A token that a logout has put on the blacklist lets no later request    *)
(* in whose token the guard looks up: the key in Redis does not run out    *)
(* before the token itself does, however late the SET arrives, whatever    *)
(* part of a second has passed, and whatever other logouts with the same   *)
(* token do.  A request whose header the guard does not read is let in     *)
(* with such a token until the token runs out; so is a handshake of the    *)
(* chat, whose gateway verifies the token and looks up no key.             *)
LoggedOutIsRefused ==
  \A v \in Visits :
    visit[v].at \in {"in", "revoking", "sweeping", "barring"} /\ visit[v].looked
      => ~visit[v].gone
=============================================================================
