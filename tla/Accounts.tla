------------------------------ MODULE Accounts ------------------------------
(***************************************************************************)
(* The accounts (UsersService) and the employees they belong to            *)
(* (PegawaiService), and the profile of a user, which Redis keeps for an   *)
(* hour (getProfile) with the employee, the role and the tenant that the   *)
(* row is joined with.  A change loads the row, saves it some time later,  *)
(* a password's hash later at times, with every column as it was loaded,   *)
(* and then deletes the profile.                                           *)
(***************************************************************************)
EXTENDS Naturals

CONSTANTS
  Users,          \* identities of accounts
  Pegawai,        \* identities of employees
  Joinable,       \* rows of roles and of tenants
  NoCopy,         \* no profile is kept
  Doers,          \* slots for changes under way
  ProfileViewers, \* slots for requests for a profile
  MaxDoings       \* bound: how many changes begin

ASSUME AccountsAssumption == MaxDoings \in Nat /\ Users # {} /\ Pegawai # {}

VARIABLES
  user,       \* users
  pegawai,    \* pegawai: whether it is there, and the number of its last change
  joined,     \* role and tenant: the number of the last change or removal
  profile,    \* user_profile:{id}
  doing,      \* the changes
  viewing,    \* the requests for a profile
  doings,     \* how many changes began
  replaced,   \* history: passwords that were replaced
  crossed,    \* history: accounts whose password was replaced while another
              \* change of the account had loaded it
  outdated    \* history: profiles kept with the old data after all

accountsVars ==
  <<user, pegawai, joined, profile, doing, viewing, doings, replaced, crossed, outdated>>

-----------------------------------------------------------------------------
(* Passwords and other data are told apart by the change that set them.    *)
Versions == 0..MaxDoings
SomePegawai == CHOOSE p \in Pegawai : TRUE
Account ==
  [is : {"free", "live", "removed"}, password : Versions, data : Versions, of : Pegawai,
   joins : SUBSET Joinable]
NoAccount == [is |-> "free", password |-> 0, data |-> 0, of |-> SomePegawai, joins |-> {}]
Profile == [data : Versions, of : Versions, joined : [Joinable -> Versions]]
NoProfile == [data |-> 0, of |-> 0, joined |-> [j \in Joinable |-> 0]]

NoDoing ==
  [at |-> "idle", does |-> "none", id |-> CHOOSE u \in Users : TRUE,
   row |-> NoAccount, version |-> 0]
DoingState ==
  [at : {"idle", "loaded", "saved"}, id : Users, row : Account, version : Versions,
   does : {"create", "update", "password", "remove", "profile", "pegawai", "removePegawai",
           "none"}]
NoViewing ==
  [at |-> "idle", id |-> CHOOSE u \in Users : TRUE, copy |-> NoProfile, old |-> FALSE]
ViewingState == [at : {"idle", "asked", "read"}, id : Users, copy : Profile, old : BOOLEAN]

AccountsTypeOK ==
  /\ user \in [Users -> Account]
  /\ pegawai \in [Pegawai -> [live : BOOLEAN, data : Versions]]
  /\ joined \in [Joinable -> Versions]
  /\ profile \in [Users -> Profile \cup {NoCopy}]
  /\ doing \in [Doers -> DoingState]
  /\ viewing \in [ProfileViewers -> ViewingState]
  /\ doings \in Versions
  /\ replaced \in SUBSET (Users \X Versions)
  /\ crossed \in SUBSET Users /\ outdated \in SUBSET Users

AccountsInit ==
  /\ user = [u \in Users |-> NoAccount]
  /\ pegawai = [p \in Pegawai |-> [live |-> TRUE, data |-> 0]]
  /\ joined = [j \in Joinable |-> 0]
  /\ profile = [u \in Users |-> NoCopy]
  /\ doing = [d \in Doers |-> NoDoing]
  /\ viewing = [v \in ProfileViewers |-> NoViewing]
  /\ doings = 0
  /\ replaced = {} /\ crossed = {} /\ outdated = {}

HasAccount(p) == \E u \in Users : user[u].is = "live" /\ user[u].of = p

BeginDoing(d, does, u, row) ==
  /\ doing[d].at = "idle" /\ doings < MaxDoings
  /\ doings' = doings + 1
  /\ doing' = [doing EXCEPT ![d] =
       [at |-> "loaded", does |-> does, id |-> u, row |-> row, version |-> doings + 1]]
  /\ UNCHANGED <<user, pegawai, joined, profile, viewing, replaced, crossed, outdated>>

-----------------------------------------------------------------------------
(* What is looked for and loaded first.                                    *)

(* create: the employee is there and has no account.                       *)
CreateUser(d, u, p, joins) ==
  /\ user[u].is = "free" /\ \A e \in Doers : ~(doing[e].does = "create" /\ doing[e].id = u)
  /\ pegawai[p].live /\ ~HasAccount(p)
  /\ BeginDoing(d, "create", u,
       [is |-> "live", password |-> doings + 1, data |-> doings + 1, of |-> p,
        joins |-> joins])

(* updateUser and toggleUserStatus; resetUserPassword, changePassword, and *)
(* updateUser with a password; removeUser.                                 *)
ChangeUser(d, u, does) ==
  /\ user[u].is = "live"
  /\ BeginDoing(d, does, u, user[u])

(* updateProfile and updateAvatar, of the employee of an account.          *)
ChangeProfile(d, u) ==
  /\ user[u].is = "live" /\ pegawai[user[u].of].live
  /\ BeginDoing(d, "profile", u, user[u])

(* update and remove of PegawaiService.                                    *)
ChangePegawai(d, p, does) ==
  /\ pegawai[p].live /\ (does = "removePegawai" => ~HasAccount(p))
  /\ BeginDoing(d, does, NoDoing.id, [NoAccount EXCEPT !.of = p])

-----------------------------------------------------------------------------
(* What is saved then.                                                     *)

Profiled(p) == {u \in Users : user[u].is # "free" /\ user[u].of = p}

(* Requests that have read what is changed for users U.                    *)
Outrun(U) ==
  viewing' = [v \in ProfileViewers |->
    [viewing[v] EXCEPT !.old = @ \/ (viewing[v].at = "read" /\ viewing[v].id \in U)]]

(* The unique indexes count removed accounts too.                          *)
SaveNewUser(d) ==
  LET does == doing[d]
  IN /\ does.at = "loaded" /\ does.does = "create"
     /\ Profiled(does.row.of) = {}
     /\ user' = [user EXCEPT ![does.id] = does.row]
     /\ doing' = [doing EXCEPT ![d] = NoDoing]
     /\ UNCHANGED <<pegawai, joined, profile, viewing, doings, replaced, crossed, outdated>>

(* Mutant of PasswordOf: an update without a password sets the default.    *)
PasswordOfDefault(does) == IF does.does = "password" THEN does.version ELSE 0

PasswordOf(does) == IF does.does = "password" THEN does.version ELSE does.row.password

(* All columns as they were loaded, but for those that change; an account  *)
(* that was removed meanwhile stays removed or is there again.  An update  *)
(* may name another role, and a role that was removed is loaded, and       *)
(* saved, as none.                                                         *)
SaveUser(d, joins) ==
  LET does == doing[d]
      u == does.id
      others == {e \in Doers \ {d} :
        doing[e].at = "loaded" /\ doing[e].id = u /\ doing[e].does \in {"update", "password"}}
  IN /\ does.at = "loaded" /\ does.does \in {"update", "password"}
     /\ does.does = "password" => joins \subseteq does.row.joins
     /\ \E is \in {user[u].is, "live"} :
          user' = [user EXCEPT ![u] =
            [is |-> is, password |-> PasswordOf(does), of |-> does.row.of,
             joins |-> joins, data |-> IF does.does = "update" THEN does.version ELSE does.row.data]]
     /\ Outrun({u})
     /\ replaced' = IF does.does = "update" THEN replaced
                    ELSE replaced \cup {<<u, user[u].password>>, <<u, does.row.password>>}
     /\ crossed' = IF does.does = "password" /\ others # {} THEN crossed \cup {u} ELSE crossed
     /\ doing' = [doing EXCEPT ![d].at = "saved"]
     /\ UNCHANGED <<pegawai, joined, profile, doings, outdated>>

RemoveUser(d) ==
  /\ doing[d].at = "loaded" /\ doing[d].does = "remove"
  /\ user' = [user EXCEPT ![doing[d].id].is = "removed"]
  /\ doing' = [doing EXCEPT ![d].at = "saved"]
  /\ UNCHANGED <<pegawai, joined, profile, viewing, doings, replaced, crossed, outdated>>

(* The profile of the employee, by the user or by the administration,      *)
(* which does not delete the profile that is kept.                         *)
SavePegawai(d) ==
  LET p == doing[d].row.of
  IN /\ doing[d].at = "loaded" /\ doing[d].does \in {"profile", "pegawai"}
     /\ \E live \in {pegawai[p].live, TRUE} :
          pegawai' = [pegawai EXCEPT ![p] = [live |-> live, data |-> doing[d].version]]
     /\ Outrun(Profiled(p))
     /\ IF doing[d].does = "profile"
        THEN doing' = [doing EXCEPT ![d].at = "saved"] /\ UNCHANGED outdated
        ELSE /\ doing' = [doing EXCEPT ![d] = NoDoing]
             /\ outdated' = outdated \cup {u \in Profiled(p) : profile[u] # NoCopy}
     /\ UNCHANGED <<user, joined, profile, doings, replaced, crossed>>

RemovePegawai(d) ==
  LET p == doing[d].row.of
  IN /\ doing[d].at = "loaded" /\ doing[d].does = "removePegawai"
     /\ pegawai' = [pegawai EXCEPT ![p].live = FALSE]
     /\ doing' = [doing EXCEPT ![d] = NoDoing]
     /\ Outrun(Profiled(p))
     /\ outdated' = outdated \cup {u \in Profiled(p) : profile[u] # NoCopy}
     /\ UNCHANGED <<user, joined, profile, doings, replaced, crossed>>

(* A role is saved or removed (RoleService), a tenant saved                *)
(* (TenantsService): no profile that is kept is deleted.                   *)
SaveJoined(j) ==
  LET of == {u \in Users : user[u].is # "free" /\ j \in user[u].joins}
  IN /\ doings < MaxDoings /\ doings' = doings + 1
     /\ joined' = [joined EXCEPT ![j] = doings + 1]
     /\ Outrun(of)
     /\ outdated' = outdated \cup {u \in of : profile[u] # NoCopy}
     /\ UNCHANGED <<user, pegawai, profile, doing, replaced, crossed>>

(* Mutant of Cleared: the profile is kept.                                 *)
ClearedNot(u) == profile

Cleared(u) == [profile EXCEPT ![u] = NoCopy]

(* deleteProfileCache                                                      *)
DeleteProfileCache(d) ==
  /\ doing[d].at = "saved"
  /\ profile' = Cleared(doing[d].id)
  /\ outdated' = outdated \ {doing[d].id}
  /\ doing' = [doing EXCEPT ![d] = NoDoing]
  /\ UNCHANGED <<user, pegawai, joined, viewing, doings, replaced, crossed>>

(* A query or the deletion fails, or the process ends.                     *)
DoingFails(d) ==
  /\ doing[d].at # "idle"
  /\ doing' = [doing EXCEPT ![d] = NoDoing]
  /\ outdated' = IF doing[d].at = "saved" /\ profile[doing[d].id] # NoCopy
                 THEN outdated \cup {doing[d].id} ELSE outdated
  /\ UNCHANGED <<user, pegawai, joined, profile, viewing, doings, replaced, crossed>>

-----------------------------------------------------------------------------
(* getProfile                                                              *)

AskForProfile(v, u) ==
  /\ viewing[v].at = "idle" /\ user[u].is # "free" /\ profile[u] = NoCopy
  /\ viewing' = [viewing EXCEPT ![v] = [NoViewing EXCEPT !.at = "asked", !.id = u]]
  /\ UNCHANGED <<user, pegawai, joined, profile, doing, doings, replaced, crossed, outdated>>

(* An employee that was removed is not joined.                             *)
ProfileOf(u) ==
  [data |-> user[u].data,
   of |-> IF pegawai[user[u].of].live THEN pegawai[user[u].of].data ELSE 0,
   joined |-> [j \in Joinable |-> IF j \in user[u].joins THEN joined[j] ELSE 0]]

GetProfile(v) ==
  LET u == viewing[v].id
  IN /\ viewing[v].at = "asked" /\ user[u].is = "live"
     /\ viewing' = [viewing EXCEPT ![v].at = "read", ![v].copy = ProfileOf(u)]
     /\ UNCHANGED <<user, pegawai, joined, profile, doing, doings, replaced, crossed, outdated>>

KeepProfile(v) ==
  LET u == viewing[v].id
  IN /\ viewing[v].at = "read"
     /\ profile' = [profile EXCEPT ![u] = viewing[v].copy]
     /\ outdated' = IF viewing[v].old THEN outdated \cup {u} ELSE outdated \ {u}
     /\ viewing' = [viewing EXCEPT ![v] = NoViewing]
     /\ UNCHANGED <<user, pegawai, joined, doing, doings, replaced, crossed>>

ViewingFails(v) ==
  /\ viewing[v].at # "idle"
  /\ viewing' = [viewing EXCEPT ![v] = NoViewing]
  /\ UNCHANGED <<user, pegawai, joined, profile, doing, doings, replaced, crossed, outdated>>

ExpireProfile(u) ==
  /\ profile[u] # NoCopy
  /\ profile' = [profile EXCEPT ![u] = NoCopy] /\ outdated' = outdated \ {u}
  /\ UNCHANGED <<user, pegawai, joined, doing, viewing, doings, replaced, crossed>>

-----------------------------------------------------------------------------
AccountsNext ==
  \/ \E d \in Doers :
       \/ \E u \in Users :
            \/ \E p \in Pegawai, joins \in SUBSET Joinable : CreateUser(d, u, p, joins)
            \/ \E does \in {"update", "password", "remove"} : ChangeUser(d, u, does)
            \/ ChangeProfile(d, u)
       \/ \E p \in Pegawai, does \in {"pegawai", "removePegawai"} : ChangePegawai(d, p, does)
       \/ \E joins \in SUBSET Joinable : SaveUser(d, joins)
       \/ SaveNewUser(d) \/ RemoveUser(d) \/ SavePegawai(d) \/ RemovePegawai(d)
       \/ DeleteProfileCache(d) \/ DoingFails(d)
  \/ \E v \in ProfileViewers :
       \/ \E u \in Users : AskForProfile(v, u)
       \/ GetProfile(v) \/ KeepProfile(v) \/ ViewingFails(v)
  \/ \E u \in Users : ExpireProfile(u)
  \/ \E j \in Joinable : SaveJoined(j)

AccountsSpec == AccountsInit /\ [][AccountsNext]_accountsVars

-----------------------------------------------------------------------------
(* A password that was changed or reset does not open the account again,   *)
(* unless another change of the account, of its status say, had loaded the *)
(* row when the new password was saved, and writes the old one back.       *)
NewPasswordStays ==
  \A u \in Users \ crossed : user[u].is = "live" => <<u, user[u].password>> \notin replaced

(* The profile that is kept is that of the user's row and of the employee, *)
(* the role and the tenant it is joined with: but while a change that is   *)
(* saved has not deleted it yet, when the deletion failed, when it was     *)
(* read before a change and kept after it, or when the administration      *)
(* changed the employee, the role or the tenant, which deletes no profile. *)
ProfileIsFresh ==
  \A u \in Users \ outdated :
    \/ profile[u] = NoCopy \/ user[u].is # "live"
    \/ profile[u] = ProfileOf(u)
    \/ \E d \in Doers : doing[d].at = "saved" /\ doing[d].id = u
=============================================================================
