------------------------------- MODULE Access -------------------------------
(***************************************************************************)
(* Who may do what: roles and their permissions (RoleService,              *)
(* PermissionService, and updateRoleMenuPermission of MenuService), and    *)
(* the check of a request (PermissionGuard).  One tenant; permissions of   *)
(* single users are written by no code of this repository.                 *)
(*                                                                         *)
(* Every operation looks first and saves later, as a rule without a        *)
(* transaction, and no constraint keeps a second row for the same role and *)
(* resource out.                                                           *)
(***************************************************************************)
EXTENDS Naturals, FiniteSets, Sequences

CONSTANTS
  Roles,      \* identities of roles
  Resources,  \* what is guarded
  Levels,     \* access levels, each with the actions it allows
  Actions,    \* what a request does
  Allows,     \* AccessLevelMapping
  Perms,      \* identities of rows of permissions, never used twice
  Admins,     \* slots for requests under way
  NoRole,     \* of a permission that lost its role
  MaxNamed,   \* bound: how often a request names a resource
  MaxOrders   \* bound: how many requests begin

ASSUME AccessAssumption ==
  /\ Allows \in [Levels -> SUBSET Actions] /\ NoRole \notin Roles
  /\ MaxNamed \in Nat /\ MaxOrders \in Nat
  /\ Resources # {} /\ Levels # {}

VARIABLES
  perm,    \* permissions
  roleIs,  \* the roles: not yet there, there or removed
  order,   \* the requests
  orders,  \* how many began
  revoked, \* history: permissions removed since they were last granted
  doubled  \* history: those that were inserted beside a row that was there,
           \* or twice at once

accessVars == <<perm, roleIs, order, orders, revoked, doubled>>

-----------------------------------------------------------------------------
Pairs == Roles \X Resources
NoPermission == [is |-> "unused", pair |-> <<NoRole, CHOOSE x \in Resources : TRUE>>,
           level |-> CHOOSE l \in Levels : TRUE]
Permission ==
  [is : {"unused", "live", "removed"}, pair : (Roles \cup {NoRole}) \X Resources, level : Levels]

Copies == [Perms -> Permission] \* rows as they were read; NoPermission when they were not
NothingRead == [p \in Perms |-> NoPermission]

(* What a request asks for: for each resource the levels it names, one for *)
(* each time it names the resource.                                        *)
Named == UNION {[1..n -> Levels] : n \in 0..MaxNamed}
Wish == [Resources -> Named]
NoWish == [x \in Resources |-> <<>>]
Items(wish) == {i \in Resources \X (1..MaxNamed) : i[2] \in DOMAIN wish[i[1]]}

Order ==
  [at : {"idle", "sync", "copy", "read", "clear", "update", "delete"},
   role : Roles \cup {NoRole}, wish : Wish, copies : Copies, anew : BOOLEAN, whole : BOOLEAN]
NoOrder ==
  [at |-> "idle", role |-> NoRole, wish |-> NoWish, copies |-> NothingRead,
   anew |-> FALSE, whole |-> FALSE]

RowsFor(pair) == {p \in Perms : perm[p].is = "live" /\ perm[p].pair = pair}
RowsOfRole(role) == {p \in Perms : perm[p].is = "live" /\ perm[p].pair[1] = role}
OneOfEach(P) ==
  {Q \in SUBSET P : \A p \in P : Cardinality({q \in Q : perm[q].pair = perm[p].pair}) = 1}
Copied(P) == [p \in Perms |-> IF p \in P THEN perm[p] ELSE NoPermission]

AccessTypeOK ==
  /\ perm \in [Perms -> Permission]
  /\ roleIs \in [Roles -> {"new", "live", "removed"}]
  /\ \A a \in Admins : /\ DOMAIN order[a] = DOMAIN NoOrder /\ order[a].wish \in Wish
                       /\ order[a].copies \in Copies
  /\ orders \in 0..MaxOrders
  /\ revoked \in SUBSET Pairs
  /\ doubled \in SUBSET ((Roles \cup {NoRole}) \X Resources)

AccessInit ==
  /\ perm = NothingRead
  /\ roleIs \in [Roles -> {"new", "live"}]
  /\ order = [a \in Admins |-> NoOrder]
  /\ orders = 0
  /\ revoked = {} /\ doubled = {}

LivePairs(P) == Pairs \cap {perm[p].pair : p \in {q \in P : perm[q].is = "live"}}

(* checkAccess: findOne returns any of the rows.                           *)
CheckAccess(role, resource, action) ==
  \E p \in RowsFor(<<role, resource>>) :
    action \in Allows[perm[p].level] \/ "manage" \in Allows[perm[p].level]

BeginOrder(a, does) ==
  /\ order[a].at = "idle" /\ orders < MaxOrders
  /\ orders' = orders + 1
  /\ order' = [order EXCEPT ![a] = does]
  /\ UNCHANGED <<perm, roleIs, revoked, doubled>>
OrderDone(a) == order' = [order EXCEPT ![a] = NoOrder]

-----------------------------------------------------------------------------
(* What is looked for first.                                               *)

(* syncRolePermissions, and updateRoleMenuPermission for one resource: the *)
(* rows of the role, one for each resource.  The role may be removed.      *)
Sync(a, role, wish) ==
  /\ roleIs[role] # "new" /\ wish # NoWish
  /\ \E P \in OneOfEach({p \in RowsOfRole(role) : wish[perm[p].pair[2]] # <<>>}) :
       BeginOrder(a, [NoOrder EXCEPT !.at = "sync", !.role = role, !.wish = wish,
                                     !.copies = Copied(P)])

(* copyRolePermissions: the rows of the source, in any order, each of them *)
(* when it has two for a resource.                                         *)
CopyRole(a, from, to, wish) ==
  /\ from # to /\ roleIs[to] # "new" /\ RowsOfRole(from) # {}
  /\ \A x \in Resources, level \in Levels :
       Cardinality({i \in DOMAIN wish[x] : wish[x][i] = level})
         = Cardinality({p \in RowsFor(<<from, x>>) : perm[p].level = level})
  /\ BeginOrder(a, [NoOrder EXCEPT !.at = "copy", !.role = to, !.wish = wish])

(* and the rows of the target, to be merged with or to be removed.         *)
ReadTarget(a, merge) ==
  /\ order[a].at = "copy"
  /\ LET P == RowsOfRole(order[a].role)
     IN \E Q \in IF merge THEN OneOfEach(P) ELSE {P} :
          order' = [order EXCEPT ![a].at = IF merge THEN "sync" ELSE "clear",
                                 ![a].copies = Copied(Q), ![a].anew = ~merge]
  /\ UNCHANGED <<perm, roleIs, orders, revoked, doubled>>

(* mode overwrite: they are removed, and saved in another step.            *)
ClearTarget(a) ==
  LET P == {p \in Perms : order[a].copies[p].is = "live"}
  IN /\ order[a].at = "clear"
     /\ perm' = [p \in Perms |-> IF p \in P THEN [perm[p] EXCEPT !.is = "removed"] ELSE perm[p]]
     /\ order' = [order EXCEPT ![a].at = "sync", ![a].copies = NothingRead]
     /\ revoked' = revoked \cup LivePairs(P)
     /\ UNCHANGED <<roleIs, orders, doubled>>

(* addPermissions, when any is new, and update: the role with all its      *)
(* permissions.  update inserts those it is sent beside those there are.   *)
LoadRole(a, role, wish, update) ==
  /\ roleIs[role] = "live"
  /\ update \/ \E x \in Resources : wish[x] # <<>> /\ RowsFor(<<role, x>>) = {}
  /\ BeginOrder(a, [NoOrder EXCEPT !.at = "update", !.role = role, !.whole = TRUE, !.anew = update,
       !.wish = IF update THEN wish
                ELSE [x \in Resources |-> IF RowsFor(<<role, x>>) # {} THEN <<>> ELSE wish[x]],
       !.copies = Copied(RowsOfRole(role))])

(* updatePermissionById: one row with another level or resource.           *)
LoadPermission(a, p, x, level) ==
  /\ perm[p].is = "live"
  /\ BeginOrder(a, [NoOrder EXCEPT !.at = "update",
       !.copies = [NothingRead EXCEPT ![p] =
                     [perm[p] EXCEPT !.pair = <<perm[p].pair[1], x>>, !.level = level]]])

(* deletePermissionById, deletePermissionByRoleAndResource: one row.       *)
FindPermission(a, p) ==
  /\ perm[p].is = "live"
  /\ BeginOrder(a, [NoOrder EXCEPT !.at = "delete", !.copies = Copied({p})])

-----------------------------------------------------------------------------
(* What is saved then.                                                     *)

(* Mutant of Updates: the row that was found is not used.                  *)
UpdatesNothing(a, p) == FALSE

(* The copy of a row that is asked for gets the level that is asked for,   *)
(* unless update, which inserts.                                           *)
Updates(a, p) ==
  LET copy == order[a].copies[p]
  IN copy.is = "live" /\ (order[a].wish[copy.pair[2]] = <<>> => order[a].at = "update")

Found(a, x) == \E p \in Perms : order[a].copies[p].is = "live" /\ order[a].copies[p].pair[2] = x
Inserts(a) ==
  {i \in Items(order[a].wish) : order[a].anew \/ ~\E p \in Perms :
                                  Updates(a, p) /\ order[a].copies[p].pair[2] = i[1]}

(* A row for each item of I, at the place it takes.                        *)
Grant(role, wish, i) == [is |-> "live", pair |-> <<role, i[1]>>, level |-> wish[i[1]][i[2]]]
Places(I) ==
  {at \in [I -> {p \in Perms : perm[p] = NoPermission}] : \A i, j \in I : i # j => at[i] # at[j]}

(* Items that come to stand beside a row that is there, or beside another. *)
Beside(role, I) ==
  {i \in I : RowsFor(<<role, i[1]>>) # {} \/ \E j \in I : j # i /\ j[1] = i[1]}

(* A row that is saved is as it was read but for the level that is asked   *)
(* for; one that was removed meanwhile stays removed or is there again.  A *)
(* save of the role takes rows off it that it had not read.                *)
Resaved(a, p, back) ==
  LET copy == order[a].copies[p]
      wish == order[a].wish[copy.pair[2]]
  IN IF Updates(a, p)
     THEN [is |-> IF perm[p].is = "live" \/ back THEN "live" ELSE "removed",
           pair |-> <<IF order[a].whole THEN order[a].role ELSE perm[p].pair[1], copy.pair[2]>>,
           level |-> IF wish # <<>> /\ ~order[a].anew THEN wish[Len(wish)] ELSE copy.level]
     ELSE IF order[a].whole /\ perm[p].is = "live" /\ perm[p].pair[1] = order[a].role
     THEN [perm[p] EXCEPT !.pair = <<NoRole, @[2]>>]
     ELSE perm[p]

SavePermissions(a) ==
  /\ order[a].at \in {"sync", "update"}
  /\ \E back \in BOOLEAN, at \in Places(Inserts(a)) :
       perm' = [p \in Perms |->
         IF \E i \in Inserts(a) : at[i] = p
         THEN Grant(order[a].role, order[a].wish, CHOOSE i \in Inserts(a) : at[i] = p)
         ELSE Resaved(a, p, back)]
  /\ revoked' = {pair \in revoked :
       {p \in Perms : perm'[p].is = "live" /\ perm'[p].pair = pair} \subseteq RowsFor(pair)}
  /\ doubled' = doubled \cup
       {<<order[a].role, i[1]>> : i \in {j \in Beside(order[a].role, Inserts(a)) :
          order[a].anew \/ ~Found(a, j[1])}}
       \cup {perm'[p].pair :
               p \in {q \in Perms : Updates(a, q) /\ (perm'[q].pair # perm[q].pair
                                                      \/ perm[q].is = "removed")}}
  /\ OrderDone(a)
  /\ UNCHANGED <<roleIs, orders>>

DeletePermission(a) ==
  /\ order[a].at = "delete"
  /\ perm' = [p \in Perms |-> IF order[a].copies[p].is = "live"
                              THEN [perm[p] EXCEPT !.is = "removed"] ELSE perm[p]]
  /\ revoked' = revoked \cup LivePairs({p \in Perms : order[a].copies[p].is = "live"})
  /\ OrderDone(a)
  /\ UNCHANGED <<roleIs, orders, doubled>>

OrderFails(a) ==
  /\ order[a].at # "idle"
  /\ OrderDone(a)
  /\ UNCHANGED <<perm, roleIs, orders, revoked, doubled>>

(* create: a role with its permissions.                                    *)
CreateRole(role, wish) ==
  /\ roleIs[role] = "new"
  /\ \E at \in Places(Items(wish)) :
       perm' = [p \in Perms |->
         IF \E i \in Items(wish) : at[i] = p
         THEN Grant(role, wish, CHOOSE i \in Items(wish) : at[i] = p)
         ELSE perm[p]]
  /\ doubled' = doubled \cup {<<role, i[1]>> : i \in Beside(role, Items(wish))}
  /\ roleIs' = [roleIs EXCEPT ![role] = "live"]
  /\ UNCHANGED <<order, orders, revoked>>

(* remove: the role and its permissions, in a transaction.                 *)
RemoveRole(role) ==
  /\ roleIs[role] = "live"
  /\ roleIs' = [roleIs EXCEPT ![role] = "removed"]
  /\ perm' = [p \in Perms |-> IF p \in RowsOfRole(role) THEN [perm[p] EXCEPT !.is = "removed"]
                              ELSE perm[p]]
  /\ revoked' = revoked \cup {<<role, x>> : x \in Resources}
  /\ UNCHANGED <<order, orders, doubled>>

-----------------------------------------------------------------------------
AccessNext ==
  \/ \E a \in Admins :
       \/ \E role \in Roles, wish \in Wish :
            Sync(a, role, wish) \/ \E update \in BOOLEAN : LoadRole(a, role, wish, update)
       \/ \E from, to \in Roles, wish \in Wish : CopyRole(a, from, to, wish)
       \/ \E merge \in BOOLEAN : ReadTarget(a, merge)
       \/ \E p \in Perms, x \in Resources, level \in Levels : LoadPermission(a, p, x, level)
       \/ \E p \in Perms : FindPermission(a, p)
       \/ ClearTarget(a) \/ SavePermissions(a) \/ DeletePermission(a) \/ OrderFails(a)
  \/ \E role \in Roles :
       RemoveRole(role) \/ \E wish \in Wish : CreateRole(role, wish)

AccessSpec == AccessInit /\ [][AccessNext]_accessVars

-----------------------------------------------------------------------------
(* A permission that was removed, alone or with its role, allows nothing   *)
(* until it is granted again: unless it had a second row, of a request     *)
(* that named it twice, of requests that overlapped, of an update of the   *)
(* role or of a copy of such rows, or had been moved to another resource   *)
(* or brought back by the save of an older copy.                           *)
RevokedIsDenied ==
  \A pair \in revoked \ doubled :
    \A action \in Actions : ~CheckAccess(pair[1], pair[2], action)
=============================================================================
