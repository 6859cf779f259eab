------------------------------ MODULE Tenants ------------------------------
(***************************************************************************)
(* cloneTenantConfig of TenantsService: the roles, the menus and an        *)
(* account of one target tenant are made after those of another one, which *)
(* the request names, in a transaction of the database (READ COMMITTED)    *)
(* that looks for every row before it inserts it.  Roles are unique by     *)
(* tenant and name, accounts by name; nothing keeps a second menu of the   *)
(* same name and parent out.  Permissions follow the roles and are left    *)
(* out.                                                                    *)
(***************************************************************************)
EXTENDS Naturals, FiniteSets

CONSTANTS
  Origins,   \* tenants that are cloned from
  Sources,   \* their menus
  OriginOf,  \* the tenant of each
  NameOf,    \* their names
  Rows,      \* identities of menus of the target
  RoleNames, \* names of roles
  SuperAdmin, \* the role of the account, one of them
  Nowhere,   \* no menu: the parent of a root
  Clones,    \* slots for requests to clone
  MaxClones, \* bound: how many begin
  MaxMoves   \* bound: how often a menu of the source is moved

ASSUME TenantsAssumption ==
  /\ Sources # {} /\ DOMAIN NameOf = Sources /\ OriginOf \in [Sources -> Origins]
  /\ SuperAdmin \in RoleNames
  /\ MaxClones \in Nat /\ MaxMoves \in Nat
  /\ Nowhere \notin Sources \cup Rows

VARIABLES
  above,    \* the menus of the sources: the parent of each
  row,      \* the menus of the target
  targetRoles, \* the roles of the target
  accounts, \* its accounts admin_{name}, admin_{name}_1, ...
  clone,    \* the requests
  cloned,   \* how many began
  moves,    \* how often a menu of a source was moved
  apart     \* history: clones that overlapped and inserted no role in common

tenantVars == <<above, row, targetRoles, accounts, clone, cloned, moves, apart>>

-----------------------------------------------------------------------------
MenuNames == {NameOf[s] : s \in Sources}
SourceTree == [Sources -> Sources \cup {Nowhere}]
IsForest(f) ==
  \A C \in SUBSET Sources : C # {} => \E x \in C : f[x] \notin C

FreeRow ==
  [is |-> "free", name |-> CHOOSE n \in MenuNames : TRUE, under |-> Nowhere, by |-> {}, nth |-> 0]
MenuRow ==
  [is : {"free", "uncommitted", "live"}, name : MenuNames, under : Rows \cup {Nowhere},
   by : SUBSET Clones,  \* the request that inserted it, while it is not committed
   nth : 0..MaxClones]  \* history: which clone inserted it

(* names: the roles still to be looked for; looked: the one that was not   *)
(* found; missing: the ones it inserted; nth: history, its number among    *)
(* all clones.                                                             *)
NoClone ==
  [at |-> "idle", origins |-> {}, names |-> {}, looked |-> {}, missing |-> {},
   tree |-> [s \in Sources |-> Nowhere], todo |-> {}, map |-> [s \in Sources |-> Nowhere],
   number |-> 0, nth |-> 0]
CloneState ==
  [at : {"idle", "roles", "menus", "account", "save"}, origins : SUBSET Origins,
   names : SUBSET RoleNames, looked : SUBSET RoleNames, missing : SUBSET RoleNames,
   tree : SourceTree, todo : SUBSET Sources,
   map : [Sources -> Rows \cup {Nowhere}], number : 0..MaxClones, nth : 0..MaxClones]

TenantsTypeOK ==
  /\ above \in SourceTree
  /\ row \in [Rows -> MenuRow]
  /\ targetRoles \in SUBSET RoleNames
  /\ accounts \in SUBSET (0..MaxClones)
  /\ clone \in [Clones -> CloneState]
  /\ cloned \in 0..MaxClones /\ moves \in 0..MaxMoves
  /\ apart \in SUBSET SUBSET (0..MaxClones)

TenantsInit ==
  /\ above \in {f \in SourceTree : IsForest(f)}
  /\ row = [r \in Rows |-> FreeRow]
  /\ targetRoles \in SUBSET RoleNames
  /\ accounts = {}
  /\ clone = [c \in Clones |-> NoClone]
  /\ cloned = 0 /\ moves = 0 /\ apart = {}

CloneStep(c, to) == clone' = [clone EXCEPT ![c] = to]
RowsSeenBy(c) == {r \in Rows : row[r].is = "live" \/ c \in row[r].by}

-----------------------------------------------------------------------------
(* A request names its source; names are the source's roles, none when     *)
(* they are not to be cloned; without origins its menus are not.           *)
CloneTenantConfig(c, origins, names) ==
  /\ clone[c].at = "idle" /\ cloned < MaxClones
  /\ cloned' = cloned + 1
  /\ CloneStep(c, [NoClone EXCEPT !.at = "roles", !.origins = origins, !.names = names,
                     !.nth = cloned + 1])
  /\ UNCHANGED <<above, row, targetRoles, accounts, moves, apart>>

(* One role after the other is looked for in the target by its name.       *)
FindRole(c, name) ==
  LET does == clone[c] IN
  /\ does.at = "roles" /\ does.looked = {} /\ name \in does.names
  /\ CloneStep(c, [does EXCEPT !.names = @ \ {name},
       !.looked = IF name \in targetRoles THEN {} ELSE {name}])
  /\ UNCHANGED <<above, row, targetRoles, accounts, cloned, moves, apart>>

(* Mutant of Locked: the names of roles are not unique.                    *)
LockedNever(c, names) == FALSE

(* An insert of a name waits for the transaction that inserted it.         *)
Locked(c, names) == \E d \in Clones \ {c} : names \cap clone[d].missing # {}

(* The one that was not found is inserted, which fails when the            *)
(* transaction that was waited for has been committed.                     *)
InsertRole(c) ==
  LET does == clone[c] IN
  /\ does.at = "roles" /\ does.looked # {}
  /\ ~Locked(c, does.looked)
  /\ does.looked \cap targetRoles = {}
  /\ CloneStep(c, [does EXCEPT !.looked = {}, !.missing = @ \cup does.looked])
  /\ UNCHANGED <<above, row, targetRoles, accounts, cloned, moves, apart>>

(* Others that clone menus now, and inserted none of the roles c inserted. *)
PastRoles(x) == x.at \in {"menus", "account", "save"}
ApartFrom(c) ==
  {d \in Clones \ {c} : PastRoles(clone[d]) /\ clone[d].missing \cap clone[c].missing = {}}

(* The menus of the source are read, in no order.                          *)
FindMenus(c) ==
  LET does == clone[c]
      found == {s \in Sources : OriginOf[s] \in does.origins}
  IN /\ does.at = "roles" /\ does.names = {} /\ does.looked = {}
     /\ CloneStep(c, [does EXCEPT !.at = IF found = {} THEN "account" ELSE "menus",
                        !.tree = above, !.todo = found])
     /\ apart' = apart \cup {{does.nth, clone[d].nth} : d \in ApartFrom(c)}
     /\ UNCHANGED <<above, row, targetRoles, accounts, cloned, moves>>

(* First those without a parent, then the others as they come: when the    *)
(* parent comes later, any menu of that name will do, or one without a     *)
(* parent is inserted.                                                     *)
CloneMenu(c, s) ==
  LET does == clone[c]
      isRoot(x) == does.tree[x] = Nowhere
      under == IF isRoot(s) THEN Nowhere ELSE does.map[does.tree[s]]
      found == {r \in RowsSeenBy(c) :
        row[r].name = NameOf[s] /\ (row[r].under = under \/ (~isRoot(s) /\ under = Nowhere))}
      free == {r \in Rows : row[r].is = "free"}
  IN /\ does.at = "menus" /\ s \in does.todo
     /\ ~isRoot(s) => \A x \in does.todo : ~isRoot(x)
     /\ \E r \in IF found # {} THEN found ELSE free :
          /\ CloneStep(c, [does EXCEPT !.todo = @ \ {s}, !.map[s] = r,
                             !.at = IF does.todo = {s} THEN "account" ELSE "menus"])
          /\ row' = IF found # {} THEN row
                    ELSE [row EXCEPT ![r] =
                            [is |-> "uncommitted", name |-> NameOf[s], under |-> under, by |-> {c},
                             nth |-> does.nth]]
     /\ UNCHANGED <<above, targetRoles, accounts, cloned, moves, apart>>

(* Its role is inserted when it is missing, and a name for the account is  *)
(* chosen: the first one that is free.                                     *)
NameAccount(c) ==
  LET role == {SuperAdmin} \ (targetRoles \cup clone[c].missing)
  IN /\ clone[c].at = "account"
     /\ ~Locked(c, role)
     /\ \E n \in 0..MaxClones :
          /\ n \notin accounts /\ \A k \in 0..(n - 1) : k \in accounts
          /\ CloneStep(c, [clone[c] EXCEPT !.at = "save", !.number = n, !.missing = @ \cup role])
     /\ UNCHANGED <<above, row, targetRoles, accounts, cloned, moves, apart>>

(* The account is inserted, another one in every clone that asks for it,   *)
(* and all is committed.                                                   *)
CommitClone(c) ==
  /\ \/ clone[c].at = "account" /\ UNCHANGED accounts
     \/ /\ clone[c].at = "save" /\ clone[c].number \notin accounts
        /\ accounts' = accounts \cup {clone[c].number}
  /\ targetRoles' = targetRoles \cup clone[c].missing
  /\ row' = [r \in Rows |-> IF c \in row[r].by THEN [row[r] EXCEPT !.is = "live", !.by = {}]
                            ELSE row[r]]
  /\ CloneStep(c, NoClone)
  /\ UNCHANGED <<above, cloned, moves, apart>>

(* A query fails, or the process ends: all is rolled back.                 *)
CloneFails(c) ==
  /\ clone[c].at # "idle"
  /\ row' = [r \in Rows |-> IF c \in row[r].by THEN FreeRow ELSE row[r]]
  /\ CloneStep(c, NoClone)
  /\ UNCHANGED <<above, targetRoles, accounts, cloned, moves, apart>>

MoveSource(s, under) ==
  /\ moves < MaxMoves
  /\ IsForest([above EXCEPT ![s] = under])
  /\ above' = [above EXCEPT ![s] = under]
  /\ moves' = moves + 1
  /\ UNCHANGED <<row, targetRoles, accounts, clone, cloned, apart>>

-----------------------------------------------------------------------------
TenantsNext ==
  \/ \E c \in Clones :
       \/ \E origins \in {{}} \cup {{o} : o \in Origins}, names \in SUBSET RoleNames :
            CloneTenantConfig(c, origins, names)
       \/ \E name \in RoleNames : FindRole(c, name)
       \/ InsertRole(c) \/ FindMenus(c) \/ NameAccount(c) \/ CommitClone(c) \/ CloneFails(c)
       \/ \E s \in Sources : CloneMenu(c, s)
  \/ \E s \in Sources, under \in Sources \cup {Nowhere} : MoveSource(s, under)

TenantsSpec == TenantsInit /\ [][TenantsNext]_tenantVars

-----------------------------------------------------------------------------
SamePlace(r, s) ==
  /\ row[r].is = "live" /\ row[s].is = "live"
  /\ row[r].name = row[s].name /\ row[r].under = row[s].under

(* Cloning adds no second menu of a name to a place of the target: a clone *)
(* that is repeated does not, from whatever source and however the sources *)
(* are changed in between, and clones that overlap do not when a role is   *)
(* missing that both bring, as it is the first time, for then one waits    *)
(* for the other, and fails.  Only clones that overlap and insert no role  *)
(* in common may double a menu: of sources with different roles, without   *)
(* roles, or when the roles are there.                                     *)
MenusOnce ==
  \A r, s \in Rows : r # s /\ SamePlace(r, s) => {row[r].nth, row[s].nth} \in apart
=============================================================================
