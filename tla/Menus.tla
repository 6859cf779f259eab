------------------------------- MODULE Menus -------------------------------
(***************************************************************************)
(* The menus of a tenant (MenuService): a forest in the table menu, and    *)
(* the tree made of it, which Redis keeps for an hour.  A change is a      *)
(* transaction that looks first and saves later, and then deletes what     *)
(* Redis keeps, by KEYS and DEL.                                           *)
(***************************************************************************)
EXTENDS Naturals

CONSTANTS
  Menu,           \* identities of menus
  Top,            \* stands for the parent of a menu that has none
  Gone,           \* and for that of a menu that is not in the table
  NoTree,         \* nothing is kept
  Editors,        \* slots for changes under way
  TreeViewers,    \* slots for requests for the tree
  MaxMenuChanges  \* bound: how many changes begin

ASSUME MenuAssumption == Top \notin Menu /\ Gone \notin Menu \cup {Top} /\ MaxMenuChanges \in Nat

VARIABLES
  parent,  \* the table
  kept,    \* menus:all:{tenant}
  edit,    \* the changes
  view,    \* the requests for the tree
  changesBegun, \* how many changes began
  late     \* history: what is kept was read before a change and kept after it,
           \* or the deletion of it failed

menuVars == <<parent, kept, edit, view, changesBegun, late>>

-----------------------------------------------------------------------------
Parents == Menu \cup {Top, Gone}
Forest == [Menu -> Parents]

NoEdit == [at |-> "idle", does |-> "none", menu |-> Top, under |-> Gone]
EditState ==
  [at : {"idle", "looked", "committed", "clearing"}, does : {"create", "update", "delete", "none"},
   menu : Menu \cup {Top}, under : Parents]
NoView == [at |-> "idle", tree |-> [m \in Menu |-> Gone], old |-> FALSE]
ViewState == [at : {"idle", "asked", "read"}, tree : Forest, old : BOOLEAN]

MenusTypeOK ==
  /\ parent \in Forest
  /\ \A m \in Menu : parent[m] \in Menu => parent[parent[m]] # Gone \* the foreign key
  /\ kept \in Forest \cup {NoTree}
  /\ edit \in [Editors -> EditState]
  /\ view \in [TreeViewers -> ViewState]
  /\ changesBegun \in 0..MaxMenuChanges
  /\ late \in BOOLEAN

MenusInit ==
  /\ parent \in [Menu -> {Top, Gone}]
  /\ kept = NoTree
  /\ edit = [q \in Editors |-> NoEdit]
  /\ view = [v \in TreeViewers |-> NoView]
  /\ changesBegun = 0
  /\ late = FALSE

(* buildMenuTree: from the roots down.  Menus on a cycle of parents, and   *)
(* those below them, are in nobody's branch and are not shown.             *)
Lost(m) == \E C \in SUBSET Menu : m \in C /\ \A x \in C : parent[x] \in C
BuildMenuTree == [m \in Menu |-> IF Lost(m) THEN Gone ELSE parent[m]]

(* Mutant of Below: only the menu itself.                                  *)
BelowNone(m, top) == m = top

(* Foreign key: the menus below a menu that is deleted go with it.         *)
Below(m, top) ==
  \A C \in SUBSET Menu :
    m \in C /\ (\A x \in C : parent[x] \in C \cup {Top, Gone}) => top \in C

-----------------------------------------------------------------------------
BeginEdit(q, does, m, under) ==
  /\ edit[q].at = "idle" /\ changesBegun < MaxMenuChanges
  /\ changesBegun' = changesBegun + 1
  /\ edit' = [edit EXCEPT ![q] = [at |-> "looked", does |-> does, menu |-> m, under |-> under]]
  /\ UNCHANGED <<parent, kept, view, late>>

(* A parent that is asked for and is not there is left out.                *)
CreateMenu(q, m, under) ==
  /\ parent[m] = Gone /\ \A p \in Editors : edit[p].menu # m
  /\ under \in Menu => under # m
  /\ BeginEdit(q, "create", m, IF under = Top \/ parent[under] = Gone THEN Top ELSE under)

(* Under another menu, which is there, or where it is; never under itself, *)
(* and nothing keeps it from going under one of those below it.            *)
UpdateMenu(q, m, under) ==
  /\ parent[m] # Gone
  /\ under # m /\ (under \in Menu /\ under # parent[m] => parent[under] # Gone)
  /\ BeginEdit(q, "update", m, under)

DeleteMenu(q, m) == parent[m] # Gone /\ BeginEdit(q, "delete", m, Gone)

(* The save, or the removal, and the commit.  A menu that was deleted      *)
(* meanwhile is inserted again.                                            *)
CommitMenu(q) ==
  LET m == edit[q].menu
      under == edit[q].under
  IN /\ edit[q].at = "looked"
     /\ under \in Menu => parent[under] # Gone
     /\ parent' = [x \in Menu |->
          IF edit[q].does # "delete" THEN IF x = m THEN under ELSE parent[x]
          ELSE IF parent[x] # Gone /\ Below(x, m) THEN Gone ELSE parent[x]]
     /\ edit' = [edit EXCEPT ![q].at = "committed"]
     /\ view' = [v \in TreeViewers |-> [view[v] EXCEPT !.old = view[v].at = "read"]]
     /\ UNCHANGED <<kept, changesBegun, late>>

(* Mutant of Invalidates: a deletion does not invalidate.                  *)
InvalidatesSaves(does) == does # "delete"

Invalidates(does) == TRUE

(* invalidateMenuCache: KEYS, and DEL of what it found.                    *)
FindTree(q) ==
  /\ edit[q].at = "committed"
  /\ edit' = [edit EXCEPT ![q] = IF kept # NoTree /\ Invalidates(edit[q].does)
                                 THEN [@ EXCEPT !.at = "clearing"] ELSE NoEdit]
  /\ UNCHANGED <<parent, kept, view, changesBegun, late>>

ClearTree(q) ==
  /\ edit[q].at = "clearing"
  /\ kept' = NoTree /\ late' = FALSE
  /\ edit' = [edit EXCEPT ![q] = NoEdit]
  /\ UNCHANGED <<parent, view, changesBegun>>

(* An error before the commit, which is rolled back; an error of Redis     *)
(* after it is logged and forgotten.                                       *)
EditFails(q) ==
  /\ edit[q].at # "idle"
  /\ edit' = [edit EXCEPT ![q] = NoEdit]
  /\ late' = (late \/ (edit[q].at # "looked" /\ kept # NoTree))
  /\ UNCHANGED <<parent, kept, view, changesBegun>>

-----------------------------------------------------------------------------
(* getAllMenus                                                             *)

(* Redis keeps none, or cannot be asked.                                   *)
AskForTree(v) ==
  /\ view[v].at = "idle"
  /\ view' = [view EXCEPT ![v].at = "asked"]
  /\ UNCHANGED <<parent, kept, edit, changesBegun, late>>

ReadTree(v) ==
  /\ view[v].at = "asked"
  /\ view' = [view EXCEPT ![v] = [at |-> "read", tree |-> BuildMenuTree, old |-> FALSE]]
  /\ UNCHANGED <<parent, kept, edit, changesBegun, late>>

KeepTree(v) ==
  /\ view[v].at = "read"
  /\ kept' = view[v].tree /\ late' = view[v].old
  /\ view' = [view EXCEPT ![v] = NoView]
  /\ UNCHANGED <<parent, edit, changesBegun>>

ViewFails(v) ==
  /\ view[v].at # "idle"
  /\ view' = [view EXCEPT ![v] = NoView]
  /\ UNCHANGED <<parent, kept, edit, changesBegun, late>>

ExpireTree ==
  /\ kept # NoTree
  /\ kept' = NoTree /\ late' = FALSE
  /\ UNCHANGED <<parent, edit, view, changesBegun>>

-----------------------------------------------------------------------------
MenusNext ==
  \/ \E q \in Editors :
       \/ \E m \in Menu :
            \/ \E under \in Menu \cup {Top} : CreateMenu(q, m, under) \/ UpdateMenu(q, m, under)
            \/ DeleteMenu(q, m)
       \/ CommitMenu(q) \/ FindTree(q) \/ ClearTree(q) \/ EditFails(q)
  \/ \E v \in TreeViewers : AskForTree(v) \/ ReadTree(v) \/ KeepTree(v) \/ ViewFails(v)
  \/ ExpireTree

MenusSpec == MenusInit /\ [][MenusNext]_menuVars

-----------------------------------------------------------------------------
(* The tree that is kept is the one of the table, however changes and      *)
(* requests for it overlap: but while a change that is committed has not   *)
(* deleted it yet, when the deletion failed, or when it was read before a  *)
(* change and kept after it.                                               *)
CachedTree ==
  \/ kept \in {NoTree, BuildMenuTree} \/ late
  \/ \E q \in Editors : edit[q].at \in {"committed", "clearing"}
=============================================================================
