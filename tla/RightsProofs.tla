---------------------------- MODULE RightsProofs ----------------------------
(* What is proved of roles and their permissions, of the clones of a       *)
(* tenant and of the conversations of its users. Each part names its       *)
(* inductive invariant, shows that every action keeps it, and ends in the  *)
(* theorems.                                                               *)
EXTENDS Access, Tenants, Conversations, FiniteSetTheorems, SequenceTheorems, TLAPS

(***************************************************************************)
(* Access: what was revoked is not allowed, for any number of roles,       *)
(* resources, rows and requests.                                           *)
(***************************************************************************)

(* A row that an order has read was used, and rows and orders are of roles *)
(* that were created.                                                      *)
Created(role) == role = NoRole \/ roleIs[role] # "new"
CopiesInv == \A a \in Admins, p \in Perms :
  order[a].copies[p].is = "live" => perm[p].is # "unused"
RolesInv ==
  /\ \A p \in Perms : perm[p].is # "unused" => Created(perm[p].pair[1])
  /\ \A a \in Admins : Created(order[a].role)
  /\ \A pair \in revoked : Created(pair[1])

(* A role has one row for a resource, unless a second one was inserted,    *)
(* and none for what was revoked.                                          *)
OneRow == \A p, q \in Perms :
  perm[p].is = "live" /\ perm[q].is = "live" /\ perm[p].pair = perm[q].pair =>
    p = q \/ perm[p].pair \notin Pairs \ doubled
NoneRevoked == \A p \in Perms : perm[p].is = "live" => perm[p].pair \notin revoked \ doubled

OrdersOK == order \in [Admins -> Order]
AccessInv == AccessTypeOK /\ OrdersOK /\ CopiesInv /\ RolesInv /\ OneRow /\ NoneRevoked

LEMMA PermissionType ==
  /\ NoPermission \in Permission /\ NoPermission.is = "unused"
  /\ \A x \in Permission :
       /\ x.is \in {"unused", "live", "removed"} /\ x.level \in Levels
       /\ x.pair \in (Roles \cup {NoRole}) \X Resources
       /\ LET r == [x EXCEPT !.is = "removed"]
          IN r \in Permission /\ r.is = "removed" /\ r.pair = x.pair
       /\ \A y \in Resources, l \in Levels :
            LET r == [x EXCEPT !.pair = <<x.pair[1], y>>, !.level = l]
            IN r \in Permission /\ r.is = x.is
       /\ LET r == [x EXCEPT !.pair = <<NoRole, @[2]>>]
          IN r \in Permission /\ r.is = x.is /\ r.pair = <<NoRole, x.pair[2]>>
<1>1. NoPermission \in Permission /\ NoPermission.is = "unused"
  BY AccessAssumption DEF NoPermission, Permission
<1>2. QED
  BY <1>1 DEF Permission

(* The levels a request names for a resource.                              *)
LEMMA NamedFacts ==
  /\ <<>> \in Named /\ NoWish \in Wish
  /\ \A l \in Named : /\ \A i \in DOMAIN l : l[i] \in Levels
                      /\ l # <<>> => l[Len(l)] \in Levels
<1>1. <<>> \in Named
  <2>1. <<>> \in [1..0 -> Levels] /\ 0 \in 0..MaxNamed
    BY AccessAssumption
  <2>2. QED
    BY <2>1 DEF Named
<1>2. NoWish \in Wish
  BY <1>1 DEF NoWish, Wish
<1>3. ASSUME NEW l \in Named
      PROVE  /\ \A i \in DOMAIN l : l[i] \in Levels
             /\ l # <<>> => l[Len(l)] \in Levels
  <2>1. PICK n \in 0..MaxNamed : l \in [1..n -> Levels]
    BY DEF Named
  <2>2. n \in Nat
    BY <2>1, AccessAssumption
  <2>3. l \in Seq(Levels)
    BY <2>1, <2>2, SeqDef
  <2>4. l # <<>> => Len(l) \in 1..Len(l)
    BY <2>3, EmptySeq, LenProperties
  <2>5. QED
    BY <2>1, <2>3, <2>4, LenProperties
<1>4. QED
  BY <1>1, <1>2, <1>3

LEMMA OrderType ==
  /\ NoOrder \in Order /\ NoOrder.role = NoRole
  /\ NoOrder.copies = NothingRead
  /\ \A o \in Order : /\ o.role \in Roles \cup {NoRole} /\ o.wish \in Wish /\ o.copies \in Copies
                      /\ DOMAIN o = DOMAIN NoOrder
<1>1. NothingRead \in Copies /\ NoWish \in Wish
  BY PermissionType, NamedFacts DEF NothingRead, Copies
<1>2. QED
  BY <1>1 DEF NoOrder, Order

LEMMA Reading ==
  ASSUME AccessTypeOK, NEW P
  PROVE  /\ Copied(P) \in Copies /\ NothingRead \in Copies
         /\ \A p \in Perms : Copied(P)[p].is = "live" => perm[p].is = "live" /\ p \in P
         /\ \A p \in Perms : NothingRead[p].is # "live"
  BY PermissionType DEF AccessTypeOK, Copied, Copies, NothingRead

LEMMA NothingIsRead == NothingRead \in Copies /\ \A p \in Perms : NothingRead[p].is # "live"
  BY PermissionType DEF Copies, NothingRead

(* An order that begins, or goes on, without a change of the rows.         *)
LEMMA OrderKeeps ==
  ASSUME AccessInv, NEW a \in Admins, NEW o \in Order,
         order' = [order EXCEPT ![a] = o], orders' \in 0..MaxOrders,
         UNCHANGED <<perm, roleIs, revoked, doubled>>,
         \A p \in Perms : o.copies[p].is = "live" => perm[p].is # "unused",
         Created(o.role)
  PROVE  AccessInv'
<1>1. order \in [Admins -> Order]
  BY DEF AccessInv, OrdersOK
<1>2. OrdersOK'
  BY <1>1 DEF OrdersOK
<1>3. AccessTypeOK'
  BY <1>2, OrderType DEF AccessInv, AccessTypeOK, OrdersOK, Pairs
<1>4. CopiesInv' /\ OneRow' /\ NoneRevoked'
  BY <1>1 DEF AccessInv, CopiesInv, OneRow, NoneRevoked, Pairs
<1>5. RolesInv'
  BY <1>1 DEF AccessInv, RolesInv, Created
<1>6. QED
  BY <1>2, <1>3, <1>4, <1>5 DEF AccessInv

(* What is looked for first.                                               *)
LEMMA BeginOrderKeeps ==
  ASSUME AccessInv, NEW a \in Admins, NEW o \in Order, BeginOrder(a, o),
         \A p \in Perms : o.copies[p].is = "live" => perm[p].is # "unused",
         Created(o.role)
  PROVE  AccessInv'
<1>1. orders' \in 0..MaxOrders
  BY AccessAssumption DEF BeginOrder, AccessInv, AccessTypeOK
<1>2. QED
  BY <1>1, OrderKeeps DEF BeginOrder

LEMMA OrderLooks ==
  ASSUME AccessInv, NEW a \in Admins,
         \/ \E role \in Roles, wish \in Wish :
              Sync(a, role, wish) \/ \E update \in BOOLEAN : LoadRole(a, role, wish, update)
         \/ \E from, to \in Roles, wish \in Wish : CopyRole(a, from, to, wish)
         \/ \E merge \in BOOLEAN : ReadTarget(a, merge)
         \/ \E p \in Perms, x \in Resources, level \in Levels : LoadPermission(a, p, x, level)
         \/ \E p \in Perms : FindPermission(a, p)
  PROVE  AccessInv'
<1>1. \A role \in Roles : role # NoRole
  BY AccessAssumption
<1>2. /\ order[a] \in Order /\ Created(order[a].role) /\ Created(NoRole)
      /\ perm \in [Perms -> Permission]
  BY DEF AccessInv, OrdersOK, RolesInv, Created, AccessTypeOK
<1>3. ASSUME NEW role \in Roles, NEW wish \in Wish, Sync(a, role, wish)
      PROVE  AccessInv'
  <2>1. PICK P : BeginOrder(a, [NoOrder EXCEPT !.at = "sync", !.role = role, !.wish = wish,
                                               !.copies = Copied(P)])
    BY <1>3 DEF Sync
  <2>2. PICK o : o = [NoOrder EXCEPT !.at = "sync", !.role = role, !.wish = wish,
                                     !.copies = Copied(P)]
    OBVIOUS
  <2>3. o \in Order /\ o.role = role /\ o.copies = Copied(P)
    BY <2>2, OrderType, Reading DEF Order, AccessInv
  <2>4. Created(role)
    BY <1>3 DEF Sync, Created
  <2>5. \A p \in Perms : o.copies[p].is = "live" => perm[p].is # "unused"
    BY <2>3, Reading DEF AccessInv
  <2>6. QED
    BY <2>1, <2>2, <2>3, <2>4, <2>5, BeginOrderKeeps
<1>4. ASSUME NEW role \in Roles, NEW wish \in Wish, NEW update \in BOOLEAN,
             LoadRole(a, role, wish, update)
      PROVE  AccessInv'
  <2> DEFINE w == IF update THEN wish
                  ELSE [x \in Resources |-> IF RowsFor(<<role, x>>) # {} THEN <<>> ELSE wish[x]]
  <2>1. w \in Wish
    BY NamedFacts DEF Wish
  <2>2. BeginOrder(a, [NoOrder EXCEPT !.at = "update", !.role = role, !.whole = TRUE,
                         !.anew = update, !.wish = w, !.copies = Copied(RowsOfRole(role))])
    BY <1>4 DEF LoadRole
  <2> HIDE DEF w
  <2>3. PICK o : o = [NoOrder EXCEPT !.at = "update", !.role = role, !.whole = TRUE,
                         !.anew = update, !.wish = w, !.copies = Copied(RowsOfRole(role))]
    OBVIOUS
  <2>4. o \in Order /\ o.role = role /\ o.copies = Copied(RowsOfRole(role))
    BY <2>1, <2>3, OrderType, Reading DEF Order, AccessInv
  <2>5. Created(role)
    BY <1>4 DEF LoadRole, Created
  <2>6. QED
    BY <2>2, <2>3, <2>4, <2>5, Reading, BeginOrderKeeps DEF AccessInv
<1>5. ASSUME NEW from \in Roles, NEW to \in Roles, NEW wish \in Wish, CopyRole(a, from, to, wish)
      PROVE  AccessInv'
  <2>1. BeginOrder(a, [NoOrder EXCEPT !.at = "copy", !.role = to, !.wish = wish])
    BY <1>5 DEF CopyRole
  <2>2. PICK o : o = [NoOrder EXCEPT !.at = "copy", !.role = to, !.wish = wish]
    OBVIOUS
  <2>3. o \in Order /\ o.role = to /\ o.copies = NothingRead
    BY <2>2, OrderType DEF Order
  <2>4. Created(to)
    BY <1>5 DEF CopyRole, Created
  <2>5. QED
    BY <2>1, <2>2, <2>3, <2>4, Reading, BeginOrderKeeps DEF AccessInv
<1>6. ASSUME NEW merge \in BOOLEAN, ReadTarget(a, merge)
      PROVE  AccessInv'
  <2>1. PICK Q : order' = [order EXCEPT ![a].at = IF merge THEN "sync" ELSE "clear",
                                 ![a].copies = Copied(Q), ![a].anew = ~merge]
    BY <1>6 DEF ReadTarget
  <2>2. PICK o : o = [order[a] EXCEPT !.at = IF merge THEN "sync" ELSE "clear",
                                      !.copies = Copied(Q), !.anew = ~merge]
    OBVIOUS
  <2>3. o \in Order /\ o.role = order[a].role /\ o.copies = Copied(Q)
    BY <1>2, <2>2, Reading DEF Order, AccessInv
  <2>4. order' = [order EXCEPT ![a] = o] /\ orders' \in 0..MaxOrders
        /\ UNCHANGED <<perm, roleIs, revoked, doubled>>
    BY <1>6, <2>1, <2>2 DEF ReadTarget, AccessInv, OrdersOK, AccessTypeOK
  <2>5. \A p \in Perms : o.copies[p].is = "live" => perm[p].is # "unused"
    BY <2>3, Reading DEF AccessInv
  <2>6. QED
    BY <1>2, <2>3, <2>4, <2>5, OrderKeeps
<1>7. ASSUME NEW p \in Perms, NEW x \in Resources, NEW level \in Levels,
             LoadPermission(a, p, x, level)
      PROVE  AccessInv'
  <2>1. PICK c : c = [NothingRead EXCEPT ![p] =
                       [perm[p] EXCEPT !.pair = <<perm[p].pair[1], x>>, !.level = level]]
    OBVIOUS
  <2>2. PICK y : y = [perm[p] EXCEPT !.pair = <<perm[p].pair[1], x>>, !.level = level]
    OBVIOUS
  <2>3. y \in Permission
    BY <1>2, <2>2, PermissionType
  <2>4. NothingRead \in [Perms -> Permission] /\ \A q \in Perms : NothingRead[q].is # "live"
    BY PermissionType DEF NothingRead
  <2>5. c \in Copies /\ \A q \in Perms : c[q].is = "live" => q = p
    BY <2>1, <2>2, <2>3, <2>4 DEF Copies
  <2>6. PICK o : o = [NoOrder EXCEPT !.at = "update", !.copies = c]
    OBVIOUS
  <2>7. o \in Order /\ o.role = NoRole /\ o.copies = c
    BY <2>5, <2>6, OrderType DEF Order
  <2>8. BeginOrder(a, o) /\ perm[p].is # "unused"
    BY <1>7, <2>1, <2>6 DEF LoadPermission
  <2>9. QED
    BY <1>2, <2>5, <2>7, <2>8, BeginOrderKeeps
<1>8. ASSUME NEW p \in Perms, FindPermission(a, p)
      PROVE  AccessInv'
  <2>1. PICK o : o = [NoOrder EXCEPT !.at = "delete", !.copies = Copied({p})]
    OBVIOUS
  <2>2. o \in Order /\ o.role = NoRole /\ o.copies = Copied({p})
    BY <2>1, OrderType, Reading DEF Order, AccessInv
  <2>3. BeginOrder(a, o)
    BY <1>8, <2>1 DEF FindPermission
  <2>4. QED
    BY <1>2, <2>2, <2>3, Reading, BeginOrderKeeps DEF AccessInv
<1>9. QED
  BY <1>3, <1>4, <1>5, <1>6, <1>7, <1>8

(* Rows that are removed, with all there are for what is revoked.          *)
LEMMA RemovalKeeps ==
  ASSUME AccessInv, NEW P \in SUBSET Perms, \A p \in P : perm[p].is # "unused",
         perm' = [p \in Perms |-> IF p \in P THEN [perm[p] EXCEPT !.is = "removed"] ELSE perm[p]],
         \A pair \in revoked' \ revoked : pair \in Pairs /\ Created(pair[1]),
         \A p \in Perms \ P : perm[p].is = "live" => perm[p].pair \notin (revoked' \ revoked) \ doubled,
         \A role \in Roles : roleIs'[role] = "new" => roleIs[role] = "new",
         roleIs' \in [Roles -> {"new", "live", "removed"}],
         UNCHANGED <<orders, doubled>>, order' \in [Admins -> Order],
         \A a \in Admins :
           /\ order'[a].role \in {order[a].role, NoRole}
           /\ \A p \in Perms : order'[a].copies[p].is = "live" => order[a].copies[p].is = "live"
  PROVE  AccessInv'
<1>1. perm \in [Perms -> Permission]
  BY DEF AccessInv, AccessTypeOK
<1>2. /\ perm' \in [Perms -> Permission]
      /\ \A p \in Perms :
           /\ perm'[p].pair = perm[p].pair
           /\ perm'[p].is = "unused" <=> perm[p].is = "unused"
           /\ perm'[p].is = "live" => p \notin P /\ perm[p].is = "live"
  <2>1. \A p \in Perms : perm'[p] = IF p \in P THEN [perm[p] EXCEPT !.is = "removed"] ELSE perm[p]
    OBVIOUS
  <2>2. \A x \in Permission : /\ [x EXCEPT !.is = "removed"] \in Permission
                              /\ [x EXCEPT !.is = "removed"].is = "removed"
                              /\ [x EXCEPT !.is = "removed"].pair = x.pair
    BY PermissionType
  <2>3. \A p \in Perms :
          /\ perm'[p] \in Permission /\ perm'[p].pair = perm[p].pair
          /\ p \in P => perm'[p].is = "removed"
          /\ p \notin P => perm'[p] = perm[p]
    BY <1>1, <2>1, <2>2
  <2>4. perm' \in [Perms -> Permission]
    BY <2>3
  <2>5. QED
    BY <2>3, <2>4
<1>3. AccessTypeOK'
  <2>1. revoked' \in SUBSET Pairs
    BY DEF AccessInv, AccessTypeOK
  <2>2. \A a \in Admins : /\ DOMAIN order'[a] = DOMAIN NoOrder /\ order'[a].wish \in Wish
                          /\ order'[a].copies \in Copies
    BY OrderType
  <2>3. QED
    BY <1>2, <2>1, <2>2 DEF AccessInv, AccessTypeOK
<1>4. OrdersOK' /\ CopiesInv'
  BY <1>2 DEF AccessInv, OrdersOK, CopiesInv
<1>5. \A role \in Roles \cup {NoRole} : Created(role) => Created(role)'
  BY DEF Created
<1>6. RolesInv'
  <2>1. \A p \in Perms : perm[p].pair[1] \in Roles \cup {NoRole}
    BY <1>1, PermissionType
  <2>2. \A a \in Admins : order[a].role \in Roles \cup {NoRole}
    BY OrderType DEF AccessInv, OrdersOK
  <2>3. \A pair \in revoked' : pair[1] \in Roles \cup {NoRole} /\ Created(pair[1])
    BY DEF AccessInv, AccessTypeOK, RolesInv, Pairs
  <2>4. \A a \in Admins : Created(order'[a].role)
    BY DEF AccessInv, RolesInv, Created
  <2>5. \A a \in Admins : order'[a].role \in Roles \cup {NoRole}
    BY <2>2
  <2>6. \A p \in Perms : perm'[p].is # "unused" => Created(perm'[p].pair[1])
    BY <1>2 DEF AccessInv, RolesInv
  <2>7. QED
    BY <1>2, <1>5, <2>1, <2>3, <2>4, <2>5, <2>6 DEF RolesInv
<1>7. OneRow' /\ NoneRevoked'
  BY <1>2 DEF AccessInv, OneRow, NoneRevoked, Pairs
<1>8. QED
  BY <1>3, <1>4, <1>6, <1>7 DEF AccessInv

(* When the one row for a permission goes, no other is left.               *)
LEMMA LivePairsGone ==
  ASSUME AccessInv, NEW P \in SUBSET Perms
  PROVE  /\ LivePairs(P) \subseteq Pairs
         /\ \A pair \in LivePairs(P) : Created(pair[1])
         /\ \A p \in Perms \ P : perm[p].is = "live" => perm[p].pair \notin LivePairs(P) \ doubled
<1>1. \A pair \in LivePairs(P) : \E q \in P : perm[q].is = "live" /\ perm[q].pair = pair /\ pair \in Pairs
  BY DEF LivePairs
<1>2. QED
  BY <1>1 DEF AccessInv, RolesInv, OneRow

LEMMA ClearTargetKeeps ==
  ASSUME AccessInv, NEW a \in Admins, ClearTarget(a)
  PROVE  AccessInv'
<1> DEFINE P == {p \in Perms : order[a].copies[p].is = "live"}
<1>1. P \in SUBSET Perms /\ \A p \in P : perm[p].is # "unused"
  BY DEF AccessInv, CopiesInv
<1>2. /\ perm' = [p \in Perms |-> IF p \in P THEN [perm[p] EXCEPT !.is = "removed"] ELSE perm[p]]
      /\ order' = [order EXCEPT ![a].at = "sync", ![a].copies = NothingRead]
      /\ revoked' = revoked \cup LivePairs(P) /\ UNCHANGED <<roleIs, orders, doubled>>
  BY DEF ClearTarget
<1> HIDE DEF P
<1>3. PICK o : o = [order[a] EXCEPT !.at = "sync", !.copies = NothingRead]
  OBVIOUS
<1>4. order \in [Admins -> Order] /\ order' = [order EXCEPT ![a] = o]
  BY <1>2, <1>3 DEF AccessInv, OrdersOK
<1>5. o \in Order /\ o.role = order[a].role /\ \A p \in Perms : o.copies[p].is # "live"
  <2>1. order[a] \in Order
    BY <1>4
  <2>2. QED
    BY <1>3, <2>1, NothingIsRead DEF Order
<1>6. roleIs \in [Roles -> {"new", "live", "removed"}]
  BY DEF AccessInv, AccessTypeOK
<1>7. /\ \A pair \in revoked' \ revoked : pair \in Pairs /\ Created(pair[1])
      /\ \A p \in Perms \ P : perm[p].is = "live" =>
           perm[p].pair \notin (revoked' \ revoked) \ doubled
  BY <1>1, <1>2, LivePairsGone
<1>8. /\ order' \in [Admins -> Order]
      /\ \A b \in Admins :
           /\ order'[b].role \in {order[b].role, NoRole}
           /\ \A p \in Perms : order'[b].copies[p].is = "live" => order[b].copies[p].is = "live"
  BY <1>4, <1>5
<1>9. QED
  BY <1>1, <1>2, <1>6, <1>7, <1>8, RemovalKeeps

(* An order that is over.                                                  *)
LEMMA Ended ==
  ASSUME AccessInv, NEW a \in Admins, OrderDone(a)
  PROVE  /\ order' \in [Admins -> Order]
         /\ \A b \in Admins :
              /\ order'[b].role \in {order[b].role, NoRole}
              /\ \A p \in Perms : order'[b].copies[p].is = "live" => order[b].copies[p].is = "live"
<1>1. \A p \in Perms : NoOrder.copies[p].is # "live"
  BY OrderType, Reading DEF AccessInv
<1>2. QED
  BY <1>1, OrderType DEF OrderDone, AccessInv, OrdersOK

LEMMA DeletePermissionKeeps ==
  ASSUME AccessInv, NEW a \in Admins, DeletePermission(a)
  PROVE  AccessInv'
<1> DEFINE P == {p \in Perms : order[a].copies[p].is = "live"}
<1>1. P \in SUBSET Perms /\ \A p \in P : perm[p].is # "unused"
  BY DEF AccessInv, CopiesInv
<1>2. /\ perm' = [p \in Perms |-> IF p \in P THEN [perm[p] EXCEPT !.is = "removed"] ELSE perm[p]]
      /\ revoked' = revoked \cup LivePairs(P) /\ OrderDone(a)
      /\ UNCHANGED <<roleIs, orders, doubled>>
  BY DEF DeletePermission
<1> HIDE DEF P
<1>3. roleIs \in [Roles -> {"new", "live", "removed"}]
  BY DEF AccessInv, AccessTypeOK
<1>4. /\ \A pair \in revoked' \ revoked : pair \in Pairs /\ Created(pair[1])
      /\ \A p \in Perms \ P : perm[p].is = "live" =>
           perm[p].pair \notin (revoked' \ revoked) \ doubled
  BY <1>1, <1>2, LivePairsGone
<1>5. /\ order' \in [Admins -> Order]
      /\ \A b \in Admins :
           /\ order'[b].role \in {order[b].role, NoRole}
           /\ \A p \in Perms : order'[b].copies[p].is = "live" => order[b].copies[p].is = "live"
  BY <1>2, Ended
<1>6. QED
  BY <1>1, <1>2, <1>3, <1>4, <1>5, RemovalKeeps

LEMMA RemoveRoleKeeps ==
  ASSUME AccessInv, NEW role \in Roles, RemoveRole(role)
  PROVE  AccessInv'
<1> DEFINE P == RowsOfRole(role)
<1>1. P \in SUBSET Perms /\ \A p \in P : perm[p].is # "unused"
  BY DEF RowsOfRole
<1>2. /\ perm' = [p \in Perms |-> IF p \in P THEN [perm[p] EXCEPT !.is = "removed"] ELSE perm[p]]
      /\ revoked' = revoked \cup {<<role, x>> : x \in Resources}
      /\ roleIs' = [roleIs EXCEPT ![role] = "removed"] /\ roleIs[role] = "live"
      /\ UNCHANGED <<order, orders, doubled>>
  BY DEF RemoveRole
<1>3. roleIs \in [Roles -> {"new", "live", "removed"}] /\ order \in [Admins -> Order]
  BY DEF AccessInv, AccessTypeOK, OrdersOK
<1>4. /\ \A pair \in revoked' \ revoked : pair \in Pairs /\ Created(pair[1])
      /\ \A p \in Perms \ P : perm[p].is = "live" =>
           perm[p].pair \notin (revoked' \ revoked) \ doubled
  BY <1>2 DEF Pairs, Created, RowsOfRole
<1> HIDE DEF P
<1>5. QED
  BY <1>1, <1>2, <1>3, <1>4, RemovalKeeps

(* A row that is inserted for an item of what is asked for.                *)
LEMMA GrantFacts ==
  ASSUME NEW role \in Roles \cup {NoRole}, NEW wish \in Wish, NEW i \in Items(wish)
  PROVE  /\ Grant(role, wish, i) \in Permission /\ Grant(role, wish, i).is = "live"
         /\ Grant(role, wish, i).pair = <<role, i[1]>> /\ i[1] \in Resources
<1>1. i[1] \in Resources /\ i[2] \in DOMAIN wish[i[1]]
  BY DEF Items
<1>2. wish[i[1]][i[2]] \in Levels
  BY <1>1, NamedFacts DEF Wish
<1>3. QED
  BY <1>1, <1>2 DEF Grant, Permission

(* Rows that are inserted for a role.                                      *)
LEMMA CreateRoleKeeps ==
  ASSUME AccessInv, NEW role \in Roles, NEW wish \in Wish, CreateRole(role, wish)
  PROVE  AccessInv'
<1> DEFINE granted == Items(wish)
<1>1. PICK at \in Places(granted) :
        perm' = [p \in Perms |->
          IF \E i \in granted : at[i] = p
          THEN Grant(role, wish, CHOOSE i \in granted : at[i] = p)
          ELSE perm[p]]
  BY DEF CreateRole
<1>2. /\ roleIs[role] = "new" /\ roleIs' = [roleIs EXCEPT ![role] = "live"]
      /\ roleIs \in [Roles -> {"new", "live", "removed"}]
      /\ perm \in [Perms -> Permission] /\ role # NoRole
      /\ doubled' = doubled \cup {<<role, i[1]>> : i \in Beside(role, granted)}
      /\ UNCHANGED <<order, orders, revoked>>
  BY AccessAssumption DEF CreateRole, AccessInv, AccessTypeOK
<1>3. \A i \in granted :
        LET g == Grant(role, wish, i)
        IN g \in Permission /\ g.is = "live" /\ g.pair = <<role, i[1]>> /\ i[1] \in Resources
  BY GrantFacts
<1> HIDE DEF granted
<1>4. \A p \in Perms :
        \/ \E i \in granted : at[i] = p /\ perm'[p] = Grant(role, wish, i)
        \/ perm'[p] = perm[p]
  BY <1>1
<1>5. \A p \in Perms :
        /\ perm'[p] \in Permission
        /\ \/ \E i \in granted : /\ at[i] = p /\ perm'[p].is = "live"
                                 /\ perm'[p].pair = <<role, i[1]>>
           \/ perm'[p] = perm[p]
  BY <1>2, <1>3, <1>4
<1>6. perm' \in [Perms -> Permission]
  BY <1>1, <1>5
<1>7. AccessTypeOK' /\ OrdersOK'
  <2>1. doubled' \in SUBSET ((Roles \cup {NoRole}) \X Resources)
    <3>1. \A i \in granted : <<role, i[1]>> \in (Roles \cup {NoRole}) \X Resources
      BY <1>3
    <3>2. Beside(role, granted) \subseteq granted
      BY DEF Beside
    <3>3. doubled \in SUBSET ((Roles \cup {NoRole}) \X Resources)
      BY DEF AccessInv, AccessTypeOK
    <3>4. QED
      BY <1>2, <3>1, <3>2, <3>3
  <2>2. QED
    BY <1>2, <1>6, <2>1 DEF AccessInv, AccessTypeOK, OrdersOK
<1>8. CopiesInv'
  BY <1>2, <1>5 DEF AccessInv, CopiesInv
<1>9. \A r \in Roles \cup {NoRole} : Created(r) => Created(r)'
  BY <1>2 DEF Created
<1>10. RolesInv'
  <2>1. \A p \in Perms : perm[p].pair[1] \in Roles \cup {NoRole}
    BY <1>2, PermissionType
  <2>2. \A a \in Admins : order[a].role \in Roles \cup {NoRole}
    BY OrderType DEF AccessInv, OrdersOK
  <2>3. \A pair \in revoked : pair[1] \in Roles
    BY DEF AccessInv, AccessTypeOK, Pairs
  <2>4. \A a \in Admins : Created(order[a].role)'
    BY <1>2, <1>9, <2>2 DEF AccessInv, RolesInv
  <2>5. \A pair \in revoked : Created(pair[1])'
    BY <1>2, <1>9, <2>3 DEF AccessInv, RolesInv
  <2>6. \A p \in Perms : perm'[p].is # "unused" => Created(perm[p].pair[1])'
    <3>1. Created(role)'
      BY <1>2 DEF Created
    <3>2. QED
      BY <1>5, <1>9, <2>1, <3>1 DEF AccessInv, RolesInv, Created
  <2>7. QED
    BY <1>2, <2>4, <2>5, <2>6 DEF RolesInv
<1>11. \A p \in Perms : perm[p].is = "live" => perm[p].pair[1] # role
  BY <1>2 DEF AccessInv, RolesInv, Created
<1>12. OneRow'
  <2> SUFFICES ASSUME NEW p \in Perms, NEW q \in Perms, perm'[p].is = "live", perm'[q].is = "live",
                      perm'[p].pair = perm'[q].pair, perm'[p].pair \in Pairs \ doubled'
               PROVE  p = q
    BY DEF OneRow, Pairs
  <2>1. CASE perm'[p] = perm[p] /\ perm'[q] = perm[q]
    BY <1>2, <2>1 DEF AccessInv, OneRow
  <2>2. CASE perm'[p] # perm[p] \/ perm'[q] # perm[q]
    <3>1. perm'[p].pair[1] = role /\ perm'[q].pair[1] = role
      <4>1. \A r \in Perms : perm'[r] # perm[r] => perm'[r].pair[1] = role
        BY <1>5
      <4>2. QED
        BY <2>2, <4>1
    <3>2. PICK i \in granted : at[i] = p /\ perm'[p].pair = <<role, i[1]>>
      BY <1>5, <1>11, <3>1
    <3>3. PICK j \in granted : at[j] = q /\ perm'[q].pair = <<role, j[1]>>
      BY <1>5, <1>11, <3>1
    <3>4. <<role, i[1]>> = <<role, j[1]>>
      BY <3>2, <3>3
    <3>5. i \notin Beside(role, granted)
      BY <1>2, <3>2
    <3>6. i = j
      BY <3>4, <3>5 DEF Beside
    <3>7. QED
      BY <3>2, <3>3, <3>6
  <2>3. QED
    BY <2>1, <2>2
<1>13. NoneRevoked'
  BY <1>2, <1>5 DEF AccessInv, NoneRevoked, RolesInv, Created
<1>14. QED
  BY <1>7, <1>8, <1>10, <1>12, <1>13 DEF AccessInv

(* A row that a save writes back.                                          *)
LEMMA ResavedFacts ==
  ASSUME AccessInv, NEW a \in Admins, NEW p \in Perms, NEW back \in BOOLEAN,
         NEW r, r = Resaved(a, p, back)
  PROVE  /\ r \in Permission
         /\ perm[p].is # "unused" => r.is # "unused"
         /\ r.is # "unused" => Created(r.pair[1])
         /\ r.is = "live" => \/ Updates(a, p)
                             \/ r.pair[1] = NoRole
                             \/ perm[p].is = "live" /\ r.pair = perm[p].pair
<1> DEFINE copy == order[a].copies[p]
           wish == order[a].wish[copy.pair[2]]
           role == IF order[a].whole THEN order[a].role ELSE perm[p].pair[1]
           x == [is |-> IF perm[p].is = "live" \/ back THEN "live" ELSE "removed",
                 pair |-> <<role, copy.pair[2]>>,
                 level |-> IF wish # <<>> /\ ~order[a].anew THEN wish[Len(wish)] ELSE copy.level]
           y == [perm[p] EXCEPT !.pair = <<NoRole, @[2]>>]
<1>1. /\ perm[p] \in Permission /\ order[a] \in Order
      /\ perm[p].is # "unused" => Created(perm[p].pair[1])
      /\ Created(order[a].role) /\ Created(NoRole)
  BY DEF AccessInv, AccessTypeOK, OrdersOK, RolesInv, Created
<1>2. /\ copy \in Permission /\ copy.pair[2] \in Resources /\ copy.level \in Levels
      /\ wish # <<>> => wish[Len(wish)] \in Levels
      /\ role \in Roles \cup {NoRole} /\ (perm[p].is # "unused" => Created(role))
      /\ copy.is = "live" => perm[p].is # "unused"
  <2>1. copy \in Permission /\ order[a].wish \in Wish /\ order[a].role \in Roles \cup {NoRole}
    BY <1>1, OrderType DEF Copies
  <2>2. copy.pair[2] \in Resources /\ copy.level \in Levels /\ perm[p].pair[1] \in Roles \cup {NoRole}
    BY <1>1, <2>1, PermissionType
  <2>3. wish # <<>> => wish[Len(wish)] \in Levels
    BY <2>1, <2>2, NamedFacts DEF Wish
  <2>4. QED
    BY <1>1, <2>1, <2>2, <2>3 DEF AccessInv, CopiesInv
<1>3. Resaved(a, p, back) = IF Updates(a, p) THEN x
                            ELSE IF order[a].whole /\ perm[p].is = "live" /\ perm[p].pair[1] = order[a].role
                            THEN y ELSE perm[p]
  BY DEF Resaved
<1>4. Updates(a, p) => perm[p].is # "unused"
  BY <1>2 DEF Updates
<1>5. y \in Permission /\ y.is = perm[p].is /\ y.pair[1] = NoRole
  BY <1>1 DEF Permission
<1> HIDE DEF copy, wish, role, y
<1>6. x \in Permission /\ x.is \in {"live", "removed"} /\ x.pair[1] = role
  BY <1>2 DEF Permission
<1> HIDE DEF x
<1>7. CASE Updates(a, p)
  <2>1. r = x /\ r \in Permission /\ r.is # "unused" /\ perm[p].is # "unused"
    BY <1>3, <1>4, <1>6, <1>7
  <2>2. Created(r.pair[1])
    BY <1>2, <1>6, <2>1
  <2>3. QED
    BY <1>7, <2>1, <2>2
<1>8. CASE r = y
  BY <1>1, <1>5, <1>8 DEF Created
<1>9. CASE r = perm[p]
  BY <1>1, <1>9
<1>10. QED
  BY <1>3, <1>7, <1>8, <1>9

LEMMA SavePermissionsKeeps ==
  ASSUME AccessInv, NEW a \in Admins, SavePermissions(a)
  PROVE  AccessInv'
<1> DEFINE role == order[a].role
           wish == order[a].wish
           I == Inserts(a)
<1>1. PICK back \in BOOLEAN, at \in Places(I) :
        perm' = [p \in Perms |->
          IF \E i \in I : at[i] = p
          THEN Grant(role, wish, CHOOSE i \in I : at[i] = p)
          ELSE Resaved(a, p, back)]
  BY DEF SavePermissions
<1>2. /\ revoked' = {pair \in revoked :
           {p \in Perms : perm'[p].is = "live" /\ perm'[p].pair = pair} \subseteq RowsFor(pair)}
      /\ doubled' = doubled \cup
           {<<role, i[1]>> : i \in {j \in Beside(role, I) : order[a].anew \/ ~Found(a, j[1])}}
           \cup {perm'[p].pair :
                   p \in {q \in Perms : Updates(a, q) /\ (perm'[q].pair # perm[q].pair
                                                          \/ perm[q].is = "removed")}}
      /\ OrderDone(a) /\ UNCHANGED <<roleIs, orders>>
  BY DEF SavePermissions
<1>3. /\ role \in Roles \cup {NoRole} /\ Created(role) /\ wish \in Wish
      /\ perm \in [Perms -> Permission] /\ order[a] \in Order
  BY OrderType DEF AccessInv, AccessTypeOK, OrdersOK, RolesInv
<1>4. \A i \in I :
        LET g == Grant(role, wish, i)
        IN g \in Permission /\ g.is = "live" /\ g.pair = <<role, i[1]>> /\ i[1] \in Resources
  BY <1>3, GrantFacts DEF Inserts
<1>5. \A i \in I : order[a].anew \/ ~Found(a, i[1])
  <2> SUFFICES ASSUME NEW i \in I, Found(a, i[1]), ~order[a].anew
               PROVE  FALSE
    OBVIOUS
  <2>1. PICK p \in Perms : order[a].copies[p].is = "live" /\ order[a].copies[p].pair[2] = i[1]
    BY DEF Found
  <2>2. order[a].wish[i[1]] # <<>>
    BY DEF Inserts, Items
  <2>3. Updates(a, p)
    BY <2>1, <2>2 DEF Updates
  <2>4. QED
    BY <2>1, <2>3 DEF Inserts
<1> HIDE DEF I, role, wish
<1>6. \A p \in Perms :
        \/ \E i \in I : at[i] = p /\ perm'[p] = Grant(role, wish, i)
        \/ (\A i \in I : at[i] # p) /\ perm'[p] = Resaved(a, p, back)
  BY <1>1
<1>7. \A i \in I : perm[at[i]].is = "unused" /\ at[i] \in Perms
  BY <1>1, PermissionType DEF Places
<1>8. \A p \in Perms :
        /\ perm'[p] \in Permission
        /\ perm[p].is # "unused" => perm'[p].is # "unused"
        /\ perm'[p].is # "unused" => Created(perm'[p].pair[1])
  <2>1. \A p \in Perms : /\ Resaved(a, p, back) \in Permission
                         /\ perm[p].is # "unused" => Resaved(a, p, back).is # "unused"
                         /\ Resaved(a, p, back).is # "unused" => Created(Resaved(a, p, back).pair[1])
    BY ResavedFacts
  <2>2. ASSUME NEW p \in Perms
        PROVE  /\ perm'[p] \in Permission
               /\ perm[p].is # "unused" => perm'[p].is # "unused"
               /\ perm'[p].is # "unused" => Created(perm'[p].pair[1])
    <3>1. CASE perm'[p] = Resaved(a, p, back)
      BY <2>1, <3>1
    <3>2. CASE \E i \in I : perm'[p] = Grant(role, wish, i)
      <4>1. PICK i \in I : perm'[p] = Grant(role, wish, i)
        BY <3>2
      <4>2. perm'[p] \in Permission /\ perm'[p].is = "live" /\ perm'[p].pair = <<role, i[1]>>
        BY <1>4, <4>1
      <4>3. QED
        BY <1>3, <4>2
    <3>3. QED
      BY <1>6, <3>1, <3>2
  <2>3. QED
    BY <2>2
<1>9. ASSUME NEW p \in Perms, perm'[p].is = "live", perm'[p].pair \in Pairs \ doubled'
      PROVE  \/ \E i \in I : /\ at[i] = p /\ perm'[p].pair = <<role, i[1]>>
                             /\ RowsFor(<<role, i[1]>>) = {} /\ \A j \in I : j[1] = i[1] => j = i
             \/ perm[p].is = "live" /\ perm'[p].pair = perm[p].pair
  <2>1. CASE \E i \in I : at[i] = p /\ perm'[p] = Grant(role, wish, i)
    <3>1. PICK i \in I : at[i] = p /\ perm'[p] = Grant(role, wish, i)
      BY <2>1
    <3>2. perm'[p].pair = <<role, i[1]>>
      BY <1>4, <3>1
    <3>3. i \in Beside(role, I) => <<role, i[1]>> \in doubled'
      BY <1>2, <1>5
    <3>4. i \notin Beside(role, I)
      BY <1>9, <3>2, <3>3
    <3>5. QED
      BY <3>1, <3>2, <3>4 DEF Beside
  <2>2. CASE perm'[p] = Resaved(a, p, back) /\ Updates(a, p)
    <3>1. perm'[p].pair = perm[p].pair /\ perm[p].is # "removed"
      BY <1>2, <1>9, <2>2
    <3>2. perm[p].is # "unused"
      BY <2>2 DEF Updates, AccessInv, CopiesInv
    <3>3. perm[p].is \in {"unused", "live", "removed"}
      BY <1>3, PermissionType
    <3>4. QED
      BY <3>1, <3>2, <3>3
  <2>3. CASE perm'[p] = Resaved(a, p, back) /\ ~Updates(a, p)
    <3>1. PICK r : r = Resaved(a, p, back)
      OBVIOUS
    <3>2. r.is = "live" => \/ Updates(a, p)
                           \/ r.pair[1] = NoRole
                           \/ perm[p].is = "live" /\ r.pair = perm[p].pair
      BY <3>1, ResavedFacts
    <3>3. perm'[p] = r
      BY <2>3, <3>1
    <3>4. r.is = "live" /\ r.pair \in Pairs /\ ~Updates(a, p)
      BY <1>9, <2>3, <3>3
    <3>5. r.pair[1] # NoRole
      BY <3>4, AccessAssumption DEF Pairs
    <3>6. perm[p].is = "live" /\ r.pair = perm[p].pair
      BY <3>2, <3>4, <3>5
    <3>7. QED
      BY <3>3, <3>6
  <2>4. QED
    BY <1>6, <2>1, <2>2, <2>3
<1>10. perm' \in [Perms -> Permission]
  BY <1>1, <1>8
<1>11. /\ order' \in [Admins -> Order]
       /\ \A b \in Admins :
            /\ order'[b].role \in {order[b].role, NoRole}
            /\ \A p \in Perms : order'[b].copies[p].is = "live" => order[b].copies[p].is = "live"
  BY <1>2, Ended
<1>12. AccessTypeOK'
  <2>1. \A b \in Admins : /\ DOMAIN order'[b] = DOMAIN NoOrder /\ order'[b].wish \in Wish
                          /\ order'[b].copies \in Copies
    BY <1>11, OrderType
  <2>2. doubled' \in SUBSET ((Roles \cup {NoRole}) \X Resources)
    <3>1. \A p \in Perms : perm'[p].pair \in (Roles \cup {NoRole}) \X Resources
      BY <1>8, PermissionType
    <3>2. \A i \in I : <<role, i[1]>> \in (Roles \cup {NoRole}) \X Resources
      BY <1>3, <1>4
    <3>3. doubled \in SUBSET ((Roles \cup {NoRole}) \X Resources)
      BY DEF AccessInv, AccessTypeOK
    <3>4. ASSUME NEW d \in doubled' PROVE d \in (Roles \cup {NoRole}) \X Resources
      <4>1. \/ d \in doubled
            \/ \E i \in I : d = <<role, i[1]>>
            \/ \E q \in {q \in Perms : Updates(a, q) /\ (perm'[q].pair # perm[q].pair
                                                        \/ perm[q].is = "removed")} : d = perm'[q].pair
        BY <1>2 DEF Beside
      <4>2. QED
        BY <3>1, <3>2, <3>3, <4>1
    <3>5. QED
      BY <3>4
  <2>3. revoked' \in SUBSET Pairs
    BY <1>2 DEF AccessInv, AccessTypeOK
  <2>4. QED
    BY <1>2, <1>10, <2>1, <2>2, <2>3 DEF AccessInv, AccessTypeOK
<1>13. OrdersOK' /\ CopiesInv'
  BY <1>8, <1>11 DEF AccessInv, OrdersOK, CopiesInv
<1>14. RolesInv'
  <2>1. \A r : Created(r)' = Created(r)
    BY <1>2 DEF Created
  <2>2. \A b \in Admins : Created(order'[b].role)
    BY <1>11 DEF AccessInv, RolesInv, Created
  <2>3. QED
    BY <1>2, <1>8, <2>1, <2>2 DEF AccessInv, RolesInv
<1>15. OneRow'
  <2> SUFFICES ASSUME NEW p \in Perms, NEW q \in Perms, perm'[p].is = "live", perm'[q].is = "live",
                      perm'[p].pair = perm'[q].pair, perm'[p].pair \in Pairs \ doubled'
               PROVE  p = q
    BY DEF OneRow, Pairs
  <2>1. doubled \subseteq doubled'
    BY <1>2
  <2>2. CASE \E i \in I : /\ at[i] = p /\ perm'[p].pair = <<role, i[1]>>
                         /\ RowsFor(<<role, i[1]>>) = {} /\ \A j \in I : j[1] = i[1] => j = i
    <3>1. PICK i \in I : /\ at[i] = p /\ perm'[p].pair = <<role, i[1]>>
                        /\ RowsFor(<<role, i[1]>>) = {} /\ \A j \in I : j[1] = i[1] => j = i
      BY <2>2
    <3>2. ~(perm[q].is = "live" /\ perm'[q].pair = perm[q].pair)
      BY <3>1 DEF RowsFor
    <3>3. PICK j \in I : at[j] = q /\ perm'[q].pair = <<role, j[1]>>
      BY <1>9, <3>2
    <3>4. <<role, i[1]>> = <<role, j[1]>>
      BY <3>1, <3>3
    <3>5. QED
      BY <3>1, <3>3, <3>4
  <2>3. CASE perm[p].is = "live" /\ perm'[p].pair = perm[p].pair
    <3>1. CASE \E j \in I : perm'[q].pair = <<role, j[1]>> /\ RowsFor(<<role, j[1]>>) = {}
      BY <2>3, <3>1 DEF RowsFor
    <3>2. CASE perm[q].is = "live" /\ perm'[q].pair = perm[q].pair
      BY <2>1, <2>3, <3>2 DEF AccessInv, OneRow
    <3>3. QED
      BY <1>9, <3>1, <3>2
  <2>4. QED
    BY <1>9, <2>2, <2>3
<1>16. NoneRevoked'
  <2> SUFFICES ASSUME NEW p \in Perms, perm'[p].is = "live", perm'[p].pair \in revoked' \ doubled'
               PROVE  FALSE
    BY DEF NoneRevoked
  <2>1. p \in RowsFor(perm'[p].pair) /\ perm'[p].pair \in revoked /\ perm'[p].pair \notin doubled
    BY <1>2
  <2>2. QED
    BY <2>1 DEF AccessInv, NoneRevoked, RowsFor
<1>17. QED
  BY <1>12, <1>13, <1>14, <1>15, <1>16 DEF AccessInv

LEMMA AccessStarts == AccessInit => AccessInv
<1> SUFFICES ASSUME AccessInit PROVE AccessInv
  OBVIOUS
<1>1. /\ perm = NothingRead /\ order = [a \in Admins |-> NoOrder] /\ revoked = {} /\ doubled = {}
      /\ roleIs \in [Roles -> {"new", "live"}] /\ orders = 0
  BY DEF AccessInit
<1>2. \A p \in Perms : perm[p] \in Permission /\ perm[p].is = "unused"
  BY <1>1, PermissionType DEF NothingRead
<1>3. OrdersOK
  BY <1>1, OrderType DEF OrdersOK
<1>4. orders \in 0..MaxOrders
  BY <1>1, AccessAssumption
<1>5. perm \in [Perms -> Permission]
  BY <1>1, <1>2 DEF NothingRead
<1>6. AccessTypeOK
  BY <1>1, <1>4, <1>5, OrderType DEF AccessTypeOK
<1>7. CopiesInv
  BY <1>1, OrderType, NothingIsRead DEF CopiesInv
<1>8. RolesInv
  BY <1>1, <1>2, OrderType DEF RolesInv, Created
<1>9. OneRow /\ NoneRevoked
  BY <1>2 DEF OneRow, NoneRevoked
<1>10. QED
  BY <1>3, <1>6, <1>7, <1>8, <1>9 DEF AccessInv

LEMMA AccessGoesOn == AccessInv /\ [AccessNext]_accessVars => AccessInv'
<1> SUFFICES ASSUME AccessInv, [AccessNext]_accessVars PROVE AccessInv'
  OBVIOUS
<1>1. ASSUME NEW a \in Admins, OrderFails(a) PROVE AccessInv'
  <2>1. order' = [order EXCEPT ![a] = NoOrder] /\ UNCHANGED <<perm, roleIs, orders, revoked, doubled>>
    BY <1>1 DEF OrderFails, OrderDone
  <2>2. orders' \in 0..MaxOrders /\ Created(NoOrder.role)
    BY <2>1, OrderType DEF AccessInv, AccessTypeOK, Created
  <2>3. \A p \in Perms : NoOrder.copies[p].is # "live"
    BY OrderType, NothingIsRead
  <2>4. QED
    BY <2>1, <2>2, <2>3, OrderType, OrderKeeps
<1>2. CASE UNCHANGED accessVars
  <2>1. UNCHANGED <<perm, roleIs, order, orders, revoked, doubled>>
    BY <1>2 DEF accessVars
  <2>2. AccessTypeOK' /\ OrdersOK' /\ CopiesInv' /\ OneRow' /\ NoneRevoked'
    BY <2>1 DEF AccessInv, AccessTypeOK, OrdersOK, CopiesInv, OneRow, NoneRevoked
  <2>3. RolesInv'
    BY <2>1 DEF AccessInv, RolesInv, Created
  <2>4. QED
    BY <2>2, <2>3 DEF AccessInv
<1>3. ASSUME NEW a \in Admins, ClearTarget(a) \/ SavePermissions(a) \/ DeletePermission(a)
      PROVE  AccessInv'
  BY <1>3, ClearTargetKeeps, SavePermissionsKeeps, DeletePermissionKeeps
<1>4. ASSUME NEW role \in Roles, RemoveRole(role) \/ \E wish \in Wish : CreateRole(role, wish)
      PROVE  AccessInv'
  BY <1>4, RemoveRoleKeeps, CreateRoleKeeps
<1>5. QED
  BY <1>1, <1>2, <1>3, <1>4, OrderLooks DEF AccessNext

LEMMA AccessHolds == AccessSpec => []AccessInv
  BY AccessStarts, AccessGoesOn, PTL DEF AccessSpec

(* RevokedIsDenied for any number of roles, resources, rows and requests,  *)
(* and any levels: checkAccess finds no row for what was taken away.       *)
THEOREM NothingRevokedIsAllowed == AccessSpec => []RevokedIsDenied
<1>1. AccessInv => RevokedIsDenied
  BY DEF AccessInv, AccessTypeOK, Pairs, NoneRevoked, RevokedIsDenied, CheckAccess, RowsFor
<1>2. QED
  BY <1>1, AccessHolds, PTL

(* The types of the roles and permissions.                                 *)
THEOREM AccessIsTyped == AccessSpec => []AccessTypeOK
<1>1. AccessInv => AccessTypeOK
  BY DEF AccessInv
<1>2. QED
  BY <1>1, AccessHolds, PTL

(***************************************************************************)
(* Tenants: menus are cloned once, for any tree of menus, any sources and  *)
(* any number of clones at one time.                                       *)
(***************************************************************************)

(* The names of roles a clone has inserted are there for nobody else.      *)
CloneOK(c, x) ==
  /\ x.missing \cap targetRoles = {}
  /\ \A d \in Clones \ {c} : x.missing \cap clone[d].missing = {}
ClonesInv == \A c \in Clones : CloneOK(c, clone[c])

(* Whoever clones menus beside another one inserted other roles.           *)
ApartInv == \A c, d \in Clones :
  c # d /\ PastRoles(clone[c]) /\ PastRoles(clone[d]) => {clone[c].nth, clone[d].nth} \in apart

(* A menu that is not committed was inserted by a clone under way.         *)
InsertedBy(x, d) == x.by = {d} /\ PastRoles(clone[d]) /\ x.nth = clone[d].nth
MenusInserted == \A r \in Rows :
  /\ row[r].is = "uncommitted" => \E d \in Clones : InsertedBy(row[r], d)
  /\ row[r].is # "uncommitted" => row[r].by = {}

(* Two menus of a name and a place, committed or not.                      *)
PlaceInv == \A r, s \in Rows :
  r # s /\ row[r].is # "free" /\ row[s].is # "free"
    /\ row[r].name = row[s].name /\ row[r].under = row[s].under =>
      {row[r].nth, row[s].nth} \in apart

TenantsInv == TenantsTypeOK /\ ClonesInv /\ ApartInv /\ MenusInserted /\ PlaceInv

LEMMA CloneType ==
  /\ NoClone \in CloneState /\ NoClone.at = "idle" /\ NoClone.missing = {} /\ ~PastRoles(NoClone)
  /\ \A x \in CloneState :
       /\ x.at \in {"idle", "roles", "menus", "account", "save"}
       /\ x.names \in SUBSET RoleNames /\ x.looked \in SUBSET RoleNames
       /\ x.missing \in SUBSET RoleNames
       /\ x.tree \in SourceTree /\ x.todo \in SUBSET Sources
       /\ x.map \in [Sources -> Rows \cup {Nowhere}] /\ x.number \in 0..MaxClones
       /\ x.nth \in 0..MaxClones
<1>1. /\ [s \in Sources |-> Nowhere] \in SourceTree
      /\ [s \in Sources |-> Nowhere] \in [Sources -> Rows \cup {Nowhere}]
      /\ 0 \in 0..MaxClones
  BY TenantsAssumption DEF SourceTree
<1>2. NoClone \in CloneState /\ NoClone.at = "idle" /\ NoClone.missing = {}
  BY <1>1 DEF NoClone, CloneState
<1>3. QED
  BY <1>2 DEF CloneState, PastRoles

LEMMA RowType ==
  /\ FreeRow \in MenuRow /\ FreeRow.is = "free" /\ FreeRow.by = {}
  /\ \A x \in MenuRow : /\ x.is \in {"free", "uncommitted", "live"} /\ x.by \in SUBSET Clones
                        /\ x.nth \in 0..MaxClones
<1>1. MenuNames # {} /\ 0 \in 0..MaxClones
  BY TenantsAssumption DEF MenuNames
<1>2. QED
  BY <1>1 DEF FreeRow, MenuRow

(* A clone goes on, and inserts no menu.                                   *)
LEMMA CloneKeeps ==
  ASSUME TenantsInv, NEW c \in Clones, NEW x \in CloneState, CloneOK(c, x), CloneStep(c, x),
         (\E r \in Rows : c \in row[r].by) => PastRoles(x) /\ x.nth = clone[c].nth,
         PastRoles(x) =>
           \A d \in Clones \ {c} : PastRoles(clone[d]) => {x.nth, clone[d].nth} \in apart',
         apart \subseteq apart', apart' \in SUBSET SUBSET (0..MaxClones),
         cloned' \in 0..MaxClones, UNCHANGED <<above, row, targetRoles, accounts, moves>>
  PROVE  TenantsInv'
<1>1. clone \in [Clones -> CloneState] /\ clone' = [clone EXCEPT ![c] = x]
  BY DEF TenantsInv, TenantsTypeOK, CloneStep
<1>2. TenantsTypeOK'
  BY <1>1 DEF TenantsInv, TenantsTypeOK
<1>3. \A d \in Clones : clone'[d] = IF d = c THEN x ELSE clone[d]
  BY <1>1
<1>4. \A d, e \in Clones : d # e =>
        /\ clone'[d].missing \cap targetRoles = {}
        /\ clone'[d].missing \cap clone'[e].missing = {}
  BY <1>3 DEF TenantsInv, ClonesInv, CloneOK
<1>5. \A d \in Clones : clone'[d].missing \cap targetRoles = {}
  BY <1>3 DEF TenantsInv, ClonesInv, CloneOK
<1>6. ClonesInv'
  BY <1>4, <1>5 DEF ClonesInv, CloneOK
<1>7. ApartInv'
  <2> SUFFICES ASSUME NEW d \in Clones, NEW e \in Clones, d # e,
                      PastRoles(clone'[d]), PastRoles(clone'[e])
               PROVE  {clone'[d].nth, clone'[e].nth} \in apart'
    BY DEF ApartInv, PastRoles
  <2>1. CASE d # c /\ e # c
    BY <1>3, <2>1 DEF TenantsInv, ApartInv
  <2>2. CASE d = c
    BY <1>3, <2>2
  <2>3. CASE e = c
    <3>1. {clone'[e].nth, clone'[d].nth} \in apart'
      BY <1>3, <2>3
    <3>2. {clone'[e].nth, clone'[d].nth} = {clone'[d].nth, clone'[e].nth}
      OBVIOUS
    <3>3. QED
      BY <3>1, <3>2
  <2>4. QED
    BY <2>1, <2>2, <2>3
<1>8. ASSUME NEW r \in Rows, row[r].is = "uncommitted"
      PROVE  \E d \in Clones : InsertedBy(row[r], d)'
  <2>1. PICK d \in Clones : InsertedBy(row[r], d)
    BY <1>8 DEF TenantsInv, MenusInserted
  <2>2. InsertedBy(row[r], d)'
    BY <1>3, <2>1 DEF InsertedBy, PastRoles
  <2>3. QED
    BY <2>2
<1>9. MenusInserted'
  BY <1>8 DEF TenantsInv, MenusInserted
<1>10. PlaceInv'
  BY DEF TenantsInv, PlaceInv
<1>11. QED
  BY <1>2, <1>6, <1>7, <1>9, <1>10 DEF TenantsInv

LEMMA NothingInserted ==
  ASSUME TenantsInv, NEW c \in Clones, NEW r \in Rows, c \in row[r].by
  PROVE  row[r].is = "uncommitted" /\ InsertedBy(row[r], c)
  BY DEF TenantsInv, MenusInserted, InsertedBy

LEMMA CloneTenantConfigKeeps ==
  ASSUME TenantsInv, NEW c \in Clones, NEW origins \in SUBSET Origins,
         NEW names \in SUBSET RoleNames, CloneTenantConfig(c, origins, names)
  PROVE  TenantsInv'
<1>1. ~\E r \in Rows : c \in row[r].by
  BY NothingInserted DEF CloneTenantConfig, InsertedBy, PastRoles
<1>2. /\ cloned + 1 \in 0..MaxClones /\ cloned' \in 0..MaxClones
      /\ apart \in SUBSET SUBSET (0..MaxClones)
      /\ UNCHANGED <<above, row, targetRoles, accounts, moves, apart>>
  BY TenantsAssumption DEF CloneTenantConfig, TenantsInv, TenantsTypeOK
<1>3. PICK x : x = [NoClone EXCEPT !.at = "roles", !.origins = origins, !.names = names,
                      !.nth = cloned + 1]
  OBVIOUS
<1>4. x \in CloneState /\ x.at = "roles" /\ x.missing = {}
  BY <1>2, <1>3, CloneType DEF NoClone, CloneState
<1>5. CloneOK(c, x) /\ ~PastRoles(x)
  BY <1>4 DEF CloneOK, PastRoles
<1>6. CloneStep(c, x)
  BY <1>3 DEF CloneTenantConfig
<1>7. QED
  BY <1>1, <1>2, <1>4, <1>5, <1>6, CloneKeeps

LEMMA FindRoleKeeps ==
  ASSUME TenantsInv, NEW c \in Clones, NEW name \in RoleNames, FindRole(c, name)
  PROVE  TenantsInv'
<1>1. /\ clone[c] \in CloneState /\ CloneOK(c, clone[c]) /\ clone[c].at = "roles"
      /\ cloned' \in 0..MaxClones /\ apart \in SUBSET SUBSET (0..MaxClones)
      /\ UNCHANGED <<above, row, targetRoles, accounts, moves, apart>>
  BY DEF TenantsInv, TenantsTypeOK, ClonesInv, FindRole
<1>2. ~\E r \in Rows : c \in row[r].by
  BY <1>1, NothingInserted DEF InsertedBy, PastRoles
<1>3. PICK l : l = IF name \in targetRoles THEN {} ELSE {name}
  OBVIOUS
<1>4. PICK x : x = [clone[c] EXCEPT !.names = @ \ {name}, !.looked = l]
  OBVIOUS
<1>5. /\ x \in CloneState /\ x.at = "roles" /\ x.missing = clone[c].missing
  BY <1>1, <1>3, <1>4 DEF CloneState
<1>6. CloneOK(c, x) /\ ~PastRoles(x)
  BY <1>1, <1>5 DEF CloneOK, PastRoles
<1>7. CloneStep(c, x)
  BY <1>3, <1>4 DEF FindRole
<1>8. QED
  BY <1>1, <1>2, <1>5, <1>6, <1>7, CloneKeeps

LEMMA InsertRoleKeeps ==
  ASSUME TenantsInv, NEW c \in Clones, InsertRole(c)
  PROVE  TenantsInv'
<1>1. /\ clone[c] \in CloneState /\ CloneOK(c, clone[c]) /\ clone[c].at = "roles"
      /\ ~Locked(c, clone[c].looked) /\ clone[c].looked \cap targetRoles = {}
      /\ cloned' \in 0..MaxClones /\ apart \in SUBSET SUBSET (0..MaxClones)
      /\ UNCHANGED <<above, row, targetRoles, accounts, moves, apart>>
  BY DEF TenantsInv, TenantsTypeOK, ClonesInv, InsertRole
<1>2. ~\E r \in Rows : c \in row[r].by
  BY <1>1, NothingInserted DEF InsertedBy, PastRoles
<1>3. PICK x : x = [clone[c] EXCEPT !.looked = {}, !.missing = @ \cup clone[c].looked]
  OBVIOUS
<1>4. /\ x \in CloneState /\ x.at = "roles"
      /\ x.missing = clone[c].missing \cup clone[c].looked
  BY <1>1, <1>3 DEF CloneState
<1>5. CloneOK(c, x) /\ ~PastRoles(x)
  BY <1>1, <1>4 DEF CloneOK, Locked, PastRoles
<1>6. CloneStep(c, x)
  BY <1>3 DEF InsertRole
<1>7. QED
  BY <1>1, <1>2, <1>4, <1>5, <1>6, CloneKeeps

LEMMA FindMenusKeeps ==
  ASSUME TenantsInv, NEW c \in Clones, FindMenus(c)
  PROVE  TenantsInv'
<1>1. /\ clone[c] \in CloneState /\ CloneOK(c, clone[c]) /\ cloned' \in 0..MaxClones
      /\ clone[c].at = "roles" /\ above \in SourceTree
      /\ apart \in SUBSET SUBSET (0..MaxClones)
      /\ apart' = apart \cup {{clone[c].nth, clone[d].nth} : d \in ApartFrom(c)}
      /\ \A d \in Clones : clone[d] \in CloneState
      /\ UNCHANGED <<above, row, targetRoles, accounts, moves>>
  BY DEF TenantsInv, TenantsTypeOK, ClonesInv, FindMenus
<1>2. ~\E r \in Rows : c \in row[r].by
  BY <1>1, NothingInserted DEF InsertedBy, PastRoles
<1>3. PICK todo : todo = {s \in Sources : OriginOf[s] \in clone[c].origins}
  OBVIOUS
<1>4. PICK at \in {"menus", "account"} : at = IF todo = {} THEN "account" ELSE "menus"
  OBVIOUS
<1>5. PICK x : x = [clone[c] EXCEPT !.at = at, !.tree = above, !.todo = todo]
  OBVIOUS
<1>6. /\ x \in CloneState /\ x.missing = clone[c].missing /\ x.nth = clone[c].nth
  BY <1>1, <1>3, <1>4, <1>5 DEF CloneState
<1>7. CloneOK(c, x)
  BY <1>1, <1>6 DEF CloneOK
<1>8. CloneStep(c, x)
  BY <1>3, <1>4, <1>5 DEF FindMenus
<1>9. \A d \in Clones \ {c} : PastRoles(clone[d]) => {x.nth, clone[d].nth} \in apart'
  <2>1. \A d \in Clones \ {c} : clone[d].missing \cap clone[c].missing = {}
    BY <1>1 DEF CloneOK
  <2>2. QED
    BY <1>1, <1>6, <2>1 DEF ApartFrom
<1>10. apart \subseteq apart' /\ apart' \in SUBSET SUBSET (0..MaxClones)
  <2>1. \A d \in Clones : clone[d].nth \in 0..MaxClones
    BY <1>1, CloneType
  <2>2. \A d \in ApartFrom(c) : {clone[c].nth, clone[d].nth} \in SUBSET (0..MaxClones)
    BY <2>1 DEF ApartFrom
  <2>3. \A z \in apart' : z \in apart \/ \E d \in ApartFrom(c) : z = {clone[c].nth, clone[d].nth}
    BY <1>1
  <2>4. apart \subseteq apart'
    BY <1>1
  <2>5. \A z \in apart' : z \in SUBSET (0..MaxClones)
    BY <1>1, <2>2, <2>3
  <2>6. QED
    BY <2>4, <2>5
<1>11. QED
  BY <1>1, <1>2, <1>6, <1>7, <1>8, <1>9, <1>10, CloneKeeps

LEMMA NameAccountKeeps ==
  ASSUME TenantsInv, NEW c \in Clones, NameAccount(c)
  PROVE  TenantsInv'
<1> DEFINE role == {SuperAdmin} \ (targetRoles \cup clone[c].missing)
<1>1. /\ clone[c] \in CloneState /\ CloneOK(c, clone[c]) /\ cloned' \in 0..MaxClones
      /\ clone[c].at = "account" /\ ~Locked(c, role)
      /\ apart \in SUBSET SUBSET (0..MaxClones)
      /\ UNCHANGED <<above, row, targetRoles, accounts, moves, apart>>
  BY DEF TenantsInv, TenantsTypeOK, ClonesInv, NameAccount
<1>2. PICK n \in 0..MaxClones :
        CloneStep(c, [clone[c] EXCEPT !.at = "save", !.number = n, !.missing = @ \cup role])
  BY DEF NameAccount
<1>3. PICK x : x = [clone[c] EXCEPT !.at = "save", !.number = n, !.missing = @ \cup role]
  OBVIOUS
<1>4. /\ x \in CloneState /\ x.at = "save" /\ x.nth = clone[c].nth
      /\ x.missing = clone[c].missing \cup role
  BY <1>1, <1>3, TenantsAssumption DEF CloneState
<1>5. CloneOK(c, x)
  <2>1. role \cap targetRoles = {}
    OBVIOUS
  <2>2. \A d \in Clones \ {c} : role \cap clone[d].missing = {}
    BY <1>1 DEF Locked
  <2> HIDE DEF role
  <2>3. QED
    BY <1>1, <1>4, <2>1, <2>2 DEF CloneOK
<1>6. PastRoles(x) /\ PastRoles(clone[c])
  BY <1>1, <1>4 DEF PastRoles
<1>7. \A d \in Clones \ {c} : PastRoles(clone[d]) => {x.nth, clone[d].nth} \in apart
  BY <1>4, <1>6 DEF TenantsInv, ApartInv
<1> HIDE DEF role
<1>8. QED
  BY <1>1, <1>2, <1>3, <1>4, <1>5, <1>6, <1>7, CloneKeeps

LEMMA CloneMenuKeeps ==
  ASSUME TenantsInv, NEW c \in Clones, NEW s \in Sources, CloneMenu(c, s)
  PROVE  TenantsInv'
<1> DEFINE does == clone[c]
           under == IF does.tree[s] = Nowhere THEN Nowhere ELSE does.map[does.tree[s]]
           found == {r \in RowsSeenBy(c) :
             row[r].name = NameOf[s]
               /\ (row[r].under = under \/ (~(does.tree[s] = Nowhere) /\ under = Nowhere))}
           at == IF does.todo = {s} THEN "account" ELSE "menus"
<1>1. /\ does \in CloneState /\ CloneOK(c, does) /\ does.at = "menus"
      /\ row \in [Rows -> MenuRow] /\ cloned' \in 0..MaxClones
      /\ apart \in SUBSET SUBSET (0..MaxClones)
      /\ UNCHANGED <<above, targetRoles, accounts, cloned, moves, apart>>
  BY DEF TenantsInv, TenantsTypeOK, ClonesInv, CloneMenu
<1>2. PICK r \in Rows :
        /\ CloneStep(c, [does EXCEPT !.todo = @ \ {s}, !.map[s] = r, !.at = at])
        /\ \/ row' = row
           \/ /\ found = {} /\ row[r].is = "free"
              /\ row' = [row EXCEPT ![r] =
                   [is |-> "uncommitted", name |-> NameOf[s], under |-> under, by |-> {c},
                    nth |-> does.nth]]
  BY DEF CloneMenu, RowsSeenBy
<1>3. PICK x : x = [does EXCEPT !.todo = @ \ {s}, !.map[s] = r, !.at = at]
  OBVIOUS
<1>4. /\ x \in CloneState /\ x.at \in {"account", "menus"} /\ x.nth = does.nth
      /\ x.missing = does.missing
  BY <1>1, <1>3 DEF CloneState
<1>5. CloneOK(c, x) /\ PastRoles(x) /\ PastRoles(does)
  BY <1>1, <1>4 DEF CloneOK, PastRoles
<1>6. \A d \in Clones \ {c} : PastRoles(clone[d]) => {does.nth, clone[d].nth} \in apart
  BY <1>5 DEF TenantsInv, ApartInv
<1>7. CASE row' = row
  <2>1. CloneStep(c, x)
    BY <1>2, <1>3
  <2>2. /\ x \in CloneState /\ CloneOK(c, x) /\ PastRoles(x) /\ x.nth = clone[c].nth
        /\ \A d \in Clones \ {c} : PastRoles(clone[d]) => {x.nth, clone[d].nth} \in apart
    BY <1>4, <1>5, <1>6
  <2>3. /\ cloned' \in 0..MaxClones /\ apart \in SUBSET SUBSET (0..MaxClones)
        /\ UNCHANGED <<above, row, targetRoles, accounts, moves, apart>>
    BY <1>1, <1>7
  <2> HIDE DEF does, under, found, at
  <2>4. QED
    BY <2>1, <2>2, <2>3, CloneKeeps
<1>8. CASE /\ found = {} /\ row[r].is = "free"
           /\ row' = [row EXCEPT ![r] =
                [is |-> "uncommitted", name |-> NameOf[s], under |-> under, by |-> {c},
                 nth |-> does.nth]]
  <2>1. under \in Rows \cup {Nowhere} /\ NameOf[s] \in MenuNames /\ does.nth \in 0..MaxClones
    <3>1. does.tree[s] \in Sources \cup {Nowhere}
      BY <1>1, CloneType DEF SourceTree
    <3>2. does.map \in [Sources -> Rows \cup {Nowhere}] /\ does.nth \in 0..MaxClones
      BY <1>1, CloneType
    <3>3. QED
      BY <3>1, <3>2 DEF MenuNames
  <2>2. \A q \in Rows :
          /\ row[q].is # "free" /\ row[q].name = NameOf[s] /\ row[q].under = under =>
               row[q].is = "uncommitted" /\ c \notin row[q].by
    BY <1>1, <1>8, RowType DEF RowsSeenBy
  <2> HIDE DEF under, found, at
  <2>3. PICK y : y = [is |-> "uncommitted", name |-> NameOf[s], under |-> under, by |-> {c},
                      nth |-> does.nth]
    OBVIOUS
  <2>4. /\ y \in MenuRow /\ y.is = "uncommitted" /\ y.name = NameOf[s] /\ y.under = under
        /\ y.by = {c} /\ y.nth = does.nth
    BY <2>1, <2>3 DEF MenuRow
  <2>5. \A q \in Rows : row'[q] = IF q = r THEN y ELSE row[q]
    BY <1>1, <1>8, <2>3
  <2>6. /\ clone \in [Clones -> CloneState] /\ clone' = [clone EXCEPT ![c] = x]
        /\ \A d \in Clones : clone'[d] = IF d = c THEN x ELSE clone[d]
    BY <1>2, <1>3 DEF TenantsInv, TenantsTypeOK, CloneStep
  <2>7. TenantsTypeOK'
    <3>1. row' \in [Rows -> MenuRow]
      BY <1>1, <1>8, <2>3, <2>4
    <3>2. clone' \in [Clones -> CloneState]
      BY <1>4, <2>6
    <3>3. QED
      BY <1>1, <3>1, <3>2 DEF TenantsInv, TenantsTypeOK
  <2>8. \A d \in Clones :
          /\ clone'[d].missing = clone[d].missing /\ clone'[d].nth = clone[d].nth
          /\ PastRoles(clone'[d]) <=> PastRoles(clone[d])
    BY <1>4, <1>5, <2>6
  <2>9. ClonesInv'
    BY <1>1, <2>8 DEF TenantsInv, ClonesInv, CloneOK
  <2>10. ApartInv'
    <3>1. \A d, e \in Clones : d # e /\ PastRoles(clone'[d]) /\ PastRoles(clone'[e]) =>
            {clone'[d].nth, clone'[e].nth} \in apart
      BY <2>8 DEF TenantsInv, ApartInv
    <3>2. QED
      BY <1>1, <3>1 DEF ApartInv, PastRoles
  <2>11. ASSUME NEW q \in Rows
         PROVE  /\ row'[q].is = "uncommitted" => \E d \in Clones : InsertedBy(row[q], d)'
                /\ row'[q].is # "uncommitted" => row'[q].by = {}
    <3>1. CASE q = r
      <4>1. InsertedBy(row[q], c)'
        BY <1>4, <1>5, <2>4, <2>5, <2>6, <3>1 DEF InsertedBy, PastRoles
      <4>2. QED
        BY <2>4, <2>5, <3>1, <4>1
    <3>2. CASE q # r
      <4>1. row'[q] = row[q]
        BY <2>5, <3>2
      <4>2. ASSUME NEW d \in Clones, InsertedBy(row[q], d) PROVE InsertedBy(row[q], d)'
        BY <2>8, <4>1, <4>2 DEF InsertedBy, PastRoles
      <4>3. QED
        BY <4>1, <4>2 DEF TenantsInv, MenusInserted
    <3>3. QED
      BY <3>1, <3>2
  <2>12. MenusInserted'
    BY <2>11 DEF MenusInserted
  <2>13. ASSUME NEW q \in Rows, q # r, row[q].is # "free", row[q].name = NameOf[s],
                row[q].under = under
         PROVE  {row[q].nth, does.nth} \in apart /\ {does.nth, row[q].nth} \in apart
    <3>1. row[q].is = "uncommitted" /\ c \notin row[q].by
      BY <2>2, <2>13
    <3>2. PICK d \in Clones : InsertedBy(row[q], d)
      BY <3>1 DEF TenantsInv, MenusInserted
    <3>3. d # c
      BY <3>1, <3>2 DEF InsertedBy
    <3>4. {does.nth, row[q].nth} \in apart
      BY <1>6, <3>2, <3>3 DEF InsertedBy
    <3>5. {does.nth, row[q].nth} = {row[q].nth, does.nth}
      OBVIOUS
    <3>6. QED
      BY <3>4, <3>5
  <2>14. PlaceInv'
    <3> SUFFICES ASSUME NEW q \in Rows, NEW p \in Rows, q # p,
                        row'[q].is # "free", row'[p].is # "free",
                        row'[q].name = row'[p].name, row'[q].under = row'[p].under
                 PROVE  {row'[q].nth, row'[p].nth} \in apart'
      BY DEF PlaceInv
    <3>1. CASE q # r /\ p # r
      BY <1>1, <2>5, <3>1 DEF TenantsInv, PlaceInv
    <3>2. CASE q = r
      BY <1>1, <2>4, <2>5, <2>13, <3>2
    <3>3. CASE p = r
      BY <1>1, <2>4, <2>5, <2>13, <3>3
    <3>4. QED
      BY <3>1, <3>2, <3>3
  <2>15. QED
    BY <2>7, <2>9, <2>10, <2>12, <2>14 DEF TenantsInv
<1>9. QED
  BY <1>2, <1>7, <1>8

(* The end of a clone: its menus are committed, or they are gone.          *)
LEMMA CloneEnds ==
  ASSUME TenantsInv, TenantsTypeOK', NEW c \in Clones, CloneStep(c, NoClone), apart' = apart,
         \/ targetRoles' = targetRoles
         \/ targetRoles' = targetRoles \cup clone[c].missing,
         \A r \in Rows : c \notin row[r].by => row'[r] = row[r],
         \A r \in Rows : c \in row[r].by =>
           /\ row'[r].is # "uncommitted" /\ row'[r].by = {}
           /\ row'[r].is # "free" => /\ row'[r].name = row[r].name /\ row'[r].under = row[r].under
                                     /\ row'[r].nth = row[r].nth
  PROVE  TenantsInv'
<1>1. /\ clone \in [Clones -> CloneState]
      /\ \A d \in Clones : clone'[d] = IF d = c THEN NoClone ELSE clone[d]
  BY DEF TenantsInv, TenantsTypeOK, CloneStep
<1>2. ClonesInv'
  <2>1. ASSUME NEW d \in Clones
        PROVE  /\ clone'[d].missing \cap targetRoles' = {}
               /\ \A e \in Clones \ {d} : clone'[d].missing \cap clone'[e].missing = {}
    <3>1. CASE d = c
      BY <1>1, <3>1, CloneType
    <3>2. CASE d # c
      <4>1. /\ clone[d].missing \cap targetRoles = {}
            /\ \A e \in Clones \ {d} : clone[d].missing \cap clone[e].missing = {}
        BY DEF TenantsInv, ClonesInv, CloneOK
      <4>2. clone[d].missing \cap targetRoles' = {}
        BY <3>2, <4>1
      <4>3. QED
        BY <1>1, <3>2, <4>1, <4>2, CloneType
    <3>3. QED
      BY <3>1, <3>2
  <2>2. QED
    BY <2>1 DEF ClonesInv, CloneOK
<1>3. \A d \in Clones : PastRoles(clone'[d]) => d # c /\ clone'[d] = clone[d]
  BY <1>1, CloneType
<1>4. ApartInv'
  <2>1. \A d, e \in Clones : d # e /\ PastRoles(clone'[d]) /\ PastRoles(clone'[e]) =>
          {clone'[d].nth, clone'[e].nth} \in apart
    BY <1>3 DEF TenantsInv, ApartInv
  <2>2. QED
    BY <2>1 DEF ApartInv, PastRoles
<1>5. ASSUME NEW r \in Rows
      PROVE  /\ row'[r].is = "uncommitted" => \E d \in Clones : InsertedBy(row[r], d)'
             /\ row'[r].is # "uncommitted" => row'[r].by = {}
  <2>1. CASE c \in row[r].by
    BY <2>1
  <2>2. CASE c \notin row[r].by
    <3>1. row'[r] = row[r]
      BY <2>2
    <3>2. ASSUME NEW d \in Clones, InsertedBy(row[r], d) PROVE InsertedBy(row[r], d)'
      BY <1>1, <2>2, <3>1, <3>2 DEF InsertedBy, PastRoles
    <3>3. QED
      BY <3>1, <3>2 DEF TenantsInv, MenusInserted
  <2>3. QED
    BY <2>1, <2>2
<1>6. MenusInserted'
  BY <1>5 DEF MenusInserted
<1>7. \A r \in Rows : row'[r].is # "free" =>
        /\ row[r].is # "free" /\ row'[r].name = row[r].name /\ row'[r].under = row[r].under
        /\ row'[r].nth = row[r].nth
  <2>1. \A r \in Rows : c \in row[r].by => row[r].is = "uncommitted"
    BY NothingInserted
  <2>2. QED
    BY <2>1
<1>8. PlaceInv'
  BY <1>7 DEF TenantsInv, PlaceInv
<1>9. QED
  BY <1>2, <1>4, <1>6, <1>8 DEF TenantsInv

LEMMA CommitCloneKeeps ==
  ASSUME TenantsInv, NEW c \in Clones, CommitClone(c)
  PROVE  TenantsInv'
<1>1. /\ clone[c] \in CloneState /\ row \in [Rows -> MenuRow]
      /\ targetRoles' = targetRoles \cup clone[c].missing
      /\ row' = [r \in Rows |-> IF c \in row[r].by THEN [row[r] EXCEPT !.is = "live", !.by = {}]
                                ELSE row[r]]
      /\ CloneStep(c, NoClone) /\ UNCHANGED <<above, cloned, moves, apart>>
  BY DEF CommitClone, TenantsInv, TenantsTypeOK
<1>2. ASSUME NEW x \in MenuRow
      PROVE  LET y == [x EXCEPT !.is = "live", !.by = {}]
             IN /\ y \in MenuRow /\ y.is = "live" /\ y.by = {}
                /\ y.name = x.name /\ y.under = x.under /\ y.nth = x.nth
  BY DEF MenuRow
<1>3. \A r \in Rows :
        /\ row'[r] \in MenuRow
        /\ c \notin row[r].by => row'[r] = row[r]
        /\ c \in row[r].by => /\ row'[r].is = "live" /\ row'[r].by = {}
                              /\ row'[r].name = row[r].name /\ row'[r].under = row[r].under
                              /\ row'[r].nth = row[r].nth
  BY <1>1, <1>2
<1>4. TenantsTypeOK'
  <2>1. accounts' \in SUBSET (0..MaxClones)
    <3>1. accounts \in SUBSET (0..MaxClones)
      BY DEF TenantsInv, TenantsTypeOK
    <3>2. accounts' = accounts \/ accounts' = accounts \cup {clone[c].number}
      BY DEF CommitClone
    <3>3. clone[c].number \in 0..MaxClones
      BY <1>1, CloneType
    <3>4. QED
      BY <3>1, <3>2, <3>3
  <2>2. targetRoles' \in SUBSET RoleNames
    BY <1>1, CloneType DEF TenantsInv, TenantsTypeOK
  <2>3. row' \in [Rows -> MenuRow] /\ clone' \in [Clones -> CloneState]
    BY <1>1, <1>3, CloneType DEF CloneStep, TenantsInv, TenantsTypeOK
  <2>4. QED
    BY <1>1, <2>1, <2>2, <2>3 DEF TenantsInv, TenantsTypeOK
<1>5. QED
  BY <1>1, <1>3, <1>4, CloneEnds

LEMMA CloneFailsKeeps ==
  ASSUME TenantsInv, NEW c \in Clones, CloneFails(c)
  PROVE  TenantsInv'
<1>1. /\ row \in [Rows -> MenuRow] /\ clone \in [Clones -> CloneState]
      /\ row' = [r \in Rows |-> IF c \in row[r].by THEN FreeRow ELSE row[r]]
      /\ CloneStep(c, NoClone) /\ UNCHANGED <<above, targetRoles, accounts, cloned, moves, apart>>
  BY DEF CloneFails, TenantsInv, TenantsTypeOK
<1>2. \A r \in Rows : /\ c \notin row[r].by => row'[r] = row[r]
                      /\ c \in row[r].by => row'[r] = FreeRow
  BY <1>1
<1>3. TenantsTypeOK'
  <2>1. row' \in [Rows -> MenuRow] /\ clone' \in [Clones -> CloneState]
    BY <1>1, RowType, CloneType DEF CloneStep
  <2>2. QED
    BY <1>1, <2>1 DEF TenantsInv, TenantsTypeOK
<1>4. QED
  BY <1>1, <1>2, <1>3, RowType, CloneEnds

LEMMA MoveSourceKeeps ==
  ASSUME TenantsInv, NEW s \in Sources, NEW under \in Sources \cup {Nowhere},
         MoveSource(s, under)
  PROVE  TenantsInv'
<1>1. /\ UNCHANGED <<row, targetRoles, accounts, clone, cloned, apart>>
      /\ above' \in SourceTree /\ moves' \in 0..MaxMoves
  BY TenantsAssumption DEF MoveSource, TenantsInv, TenantsTypeOK, SourceTree
<1>2. TenantsTypeOK'
  BY <1>1 DEF TenantsInv, TenantsTypeOK
<1>3. ClonesInv' /\ ApartInv' /\ MenusInserted' /\ PlaceInv'
  BY <1>1 DEF TenantsInv, ClonesInv, CloneOK, ApartInv, MenusInserted, InsertedBy, PlaceInv,
              PastRoles
<1>4. QED
  BY <1>2, <1>3 DEF TenantsInv

LEMMA TenantsStart == TenantsInit => TenantsInv
<1> SUFFICES ASSUME TenantsInit PROVE TenantsInv
  OBVIOUS
<1>1. /\ row = [r \in Rows |-> FreeRow] /\ clone = [c \in Clones |-> NoClone]
      /\ above \in SourceTree /\ targetRoles \in SUBSET RoleNames
      /\ accounts = {} /\ cloned = 0 /\ moves = 0 /\ apart = {}
  BY DEF TenantsInit
<1>2. TenantsTypeOK
  BY <1>1, RowType, CloneType, TenantsAssumption DEF TenantsTypeOK
<1>3. ClonesInv /\ ApartInv
  BY <1>1, CloneType DEF ClonesInv, CloneOK, ApartInv
<1>4. MenusInserted /\ PlaceInv
  BY <1>1, RowType DEF MenusInserted, PlaceInv
<1>5. QED
  BY <1>2, <1>3, <1>4 DEF TenantsInv

LEMMA TenantsGoOn == TenantsInv /\ [TenantsNext]_tenantVars => TenantsInv'
<1> SUFFICES ASSUME TenantsInv, [TenantsNext]_tenantVars PROVE TenantsInv'
  OBVIOUS
<1>1. CASE UNCHANGED tenantVars
  <2>1. UNCHANGED <<above, row, targetRoles, accounts, clone, cloned, moves, apart>>
    BY <1>1 DEF tenantVars
  <2>2. TenantsTypeOK'
    BY <2>1 DEF TenantsInv, TenantsTypeOK
  <2>3. ClonesInv' /\ ApartInv' /\ MenusInserted' /\ PlaceInv'
    BY <2>1 DEF TenantsInv, ClonesInv, CloneOK, ApartInv, MenusInserted, InsertedBy, PlaceInv,
                PastRoles
  <2>4. QED
    BY <2>2, <2>3 DEF TenantsInv
<1>2. ASSUME NEW c \in Clones,
             \/ \E origins \in {{}} \cup {{o} : o \in Origins}, names \in SUBSET RoleNames :
                  CloneTenantConfig(c, origins, names)
             \/ \E name \in RoleNames : FindRole(c, name)
             \/ \E s \in Sources : CloneMenu(c, s)
      PROVE  TenantsInv'
  BY <1>2, CloneTenantConfigKeeps, FindRoleKeeps, CloneMenuKeeps
<1>3. ASSUME NEW c \in Clones,
             \/ InsertRole(c) \/ FindMenus(c) \/ NameAccount(c) \/ CommitClone(c) \/ CloneFails(c)
      PROVE  TenantsInv'
  BY <1>3, InsertRoleKeeps, FindMenusKeeps, NameAccountKeeps, CommitCloneKeeps, CloneFailsKeeps
<1>4. ASSUME NEW s \in Sources, NEW under \in Sources \cup {Nowhere}, MoveSource(s, under)
      PROVE  TenantsInv'
  BY <1>4, MoveSourceKeeps
<1>5. QED
  BY <1>1, <1>2, <1>3, <1>4 DEF TenantsNext

LEMMA TenantsHold == TenantsSpec => []TenantsInv
  BY TenantsStart, TenantsGoOn, PTL DEF TenantsSpec

(* MenusOnce for any trees of menus, any sources and roles and any number  *)
(* of clones at one time: that roles are unique by name keeps menus from   *)
(* being cloned twice where both clones bring a role that is missing, and  *)
(* the look for a menu does where one clone comes after the other.         *)
THEOREM MenusAreClonedOnce == TenantsSpec => []MenusOnce
<1>1. TenantsInv => MenusOnce
  BY DEF TenantsInv, PlaceInv, MenusOnce, SamePlace
<1>2. QED
  BY <1>1, TenantsHold, PTL

(* The types of the clones and of what they insert.                        *)
THEOREM TenantsAreTyped == TenantsSpec => []TenantsTypeOK
<1>1. TenantsInv => TenantsTypeOK
  BY DEF TenantsInv
<1>2. QED
  BY <1>1, TenantsHold, PTL

(***************************************************************************)
(* Conversations: two users have one direct conversation, for any number   *)
(* of users, conversations and requests.                                   *)
(***************************************************************************)

RowsIn(c) == {u \in ChatUsers : conv[c].row[u] # "none"}
Together(u, v, c) == conv[c].is = "direct" /\ Takes(u, c) /\ Takes(v, c)

(* What holds of a request: a direct conversation is asked for by two, or  *)
(* by one for himself; those who are about to get one have none, or are    *)
(* entangled; and what was found stays.                                    *)
AskOK(x) ==
  /\ x.at \in {"creating", "answered"} /\ x.is = "direct" =>
       \E u, v \in ChatUsers : x.with = {u, v}
  /\ x.at = "creating" /\ x.is = "direct" =>
       \A u, v \in x.with, c \in Convs : u # v /\ Together(u, v, c) => {u, v} \in entangled
  /\ x.at = "answered" /\ x.is = "direct" =>
       x.conv \in Convs /\ conv[x.conv].is = "direct" /\ x.with \subseteq RowsIn(x.conv)
  /\ x.at \in {"looking", "inserting", "restoring", "asking", "leaving"} =>
       x.conv \in Convs /\ conv[x.conv].is # "none"
  /\ x.at \in {"asking", "leaving"} => \A v \in x.with : conv[x.conv].row[v] # "none"
AsksInv == \A r \in Askers : AskOK(ask[r])

(* Two users are together in one conversation, or entangled; and one that  *)
(* nobody was added to has the two rows it was created with.               *)
PairsInv == \A c, d \in Convs, u, v \in ChatUsers :
  c # d /\ u # v /\ Together(u, v, c) /\ Together(u, v, d) => {u, v} \in entangled
TwoInv == \A c \in Convs :
  conv[c].is = "direct" /\ c \notin grown => \E u, v \in ChatUsers : RowsIn(c) = {u, v}
NoneInv == \A c \in Convs : conv[c].is = "none" => \A u \in ChatUsers : conv[c].row[u] = "none"

ConversationsInv ==
  ConversationsTypeOK /\ AsksInv /\ PairsInv /\ TwoInv /\ NoneInv

LEMMA ConvType ==
  /\ NoConv \in Conv /\ NoConv.is = "none" /\ \A u \in ChatUsers : NoConv.row[u] = "none"
  /\ \A x \in Conv : /\ x.is \in {"none", "direct", "group"} /\ x.by \in ChatUsers \cup {NoUser}
                     /\ x.row \in [ChatUsers -> {"none", "active", "left"}]
  BY DEF NoConv, Conv

LEMMA AskType ==
  /\ NoAsk \in Ask /\ NoAsk.at = "idle" /\ NoAsk.is = "group" /\ NoAsk.conv = 0
  /\ \A x \in Ask : /\ x.is \in {"direct", "group"} /\ x.by \in ChatUsers \cup {NoUser}
                    /\ x.with \in SUBSET ChatUsers /\ x.conv \in Convs \cup {0}
                    /\ DOMAIN x = {"at", "is", "by", "with", "conv"}
  BY DEF NoAsk, Ask

(* A request that begins, goes on or ends without a change of the          *)
(* conversations.                                                          *)
LEMMA AskStep ==
  ASSUME ConversationsInv, NEW r \in Askers, NEW x \in Ask, AskOK(x),
         ask' = [ask EXCEPT ![r] = x], asks' \in 0..MaxAsks,
         UNCHANGED <<conv, entangled, grown>>
  PROVE  ConversationsInv'
<1>1. ask \in [Askers -> Ask]
  BY DEF ConversationsInv, ConversationsTypeOK
<1>2. ConversationsTypeOK'
  BY <1>1 DEF ConversationsInv, ConversationsTypeOK
<1>3. PairsInv' /\ TwoInv' /\ NoneInv'
  BY DEF ConversationsInv, PairsInv, TwoInv, NoneInv, Together, Takes, RowsIn
<1>4. \A q \in Askers : AskOK(ask'[q])
  BY <1>1 DEF ConversationsInv, AsksInv
<1>5. ASSUME NEW q \in Askers PROVE AskOK(ask[q])'
  <2>1. PICK z : z = ask'[q]
    OBVIOUS
  <2>2. AskOK(z)
    BY <1>4, <2>1
  <2>3. AskOK(z)'
    BY <2>2 DEF AskOK, Together, Takes, RowsIn
  <2>4. QED
    BY <2>1, <2>3
<1>6. QED
  BY <1>2, <1>3, <1>5 DEF ConversationsInv, AsksInv

LEMMA BeginAskKeeps ==
  ASSUME ConversationsInv, NEW r \in Askers, NEW x \in Ask, AskOK(x), BeginAsk(r, x),
         UNCHANGED <<conv, entangled, grown>>
  PROVE  ConversationsInv'
<1>1. asks' \in 0..MaxAsks
  BY ConversationsAssumption DEF BeginAsk, ConversationsInv, ConversationsTypeOK
<1>2. QED
  BY <1>1, AskStep DEF BeginAsk

LEMMA NoAskOK == AskOK(NoAsk)
  BY DEF AskOK, NoAsk

LEMMA AskForDirectKeeps ==
  ASSUME ConversationsInv, NEW r \in Askers, NEW u \in ChatUsers, NEW v \in ChatUsers,
         AskForDirect(r, u, v)
  PROVE  ConversationsInv'
<1>1. CASE \E c \in Existing(u, v) :
             BeginAsk(r, [[NoAsk EXCEPT !.is = "direct", !.by = u, !.with = {u, v}]
                            EXCEPT !.at = "answered", !.conv = c])
  <2>1. PICK c \in Existing(u, v) :
          BeginAsk(r, [[NoAsk EXCEPT !.is = "direct", !.by = u, !.with = {u, v}]
                         EXCEPT !.at = "answered", !.conv = c])
    BY <1>1
  <2>2. PICK x : x = [[NoAsk EXCEPT !.is = "direct", !.by = u, !.with = {u, v}]
                        EXCEPT !.at = "answered", !.conv = c]
    OBVIOUS
  <2>3. x \in Ask /\ x.at = "answered" /\ x.is = "direct" /\ x.with = {u, v} /\ x.conv = c
    BY <2>2 DEF NoAsk, Ask, Existing
  <2>4. c \in Convs /\ conv[c].is = "direct" /\ {u, v} \subseteq RowsIn(c)
    BY DEF Existing, RowsIn, Takes
  <2>5. AskOK(x)
    BY <2>3, <2>4 DEF AskOK
  <2>6. QED
    BY <2>1, <2>2, <2>3, <2>5, BeginAskKeeps DEF AskForDirect
<1>2. CASE /\ Existing(u, v) = {}
           /\ BeginAsk(r, [[NoAsk EXCEPT !.is = "direct", !.by = u, !.with = {u, v}]
                             EXCEPT !.at = "creating"])
  <2>1. PICK x : x = [[NoAsk EXCEPT !.is = "direct", !.by = u, !.with = {u, v}]
                        EXCEPT !.at = "creating"]
    OBVIOUS
  <2>2. x \in Ask /\ x.at = "creating" /\ x.is = "direct" /\ x.with = {u, v}
    BY <2>1 DEF NoAsk, Ask
  <2>3. \A c \in Convs : ~Together(u, v, c) /\ ~Together(v, u, c)
    BY <1>2 DEF Existing, Together
  <2>4. AskOK(x)
    BY <2>2, <2>3 DEF AskOK
  <2>5. QED
    BY <1>2, <2>1, <2>2, <2>4, BeginAskKeeps DEF AskForDirect
<1>3. QED
  BY <1>1, <1>2 DEF AskForDirect

LEMMA AskForGroupKeeps ==
  ASSUME ConversationsInv, NEW r \in Askers, NEW u \in ChatUsers, NEW others \in SUBSET ChatUsers,
         AskForGroup(r, u, others)
  PROVE  ConversationsInv'
<1>1. PICK x : x = [NoAsk EXCEPT !.at = "creating", !.by = u, !.with = others \cup {u}]
  OBVIOUS
<1>2. x \in Ask /\ x.at = "creating" /\ x.is = "group"
  BY <1>1 DEF NoAsk, Ask
<1>3. AskOK(x)
  BY <1>2 DEF AskOK
<1>4. QED
  BY <1>1, <1>2, <1>3, BeginAskKeeps DEF AskForGroup

LEMMA AskToChangeKeeps ==
  ASSUME ConversationsInv, NEW r \in Askers, NEW u \in ChatUsers, NEW v \in ChatUsers,
         NEW c \in Convs, AskToAddUser(r, u, v, c) \/ AskToRemoveUser(r, u, v, c)
  PROVE  ConversationsInv'
<1>1. \A w \in ChatUsers : Takes(w, c) => conv[c].is # "none"
  BY DEF Takes, ConversationsInv, NoneInv
<1>2. CASE AskToAddUser(r, u, v, c)
  <2>1. PICK x : x = [NoAsk EXCEPT !.at = "looking", !.by = u, !.with = {v}, !.conv = c]
    OBVIOUS
  <2>2. x \in Ask /\ x.at = "looking" /\ x.conv = c
    BY <2>1 DEF NoAsk, Ask
  <2>3. AskOK(x)
    BY <1>1, <1>2, <2>2 DEF AskOK, AskToAddUser, MayChange
  <2>4. QED
    BY <1>2, <2>1, <2>2, <2>3, BeginAskKeeps DEF AskToAddUser
<1>3. CASE AskToRemoveUser(r, u, v, c)
  <2>1. PICK x : x = [NoAsk EXCEPT !.at = IF u = v THEN "leaving" ELSE "asking",
                                   !.by = u, !.with = {v}, !.conv = c]
    OBVIOUS
  <2>2. x \in Ask /\ x.at \in {"leaving", "asking"} /\ x.conv = c /\ x.with = {v}
    BY <2>1 DEF NoAsk, Ask
  <2>3. conv[c].row[v] # "none"
    BY <1>3 DEF AskToRemoveUser, Takes
  <2>4. AskOK(x)
    BY <1>1, <1>3, <2>2, <2>3 DEF AskOK, AskToRemoveUser
  <2>5. QED
    BY <1>3, <2>1, <2>2, <2>4, BeginAskKeeps DEF AskToRemoveUser
<1>4. QED
  BY <1>2, <1>3

LEMMA AskGoesOn ==
  ASSUME ConversationsInv, NEW r \in Askers,
         EndAsk(r) \/ AskAdmin(r) \/ \E v \in ChatUsers : LookForRow(r, v)
  PROVE  ConversationsInv'
<1>1. ask \in [Askers -> Ask] /\ ask[r] \in Ask /\ AskOK(ask[r]) /\ asks \in 0..MaxAsks
  BY DEF ConversationsInv, ConversationsTypeOK, AsksInv
<1>2. CASE EndAsk(r)
  BY <1>1, <1>2, AskType, NoAskOK, AskStep DEF EndAsk, OverAsk
<1>3. CASE AskAdmin(r)
  <2>1. PICK x : x = [ask[r] EXCEPT !.at = "leaving"]
    OBVIOUS
  <2>2. /\ x \in Ask /\ x.at = "leaving" /\ ask[r].at = "asking"
        /\ x.conv = ask[r].conv /\ x.with = ask[r].with
    BY <1>1, <1>3, <2>1 DEF Ask, AskAdmin
  <2>3. AskOK(x)
    BY <1>1, <2>2 DEF AskOK
  <2>4. ask' = [ask EXCEPT ![r] = x]
    BY <1>1, <1>3, <2>1 DEF AskAdmin
  <2>5. QED
    BY <1>1, <1>3, <2>2, <2>3, <2>4, AskStep DEF AskAdmin
<1>4. ASSUME NEW v \in ChatUsers, LookForRow(r, v) PROVE ConversationsInv'
  <2>1. PICK to \in {"inserting", "restoring"} : ask' = [ask EXCEPT ![r].at = to]
    BY <1>4 DEF LookForRow
  <2>2. PICK x : x = [ask[r] EXCEPT !.at = to]
    OBVIOUS
  <2>3. /\ x \in Ask /\ x.at \in {"inserting", "restoring"} /\ ask[r].at = "looking"
        /\ x.conv = ask[r].conv
    BY <1>1, <1>4, <2>2 DEF Ask, LookForRow
  <2>4. AskOK(x)
    BY <1>1, <2>3 DEF AskOK
  <2>5. ask' = [ask EXCEPT ![r] = x]
    BY <1>1, <2>1, <2>2
  <2>6. QED
    BY <1>1, <1>4, <2>3, <2>4, <2>5, AskStep DEF LookForRow
<1>5. QED
  BY <1>2, <1>3, <1>4

(* A step that changes rows: what is there stays, and whom it brings       *)
(* together is entangled.                                                  *)
LEMMA RowsStep ==
  ASSUME ConversationsInv, ConversationsTypeOK', NEW r \in Askers, OverAsk(r),
         entangled \subseteq entangled', grown \subseteq grown',
         \A c \in Convs : conv'[c].is = conv[c].is,
         \A c \in Convs, u \in ChatUsers :
           /\ conv[c].row[u] # "none" => conv'[c].row[u] # "none"
           /\ c \notin grown' /\ conv[c].row[u] = "none" => conv'[c].row[u] = "none"
           /\ conv[c].is = "none" => conv'[c].row[u] = conv[c].row[u],
         \A c \in Convs, u, v \in ChatUsers :
           u # v /\ Together(u, v, c)' => Together(u, v, c) \/ {u, v} \in entangled'
  PROVE  ConversationsInv'
<1>1. /\ ask \in [Askers -> Ask]
      /\ ask' = [ask EXCEPT ![r] = NoAsk]
  BY DEF ConversationsInv, ConversationsTypeOK, OverAsk
<1>2. PairsInv'
  BY DEF ConversationsInv, PairsInv
<1>3. TwoInv'
  <2>1. ASSUME NEW c \in Convs, c \notin grown' PROVE RowsIn(c)' = RowsIn(c)
    BY <2>1 DEF RowsIn
  <2>2. QED
    BY <2>1 DEF ConversationsInv, TwoInv
<1>4. NoneInv'
  BY DEF ConversationsInv, NoneInv
<1>5. ASSUME NEW q \in Askers PROVE AskOK(ask[q])'
  <2>1. CASE q = r
    <3>1. ask'[q] = NoAsk
      BY <1>1, <2>1
    <3>2. QED
      BY <3>1, AskType DEF AskOK
  <2>2. CASE q # r
    <3>a. PICK x : x = ask[q]
      OBVIOUS
    <3>1. ask'[q] = x /\ AskOK(x) /\ x.with \in SUBSET ChatUsers
      BY <1>1, <2>2, <3>a, AskType DEF ConversationsInv, AsksInv
    <3>2. x.at = "creating" /\ x.is = "direct" =>
            \A u, v \in x.with, c \in Convs :
              u # v /\ Together(u, v, c)' => {u, v} \in entangled'
      BY <3>1 DEF AskOK
    <3>3. x.at = "answered" /\ x.is = "direct" =>
            /\ x.conv \in Convs /\ conv'[x.conv].is = "direct"
            /\ x.with \subseteq RowsIn(x.conv)'
      BY <3>1 DEF AskOK, RowsIn
    <3>4. x.at \in {"looking", "inserting", "restoring", "asking", "leaving"} =>
            x.conv \in Convs /\ conv'[x.conv].is # "none"
      BY <3>1 DEF AskOK
    <3>5. x.at \in {"asking", "leaving"} => \A v \in x.with : conv'[x.conv].row[v] # "none"
      BY <3>1 DEF AskOK
    <3>6. x.at \in {"creating", "answered"} /\ x.is = "direct" =>
            \E u, v \in ChatUsers : x.with = {u, v}
      BY <3>1 DEF AskOK
    <3>7. AskOK(x)'
      BY <3>2, <3>3, <3>4, <3>5, <3>6 DEF AskOK
    <3>8. QED
      BY <3>1, <3>7
  <2>3. QED
    BY <2>1, <2>2
<1>6. QED
  BY <1>2, <1>3, <1>4, <1>5 DEF ConversationsInv, AsksInv

(* The row of one user.                                                    *)
LEMMA RowChange ==
  ASSUME ConversationsInv, NEW c \in Convs, NEW v \in ChatUsers, NEW to \in {"active", "left"},
         conv' = [conv EXCEPT ![c].row[v] = to]
  PROVE  /\ conv' \in [Convs -> Conv]
         /\ \A d \in Convs : /\ conv'[d].is = conv[d].is
                             /\ \A u \in ChatUsers :
                                  conv'[d].row[u] = IF d = c /\ u = v THEN to ELSE conv[d].row[u]
<1>1. conv \in [Convs -> Conv] /\ conv[c] \in Conv
  BY DEF ConversationsInv, ConversationsTypeOK
<1>2. PICK x : x = [conv[c] EXCEPT !.row[v] = to]
  OBVIOUS
<1>3. /\ x \in Conv /\ x.is = conv[c].is
      /\ \A u \in ChatUsers : x.row[u] = IF u = v THEN to ELSE conv[c].row[u]
  BY <1>1, <1>2 DEF Conv
<1>4. conv' = [conv EXCEPT ![c] = x]
  BY <1>1, <1>2
<1>5. QED
  BY <1>1, <1>3, <1>4

LEMMA SaveLeftKeeps ==
  ASSUME ConversationsInv, NEW r \in Askers, NEW v \in ChatUsers, SaveLeft(r, v)
  PROVE  ConversationsInv'
<1> DEFINE c == ask[r].conv
<1>1. /\ c \in Convs /\ conv[c].is # "none" /\ conv[c].row[v] # "none"
      /\ ask \in [Askers -> Ask]
  BY DEF SaveLeft, ConversationsInv, AsksInv, AskOK, ConversationsTypeOK
<1>2. /\ conv' = [conv EXCEPT ![c].row[v] = "left"] /\ OverAsk(r)
      /\ UNCHANGED <<asks, entangled, grown>>
  BY DEF SaveLeft
<1> HIDE DEF c
<1>3. /\ conv' \in [Convs -> Conv]
      /\ \A d \in Convs : /\ conv'[d].is = conv[d].is
                          /\ \A u \in ChatUsers :
                               conv'[d].row[u] = IF d = c /\ u = v THEN "left" ELSE conv[d].row[u]
  <2>1. c \in Convs
    BY <1>1
  <2>2. QED
    BY <1>2, <2>1, RowChange
<1>4. ConversationsTypeOK'
  BY <1>1, <1>2, <1>3, AskType DEF ConversationsInv, ConversationsTypeOK, OverAsk
<1>5. \A d \in Convs, u, w \in ChatUsers : Together(u, w, d)' => Together(u, w, d)
  BY <1>3 DEF Together, Takes
<1>6. \A d \in Convs, u \in ChatUsers :
        /\ conv[d].row[u] # "none" => conv'[d].row[u] # "none"
        /\ conv[d].row[u] = "none" => conv'[d].row[u] = "none"
        /\ conv[d].is = "none" => conv'[d].row[u] = conv[d].row[u]
  BY <1>1, <1>3
<1>7. QED
  BY <1>2, <1>3, <1>4, <1>5, <1>6, RowsStep

LEMMA SaveAddedKeeps ==
  ASSUME ConversationsInv, NEW r \in Askers, NEW v \in ChatUsers, SaveAdded(r, v)
  PROVE  ConversationsInv'
<1> DEFINE c == ask[r].conv
<1>1. c \in Convs /\ conv[c].is # "none" /\ ask \in [Askers -> Ask]
  BY DEF SaveAdded, ConversationsInv, AsksInv, AskOK, ConversationsTypeOK
<1>2. /\ conv' = [conv EXCEPT ![c].row[v] = "active"] /\ OverAsk(r)
      /\ entangled' = entangled \cup
           IF conv[c].is = "direct" THEN {{v, w} : w \in {w \in ChatUsers : Takes(w, c)}} ELSE {}
      /\ grown' = grown \cup {c} /\ UNCHANGED asks
  BY DEF SaveAdded
<1> HIDE DEF c
<1>3. /\ conv' \in [Convs -> Conv]
      /\ \A d \in Convs : /\ conv'[d].is = conv[d].is
                          /\ \A u \in ChatUsers :
                               conv'[d].row[u] = IF d = c /\ u = v THEN "active" ELSE conv[d].row[u]
  BY <1>1, <1>2, RowChange
<1>4. ConversationsTypeOK'
  <2>1. entangled' \in SUBSET SUBSET ChatUsers /\ grown' \in SUBSET Convs
    BY <1>1, <1>2 DEF ConversationsInv, ConversationsTypeOK
  <2>2. QED
    BY <1>1, <1>2, <1>3, <2>1, AskType DEF ConversationsInv, ConversationsTypeOK, OverAsk
<1>5. ASSUME NEW d \in Convs, NEW u \in ChatUsers, NEW w \in ChatUsers, u # w, Together(u, w, d)'
      PROVE  Together(u, w, d) \/ {u, w} \in entangled'
  <2>1. /\ conv[d].is = "direct"
        /\ d # c => Takes(u, d) /\ Takes(w, d)
        /\ u # v => Takes(u, d)
        /\ w # v => Takes(w, d)
    BY <1>3, <1>5 DEF Together, Takes
  <2>2. CASE d = c /\ u = v
    <3>1. {u, w} \in {{v, y} : y \in {y \in ChatUsers : Takes(y, c)}}
      BY <1>5, <2>1, <2>2
    <3>2. QED
      BY <1>2, <2>1, <2>2, <3>1
  <2>3. CASE d = c /\ w = v
    <3>1. {v, u} \in {{v, y} : y \in {y \in ChatUsers : Takes(y, c)}}
      BY <1>5, <2>1, <2>3
    <3>2. {v, u} = {u, w}
      BY <2>3
    <3>3. QED
      BY <1>2, <2>1, <2>3, <3>1, <3>2
  <2>4. QED
    BY <2>1, <2>2, <2>3 DEF Together
<1>6. \A d \in Convs, u \in ChatUsers :
        /\ conv[d].row[u] # "none" => conv'[d].row[u] # "none"
        /\ d \notin grown' /\ conv[d].row[u] = "none" => conv'[d].row[u] = "none"
        /\ conv[d].is = "none" => conv'[d].row[u] = conv[d].row[u]
  BY <1>1, <1>2, <1>3
<1>7. QED
  BY <1>2, <1>3, <1>4, <1>5, <1>6, RowsStep

LEMMA CreateConversationKeeps ==
  ASSUME ConversationsInv, NEW r \in Askers, CreateConversation(r)
  PROVE  ConversationsInv'
<1> DEFINE pair == ask[r].with
           beside == \E q \in Askers \ {r} :
                       ask[q].at = "creating" /\ ask[q].is = "direct" /\ ask[q].with = pair
<1>1. PICK c \in Convs :
        /\ conv[c] = NoConv
        /\ conv' = [conv EXCEPT ![c] =
             [is |-> ask[r].is, by |-> ask[r].by,
              row |-> [u \in ChatUsers |-> IF u \in pair THEN "active" ELSE "none"]]]
        /\ ask' = [ask EXCEPT ![r].at = "answered", ![r].conv = c]
  BY DEF CreateConversation
<1>2. /\ ask[r].at = "creating" /\ UNCHANGED <<asks, grown>>
      /\ entangled' = IF ask[r].is = "direct" /\ beside THEN entangled \cup {pair} ELSE entangled
  BY DEF CreateConversation
<1>3. /\ ask \in [Askers -> Ask] /\ ask[r] \in Ask /\ conv \in [Convs -> Conv]
      /\ pair \in SUBSET ChatUsers /\ ask[r].is \in {"direct", "group"}
      /\ ask[r].by \in ChatUsers \cup {NoUser}
      /\ \A q \in Askers : AskOK(ask[q]) /\ ask[q].with \in SUBSET ChatUsers
  BY AskType DEF ConversationsInv, ConversationsTypeOK, AsksInv
<1>4. PICK y : y = [is |-> ask[r].is, by |-> ask[r].by,
                    row |-> [u \in ChatUsers |-> IF u \in pair THEN "active" ELSE "none"]]
  OBVIOUS
<1>5. /\ y \in Conv /\ y.is = ask[r].is
      /\ \A u \in ChatUsers : y.row[u] = IF u \in pair THEN "active" ELSE "none"
  BY <1>3, <1>4 DEF Conv
<1>6. PICK x : x = [ask[r] EXCEPT !.at = "answered", !.conv = c]
  OBVIOUS
<1>7. /\ x \in Ask /\ x.at = "answered" /\ x.is = ask[r].is /\ x.with = pair /\ x.conv = c
  BY <1>3, <1>6 DEF Ask
<1>8. conv' = [conv EXCEPT ![c] = y] /\ ask' = [ask EXCEPT ![r] = x]
  BY <1>1, <1>3, <1>4, <1>6
<1>9. ask[r].is = "direct" =>
        /\ \E u, v \in ChatUsers : pair = {u, v}
        /\ \A u, v \in pair, d \in Convs : u # v /\ Together(u, v, d) => {u, v} \in entangled
  BY <1>2, <1>3 DEF AskOK
<1>10. ConversationsTypeOK'
  BY <1>2, <1>3, <1>5, <1>7, <1>8 DEF ConversationsInv, ConversationsTypeOK
<1> HIDE DEF pair, beside
<1>11. /\ \A d \in Convs : /\ d # c => conv'[d] = conv[d]
                           /\ d = c => conv'[d] = y
       /\ \A u \in ChatUsers : conv[c].row[u] = "none"
       /\ conv[c].is = "none"
       /\ entangled \subseteq entangled'
  BY <1>1, <1>2, <1>3, <1>8, ConvType
<1>12. \A d \in Convs, u, v \in ChatUsers :
         Together(u, v, d)' => \/ d # c /\ Together(u, v, d)
                               \/ d = c /\ y.is = "direct" /\ u \in pair /\ v \in pair
  BY <1>5, <1>11 DEF Together, Takes
<1>13. \A d \in Convs, u, v \in ChatUsers :
         y.is = "direct" /\ u \in pair /\ v \in pair /\ u # v /\ Together(u, v, d) =>
           {u, v} \in entangled
  BY <1>5, <1>9
<1>14. PairsInv'
  BY <1>11, <1>12, <1>13 DEF ConversationsInv, PairsInv
<1>15. NoneInv'
  BY <1>3, <1>5, <1>11 DEF ConversationsInv, NoneInv
<1>16. \A d \in Convs : /\ d # c => RowsIn(d)' = RowsIn(d)
                        /\ d = c => RowsIn(d)' = pair
  BY <1>3, <1>5, <1>11 DEF RowsIn, pair
<1>17. TwoInv'
  BY <1>2, <1>5, <1>9, <1>11, <1>16 DEF ConversationsInv, TwoInv
<1>18. ASSUME NEW q \in Askers PROVE AskOK(ask[q])'
  <2>1. CASE q = r
    <3>1. ask'[q] = x
      BY <1>3, <1>8, <2>1
    <3>2. x.is = "direct" => conv'[c].is = "direct" /\ x.with \subseteq RowsIn(c)'
      BY <1>5, <1>7, <1>11, <1>16
    <3>3. x.is = "direct" => \E u, v \in ChatUsers : x.with = {u, v}
      BY <1>7, <1>9
    <3>4. QED
      BY <1>7, <3>1, <3>2, <3>3 DEF AskOK, RowsIn
  <2>2. CASE q # r
    <3>a. PICK z : z = ask[q]
      OBVIOUS
    <3>1. ask'[q] = z /\ AskOK(z) /\ z.with \in SUBSET ChatUsers
      BY <1>3, <1>8, <2>2, <3>a
    <3>2. ASSUME z.at = "creating", z.is = "direct", NEW u \in z.with, NEW v \in z.with,
                 NEW d \in Convs, u # v, Together(u, v, d)'
          PROVE  {u, v} \in entangled'
      <4>1. CASE d # c /\ Together(u, v, d)
        BY <1>11, <3>1, <3>2, <4>1 DEF AskOK
      <4>2. CASE y.is = "direct" /\ u \in pair /\ v \in pair
        <5>1. ask[r].is = "direct"
          BY <1>5, <4>2
        <5>2. pair = {u, v}
          BY <1>9, <3>2, <4>2, <5>1
        <5>3. z.with = {u, v}
          BY <3>1, <3>2 DEF AskOK
        <5>4. beside
          BY <2>2, <3>a, <3>2, <5>2, <5>3 DEF beside
        <5>5. QED
          BY <1>2, <5>1, <5>2, <5>4
      <4>3. QED
        BY <1>12, <3>1, <3>2, <4>1, <4>2
    <3>3. z.at = "answered" /\ z.is = "direct" =>
            /\ z.conv \in Convs /\ conv'[z.conv].is = "direct"
            /\ z.with \subseteq RowsIn(z.conv)'
      BY <1>11, <1>16, <3>1 DEF AskOK
    <3>4. z.at \in {"looking", "inserting", "restoring", "asking", "leaving"} =>
            /\ z.conv \in Convs /\ conv'[z.conv].is # "none"
            /\ conv'[z.conv] = conv[z.conv]
      BY <1>11, <3>1 DEF AskOK
    <3>5. z.at \in {"asking", "leaving"} => \A v \in z.with : conv'[z.conv].row[v] # "none"
      BY <3>1, <3>4 DEF AskOK
    <3>6. z.at \in {"creating", "answered"} /\ z.is = "direct" =>
            \E u, v \in ChatUsers : z.with = {u, v}
      BY <3>1 DEF AskOK
    <3>7. AskOK(z)'
      BY <3>2, <3>3, <3>4, <3>5, <3>6 DEF AskOK
    <3>8. QED
      BY <3>1, <3>7
  <2>3. QED
    BY <2>1, <2>2
<1>19. QED
  BY <1>10, <1>14, <1>15, <1>17, <1>18 DEF ConversationsInv, AsksInv

LEMMA ConversationsStart == ConversationsInit => ConversationsInv
<1> SUFFICES ASSUME ConversationsInit PROVE ConversationsInv
  OBVIOUS
<1>1. /\ conv = [c \in Convs |-> NoConv] /\ ask = [r \in Askers |-> NoAsk] /\ asks = 0
      /\ entangled = {} /\ grown = {}
  BY DEF ConversationsInit
<1>2. ConversationsTypeOK
  BY <1>1, ConvType, AskType, ConversationsAssumption DEF ConversationsTypeOK
<1>3. AsksInv
  BY <1>1, NoAskOK DEF AsksInv
<1>4. PairsInv /\ TwoInv /\ NoneInv
  BY <1>1, ConvType DEF PairsInv, TwoInv, NoneInv, Together
<1>5. QED
  BY <1>2, <1>3, <1>4 DEF ConversationsInv

LEMMA ConversationsGoOn ==
  ConversationsInv /\ [ConversationsNext]_conversationVars => ConversationsInv'
<1> SUFFICES ASSUME ConversationsInv, [ConversationsNext]_conversationVars
             PROVE  ConversationsInv'
  OBVIOUS
<1>1. CASE UNCHANGED conversationVars
  <2>1. UNCHANGED <<conv, ask, asks, entangled, grown>>
    BY <1>1 DEF conversationVars
  <2>2. ConversationsTypeOK' /\ PairsInv' /\ TwoInv' /\ NoneInv'
    BY <2>1 DEF ConversationsInv, ConversationsTypeOK, PairsInv, TwoInv, NoneInv, Together, Takes,
                RowsIn
  <2>3. AsksInv'
    BY <2>1 DEF ConversationsInv, AsksInv, AskOK, Together, Takes, RowsIn
  <2>4. QED
    BY <2>2, <2>3 DEF ConversationsInv
<1>2. ASSUME NEW r \in Askers, NEW u \in ChatUsers, NEW v \in ChatUsers,
             \/ AskForDirect(r, u, v)
             \/ \E c \in Convs : AskToAddUser(r, u, v, c) \/ AskToRemoveUser(r, u, v, c)
      PROVE  ConversationsInv'
  BY <1>2, AskForDirectKeeps, AskToChangeKeeps
<1>3. ASSUME NEW r \in Askers,
             \/ \E u \in ChatUsers, others \in SUBSET ChatUsers : AskForGroup(r, u, others)
             \/ \E v \in ChatUsers : LookForRow(r, v) \/ SaveAdded(r, v) \/ SaveLeft(r, v)
             \/ CreateConversation(r)
             \/ AskAdmin(r)
             \/ EndAsk(r)
      PROVE  ConversationsInv'
  BY <1>3, AskForGroupKeeps, AskGoesOn, SaveAddedKeeps, SaveLeftKeeps, CreateConversationKeeps
<1>4. QED
  BY <1>1, <1>2, <1>3 DEF ConversationsNext

LEMMA ConversationsHold == ConversationsSpec => []ConversationsInv
  BY ConversationsStart, ConversationsGoOn, PTL DEF ConversationsSpec

LEMMA OneOrNone ==
  ASSUME NEW S, \A c, d \in S : c = d
  PROVE  Cardinality(S) <= 1
<1>1. CASE S = {}
  BY <1>1, FS_EmptySet
<1>2. CASE S # {}
  <2>1. PICK c \in S : S = {c}
    BY <1>2
  <2>2. Cardinality({c}) = 1
    BY FS_Singleton
  <2>3. QED
    BY <2>1, <2>2
<1>3. QED
  BY <1>1, <1>2

(* OneDirect for any number of users, conversations and requests: create   *)
(* looks for the conversation of two users before its transaction, and yet *)
(* they get one, the two of them in it.                                    *)
THEOREM DirectOnce == ConversationsSpec => []OneDirect
<1>1. ASSUME ConversationsInv PROVE OneDirect
  <2>1. ASSUME NEW u \in ChatUsers, NEW v \in ChatUsers, u # v, {u, v} \notin entangled
        PROVE  Cardinality({c \in Convs : conv[c].is = "direct" /\ Takes(u, c) /\ Takes(v, c)}) <= 1
    <3> DEFINE S == {c \in Convs : conv[c].is = "direct" /\ Takes(u, c) /\ Takes(v, c)}
    <3>1. \A c, d \in S : c = d
      BY <1>1, <2>1 DEF ConversationsInv, PairsInv, Together
    <3> HIDE DEF S
    <3>2. Cardinality(S) <= 1
      BY <3>1, OneOrNone
    <3>3. QED
      BY <3>2 DEF S
  <2>2. ASSUME NEW r \in Askers, ask[r].at = "answered", ask[r].is = "direct",
               ask[r].conv \notin grown
        PROVE  /\ ask[r].with \subseteq RowsIn(ask[r].conv)
               /\ Cardinality(ask[r].with) = 2 => ask[r].with = RowsIn(ask[r].conv)
    <3> DEFINE c == ask[r].conv
               with == ask[r].with
    <3>1. /\ c \in Convs /\ conv[c].is = "direct" /\ with \subseteq RowsIn(c)
          /\ \E u, v \in ChatUsers : with = {u, v}
      BY <1>1, <2>2 DEF ConversationsInv, AsksInv, AskOK
    <3>2. \E u, v \in ChatUsers : RowsIn(c) = {u, v}
      BY <1>1, <2>2, <3>1 DEF ConversationsInv, TwoInv
    <3> HIDE DEF c, with
    <3>3. PICK u, v \in ChatUsers : with = {u, v}
      BY <3>1
    <3>4. PICK a, b \in ChatUsers : RowsIn(c) = {a, b}
      BY <3>2
    <3>5. ASSUME Cardinality(with) = 2 PROVE u # v
      <4> SUFFICES ASSUME u = v PROVE FALSE
        OBVIOUS
      <4>1. with = {u}
        BY <3>3
      <4>2. QED
        BY <3>5, <4>1, FS_Singleton
    <3>6. Cardinality(with) = 2 => with = RowsIn(c)
      BY <3>1, <3>3, <3>4, <3>5
    <3>7. QED
      BY <3>1, <3>6 DEF c, with
  <2>3. QED
    BY <2>1, <2>2 DEF OneDirect, RowsIn
<1>2. QED
  BY <1>1, ConversationsHold, PTL

(* The types of conversations and of the requests about them.              *)
THEOREM ConversationsAreTyped == ConversationsSpec => []ConversationsTypeOK
<1>1. ConversationsInv => ConversationsTypeOK
  BY DEF ConversationsInv
<1>2. QED
  BY <1>1, ConversationsHold, PTL
=============================================================================
