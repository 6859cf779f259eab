---------------------------- MODULE MCBackoffice ----------------------------
(* Instances of the household, the roles and permissions, the menus, the   *)
(* clones of tenants, the accounts, the lists, the creation of             *)
(* conversations and the access tokens: one of them is busy, the others    *)
(* stay as they begin.                                                     *)
EXTENDS Recurring, Ledger, Access, Menus, Tenants, Accounts, Listing, Conversations,
  AccessTokens, FiniteSetsExt, TLC

CONSTANTS k1, b1, t1, t2, c1, c2, m1, ra, rb, xa, xb, ma, mb, mc, sa, sb, sc, oa, ob, na, nb, u1, u2, u3, g1, j1,
  p1, p2 \* slots for requests, of each component

VARIABLE focus
mcVars ==
  <<recurringVars, ledgerVars, accessVars, menuVars, tenantVars, accountsVars, listingVars,
    conversationVars, accessTokenVars, focus>>

MCAmountOf == t1 :> 1 @@ t2 :> 2
MCDates == {<<23, 31>>, <<24, 1>>} \* the last day of a year and the first one of the next
MCSince == <<23, 31>>
MCAllows == "full" :> {"view", "manage"}
MCNameOf == sa :> na @@ sb :> nb @@ sc :> na
MCOriginOf == sa :> oa @@ sb :> oa @@ sc :> ob
MCRolesOf == oa :> {na} @@ ob :> {nb}

(* Counting units is adding up.                                            *)
ASSUME TotalIsSum ==
  \A D \in SUBSET (1..3) : \A f \in [D -> 0..3] : Total(f) = MapThenSumSet(LAMBDA x : f[x], D)

TypeOK ==
  /\ RecurringTypeOK /\ LedgerTypeOK /\ AccessTypeOK /\ MenusTypeOK /\ TenantsTypeOK
  /\ AccountsTypeOK /\ ListingTypeOK /\ ConversationsTypeOK
  /\ AccessTokensTypeOK

MCSymmetry == Permutations({p1, p2})

MCInit ==
  /\ focus \in {"recurring", "ledger", "access", "menus", "tenants", "accounts", "listing",
                "conversations", "tokens"}
  /\ RecurringInit /\ (focus # "recurring" => plan = [c \in Budgeted |-> 0])
  /\ LedgerInit
  /\ AccessInit /\ roleIs[ra] = "live" /\ (focus # "access" => roleIs[rb] = "live")
  /\ MenusInit /\ (focus # "menus" => parent = [m \in Menu |-> Gone])
  /\ TenantsInit
  /\ above[sc] = Nowhere /\ targetRoles \in {{}, {na}}
  /\ (focus # "tenants" => above = [s \in Sources |-> Nowhere] /\ targetRoles = {})
  /\ AccountsInit /\ ConversationsInit /\ AccessTokensInit
  /\ ListingInit /\ (focus # "listing" => record = [i \in Ids |-> NoRecord])

(* A menu takes the first free row; a clone brings the roles of its source *)
(* or none, and the second source has a single menu.                       *)
InOrder ==
  /\ \A r, q \in Rows :
       row[r].is = "free" /\ row'[r].is # "free" /\ q < r => row'[q].is # "free"
  /\ above'[sc] = Nowhere
  /\ \A c \in Clones : clone'[c].names \subseteq UNION {MCRolesOf[o] : o \in clone'[c].origins}

(* Permissions take the first free rows too.                               *)
PermsInOrder ==
  \A p, q \in Perms :
    perm[p].is = "unused" /\ perm'[p].is # "unused" /\ q < p => perm'[q].is # "unused"

MCNext ==
  /\ UNCHANGED focus
  /\ focus # "recurring" => UNCHANGED recurringVars
  /\ focus # "ledger" => UNCHANGED ledgerVars
  /\ focus # "access" => UNCHANGED accessVars
  /\ focus # "menus" => UNCHANGED menuVars
  /\ focus # "tenants" => UNCHANGED tenantVars
  /\ focus # "accounts" => UNCHANGED accountsVars
  /\ focus # "listing" => UNCHANGED listingVars
  /\ focus # "conversations" => UNCHANGED conversationVars
  /\ focus # "tokens" => UNCHANGED accessTokenVars
  /\ \/ focus = "recurring" /\ RecurringNext
     \/ focus = "ledger" /\ LedgerNext
     \/ focus = "access" /\ AccessNext /\ PermsInOrder
     \/ focus = "menus" /\ MenusNext
     \/ focus = "tenants" /\ TenantsNext /\ InOrder
     \/ focus = "accounts" /\ AccountsNext
     \/ focus = "listing" /\ ListingNext
     \/ focus = "conversations" /\ ConversationsNext
     \/ focus = "tokens" /\ AccessTokensNext

MCSpec == MCInit /\ [][MCNext]_mcVars
=============================================================================
