--------------------------- MODULE Conversations ---------------------------
(***************************************************************************)
(* How conversations come about (ConversationService): create, which gives *)
(* two users the direct conversation they have or makes one, groups, and   *)
(* the participants that are added and removed.  What happens in the rooms *)
(* of a conversation meanwhile is in ChatRooms.                            *)
(*                                                                         *)
(* create looks before its transaction; that a conversation is direct      *)
(* keeps nobody from adding a third user.  The only admin of a             *)
(* conversation is the user who created it, as long as he takes part.      *)
(***************************************************************************)
EXTENDS Naturals, FiniteSets
CONSTANTS
  ChatUsers, \* the users of a tenant
  NoUser,    \* stands for the creator of a conversation that is not there
  MaxConvs,  \* bound: how many conversations there may be
  Askers,    \* slots for requests under way
  MaxAsks    \* bound: how many requests begin

ASSUME ConversationsAssumption ==
  NoUser \notin ChatUsers /\ MaxConvs \in Nat /\ MaxAsks \in Nat

VARIABLES
  conv,      \* chat_conversations with the rows of their participants
  ask,       \* the requests
  asks,      \* how many began
  entangled, \* history: pairs that were created twice at one time, or of whom
             \* one was added to a direct conversation of the other
  grown      \* history: conversations that a participant was added to

conversationVars == <<conv, ask, asks, entangled, grown>>

-----------------------------------------------------------------------------
Convs == 1..MaxConvs
Conv == [is : {"none", "direct", "group"}, by : ChatUsers \cup {NoUser},
         row : [ChatUsers -> {"none", "active", "left"}]]
NoConv == [is |-> "none", by |-> NoUser, row |-> [u \in ChatUsers |-> "none"]]

(* A request: who makes it, the users it is about, the conversation.       *)
Ask ==
  [at : {"idle", "creating", "answered", "looking", "inserting", "restoring", "asking", "leaving"},
   is : {"direct", "group"}, by : ChatUsers \cup {NoUser}, with : SUBSET ChatUsers,
   conv : Convs \cup {0}]
NoAsk == [at |-> "idle", is |-> "group", by |-> NoUser, with |-> {}, conv |-> 0]

ConversationsTypeOK ==
  /\ conv \in [Convs -> Conv]
  /\ ask \in [Askers -> Ask]
  /\ asks \in 0..MaxAsks
  /\ entangled \in SUBSET SUBSET ChatUsers /\ grown \in SUBSET Convs

ConversationsInit ==
  /\ conv = [c \in Convs |-> NoConv]
  /\ ask = [r \in Askers |-> NoAsk]
  /\ asks = 0
  /\ entangled = {} /\ grown = {}

Takes(u, c) == conv[c].row[u] = "active"
MayChange(u, c) == Takes(u, c) /\ conv[c].by = u

BeginAsk(r, new) ==
  /\ ask[r].at = "idle" /\ asks < MaxAsks
  /\ asks' = asks + 1
  /\ ask' = [ask EXCEPT ![r] = new]
OverAsk(r) == ask' = [ask EXCEPT ![r] = NoAsk]

-----------------------------------------------------------------------------
(* create                                                                  *)

(* Mutant of Existing: only what the user created is found.                *)
ExistingOwn(u, v) == {c \in Convs : conv[c].is = "direct" /\ MayChange(u, c) /\ Takes(v, c)}

(* findExistingDirect: both take part, others may too.                     *)
Existing(u, v) == {c \in Convs : conv[c].is = "direct" /\ Takes(u, c) /\ Takes(v, c)}

AskForDirect(r, u, v) ==
  LET new == [NoAsk EXCEPT !.is = "direct", !.by = u, !.with = {u, v}]
      there == Existing(u, v)
  IN /\ \/ \E c \in there : BeginAsk(r, [new EXCEPT !.at = "answered", !.conv = c])
        \/ there = {} /\ BeginAsk(r, [new EXCEPT !.at = "creating"])
     /\ UNCHANGED <<conv, entangled, grown>>

(* The other participants of a group are two at least.                     *)
AskForGroup(r, u, others) ==
  /\ Cardinality(others) >= 2
  /\ BeginAsk(r, [NoAsk EXCEPT !.at = "creating", !.by = u, !.with = others \cup {u}])
  /\ UNCHANGED <<conv, entangled, grown>>

(* The transaction: the conversation and the rows of its participants.     *)
CreateConversation(r) ==
  LET pair == ask[r].with
      beside == \E q \in Askers \ {r} :
                  ask[q].at = "creating" /\ ask[q].is = "direct" /\ ask[q].with = pair
  IN /\ ask[r].at = "creating"
     /\ \E c \in Convs :
          /\ conv[c] = NoConv /\ \A d \in 1..(c - 1) : conv[d] # NoConv
          /\ conv' = [conv EXCEPT ![c] =
               [is |-> ask[r].is, by |-> ask[r].by,
                row |-> [u \in ChatUsers |-> IF u \in pair THEN "active" ELSE "none"]]]
          /\ ask' = [ask EXCEPT ![r].at = "answered", ![r].conv = c]
     /\ entangled' = IF ask[r].is = "direct" /\ beside THEN entangled \cup {pair} ELSE entangled
     /\ UNCHANGED <<asks, grown>>

(* A request is over: answered, refused, failed, or the process ends.      *)
EndAsk(r) ==
  /\ ask[r].at # "idle"
  /\ OverAsk(r)
  /\ UNCHANGED <<conv, asks, entangled, grown>>

-----------------------------------------------------------------------------
(* addParticipant: the caller is the admin, the user has no row or a row   *)
(* that says he left, which is saved; a save that finds another row        *)
(* inserted meanwhile fails.                                               *)
AskToAddUser(r, u, v, c) ==
  /\ MayChange(u, c)
  /\ BeginAsk(r, [NoAsk EXCEPT !.at = "looking", !.by = u, !.with = {v}, !.conv = c])
  /\ UNCHANGED <<conv, entangled, grown>>

LookForRow(r, v) ==
  LET is == conv[ask[r].conv].row[v]
  IN /\ ask[r].at = "looking" /\ ask[r].with = {v}
     /\ is # "active"
     /\ ask' = [ask EXCEPT ![r].at = IF is = "none" THEN "inserting" ELSE "restoring"]
     /\ UNCHANGED <<conv, asks, entangled, grown>>

SaveAdded(r, v) ==
  LET c == ask[r].conv
  IN /\ ask[r].at \in {"inserting", "restoring"} /\ ask[r].with = {v}
     /\ ask[r].at = "inserting" => conv[c].row[v] = "none"
     /\ conv' = [conv EXCEPT ![c].row[v] = "active"]
     /\ OverAsk(r)
     /\ entangled' = entangled \cup
          IF conv[c].is = "direct" THEN {{v, w} : w \in {w \in ChatUsers : Takes(w, c)}} ELSE {}
     /\ grown' = grown \cup {c}
     /\ UNCHANGED asks

(* removeParticipant: the user takes part, and leaves by himself or the    *)
(* caller is the admin, which is looked up next.                           *)
AskToRemoveUser(r, u, v, c) ==
  /\ Takes(v, c)
  /\ BeginAsk(r, [NoAsk EXCEPT !.at = IF u = v THEN "leaving" ELSE "asking",
                               !.by = u, !.with = {v}, !.conv = c])
  /\ UNCHANGED <<conv, entangled, grown>>

AskAdmin(r) ==
  /\ ask[r].at = "asking" /\ MayChange(ask[r].by, ask[r].conv)
  /\ ask' = [ask EXCEPT ![r].at = "leaving"]
  /\ UNCHANGED <<conv, asks, entangled, grown>>

SaveLeft(r, v) ==
  /\ ask[r].at = "leaving" /\ ask[r].with = {v}
  /\ conv' = [conv EXCEPT ![ask[r].conv].row[v] = "left"]
  /\ OverAsk(r)
  /\ UNCHANGED <<asks, entangled, grown>>

-----------------------------------------------------------------------------
ConversationsNext ==
  \E r \in Askers :
    \/ \E u, v \in ChatUsers :
         \/ AskForDirect(r, u, v)
         \/ \E c \in Convs : AskToAddUser(r, u, v, c) \/ AskToRemoveUser(r, u, v, c)
    \/ \E u \in ChatUsers, others \in SUBSET ChatUsers : AskForGroup(r, u, others)
    \/ \E v \in ChatUsers : LookForRow(r, v) \/ SaveAdded(r, v) \/ SaveLeft(r, v)
    \/ CreateConversation(r) \/ AskAdmin(r) \/ EndAsk(r)

ConversationsSpec == ConversationsInit /\ [][ConversationsNext]_conversationVars

-----------------------------------------------------------------------------
(* Two users have one direct conversation that both take part in, whoever  *)
(* asked for it and however often one of them left, unless they asked for  *)
(* it at one time or were added to one; and create gives them a            *)
(* conversation of the two of them alone, unless others were added to it.  *)
OneDirect ==
  /\ \A u, v \in ChatUsers :
       u # v /\ {u, v} \notin entangled =>
         Cardinality({c \in Convs : conv[c].is = "direct" /\ Takes(u, c) /\ Takes(v, c)}) <= 1
  /\ \A r \in Askers :
       LET c == ask[r].conv
       IN ask[r].at = "answered" /\ ask[r].is = "direct" /\ c \notin grown =>
            ask[r].with \subseteq {u \in ChatUsers : conv[c].row[u] # "none"}
              /\ (Cardinality(ask[r].with) = 2 =>
                    ask[r].with = {u \in ChatUsers : conv[c].row[u] # "none"})
=============================================================================
