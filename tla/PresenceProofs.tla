--------------------------- MODULE PresenceProofs ---------------------------
(***************************************************************************)
(* What the runs of Presence show on small instances, proved for any       *)
(* accounts, sockets and length of the queue.                              *)
(***************************************************************************)
EXTENDS Presence, TLAPS, SequenceTheorems

(* The reply a handshake waits for tells how far the handshake is, and a   *)
(* handshake waits for one reply at a time.                                *)
HandshakeInv ==
  /\ \A i \in DOMAIN replies :
       replies[i].op = "setex" => handler[replies[i].sock] = "marking"
  /\ \A i \in DOMAIN replies :
       replies[i].op = "keys" => handler[replies[i].sock] = "fetching"
  /\ \A i, j \in DOMAIN replies :
       /\ replies[i].op \in {"setex", "keys"}
       /\ replies[j].op \in {"setex", "keys"}
       /\ replies[i].sock = replies[j].sock
       => i = j

(* A DEL issued behind the SETEX of a handshake was issued because that    *)
(* handshake's socket had gone too.                                        *)
OrderInv ==
  \A i, j \in DOMAIN replies :
    /\ i < j
    /\ replies[i].op = "setex"
    /\ replies[j].op = "del"
    /\ replies[j].user = Owner[replies[i].sock]
    => replies[i].sock \notin connected

-----------------------------------------------------------------------------
(* A command put in the queue is a reply to come.                          *)
LEMMA IssueType ==
  ASSUME replies \in Seq(Reply), NEW command \in Reply, Issue(command)
  PROVE  replies' \in Seq(Reply)
BY AppendProperties DEF Issue

(* A socket that goes away leaves a well-typed state.                      *)
LEMMA DropType ==
  ASSUME TypeOK, NEW s \in Sockets, Drop(s)
  PROVE  /\ connected' \in SUBSET Sockets
         /\ key' \in [Users -> KeyState]
         /\ replies' \in Seq(Reply)
         /\ view' \in [Sockets -> SUBSET Users]
         /\ silent' \in SUBSET Users
         /\ overtaken' \in SUBSET Users
<1> DEFINE u == Owner[s]
<1>1. u \in Users
  BY OwnerAssumption
<1>2. [op |-> "del", user |-> u] \in Reply
  BY <1>1 DEF Reply
<1>3. replies' \in Seq(Reply)
  BY <1>2, IssueType DEF Drop, TypeOK
<1> QED
  BY <1>1, <1>3 DEF Drop, TypeOK, KeyState, SetOffline

(* Every reply handler leaves a well-typed state.                          *)
LEMMA HandleReplyType ==
  ASSUME TypeOK, HandleReply
  PROVE  TypeOK'
<1> DEFINE r == Head(replies)
<1>1. r \in Reply /\ Tail(replies) \in Seq(Reply)
  BY HeadTailProperties DEF TypeOK, HandleReply
<1>2. CASE r.op = "setex" /\ OnMarked(r.sock)
  <2>1. r.sock \in Sockets
    BY <1>1, <1>2 DEF Reply
  <2>2. [op |-> "keys", sock |-> r.sock, online |-> OnlineUsers] \in Reply
    BY <2>1 DEF Reply, OnlineUsers
  <2>3. replies' \in Seq(Reply)
    BY <1>1, <1>2, <2>2, AppendProperties DEF OnMarked
  <2> QED
    BY <1>2, <2>1, <2>3 DEF OnMarked, TypeOK, Phase
<1>3. CASE r.op = "keys" /\ OnFetched(r.sock, r.online)
  <2>1. r.sock \in Sockets /\ r.online \in SUBSET Users /\ Owner[r.sock] \in Users
    BY <1>1, <1>3, OwnerAssumption DEF Reply
  <2>2. ShowOnline(Owner[r.sock]) \in [Sockets -> SUBSET Users]
    BY <2>1 DEF ShowOnline, TypeOK
  <2>3. CASE r.sock \in connected
    <3>1. handler' \in [Sockets -> Phase]
      BY <1>3, <2>3 DEF OnFetched, TypeOK, Phase
    <3>2. view' \in [Sockets -> SUBSET Users]
      BY <1>3, <2>1, <2>2, <2>3 DEF OnFetched
    <3> QED
      BY <1>1, <1>3, <2>3, <3>1, <3>2 DEF OnFetched, TypeOK
  <2>4. CASE r.sock \notin connected
    <3>1. handler' \in [Sockets -> Phase]
      BY <1>3, <2>4 DEF OnFetched, TypeOK, Phase
    <3> QED
      BY <1>1, <1>3, <2>1, <2>2, <2>4, <3>1 DEF OnFetched, TypeOK
  <2> QED
    BY <2>3, <2>4
<1>4. CASE r.op = "list" /\ OnListed(r.sock, r.online)
  <2>1. r.sock \in Sockets /\ r.online \in SUBSET Users
    BY <1>1, <1>4 DEF Reply
  <2> QED
    BY <1>1, <1>4, <2>1 DEF OnListed, TypeOK
<1>5. CASE r.op = "del" /\ OnDeleted(r.user)
  BY <1>1, <1>5 DEF OnDeleted, ShowOffline, TypeOK
<1>6. CASE r.op = "logout" /\ OnLogoutKeys(r.user, r.found)
  <2>1. r.user \in Users
    BY <1>1, <1>6 DEF Reply
  <2> QED
    BY <1>1, <1>6, <2>1 DEF OnLogoutKeys, SetOffline, TypeOK, KeyState
<1> QED
  BY <1>2, <1>3, <1>4, <1>5, <1>6 DEF HandleReply

LEMMA TypeStep == TypeOK /\ [Next]_vars => TypeOK'
<1> SUFFICES ASSUME TypeOK, [Next]_vars PROVE TypeOK'
  OBVIOUS
<1>1. ASSUME NEW s \in Sockets, Connect(s) PROVE TypeOK'
  BY <1>1 DEF Connect, TypeOK, Phase
<1>2. ASSUME NEW s \in Sockets, MarkOnline(s) PROVE TypeOK'
  <2>1. [op |-> "setex", sock |-> s] \in Reply
    BY DEF Reply
  <2>2. replies' \in Seq(Reply)
    BY <1>2, <2>1, IssueType DEF MarkOnline, TypeOK
  <2> QED
    BY <1>2, <2>2, OwnerAssumption DEF MarkOnline, SetOnline, TypeOK, Phase, KeyState
<1>3. ASSUME NEW s \in Sockets, MarkOnlineFails(s) PROVE TypeOK'
  BY <1>3, DropType DEF MarkOnlineFails, TypeOK, Phase
<1>4. ASSUME NEW s \in Sockets, Disconnect(s) PROVE TypeOK'
  BY <1>4, DropType DEF Disconnect, TypeOK, Phase
<1>5. ASSUME NEW s \in Sockets, Heartbeat(s) PROVE TypeOK'
  BY <1>5, OwnerAssumption DEF Heartbeat, RefreshPresence, TypeOK, KeyState
<1>6. ASSUME NEW s \in Sockets, GetOnlineUsers(s) PROVE TypeOK'
  <2>1. [op |-> "list", sock |-> s, online |-> OnlineUsers] \in Reply
    BY DEF Reply, OnlineUsers
  <2> QED
    BY <1>6, <2>1, IssueType DEF GetOnlineUsers, TypeOK
<1>7. ASSUME NEW u \in Users, LogoutFindsKeys(u) PROVE TypeOK'
  <2>1. [op |-> "logout", user |-> u, found |-> u \in OnlineUsers] \in Reply
    BY DEF Reply
  <2> QED
    BY <1>7, <2>1, IssueType DEF LogoutFindsKeys, TypeOK
<1>8. ASSUME NEW u \in Users, Age(u) PROVE TypeOK'
  BY <1>8 DEF Age, TypeOK, KeyState
<1>9. CASE HandleReply
  BY <1>9, HandleReplyType
<1>10. CASE Crash
  BY <1>10, EmptySeq DEF Crash, TypeOK, Phase
<1>11. CASE UNCHANGED vars
  BY <1>11 DEF vars, TypeOK
<1> QED
  BY <1>1, <1>2, <1>3, <1>4, <1>5, <1>6, <1>7, <1>8, <1>9, <1>10, <1>11
  DEF Next, Running

(* The state is well typed in every behaviour.                             *)
THEOREM PresenceTypeOK == Spec => []TypeOK
<1>1. Init => TypeOK
  BY EmptySeq DEF Init, TypeOK, Phase, KeyState
<1> QED
  BY <1>1, TypeStep, PTL DEF Spec

-----------------------------------------------------------------------------
(* The inductive invariant, with TypeOK.                                   *)
IInv == HandshakeInv /\ OrderInv /\ NoLateOffline /\ PresentUserIsOnline

(* Where the replies are after one more command, and after one is handled. *)
LEMMA IssueIndices ==
  ASSUME replies \in Seq(Reply), NEW command \in Reply, Issue(command)
  PROVE  /\ Len(replies) \in Nat
         /\ DOMAIN replies = 1 .. Len(replies)
         /\ DOMAIN replies' = 1 .. (Len(replies) + 1)
         /\ \A i \in 1 .. Len(replies) : replies'[i] = replies[i]
         /\ replies'[Len(replies) + 1] = command
BY AppendProperties, LenProperties DEF Issue

LEMMA TailIndices ==
  ASSUME replies \in Seq(Reply), replies # <<>>
  PROVE  /\ Len(replies) \in Nat \ {0}
         /\ DOMAIN replies = 1 .. Len(replies)
         /\ Tail(replies) \in Seq(Reply)
         /\ Len(Tail(replies)) = Len(replies) - 1
         /\ DOMAIN Tail(replies) = 1 .. (Len(replies) - 1)
         /\ \A i \in 1 .. (Len(replies) - 1) : Tail(replies)[i] = replies[i + 1]
         /\ Head(replies) = replies[1]
<1>1. /\ Len(replies) \in Nat /\ DOMAIN replies = 1 .. Len(replies)
      /\ Tail(replies) \in Seq(Reply)
      /\ Len(Tail(replies)) = Len(replies) - 1
      /\ \A i \in 1 .. Len(Tail(replies)) : Tail(replies)[i] = replies[i + 1]
      /\ Head(replies) = replies[1]
  BY HeadTailProperties, LenProperties
<1>2. Len(replies) # 0
  BY EmptySeq, LenProperties
<1>3. DOMAIN Tail(replies) = 1 .. Len(Tail(replies))
  BY <1>1, LenProperties
<1> QED
  BY <1>1, <1>2, <1>3

(* Handling a reply other than a handshake's keeps the order of the rest.  *)
LEMMA TailOrder ==
  ASSUME TypeOK, IInv, replies # <<>>, replies' = Tail(replies),
         UNCHANGED <<handler, connected>>
  PROVE  HandshakeInv' /\ OrderInv' /\ NoLateOffline'
<1> DEFINE n == Len(replies) - 1
<1>1. /\ n \in Nat
      /\ DOMAIN replies = 1 .. (n + 1) /\ DOMAIN replies' = 1 .. n
      /\ \A i \in 1 .. n : replies'[i] = replies[i + 1]
  BY TailIndices DEF TypeOK
<1>2. \A i \in DOMAIN replies' : i + 1 \in DOMAIN replies /\ replies'[i] = replies[i + 1]
  BY <1>1
<1> HIDE DEF n
<1>3. HandshakeInv'
  <2>1. ASSUME NEW i \in DOMAIN replies', NEW j \in DOMAIN replies', i + 1 = j + 1
        PROVE  i = j
    BY <1>1, <2>1
  <2> QED
    BY <1>2, <2>1 DEF IInv, HandshakeInv
<1>4. OrderInv'
  <2>1. ASSUME NEW i \in DOMAIN replies', NEW j \in DOMAIN replies', i < j
        PROVE  i + 1 < j + 1
    BY <1>1, <2>1
  <2> QED
    BY <1>2, <2>1 DEF IInv, OrderInv
<1>5. NoLateOffline'
  BY <1>2 DEF IInv, NoLateOffline, Live, SocketsOf
<1> QED
  BY <1>3, <1>4, <1>5

(* A command of no handshake keeps the order, when it deletes no key.      *)
LEMMA IssueOrder ==
  ASSUME TypeOK, IInv, NEW command \in Reply, Issue(command),
         command.op \in {"list", "logout"}, UNCHANGED <<handler, connected>>
  PROVE  HandshakeInv' /\ OrderInv' /\ NoLateOffline'
<1>1. /\ Len(replies) \in Nat
      /\ DOMAIN replies = 1 .. Len(replies)
      /\ DOMAIN replies' = 1 .. (Len(replies) + 1)
      /\ \A i \in 1 .. Len(replies) : replies'[i] = replies[i]
      /\ replies'[Len(replies) + 1] = command
  BY IssueIndices DEF TypeOK
<1>2. \A i \in DOMAIN replies' :
        \/ i \in DOMAIN replies /\ replies'[i] = replies[i]
        \/ replies'[i].op \notin {"setex", "keys", "del"}
  BY <1>1
<1> QED
  BY <1>2 DEF IInv, HandshakeInv, OrderInv, NoLateOffline, Live, SocketsOf

LEMMA HandshakeSock ==
  ASSUME TypeOK, NEW i \in DOMAIN replies, replies[i].op \in {"setex", "keys"}
  PROVE  replies[i].sock \in Sockets
<1>1. replies[i] \in Reply
  BY DEF TypeOK
<1> QED
  BY <1>1 DEF Reply

(* A socket goes away: its handler is abandoned, done or left running.     *)
LEMMA DropStep ==
  ASSUME TypeOK, IInv, NEW s \in Sockets, Drop(s), s \in connected,
         \/ handler' = handler
         \/ /\ handler[s] \in {"joining", "serving"}
            /\ handler' = [handler EXCEPT ![s] = "idle"]
  PROVE  IInv'
<1> DEFINE u == Owner[s]
<1>0. u \in Users /\ handler \in [Sockets -> Phase]
  BY OwnerAssumption DEF TypeOK
<1>1. \A t \in Sockets : t # s => handler'[t] = handler[t]
  BY <1>0
<1>2. handler[s] \in {"marking", "fetching"} => handler'[s] = handler[s]
  BY <1>0
<1>3. connected' = connected \ {s}
  BY DEF Drop
<1>4. handler'[s] = handler[s] \/ handler'[s] = "idle"
  BY <1>0
<1>5. \A i \in DOMAIN replies :
        /\ replies[i].op = "setex" => handler'[replies[i].sock] = "marking"
        /\ replies[i].op = "keys" => handler'[replies[i].sock] = "fetching"
  BY <1>1, <1>2, HandshakeSock DEF IInv, HandshakeInv
<1>6. CASE Live(u) # {s}
  <2>1. UNCHANGED <<key, silent, replies>>
    BY <1>6 DEF Drop
  <2>2. HandshakeInv'
    BY <1>5, <2>1 DEF IInv, HandshakeInv
  <2>3. OrderInv'
    BY <1>3, <2>1 DEF IInv, OrderInv
  <2>4. NoLateOffline'
    BY <1>1, <1>3, <2>1 DEF IInv, NoLateOffline, Live, SocketsOf
  <2>5. PresentUserIsOnline'
    BY <1>1, <1>3, <2>1 DEF IInv, PresentUserIsOnline, Marked
  <2> QED
    BY <2>2, <2>3, <2>4, <2>5 DEF IInv
<1>7. CASE Live(u) = {s}
  <2> DEFINE command == [op |-> "del", user |-> u]
  <2>1. /\ key' = [key EXCEPT ![u] = "absent"]
        /\ silent' = silent \ {u}
        /\ Issue(command)
    BY <1>7 DEF Drop, SetOffline
  <2>2. command \in Reply
    BY <1>0 DEF Reply
  <2>3. /\ Len(replies) \in Nat
        /\ DOMAIN replies = 1 .. Len(replies)
        /\ DOMAIN replies' = 1 .. (Len(replies) + 1)
        /\ \A i \in 1 .. Len(replies) : replies'[i] = replies[i]
        /\ replies'[Len(replies) + 1] = command
    BY <2>1, <2>2, IssueIndices DEF TypeOK
  <2>4. \A i \in DOMAIN replies' :
          \/ i \in DOMAIN replies /\ replies'[i] = replies[i]
          \/ i = Len(replies) + 1 /\ replies'[i] = command
    BY <2>3
  <2>5. \A t \in connected' : t \in Sockets => Owner[t] # u
    BY <1>3, <1>7 DEF Live, SocketsOf
  <2>6. HandshakeInv'
    BY <1>5, <2>4 DEF IInv, HandshakeInv
  <2>7. OrderInv'
    <3> SUFFICES ASSUME NEW i \in DOMAIN replies', NEW j \in DOMAIN replies',
                        i < j, replies'[i].op = "setex", replies'[j].op = "del",
                        replies'[j].user = Owner[replies'[i].sock]
                 PROVE  replies'[i].sock \notin connected'
      BY DEF OrderInv
    <3>1. i \in DOMAIN replies /\ replies'[i] = replies[i]
      BY <2>4
    <3>2. CASE j \in DOMAIN replies /\ replies'[j] = replies[j]
      BY <1>3, <3>1, <3>2 DEF IInv, OrderInv
    <3>3. CASE replies'[j] = command
      <4>1. replies[i] \in Reply
        BY <3>1 DEF TypeOK
      <4>2. replies[i].sock \in Sockets
        BY <3>1, <4>1 DEF Reply
      <4> QED
        BY <2>5, <3>1, <3>3, <4>2
    <3> QED
      BY <2>4, <3>2, <3>3
  <2>8. NoLateOffline'
    <3> SUFFICES ASSUME NEW i \in DOMAIN replies', replies'[i].op = "del",
                        NEW t \in Sockets, Owner[t] = replies'[i].user,
                        t \in connected'
                 PROVE  handler'[t] \in {"joining", "marking"}
      BY DEF NoLateOffline, Live, SocketsOf
    <3>2. i \in DOMAIN replies /\ replies'[i] = replies[i]
      BY <2>4, <2>5
    <3> QED
      BY <1>1, <1>3, <3>2 DEF IInv, NoLateOffline, Live, SocketsOf
  <2>9. PresentUserIsOnline'
    <3> SUFFICES ASSUME NEW t \in Sockets, Marked(t)'
                 PROVE  key'[Owner[t]] # "absent" \/ Owner[t] \in silent'
      BY DEF PresentUserIsOnline
    <3>1. t \in connected' /\ t \in connected /\ t # s /\ Owner[t] # u
      BY <1>3, <2>5 DEF Marked
    <3>2. Marked(t)
      BY <1>1, <3>1 DEF Marked
    <3>3. Owner[t] \in Users /\ key'[Owner[t]] = key[Owner[t]]
      BY <1>0, <2>1, <3>1, OwnerAssumption DEF TypeOK
    <3> QED
      BY <2>1, <3>1, <3>2, <3>3 DEF IInv, PresentUserIsOnline
  <2> QED
    BY <2>6, <2>7, <2>8, <2>9 DEF IInv
<1> QED
  BY <1>6, <1>7

(* A handshake issues its SETEX.                                           *)
LEMMA MarkOnlineStep ==
  ASSUME TypeOK, IInv, NEW s \in Sockets, MarkOnline(s)
  PROVE  IInv'
<1> DEFINE command == [op |-> "setex", sock |-> s]
<1>1. /\ handler[s] = "joining" /\ handler' = [handler EXCEPT ![s] = "marking"]
      /\ key' = [key EXCEPT ![Owner[s]] = "fresh"]
      /\ silent' = silent \ {Owner[s]}
      /\ Issue(command) /\ connected' = connected
  BY DEF MarkOnline, SetOnline
<1>2. command \in Reply /\ Owner[s] \in Users
  BY OwnerAssumption DEF Reply
<1>3. /\ Len(replies) \in Nat
      /\ DOMAIN replies = 1 .. Len(replies)
      /\ DOMAIN replies' = 1 .. (Len(replies) + 1)
      /\ \A i \in 1 .. Len(replies) : replies'[i] = replies[i]
      /\ replies'[Len(replies) + 1] = command
  BY <1>1, <1>2, IssueIndices DEF TypeOK
<1>4. \A i \in DOMAIN replies' :
        \/ /\ i \in DOMAIN replies /\ i < Len(replies) + 1
           /\ replies'[i] = replies[i]
        \/ i = Len(replies) + 1 /\ replies'[i] = command
  BY <1>3
<1>5. \A t \in Sockets : handler'[t] = IF t = s THEN "marking" ELSE handler[t]
  BY <1>1 DEF TypeOK
<1>6. \A i \in DOMAIN replies :
        replies[i].op \in {"setex", "keys"} => replies[i].sock # s
  BY <1>1 DEF IInv, HandshakeInv
<1>7. HandshakeInv'
  BY <1>4, <1>5, <1>6, HandshakeSock DEF IInv, HandshakeInv
<1>8. OrderInv'
  <2> SUFFICES ASSUME NEW i \in DOMAIN replies', NEW j \in DOMAIN replies',
                      i < j, replies'[i].op = "setex", replies'[j].op = "del",
                      replies'[j].user = Owner[replies'[i].sock]
               PROVE  replies'[i].sock \notin connected'
    BY DEF OrderInv
  <2>1. j \in DOMAIN replies /\ replies'[j] = replies[j]
    BY <1>4
  <2>2. i \in DOMAIN replies /\ replies'[i] = replies[i]
    BY <1>3, <2>1
  <2> QED
    BY <1>1, <2>1, <2>2 DEF IInv, OrderInv
<1>9. NoLateOffline'
  BY <1>1, <1>4, <1>5 DEF IInv, NoLateOffline, Live, SocketsOf
<1>10. PresentUserIsOnline'
  <2> SUFFICES ASSUME NEW t \in Sockets, Marked(t)'
               PROVE  key'[Owner[t]] # "absent" \/ Owner[t] \in silent'
    BY DEF PresentUserIsOnline
  <2>1. CASE Owner[t] = Owner[s]
    BY <1>1, <1>2, <2>1 DEF TypeOK
  <2>2. CASE Owner[t] # Owner[s]
    <3>1. t # s /\ Marked(t)
      BY <1>1, <1>5, <2>2 DEF Marked
    <3>2. Owner[t] \in Users /\ key'[Owner[t]] = key[Owner[t]]
      BY <1>1, <2>2, OwnerAssumption DEF TypeOK
    <3> QED
      BY <1>1, <2>2, <3>1, <3>2 DEF IInv, PresentUserIsOnline
  <2> QED
    BY <2>1, <2>2
<1> QED
  BY <1>7, <1>8, <1>9, <1>10 DEF IInv

(* The SETEX at the head of the queue is answered: by OrderInv no DEL of   *)
(* the same user is behind it while the socket is there.                   *)
LEMMA OnMarkedStep ==
  ASSUME TypeOK, IInv, replies # <<>>, Head(replies).op = "setex",
         OnMarked(Head(replies).sock)
  PROVE  IInv'
<1> DEFINE s == replies[1].sock
           n == Len(replies) - 1
           command == [op |-> "keys", sock |-> s, online |-> OnlineUsers]
<1>1. /\ n \in Nat
      /\ DOMAIN replies = 1 .. (n + 1)
      /\ Tail(replies) \in Seq(Reply) /\ Len(Tail(replies)) = n
      /\ \A i \in 1 .. n : Tail(replies)[i] = replies[i + 1]
      /\ Head(replies) = replies[1]
  BY TailIndices DEF TypeOK
<1>2. 1 \in DOMAIN replies /\ replies[1].op = "setex"
  BY <1>1
<1>3. s \in Sockets /\ handler[s] = "marking"
  BY <1>2, HandshakeSock DEF IInv, HandshakeInv
<1>4. /\ handler' = [handler EXCEPT ![s] = "fetching"]
      /\ replies' = Append(Tail(replies), command)
      /\ UNCHANGED <<connected, key, silent>>
  BY <1>1 DEF OnMarked
<1>5. command \in Reply
  BY <1>3 DEF Reply, OnlineUsers
<1>6. /\ DOMAIN replies' = 1 .. (n + 1)
      /\ \A i \in 1 .. n : replies'[i] = replies[i + 1]
      /\ replies'[n + 1] = command
  <2>1. /\ Append(Tail(replies), command) \in Seq(Reply)
        /\ Len(Append(Tail(replies), command)) = n + 1
        /\ \A i \in 1 .. n : Append(Tail(replies), command)[i] = Tail(replies)[i]
        /\ Append(Tail(replies), command)[n + 1] = command
    BY <1>1, <1>5, AppendProperties
  <2>2. DOMAIN Append(Tail(replies), command) = 1 .. (n + 1)
    BY <2>1, LenProperties
  <2> QED
    BY <1>1, <1>4, <2>1, <2>2
<1>7. \A i \in DOMAIN replies' :
        \/ /\ i # n + 1 /\ i + 1 \in DOMAIN replies /\ i + 1 # 1
           /\ replies'[i] = replies[i + 1]
        \/ i = n + 1 /\ replies'[i] = command
  BY <1>1, <1>6
<1>8. \A t \in Sockets : handler'[t] = IF t = s THEN "fetching" ELSE handler[t]
  BY <1>4 DEF TypeOK
<1>9. \A i \in DOMAIN replies :
        i # 1 /\ replies[i].op \in {"setex", "keys"} => replies[i].sock # s
  BY <1>2 DEF IInv, HandshakeInv
<1>10. \A i, j \in DOMAIN replies' : i + 1 = j + 1 => i = j
  BY <1>1, <1>6
<1>11. \A i, j \in DOMAIN replies' : i < j => 1 < j + 1 /\ i + 1 < j + 1 /\ i # n + 1
  BY <1>1, <1>6
<1> HIDE DEF n
<1>12. HandshakeInv'
  BY <1>7, <1>8, <1>9, <1>10, HandshakeSock DEF IInv, HandshakeInv
<1>13. OrderInv'
  BY <1>4, <1>7, <1>11 DEF IInv, OrderInv
<1>14. NoLateOffline'
  <2> SUFFICES ASSUME NEW i \in DOMAIN replies', replies'[i].op = "del",
                      NEW t \in Sockets, Owner[t] = replies'[i].user, t \in connected'
               PROVE  handler'[t] \in {"joining", "marking"}
    BY DEF NoLateOffline, Live, SocketsOf
  <2>1. i + 1 \in DOMAIN replies /\ replies'[i] = replies[i + 1] /\ i + 1 # 1
    BY <1>7
  <2>2. 1 < i + 1
    BY <1>1, <2>1
  <2>3. t # s
    BY <1>2, <1>4, <2>1, <2>2 DEF IInv, OrderInv
  <2> QED
    BY <1>4, <1>8, <2>1, <2>3 DEF IInv, NoLateOffline, Live, SocketsOf
<1>15. PresentUserIsOnline'
  BY <1>3, <1>4, <1>8 DEF IInv, PresentUserIsOnline, Marked
<1> QED
  BY <1>12, <1>13, <1>14, <1>15 DEF IInv

(* The list of a handshake is answered: the handshake ends.                *)
LEMMA OnFetchedStep ==
  ASSUME TypeOK, IInv, replies # <<>>, Head(replies).op = "keys",
         OnFetched(Head(replies).sock, Head(replies).online)
  PROVE  IInv'
<1> DEFINE s == replies[1].sock
           n == Len(replies) - 1
<1>1. /\ n \in Nat
      /\ DOMAIN replies = 1 .. (n + 1) /\ DOMAIN Tail(replies) = 1 .. n
      /\ \A i \in 1 .. n : Tail(replies)[i] = replies[i + 1]
      /\ Head(replies) = replies[1]
  BY TailIndices DEF TypeOK
<1>2. 1 \in DOMAIN replies /\ replies[1].op = "keys"
  BY <1>1
<1>3. s \in Sockets /\ handler[s] = "fetching"
  BY <1>2, HandshakeSock DEF IInv, HandshakeInv
<1>4. /\ replies' = Tail(replies)
      /\ UNCHANGED <<connected, key, silent>>
      /\ \A t \in Sockets : t # s => handler'[t] = handler[t]
      /\ handler'[s] # "serving" => s \notin connected
  BY <1>1, <1>3 DEF OnFetched, TypeOK
<1>5. \A i \in DOMAIN replies' :
        i + 1 \in DOMAIN replies /\ i + 1 # 1 /\ replies'[i] = replies[i + 1]
  BY <1>1, <1>4
<1>6. \A i \in DOMAIN replies :
        i # 1 /\ replies[i].op \in {"setex", "keys"} => replies[i].sock # s
  BY <1>2 DEF IInv, HandshakeInv
<1>7. \A i, j \in DOMAIN replies' :
        (i + 1 = j + 1 => i = j) /\ (i < j => i + 1 < j + 1)
  BY <1>1, <1>4
<1> HIDE DEF n
<1>8. HandshakeInv'
  BY <1>4, <1>5, <1>6, <1>7, HandshakeSock DEF IInv, HandshakeInv
<1>9. OrderInv'
  BY <1>4, <1>5, <1>7 DEF IInv, OrderInv
<1>10. NoLateOffline'
  BY <1>3, <1>4, <1>5 DEF IInv, NoLateOffline, Live, SocketsOf
<1>11. PresentUserIsOnline'
  BY <1>3, <1>4 DEF IInv, PresentUserIsOnline, Marked
<1> QED
  BY <1>8, <1>9, <1>10, <1>11 DEF IInv

(* The answers that no handshake waits for.                                *)
LEMMA OtherReplyStep ==
  ASSUME TypeOK, IInv, replies # <<>>,
         \/ \E s, online : OnListed(s, online)
         \/ \E u : OnDeleted(u)
         \/ \E u \in Users, found \in BOOLEAN : OnLogoutKeys(u, found)
  PROVE  IInv'
<1>1. replies' = Tail(replies) /\ UNCHANGED <<handler, connected>>
  BY DEF OnListed, OnDeleted, OnLogoutKeys
<1>2. HandshakeInv' /\ OrderInv' /\ NoLateOffline'
  BY <1>1, TailOrder
<1>3. ASSUME UNCHANGED <<key, silent>>
      PROVE  PresentUserIsOnline'
  BY <1>1, <1>3 DEF IInv, PresentUserIsOnline, Marked
<1>4. ASSUME NEW u \in Users, silent' = silent \cup {u},
             key' = [key EXCEPT ![u] = "absent"]
      PROVE  PresentUserIsOnline'
  <2>1. \A v \in Users : v # u => key'[v] = key[v]
    BY <1>4 DEF TypeOK
  <2> QED
    BY <1>1, <1>4, <2>1, OwnerAssumption DEF IInv, PresentUserIsOnline, Marked
<1>5. ASSUME NEW u \in Users, NEW found \in BOOLEAN, OnLogoutKeys(u, found)
      PROVE  PresentUserIsOnline'
  BY <1>3, <1>4, <1>5 DEF OnLogoutKeys, SetOffline
<1>6. PresentUserIsOnline'
  BY <1>3, <1>5 DEF OnListed, OnDeleted
<1> QED
  BY <1>2, <1>6 DEF IInv

LEMMA HandleReplyStep ==
  ASSUME TypeOK, IInv, HandleReply
  PROVE  IInv'
<1> DEFINE r == Head(replies)
<1>1. r \in Reply /\ replies # <<>>
  BY HeadTailProperties DEF TypeOK, HandleReply
<1>2. CASE r.op = "setex" /\ OnMarked(r.sock)
  BY <1>1, <1>2, OnMarkedStep
<1>3. CASE r.op = "keys" /\ OnFetched(r.sock, r.online)
  BY <1>1, <1>3, OnFetchedStep
<1>4. CASE r.op = "list" /\ OnListed(r.sock, r.online)
  BY <1>1, <1>4, OtherReplyStep
<1>5. CASE r.op = "del" /\ OnDeleted(r.user)
  BY <1>1, <1>5, OtherReplyStep
<1>6. CASE r.op = "logout" /\ OnLogoutKeys(r.user, r.found)
  <2>1. r.user \in Users /\ r.found \in BOOLEAN
    BY <1>1, <1>6 DEF Reply
  <2> QED
    BY <1>1, <1>6, <2>1, OtherReplyStep
<1> QED
  BY <1>2, <1>3, <1>4, <1>5, <1>6 DEF HandleReply

(* Every step keeps the strengthened invariant.                            *)
LEMMA IInvStep ==
  ASSUME TypeOK, IInv, [Next]_vars
  PROVE  IInv'
<1>1. ASSUME NEW s \in Sockets, Connect(s) PROVE IInv'
  <2>1. /\ handler[s] = "idle" /\ connected' = connected \cup {s}
        /\ UNCHANGED <<key, replies, silent>>
        /\ \A t \in Sockets : handler'[t] = IF t = s THEN "joining" ELSE handler[t]
    BY <1>1 DEF Connect, TypeOK
  <2>2. \A i \in DOMAIN replies :
          replies[i].op \in {"setex", "keys"} => replies[i].sock # s
    BY <2>1 DEF IInv, HandshakeInv
  <2>3. HandshakeInv'
    BY <2>1, <2>2, HandshakeSock DEF IInv, HandshakeInv
  <2>4. OrderInv'
    BY <2>1, <2>2 DEF IInv, OrderInv
  <2>5. NoLateOffline'
    BY <2>1 DEF IInv, NoLateOffline, Live, SocketsOf
  <2>6. PresentUserIsOnline'
    BY <2>1 DEF IInv, PresentUserIsOnline, Marked
  <2> QED
    BY <2>3, <2>4, <2>5, <2>6 DEF IInv
<1>2. ASSUME NEW s \in Sockets, MarkOnline(s) PROVE IInv'
  BY <1>2, MarkOnlineStep
<1>3. ASSUME NEW s \in Sockets, MarkOnlineFails(s) PROVE IInv'
  <2>1. handler[s] = "joining" /\ handler' = [handler EXCEPT ![s] = "idle"]
    BY <1>3 DEF MarkOnlineFails
  <2>2. CASE s \in connected
    BY <1>3, <2>1, <2>2, DropStep DEF MarkOnlineFails
  <2>3. CASE s \notin connected
    <3>1. /\ UNCHANGED <<connected, key, replies, silent>>
          /\ \A t \in Sockets : t # s => handler'[t] = handler[t]
      BY <1>3, <2>1, <2>3 DEF MarkOnlineFails, TypeOK
    <3>2. \A i \in DOMAIN replies :
            replies[i].op \in {"setex", "keys"} => replies[i].sock # s
      BY <2>1 DEF IInv, HandshakeInv
    <3>3. HandshakeInv'
      BY <3>1, <3>2, HandshakeSock DEF IInv, HandshakeInv
    <3>4. OrderInv'
      BY <3>1 DEF IInv, OrderInv
    <3>5. NoLateOffline'
      BY <2>3, <3>1 DEF IInv, NoLateOffline, Live, SocketsOf
    <3>6. PresentUserIsOnline'
      BY <2>3, <3>1 DEF IInv, PresentUserIsOnline, Marked
    <3> QED
      BY <3>3, <3>4, <3>5, <3>6 DEF IInv
  <2> QED
    BY <2>2, <2>3
<1>4. ASSUME NEW s \in Sockets, Disconnect(s) PROVE IInv'
  <2>1. /\ s \in connected /\ Drop(s)
        /\ handler' = [handler EXCEPT ![s] = IF @ = "serving" THEN "idle" ELSE @]
    BY <1>4 DEF Disconnect
  <2>2. CASE handler[s] = "serving"
    BY <2>1, <2>2, DropStep
  <2>3. CASE handler[s] # "serving"
    <3>1. handler' = handler
      BY <2>1, <2>3 DEF TypeOK
    <3> QED
      BY <2>1, <3>1, DropStep
  <2> QED
    BY <2>2, <2>3
<1>5. ASSUME NEW s \in Sockets, Heartbeat(s) PROVE IInv'
  <2>1. /\ UNCHANGED <<connected, handler, replies, silent>>
        /\ \A u \in Users : key[u] # "absent" => key'[u] # "absent"
    BY <1>5 DEF Heartbeat, RefreshPresence, TypeOK
  <2> QED
    BY <2>1, OwnerAssumption
    DEF IInv, HandshakeInv, OrderInv, NoLateOffline, Live, SocketsOf,
        PresentUserIsOnline, Marked
<1>6. ASSUME NEW s \in Sockets, GetOnlineUsers(s) PROVE IInv'
  <2> DEFINE command == [op |-> "list", sock |-> s, online |-> OnlineUsers]
  <2>1. command \in Reply
    BY DEF Reply, OnlineUsers
  <2>2. Issue(command) /\ UNCHANGED <<connected, handler, key, silent>>
    BY <1>6 DEF GetOnlineUsers
  <2>3. HandshakeInv' /\ OrderInv' /\ NoLateOffline'
    BY <2>1, <2>2, IssueOrder
  <2> QED
    BY <2>2, <2>3 DEF IInv, PresentUserIsOnline, Marked
<1>7. ASSUME NEW u \in Users, LogoutFindsKeys(u) PROVE IInv'
  <2> DEFINE command == [op |-> "logout", user |-> u, found |-> u \in OnlineUsers]
  <2>1. command \in Reply
    BY DEF Reply
  <2>2. Issue(command) /\ UNCHANGED <<connected, handler, key, silent>>
    BY <1>7 DEF LogoutFindsKeys
  <2>3. HandshakeInv' /\ OrderInv' /\ NoLateOffline'
    BY <2>1, <2>2, IssueOrder
  <2> QED
    BY <2>2, <2>3 DEF IInv, PresentUserIsOnline, Marked
<1>8. ASSUME NEW u \in Users, Age(u) PROVE IInv'
  <2>1. /\ UNCHANGED <<connected, handler, replies>>
        /\ \A v \in Users :
             key[v] # "absent" \/ v \in silent => key'[v] # "absent" \/ v \in silent'
    BY <1>8 DEF Age, TypeOK
  <2> QED
    BY <2>1, OwnerAssumption
    DEF IInv, HandshakeInv, OrderInv, NoLateOffline, Live, SocketsOf,
        PresentUserIsOnline, Marked
<1>9. CASE HandleReply
  BY <1>9, HandleReplyStep
<1>10. CASE Crash
  BY <1>10
  DEF Crash, IInv, HandshakeInv, OrderInv, NoLateOffline, PresentUserIsOnline, Marked
<1>11. CASE UNCHANGED vars
  BY <1>11
  DEF vars, IInv, HandshakeInv, OrderInv, NoLateOffline, Live, SocketsOf,
      PresentUserIsOnline, Marked
<1> QED
  BY <1>1, <1>2, <1>3, <1>4, <1>5, <1>6, <1>7, <1>8, <1>9, <1>10, <1>11
  DEF Next, Running

LEMMA IInvInvariant == Spec => [](TypeOK /\ IInv)
<1>1. Init => TypeOK
  BY EmptySeq DEF Init, TypeOK, Phase, KeyState
<1>2. Init => IInv
  BY DEF Init, IInv, HandshakeInv, OrderInv, NoLateOffline, PresentUserIsOnline, Marked
<1>3. TypeOK /\ IInv /\ [Next]_vars => (TypeOK /\ IInv)'
  BY TypeStep, IInvStep
<1> QED
  BY <1>1, <1>2, <1>3, PTL DEF Spec

(* The key of a user with a marked socket is there, unless time or a       *)
(* logout took it: no order of connects, disconnects, failed handshakes    *)
(* and replies of Redis takes a present user offline.                      *)
THEOREM PresenceKeyStays == Spec => []PresentUserIsOnline
<1>1. IInv => PresentUserIsOnline
  BY DEF IInv
<1> QED
  BY <1>1, IInvInvariant, PTL

(* user_offline never overtakes the user_online of a reconnect.            *)
THEOREM OfflineNeverLate == Spec => []NoLateOffline
<1>1. IInv => NoLateOffline
  BY DEF IInv
<1> QED
  BY <1>1, IInvInvariant, PTL

-----------------------------------------------------------------------------
(* What the clients show.  A reply about user u ends in an announcement of *)
(* u.                                                                      *)
About(r, u) ==
  \/ r.op \in {"setex", "keys"} /\ Owner[r.sock] = u
  \/ r.op = "del" /\ r.user = u
Behind(q, i, u) == \E j \in DOMAIN q : i < j /\ About(q[j], u)

(* A list of users on its way is up to date, and so is a deleted key,      *)
(* unless an announcement is on its way behind it: Redis answers in order. *)
ListInv ==
  \A i \in DOMAIN replies : replies[i].op \in {"list", "keys"} =>
    \A u \in Users \ (silent \cup overtaken) :
      (u \in replies[i].online <=> key[u] # "absent") \/ Behind(replies, i, u)
DelInv ==
  \A i \in DOMAIN replies : replies[i].op = "del" =>
    key[replies[i].user] = "absent" \/ Behind(replies, i, replies[i].user)
PictureInv == ListInv /\ DelInv /\ ViewsAgree

LEMMA ReplyUser ==
  /\ \A r \in Reply : r.op = "del" => r.user \in Users
  /\ \A r \in Reply : r.op \in {"list", "keys"} => r.online \in SUBSET Users /\ r.sock \in Sockets
  /\ \A r \in Reply : r.op = "setex" => r.sock \in Sockets
  BY DEF Reply

(* One command more.                                                       *)
LEMMA QueueGrows ==
  ASSUME TypeOK, ListInv, DelInv, NEW command \in Reply, Issue(command),
         \A u \in Users \ (silent' \cup overtaken') :
           \/ About(command, u)
           \/ u \notin silent \cup overtaken /\ (key'[u] = "absent" <=> key[u] = "absent"),
         \A u \in Users : key[u] = "absent" => key'[u] = "absent" \/ About(command, u),
         command.op \in {"list", "keys"} =>
           \A u \in Users : u \in command.online <=> key'[u] # "absent",
         command.op = "del" => key'[command.user] = "absent"
  PROVE  ListInv' /\ DelInv'
<1>1. /\ Len(replies) \in Nat
      /\ DOMAIN replies = 1 .. Len(replies)
      /\ DOMAIN replies' = 1 .. (Len(replies) + 1)
      /\ \A i \in 1 .. Len(replies) : replies'[i] = replies[i]
      /\ replies'[Len(replies) + 1] = command
  BY IssueIndices DEF TypeOK
<1>2. \A i \in DOMAIN replies' :
        \/ i \in DOMAIN replies /\ replies'[i] = replies[i]
        \/ replies'[i] = command
  BY <1>1
<1>3. ASSUME NEW i \in DOMAIN replies, NEW u
      PROVE  Behind(replies, i, u) \/ About(command, u) => Behind(replies', i, u)
  <2>1. i < Len(replies) + 1 /\ Len(replies) + 1 \in DOMAIN replies'
    BY <1>1
  <2>2. \A j \in DOMAIN replies : j \in DOMAIN replies' /\ replies'[j] = replies[j]
    BY <1>1
  <2>3. QED
    BY <1>1, <2>1, <2>2 DEF Behind
<1>4. ListInv'
  <2> SUFFICES ASSUME NEW i \in DOMAIN replies', replies'[i].op \in {"list", "keys"},
                      NEW u \in Users \ (silent' \cup overtaken')
               PROVE  (u \in replies'[i].online <=> key'[u] # "absent") \/ Behind(replies', i, u)
    BY DEF ListInv
  <2>1. CASE replies'[i] = command
    BY <2>1
  <2>2. CASE i \in DOMAIN replies /\ replies'[i] = replies[i]
    BY <1>3, <2>2 DEF ListInv
  <2>3. QED
    BY <1>2, <2>1, <2>2
<1>5. DelInv'
  <2> SUFFICES ASSUME NEW i \in DOMAIN replies', replies'[i].op = "del"
               PROVE  key'[replies'[i].user] = "absent" \/ Behind(replies', i, replies'[i].user)
    BY DEF DelInv
  <2>1. CASE replies'[i] = command
    BY <2>1
  <2>2. CASE i \in DOMAIN replies /\ replies'[i] = replies[i]
    <3>1. replies[i].user \in Users
      BY <2>2, ReplyUser DEF TypeOK
    <3>2. QED
      BY <1>3, <2>2, <3>1 DEF DelInv
  <2>3. QED
    BY <1>2, <2>1, <2>2
<1>6. QED
  BY <1>4, <1>5

(* The oldest reply is handled: it is behind no other.                     *)
LEMMA QueueShifts ==
  ASSUME TypeOK, ListInv, DelInv, replies # <<>>, replies' = Tail(replies),
         silent \subseteq silent', overtaken \subseteq overtaken',
         \A u \in Users : key[u] = "absent" => key'[u] = "absent",
         \A u \in Users \ silent' : key'[u] = key[u]
  PROVE  ListInv' /\ DelInv'
<1>1. /\ Len(replies) \in Nat \ {0}
      /\ DOMAIN replies = 1 .. Len(replies)
      /\ DOMAIN replies' = 1 .. (Len(replies) - 1)
      /\ \A i \in 1 .. (Len(replies) - 1) : replies'[i] = replies[i + 1]
  BY TailIndices DEF TypeOK
<1>2. \A i \in DOMAIN replies' : i + 1 \in DOMAIN replies /\ replies'[i] = replies[i + 1]
  BY <1>1
<1>3. ASSUME NEW i \in DOMAIN replies', NEW u, Behind(replies, i + 1, u)
      PROVE  Behind(replies', i, u)
  <2>1. PICK j \in DOMAIN replies : i + 1 < j /\ About(replies[j], u)
    BY <1>3 DEF Behind
  <2>2. PICK k : k = j - 1
    OBVIOUS
  <2>3. k \in DOMAIN replies' /\ i < k /\ k + 1 = j
    BY <1>1, <2>1, <2>2
  <2>4. QED
    BY <1>2, <2>1, <2>3 DEF Behind
<1>4. ListInv'
  BY <1>2, <1>3 DEF ListInv
<1>5. DelInv'
  <2> SUFFICES ASSUME NEW i \in DOMAIN replies', replies'[i].op = "del"
               PROVE  key'[replies'[i].user] = "absent" \/ Behind(replies', i, replies'[i].user)
    BY DEF DelInv
  <2>1. i + 1 \in DOMAIN replies /\ replies'[i] = replies[i + 1]
    BY <1>2
  <2>2. replies[i + 1].user \in Users
    BY <2>1, ReplyUser DEF TypeOK
  <2>3. QED
    BY <1>3, <2>1, <2>2 DEF DelInv
<1>6. QED
  BY <1>4, <1>5

LEMMA QueueStays ==
  ASSUME TypeOK, ListInv, DelInv, replies' = replies,
         silent \subseteq silent', overtaken \subseteq overtaken',
         \A u \in Users : key[u] = "absent" => key'[u] = "absent",
         \A u \in Users \ silent' : key'[u] = "absent" <=> key[u] = "absent"
  PROVE  ListInv' /\ DelInv'
<1>1. ListInv'
  BY DEF ListInv
<1>2. DelInv'
  <2>1. \A i \in DOMAIN replies : replies[i].op = "del" => replies[i].user \in Users
    BY ReplyUser DEF TypeOK
  <2>2. QED
    BY <2>1 DEF DelInv
<1>3. QED
  BY <1>1, <1>2

(* Nothing that is to be announced changes what a client shows.            *)
LEMMA ViewsStay ==
  ASSUME ViewsAgree,
         \A s \in connected' : handler'[s] = "serving" =>
           /\ s \in connected /\ handler[s] = "serving"
           /\ \A u \in Users \ (silent' \cup overtaken') :
                \/ Announcing(u)'
                \/ /\ u \notin silent \cup overtaken /\ ~Announcing(u)
                   /\ u \in view'[s] <=> u \in view[s]
                   /\ key'[u] = "absent" <=> key[u] = "absent"
  PROVE  ViewsAgree'
  BY DEF ViewsAgree

(* What is in the queue or marked stays to be announced.                   *)
LEMMA AnnouncingStays ==
  ASSUME NEW u \in Users, Announcing(u),
         \A s \in SocketsOf(u) : handler[s] \in {"marking", "fetching"} =>
                                   handler'[s] \in {"marking", "fetching"},
         \A i \in DOMAIN replies : replies[i].op = "del" /\ replies[i].user = u =>
           \E j \in DOMAIN replies' : replies'[j].op = "del" /\ replies'[j].user = u
  PROVE  Announcing(u)'
  BY DEF Announcing, SocketsOf

LEMMA BehindAnnounces ==
  ASSUME TypeOK, HandshakeInv, NEW i \in DOMAIN replies, NEW u \in Users, Behind(replies, i, u)
  PROVE  Announcing(u)
<1>1. PICK j \in DOMAIN replies : About(replies[j], u)
  BY DEF Behind
<1>2. CASE replies[j].op \in {"setex", "keys"} /\ Owner[replies[j].sock] = u
  <2>1. replies[j].sock \in SocketsOf(u)
    BY <1>2, HandshakeSock DEF SocketsOf
  <2>2. handler[replies[j].sock] \in {"marking", "fetching"}
    BY <1>2 DEF HandshakeInv
  <2>3. QED
    BY <2>1, <2>2 DEF Announcing
<1>3. CASE replies[j].op = "del" /\ replies[j].user = u
  BY <1>3 DEF Announcing
<1>4. QED
  BY <1>1, <1>2, <1>3 DEF About

(* A step that handles no reply and issues no command.                     *)
LEMMA PictureStays ==
  ASSUME TypeOK, PictureInv, replies' = replies,
         silent \subseteq silent', overtaken \subseteq overtaken',
         \A u \in Users : key[u] = "absent" => key'[u] = "absent",
         \A u \in Users \ silent' : key'[u] = "absent" <=> key[u] = "absent",
         \A t \in Sockets : handler[t] \in {"marking", "fetching"} => handler'[t] = handler[t],
         \A t \in connected' : handler'[t] = "serving" =>
           t \in connected /\ handler[t] = "serving" /\ view'[t] = view[t]
  PROVE  PictureInv'
<1>1. ListInv' /\ DelInv'
  BY QueueStays DEF PictureInv
<1>2. \A u \in Users : Announcing(u) => Announcing(u)'
  BY AnnouncingStays DEF SocketsOf
<1>3. ViewsAgree'
  BY <1>2, ViewsStay DEF PictureInv
<1>4. QED
  BY <1>1, <1>3 DEF PictureInv

(* A step that issues a command.                                           *)
LEMMA PictureGrows ==
  ASSUME TypeOK, PictureInv, NEW command \in Reply, Issue(command),
         \A u \in Users \ (silent' \cup overtaken') :
           \/ About(command, u)
           \/ u \notin silent \cup overtaken /\ (key'[u] = "absent" <=> key[u] = "absent"),
         \A u \in Users : key[u] = "absent" => key'[u] = "absent" \/ About(command, u),
         command.op \in {"list", "keys"} =>
           \A u \in Users : u \in command.online <=> key'[u] # "absent",
         command.op = "del" => key'[command.user] = "absent",
         command.op \in {"setex", "keys"} => handler'[command.sock] \in {"marking", "fetching"},
         \A t \in Sockets : handler[t] \in {"marking", "fetching"} => handler'[t] = handler[t],
         \A t \in connected' : handler'[t] = "serving" =>
           t \in connected /\ handler[t] = "serving" /\ view'[t] = view[t]
  PROVE  PictureInv'
<1>1. ListInv' /\ DelInv'
  BY QueueGrows DEF PictureInv
<1>2. /\ Len(replies) \in Nat
      /\ DOMAIN replies = 1 .. Len(replies)
      /\ DOMAIN replies' = 1 .. (Len(replies) + 1)
      /\ \A i \in 1 .. Len(replies) : replies'[i] = replies[i]
      /\ replies'[Len(replies) + 1] = command
  BY IssueIndices DEF TypeOK
<1>3. /\ \A i \in DOMAIN replies : i \in DOMAIN replies' /\ replies'[i] = replies[i]
      /\ \E i \in DOMAIN replies' : replies'[i] = command
  BY <1>2
<1>4. \A u \in Users : Announcing(u) => Announcing(u)'
  BY <1>3, AnnouncingStays DEF SocketsOf
<1>5. \A u \in Users : About(command, u) => Announcing(u)'
  <2>1. command.op \in {"setex", "keys"} => command.sock \in Sockets
    BY ReplyUser
  <2>2. QED
    BY <1>3, <2>1 DEF About, Announcing, SocketsOf
<1>6. ViewsAgree'
  BY <1>4, <1>5, ViewsStay DEF PictureInv
<1>7. QED
  BY <1>1, <1>6 DEF PictureInv

(* The oldest reply is handled: what is announced still is, if it is       *)
(* behind, or about another user.                                          *)
LEMMA ShiftAnnounces ==
  ASSUME TypeOK, replies # <<>>, replies' = Tail(replies), NEW u \in Users, Announcing(u),
         ~About(Head(replies), u),
         \A t \in Sockets : handler[t] \in {"marking", "fetching"} =>
                              handler'[t] = handler[t] \/ Owner[t] # u
  PROVE  Announcing(u)'
<1>1. /\ Len(replies) \in Nat \ {0}
      /\ DOMAIN replies = 1 .. Len(replies)
      /\ DOMAIN replies' = 1 .. (Len(replies) - 1)
      /\ \A i \in 1 .. (Len(replies) - 1) : replies'[i] = replies[i + 1]
      /\ Head(replies) = replies[1]
  BY TailIndices DEF TypeOK
<1>2. ASSUME NEW i \in DOMAIN replies, replies[i].op = "del", replies[i].user = u
      PROVE  \E j \in DOMAIN replies' : replies'[j].op = "del" /\ replies'[j].user = u
  <2>1. i # 1
    BY <1>1, <1>2 DEF About
  <2>2. PICK k : k = i - 1
    OBVIOUS
  <2>3. k \in DOMAIN replies' /\ replies'[k] = replies[i]
    BY <1>1, <2>1, <2>2
  <2>4. QED
    BY <1>2, <2>3
<1>3. QED
  BY <1>2, AnnouncingStays DEF SocketsOf

(* What the oldest reply says is so, unless an announcement is behind it.  *)
LEMMA HeadIsCurrent ==
  ASSUME TypeOK, IInv, PictureInv, replies # <<>>
  PROVE  /\ Head(replies).op \in {"list", "keys"} =>
              \A u \in Users \ (silent \cup overtaken) :
                (u \in Head(replies).online <=> key[u] # "absent") \/ Behind(replies, 1, u)
         /\ Head(replies).op = "del" =>
              key[Head(replies).user] = "absent" \/ Behind(replies, 1, Head(replies).user)
<1>1. 1 \in DOMAIN replies /\ Head(replies) = replies[1]
  BY TailIndices DEF TypeOK
<1>2. QED
  BY <1>1 DEF PictureInv, ListInv, DelInv

(* An announcement that is behind the oldest reply is still to come when   *)
(* that has been handled.                                                  *)
LEMMA BehindHead ==
  ASSUME TypeOK, HandshakeInv, replies # <<>>, replies' = Tail(replies),
         NEW u \in Users, Behind(replies, 1, u),
         \A t \in Sockets : handler[t] \in {"marking", "fetching"} =>
           \/ handler'[t] = handler[t]
           \/ Head(replies).op \in {"setex", "keys"} /\ Head(replies).sock = t
  PROVE  Announcing(u)'
<1>1. /\ Len(replies) \in Nat \ {0}
      /\ DOMAIN replies = 1 .. Len(replies)
      /\ DOMAIN replies' = 1 .. (Len(replies) - 1)
      /\ \A i \in 1 .. (Len(replies) - 1) : replies'[i] = replies[i + 1]
      /\ Head(replies) = replies[1]
  BY TailIndices DEF TypeOK
<1>2. PICK j \in DOMAIN replies : 1 < j /\ About(replies[j], u)
  BY DEF Behind
<1>3. CASE replies[j].op \in {"setex", "keys"} /\ Owner[replies[j].sock] = u
  <2>1. replies[j].sock \in SocketsOf(u) /\ replies[j].sock \in Sockets
    BY <1>3, HandshakeSock DEF SocketsOf
  <2>2. handler[replies[j].sock] \in {"marking", "fetching"}
    BY <1>3 DEF HandshakeInv
  <2>3. ~(replies[1].op \in {"setex", "keys"} /\ replies[1].sock = replies[j].sock)
    <3>1. 1 \in DOMAIN replies /\ j # 1
      BY <1>1, <1>2
    <3>2. QED
      BY <1>3, <3>1 DEF HandshakeInv
  <2>4. handler'[replies[j].sock] \in {"marking", "fetching"}
    BY <1>1, <2>1, <2>2, <2>3
  <2>5. QED
    BY <2>1, <2>4 DEF Announcing, SocketsOf
<1>4. CASE replies[j].op = "del" /\ replies[j].user = u
  <2>1. PICK k : k = j - 1
    OBVIOUS
  <2>2. k \in DOMAIN replies' /\ replies'[k] = replies[j]
    BY <1>1, <1>2, <2>1
  <2>3. QED
    BY <1>4, <2>2 DEF Announcing
<1>5. QED
  BY <1>2, <1>3, <1>4 DEF About

-----------------------------------------------------------------------------
(* The steps that nobody waits for.                                        *)
LEMMA QuietPicture ==
  ASSUME TypeOK, IInv, PictureInv,
         \/ \E s \in Sockets : Connect(s) \/ Heartbeat(s)
         \/ \E u \in Users : Age(u)
  PROVE  PictureInv'
<1>1. ASSUME NEW s \in Sockets, Connect(s) PROVE PictureInv'
  <2>1. /\ handler[s] = "idle" /\ connected' = connected \cup {s}
        /\ UNCHANGED <<key, replies, view, silent, overtaken>>
        /\ \A t \in Sockets : handler'[t] = IF t = s THEN "joining" ELSE handler[t]
    BY <1>1 DEF Connect, TypeOK
  <2>2. \A t \in connected' : t \in Sockets
    BY <2>1 DEF TypeOK
  <2>3. QED
    BY <2>1, <2>2, PictureStays
<1>2. ASSUME NEW s \in Sockets, Heartbeat(s) PROVE PictureInv'
  <2>1. /\ UNCHANGED <<connected, handler, replies, view, silent, overtaken>>
        /\ \A u \in Users : key'[u] = "absent" <=> key[u] = "absent"
    BY <1>2 DEF Heartbeat, RefreshPresence, TypeOK
  <2>2. QED
    BY <2>1, PictureStays
<1>3. ASSUME NEW u \in Users, Age(u) PROVE PictureInv'
  <2>1. /\ UNCHANGED <<connected, handler, replies, view, overtaken>>
        /\ key[u] \in {"fresh", "due"}
        /\ silent' = IF key[u] = "due" THEN silent \cup {u} ELSE silent
        /\ \A v \in Users : key'[v] = IF v # u THEN key[v]
                                      ELSE IF key[u] = "fresh" THEN "due" ELSE "absent"
    BY <1>3 DEF Age, TypeOK
  <2>2. /\ silent \subseteq silent'
        /\ \A v \in Users : key[v] = "absent" => key'[v] = "absent"
        /\ \A v \in Users \ silent' : key'[v] = "absent" <=> key[v] = "absent"
    BY <2>1
  <2>3. QED
    BY <2>1, <2>2, PictureStays
<1>4. QED
  BY <1>1, <1>2, <1>3

LEMMA MarkOnlinePicture ==
  ASSUME TypeOK, IInv, PictureInv, NEW s \in Sockets, MarkOnline(s)
  PROVE  PictureInv'
<1>1. PICK command : command = [op |-> "setex", sock |-> s]
  OBVIOUS
<1>2. /\ command \in Reply /\ command.op = "setex" /\ command.sock = s
      /\ Issue(command) /\ Owner[s] \in Users
  BY <1>1, OwnerAssumption DEF Reply, MarkOnline
<1>3. /\ handler[s] = "joining" /\ UNCHANGED <<connected, view, overtaken>>
      /\ silent' = silent \ {Owner[s]}
      /\ \A t \in Sockets : handler'[t] = IF t = s THEN "marking" ELSE handler[t]
      /\ \A u \in Users : u # Owner[s] => key'[u] = key[u]
  BY <1>2 DEF MarkOnline, SetOnline, TypeOK
<1>4. About(command, Owner[s])
  BY <1>2 DEF About
<1>5. connected' \subseteq Sockets
  BY <1>3 DEF TypeOK
<1>6. \A u \in Users \ (silent' \cup overtaken') :
        \/ About(command, u)
        \/ u \notin silent \cup overtaken /\ (key'[u] = "absent" <=> key[u] = "absent")
  BY <1>3, <1>4
<1>7. \A u \in Users : key[u] = "absent" => key'[u] = "absent" \/ About(command, u)
  BY <1>3, <1>4
<1>8. \A t \in Sockets : handler[t] \in {"marking", "fetching"} => handler'[t] = handler[t]
  BY <1>3
<1>9. \A t \in connected' : handler'[t] = "serving" =>
        t \in connected /\ handler[t] = "serving" /\ view'[t] = view[t]
  BY <1>3, <1>5
<1>10. handler'[command.sock] \in {"marking", "fetching"}
  BY <1>2, <1>3
<1>11. QED
  BY <1>2, <1>6, <1>7, <1>8, <1>9, <1>10, PictureGrows

(* A socket goes away: the last one of its user has the key deleted.       *)
LEMMA DropPicture ==
  ASSUME TypeOK, IInv, PictureInv, NEW s \in Sockets, Drop(s),
         \/ handler' = handler
         \/ /\ handler[s] \in {"joining", "serving"}
            /\ handler' = [handler EXCEPT ![s] = "idle"]
  PROVE  PictureInv'
<1>1. /\ connected' = connected \ {s} /\ connected' \subseteq Sockets
      /\ view \in [Sockets -> SUBSET Users] /\ view' = [view EXCEPT ![s] = {}]
      /\ Owner[s] \in Users
  BY OwnerAssumption DEF Drop, TypeOK
<1>2. /\ \A t \in Sockets : handler[t] \in {"marking", "fetching"} => handler'[t] = handler[t]
      /\ \A t \in Sockets : t # s => handler'[t] = handler[t]
  BY DEF TypeOK
<1>3. \A t \in connected' : handler'[t] = "serving" =>
        t \in connected /\ handler[t] = "serving" /\ view'[t] = view[t]
  BY <1>1, <1>2
<1>4. CASE UNCHANGED <<key, silent, overtaken, replies>>
  BY <1>2, <1>3, <1>4, PictureStays
<1>5. CASE /\ key' = SetOffline(Owner[s])
           /\ silent' = silent \ {Owner[s]} /\ overtaken' = overtaken \ {Owner[s]}
           /\ Issue([op |-> "del", user |-> Owner[s]])
  <2>1. PICK command : command = [op |-> "del", user |-> Owner[s]]
    OBVIOUS
  <2>2. /\ command \in Reply /\ command.op = "del" /\ command.user = Owner[s]
        /\ Issue(command)
    BY <1>1, <1>5, <2>1 DEF Reply
  <2>3. \A u \in Users : key'[u] = IF u = Owner[s] THEN "absent" ELSE key[u]
    BY <1>5 DEF SetOffline, TypeOK
  <2>4. About(command, Owner[s])
    BY <2>2 DEF About
  <2>5. \A u \in Users \ (silent' \cup overtaken') :
          \/ About(command, u)
          \/ u \notin silent \cup overtaken /\ (key'[u] = "absent" <=> key[u] = "absent")
    BY <1>5, <2>3, <2>4
  <2>6. key'[command.user] = "absent" /\ \A u \in Users : key[u] = "absent" => key'[u] = "absent"
    BY <1>1, <2>2, <2>3
  <2>7. QED
    BY <1>2, <1>3, <2>2, <2>5, <2>6, PictureGrows
<1>6. QED
  BY <1>4, <1>5 DEF Drop

LEMMA RequestPicture ==
  ASSUME TypeOK, IInv, PictureInv,
         \/ \E s \in Sockets : GetOnlineUsers(s)
         \/ \E u \in Users : LogoutFindsKeys(u)
  PROVE  PictureInv'
<1>1. PICK command \in Reply :
        /\ Issue(command) /\ command.op \in {"list", "logout"}
        /\ command.op = "list" => command.online = OnlineUsers
        /\ UNCHANGED <<connected, handler, key, view, silent, overtaken>>
  <2>1. ASSUME NEW s \in Sockets, GetOnlineUsers(s)
        PROVE  \E command \in Reply :
                 /\ Issue(command) /\ command.op \in {"list", "logout"}
                 /\ command.op = "list" => command.online = OnlineUsers
                 /\ UNCHANGED <<connected, handler, key, view, silent, overtaken>>
    <3>1. PICK command : command = [op |-> "list", sock |-> s, online |-> OnlineUsers]
      OBVIOUS
    <3>2. command \in Reply /\ command.op = "list" /\ command.online = OnlineUsers /\ Issue(command)
      BY <2>1, <3>1 DEF Reply, OnlineUsers, GetOnlineUsers
    <3>3. QED
      BY <2>1, <3>2 DEF GetOnlineUsers
  <2>2. ASSUME NEW u \in Users, LogoutFindsKeys(u)
        PROVE  \E command \in Reply :
                 /\ Issue(command) /\ command.op \in {"list", "logout"}
                 /\ command.op = "list" => command.online = OnlineUsers
                 /\ UNCHANGED <<connected, handler, key, view, silent, overtaken>>
    <3>1. PICK command : command = [op |-> "logout", user |-> u, found |-> u \in OnlineUsers]
      OBVIOUS
    <3>2. command \in Reply /\ command.op = "logout" /\ Issue(command)
      BY <2>2, <3>1 DEF Reply, LogoutFindsKeys
    <3>3. QED
      BY <2>2, <3>2 DEF LogoutFindsKeys
  <2>3. QED
    BY <2>1, <2>2
<1>2. command.op \in {"list", "keys"} =>
        \A u \in Users : u \in command.online <=> key'[u] # "absent"
  BY <1>1 DEF OnlineUsers
<1>3. QED
  BY <1>1, <1>2, PictureGrows

-----------------------------------------------------------------------------
(* The replies.                                                            *)

(* SETEX is answered: the list that is asked for is that of now.           *)
LEMMA OnMarkedPicture ==
  ASSUME TypeOK, IInv, PictureInv, replies # <<>>, Head(replies).op = "setex",
         OnMarked(Head(replies).sock)
  PROVE  PictureInv'
<1>1. PICK s, n : s = Head(replies).sock /\ n = Len(replies) - 1
  OBVIOUS
<1>2. /\ n \in Nat
      /\ DOMAIN replies = 1 .. (n + 1)
      /\ Tail(replies) \in Seq(Reply) /\ Len(Tail(replies)) = n
      /\ \A i \in 1 .. n : Tail(replies)[i] = replies[i + 1]
      /\ Head(replies) = replies[1]
  BY <1>1, TailIndices DEF TypeOK
<1>3. s \in Sockets /\ handler[s] = "marking"
  <2>1. 1 \in DOMAIN replies
    BY <1>2
  <2>2. QED
    BY <1>1, <1>2, <2>1, HandshakeSock DEF IInv, HandshakeInv
<1>4. PICK command : command = [op |-> "keys", sock |-> s, online |-> OnlineUsers]
  OBVIOUS
<1>5. /\ command \in Reply /\ command.op = "keys" /\ command.sock = s /\ command.online = OnlineUsers
      /\ replies' = Append(Tail(replies), command)
      /\ UNCHANGED <<connected, key, view, silent, overtaken>>
      /\ handler' = [handler EXCEPT ![s] = "fetching"]
  BY <1>1, <1>3, <1>4 DEF Reply, OnlineUsers, OnMarked
<1>6. /\ DOMAIN replies' = 1 .. (n + 1)
      /\ \A i \in 1 .. n : replies'[i] = replies[i + 1]
      /\ replies'[n + 1] = command
  <2>1. /\ Append(Tail(replies), command) \in Seq(Reply)
        /\ Len(Append(Tail(replies), command)) = n + 1
        /\ \A i \in 1 .. n : Append(Tail(replies), command)[i] = Tail(replies)[i]
        /\ Append(Tail(replies), command)[n + 1] = command
    BY <1>2, <1>5, AppendProperties
  <2>2. DOMAIN Append(Tail(replies), command) = 1 .. (n + 1)
    BY <2>1, LenProperties
  <2>3. QED
    BY <1>2, <1>5, <2>1, <2>2
<1>7. \A i \in DOMAIN replies' :
        \/ i + 1 \in DOMAIN replies /\ replies'[i] = replies[i + 1]
        \/ replies'[i] = command
  BY <1>2, <1>6
<1>8. ASSUME NEW i \in DOMAIN replies', NEW u, Behind(replies, i + 1, u)
      PROVE  Behind(replies', i, u)
  <2>1. PICK j \in DOMAIN replies : i + 1 < j /\ About(replies[j], u)
    BY <1>8 DEF Behind
  <2>2. PICK k : k = j - 1
    OBVIOUS
  <2>3. k \in 1 .. n /\ k \in DOMAIN replies' /\ i < k /\ k + 1 = j
    BY <1>2, <1>6, <2>1, <2>2
  <2>4. QED
    BY <1>6, <2>1, <2>3 DEF Behind
<1>9. \A u \in Users : u \in command.online <=> key'[u] # "absent"
  BY <1>5 DEF OnlineUsers
<1>10. ListInv'
  BY <1>5, <1>7, <1>8, <1>9 DEF PictureInv, ListInv
<1>11. DelInv'
  BY <1>5, <1>7, <1>8 DEF PictureInv, DelInv
<1>12. \A t \in Sockets : handler'[t] = IF t = s THEN "fetching" ELSE handler[t]
  BY <1>5 DEF TypeOK
<1>13. ASSUME NEW u \in Users, Announcing(u) PROVE Announcing(u)'
  <2>1. ASSUME NEW i \in DOMAIN replies, replies[i].op = "del", replies[i].user = u
        PROVE  \E j \in DOMAIN replies' : replies'[j].op = "del" /\ replies'[j].user = u
    <3>1. i # 1
      BY <1>2, <2>1
    <3>2. PICK k : k = i - 1
      OBVIOUS
    <3>3. k \in DOMAIN replies' /\ replies'[k] = replies[i]
      BY <1>2, <1>6, <3>1, <3>2
    <3>4. QED
      BY <2>1, <3>3
  <2>2. QED
    BY <1>3, <1>12, <1>13, <2>1, AnnouncingStays DEF SocketsOf
<1>14. connected' \subseteq Sockets
  BY <1>5 DEF TypeOK
<1>15. ViewsAgree'
  BY <1>5, <1>12, <1>13, <1>14, ViewsStay DEF PictureInv
<1>16. QED
  BY <1>10, <1>11, <1>15 DEF PictureInv

(* The list of a handshake and the announcement of its user.               *)
LEMMA OnFetchedPicture ==
  ASSUME TypeOK, IInv, PictureInv, replies # <<>>, Head(replies).op = "keys",
         OnFetched(Head(replies).sock, Head(replies).online)
  PROVE  PictureInv'
<1>1. PICK s, online : s = Head(replies).sock /\ online = Head(replies).online
  OBVIOUS
<1>2. PICK w : w = Owner[s]
  OBVIOUS
<1>3. 1 \in DOMAIN replies /\ Head(replies) = replies[1] /\ Head(replies) \in Reply
  BY TailIndices, HeadTailProperties DEF TypeOK
<1>4. s \in Sockets /\ handler[s] = "fetching" /\ w \in Users
  BY <1>1, <1>2, <1>3, HandshakeSock, OwnerAssumption DEF IInv, HandshakeInv
<1>5. /\ replies' = Tail(replies) /\ UNCHANGED <<connected, key, silent>>
      /\ overtaken' = IF s \in connected THEN overtaken ELSE overtaken \cup {w}
      /\ view' = IF s \in connected THEN [ShowOnline(w) EXCEPT ![s] = online \cup {w}]
                 ELSE ShowOnline(w)
      /\ \A t \in Sockets : t # s => handler'[t] = handler[t]
      /\ s \notin connected => handler'[s] = "idle"
  BY <1>1, <1>2, <1>4 DEF OnFetched, TypeOK
<1>6. ListInv' /\ DelInv'
  <2>1. silent \subseteq silent' /\ overtaken \subseteq overtaken'
    BY <1>5
  <2>2. QED
    BY <1>5, <2>1, QueueShifts DEF PictureInv
<1>7. \A t \in Sockets : handler[t] \in {"marking", "fetching"} =>
        \/ handler'[t] = handler[t]
        \/ Head(replies).op \in {"setex", "keys"} /\ Head(replies).sock = t
  BY <1>1, <1>5
<1>8. ViewsAgree'
  <2> SUFFICES ASSUME NEW t \in connected', NEW u \in Users,
                      handler'[t] = "serving", ~Announcing(u)', u \notin silent' \cup overtaken'
               PROVE  u \in view'[t] <=> key'[u] # "absent"
    BY DEF ViewsAgree
  <2>1. t \in Sockets /\ t \in connected /\ (t = s => s \in connected) /\ u \notin silent \cup overtaken
    BY <1>5 DEF TypeOK
  <2>2. view'[t] = IF t = s THEN online \cup {w} ELSE view[t] \cup {w}
    <3>1. ShowOnline(w) \in [Sockets -> SUBSET Users]
      BY <1>4 DEF ShowOnline, TypeOK
    <3>2. ShowOnline(w)[t] = view[t] \cup {w}
      BY <2>1 DEF ShowOnline
    <3>3. QED
      BY <1>5, <2>1, <3>1, <3>2
  <2>3. CASE u = w
    <3>1. s \in connected
      BY <1>5, <2>3
    <3>2. Marked(s)
      BY <1>4, <3>1 DEF Marked
    <3>3. key[u] # "absent"
      BY <1>2, <1>4, <2>1, <2>3, <3>2 DEF IInv, PresentUserIsOnline
    <3>4. QED
      BY <1>5, <2>2, <2>3, <3>3
  <2>4. CASE u # w /\ t = s
    <3>1. ~Behind(replies, 1, u)
      BY <1>5, <1>7, BehindHead DEF IInv
    <3>2. u \in online <=> key[u] # "absent"
      BY <1>1, <2>1, <3>1, HeadIsCurrent
    <3>3. QED
      BY <1>5, <2>2, <2>4, <3>2
  <2>5. CASE u # w /\ t # s
    <3>1. ~About(Head(replies), u)
      BY <1>1, <1>2, <2>5 DEF About
    <3>2. \A r \in Sockets : handler[r] \in {"marking", "fetching"} =>
                              handler'[r] = handler[r] \/ Owner[r] # u
      BY <1>2, <1>5, <2>5
    <3>3. ~Announcing(u)
      BY <1>5, <3>1, <3>2, ShiftAnnounces
    <3>4. handler[t] = "serving"
      BY <1>5, <2>1, <2>5
    <3>5. u \in view[t] <=> key[u] # "absent"
      BY <2>1, <3>3, <3>4 DEF PictureInv, ViewsAgree
    <3>6. QED
      BY <1>5, <2>2, <2>5, <3>5
  <2>6. QED
    BY <2>3, <2>4, <2>5
<1>9. QED
  BY <1>6, <1>8 DEF PictureInv

LEMMA OtherReplyPicture ==
  ASSUME TypeOK, IInv, PictureInv, replies # <<>>, NEW r, r = Head(replies), r \in Reply,
         \/ r.op = "list" /\ OnListed(r.sock, r.online)
         \/ r.op = "del" /\ OnDeleted(r.user)
         \/ r.op = "logout" /\ OnLogoutKeys(r.user, r.found)
  PROVE  PictureInv'
<1>1. /\ replies' = Tail(replies) /\ UNCHANGED <<connected, handler, overtaken>>
      /\ connected' \subseteq Sockets
  BY DEF OnListed, OnDeleted, OnLogoutKeys, TypeOK
<1>2. \A u \in Users : Announcing(u) /\ ~About(r, u) => Announcing(u)'
  BY <1>1, ShiftAnnounces
<1>3. \A u \in Users : Behind(replies, 1, u) => Announcing(u)'
  BY <1>1, BehindHead DEF IInv
<1>4. CASE r.op = "list" /\ OnListed(r.sock, r.online)
  <2>1. /\ UNCHANGED <<key, silent>> /\ r.sock \in Sockets
        /\ \A t \in connected : view'[t] = IF t = r.sock THEN r.online ELSE view[t]
    BY <1>1, <1>4, ReplyUser DEF OnListed, TypeOK
  <2>2. ListInv' /\ DelInv'
    BY <1>1, <2>1, QueueShifts DEF PictureInv
  <2>3. \A u \in Users : ~About(r, u)
    BY <1>4 DEF About
  <2>4. \A u \in Users \ (silent \cup overtaken) :
          (u \in r.online <=> key[u] # "absent") \/ Behind(replies, 1, u)
    BY <1>4, HeadIsCurrent
  <2>5. ViewsAgree'
    <3> SUFFICES ASSUME NEW t \in connected', NEW u \in Users,
                        handler'[t] = "serving", ~Announcing(u)', u \notin silent' \cup overtaken'
                 PROVE  u \in view'[t] <=> key'[u] # "absent"
      BY DEF ViewsAgree
    <3>1. t \in connected /\ handler[t] = "serving" /\ u \notin silent \cup overtaken
      BY <1>1, <2>1
    <3>2. CASE t = r.sock
      BY <1>3, <2>1, <2>4, <3>1, <3>2
    <3>3. CASE t # r.sock
      BY <1>2, <2>1, <2>3, <3>1, <3>3 DEF PictureInv, ViewsAgree
    <3>4. QED
      BY <3>2, <3>3
  <2>6. QED
    BY <2>2, <2>5 DEF PictureInv
<1>5. CASE r.op = "del" /\ OnDeleted(r.user)
  <2>1. /\ UNCHANGED <<key, silent>> /\ r.user \in Users
        /\ \A t \in Sockets : view'[t] = view[t] \ {r.user}
    BY <1>5, ReplyUser DEF OnDeleted, ShowOffline
  <2>2. ListInv' /\ DelInv'
    BY <1>1, <2>1, QueueShifts DEF PictureInv
  <2>3. key[r.user] = "absent" \/ Behind(replies, 1, r.user)
    BY <1>5, HeadIsCurrent
  <2>4. ViewsAgree'
    <3> SUFFICES ASSUME NEW t \in connected', NEW u \in Users,
                        handler'[t] = "serving", ~Announcing(u)', u \notin silent' \cup overtaken'
                 PROVE  u \in view'[t] <=> key'[u] # "absent"
      BY DEF ViewsAgree
    <3>1. t \in connected /\ t \in Sockets /\ handler[t] = "serving" /\ u \notin silent \cup overtaken
      BY <1>1, <2>1
    <3>2. CASE u = r.user
      BY <1>3, <2>1, <2>3, <3>1, <3>2
    <3>3. CASE u # r.user
      <4>1. ~About(r, u)
        BY <1>5, <3>3 DEF About
      <4>2. QED
        BY <1>2, <2>1, <3>1, <3>3, <4>1 DEF PictureInv, ViewsAgree
    <3>4. QED
      BY <3>2, <3>3
  <2>5. QED
    BY <2>2, <2>4 DEF PictureInv
<1>6. CASE r.op = "logout" /\ OnLogoutKeys(r.user, r.found)
  <2>1. /\ view' = view /\ silent \subseteq silent'
        /\ \A u \in Users : key[u] = "absent" => key'[u] = "absent"
        /\ \A u \in Users \ silent' : key'[u] = key[u]
    BY <1>6 DEF OnLogoutKeys, SetOffline, TypeOK
  <2>2. ListInv' /\ DelInv'
    BY <1>1, <2>1, QueueShifts DEF PictureInv
  <2>3. \A u \in Users : ~About(r, u)
    BY <1>6 DEF About
  <2>4. ViewsAgree'
    BY <1>1, <1>2, <2>1, <2>3, ViewsStay DEF PictureInv
  <2>5. QED
    BY <2>2, <2>4 DEF PictureInv
<1>7. QED
  BY <1>4, <1>5, <1>6

LEMMA PictureStep ==
  ASSUME TypeOK, IInv, PictureInv, [Next]_vars
  PROVE  PictureInv'
<1>1. CASE \/ \E s \in Sockets : Connect(s) \/ Heartbeat(s)
           \/ \E u \in Users : Age(u)
  BY <1>1, QuietPicture
<1>2. CASE \E s \in Sockets : MarkOnline(s)
  BY <1>2, MarkOnlinePicture
<1>3. ASSUME NEW s \in Sockets, MarkOnlineFails(s) PROVE PictureInv'
  <2>1. handler[s] = "joining" /\ handler' = [handler EXCEPT ![s] = "idle"]
    BY <1>3 DEF MarkOnlineFails
  <2>2. CASE Drop(s)
    BY <2>1, <2>2, DropPicture
  <2>3. CASE UNCHANGED <<connected, key, replies, view, silent, overtaken>>
    <3>1. \A t \in Sockets : handler'[t] = IF t = s THEN "idle" ELSE handler[t]
      BY <2>1 DEF TypeOK
    <3>2. connected' \subseteq Sockets
      BY <2>3 DEF TypeOK
    <3>3. QED
      BY <2>1, <2>3, <3>1, <3>2, PictureStays
  <2>4. QED
    BY <1>3, <2>2, <2>3 DEF MarkOnlineFails
<1>4. ASSUME NEW s \in Sockets, Disconnect(s) PROVE PictureInv'
  <2>1. /\ Drop(s) /\ handler \in [Sockets -> Phase]
        /\ handler' = [handler EXCEPT ![s] = IF @ = "serving" THEN "idle" ELSE @]
    BY <1>4 DEF Disconnect, TypeOK
  <2>2. CASE handler[s] = "serving"
    BY <2>1, <2>2, DropPicture
  <2>3. CASE handler[s] # "serving"
    <3>1. handler' = handler
      BY <2>1, <2>3
    <3>2. QED
      BY <2>1, <3>1, DropPicture
  <2>4. QED
    BY <2>2, <2>3
<1>5. CASE \/ \E s \in Sockets : GetOnlineUsers(s)
           \/ \E u \in Users : LogoutFindsKeys(u)
  BY <1>5, RequestPicture
<1>6. CASE HandleReply
  <2>1. PICK r : r = Head(replies)
    OBVIOUS
  <2>2. r \in Reply /\ replies # <<>>
    BY <1>6, <2>1, HeadTailProperties DEF TypeOK, HandleReply
  <2>3. CASE r.op = "setex" /\ OnMarked(r.sock)
    BY <2>1, <2>2, <2>3, OnMarkedPicture
  <2>4. CASE r.op = "keys" /\ OnFetched(r.sock, r.online)
    BY <2>1, <2>2, <2>4, OnFetchedPicture
  <2>5. CASE \/ r.op = "list" /\ OnListed(r.sock, r.online)
             \/ r.op = "del" /\ OnDeleted(r.user)
             \/ r.op = "logout" /\ OnLogoutKeys(r.user, r.found)
    BY <2>1, <2>2, <2>5, OtherReplyPicture
  <2>6. QED
    BY <1>6, <2>1, <2>3, <2>4, <2>5 DEF HandleReply
<1>7. CASE Crash
  BY <1>7 DEF Crash, PictureInv, ListInv, DelInv, ViewsAgree
<1>8. CASE UNCHANGED vars
  <2>1. UNCHANGED <<connected, handler, key, replies, view, silent, overtaken>>
    BY <1>8 DEF vars
  <2>2. QED
    BY <2>1, PictureStays
<1>9. QED
  BY <1>1, <1>2, <1>3, <1>4, <1>5, <1>6, <1>7, <1>8 DEF Next, Running

(* What a client shows of a user is what Redis says, whenever nothing      *)
(* about that user is under way: for any number of users and sockets, in   *)
(* any order of handshakes, lists, disconnects, logouts and crashes, with  *)
(* the exceptions ViewsAgree names.                                        *)
THEOREM ClientsAgree == Spec => []ViewsAgree
<1>1. Init => PictureInv
  BY DEF Init, PictureInv, ListInv, DelInv, ViewsAgree
<1>2. TypeOK /\ IInv /\ PictureInv /\ [Next]_vars => PictureInv'
  BY PictureStep
<1>3. PictureInv => ViewsAgree
  BY DEF PictureInv
<1> QED
  BY <1>1, <1>2, <1>3, IInvInvariant, PTL DEF Spec

-----------------------------------------------------------------------------
(* Redis, the handshakes and the events implement OnlineStatus.            *)
Waits(t) == handler[t] \in {"marking", "fetching"}
Deleting(q, u) == \E i \in DOMAIN q : q[i].op = "del" /\ q[i].user = u

(* Of whom something is due: a handshake or a DEL is under way.            *)
LEMMA WhoIsDue ==
  \A u \in Users : u \in Due <=> (\E t \in SocketsOf(u) : Waits(t)) \/ Deleting(replies, u)
BY DEF Due, Announcing, Waits, Deleting

LEMMA WhoIsDueNext ==
  \A u \in Users : u \in Due' <=> (\E t \in SocketsOf(u) : Waits(t)') \/ Deleting(replies', u)
BY DEF Due, Announcing, Waits, Deleting, SocketsOf

LEMMA IssuedIsDue ==
  ASSUME TypeOK, NEW command \in Reply, Issue(command), NEW u
  PROVE  Deleting(replies', u) <=>
           Deleting(replies, u) \/ (command.op = "del" /\ command.user = u)
<1>1. /\ Len(replies) \in Nat
      /\ DOMAIN replies = 1 .. Len(replies)
      /\ DOMAIN replies' = 1 .. (Len(replies) + 1)
      /\ \A i \in 1 .. Len(replies) : replies'[i] = replies[i]
      /\ replies'[Len(replies) + 1] = command
  BY IssueIndices DEF TypeOK
<1>2. /\ \A i \in DOMAIN replies : i \in DOMAIN replies' /\ replies'[i] = replies[i]
      /\ \E i \in DOMAIN replies' : replies'[i] = command
      /\ \A i \in DOMAIN replies' : \/ i \in DOMAIN replies /\ replies'[i] = replies[i]
                                    \/ replies'[i] = command
  BY <1>1
<1> QED
  BY <1>2 DEF Deleting

LEMMA HandledIsDue ==
  ASSUME TypeOK, replies # <<>>, NEW u
  PROVE  /\ Deleting(Tail(replies), u) => Deleting(replies, u)
         /\ Deleting(replies, u) =>
              \/ Deleting(Tail(replies), u)
              \/ Head(replies).op = "del" /\ Head(replies).user = u
<1>1. /\ Len(replies) \in Nat \ {0}
      /\ DOMAIN replies = 1 .. Len(replies)
      /\ DOMAIN Tail(replies) = 1 .. (Len(replies) - 1)
      /\ \A i \in 1 .. (Len(replies) - 1) : Tail(replies)[i] = replies[i + 1]
      /\ Head(replies) = replies[1]
  BY TailIndices DEF TypeOK
<1>2. \A i \in DOMAIN Tail(replies) :
        i + 1 \in DOMAIN replies /\ Tail(replies)[i] = replies[i + 1]
  BY <1>1
<1>3. ASSUME NEW i \in DOMAIN replies, i # 1
      PROVE  \E j \in DOMAIN Tail(replies) : Tail(replies)[j] = replies[i]
  <2>1. PICK j : j = i - 1
    OBVIOUS
  <2>2. j \in DOMAIN Tail(replies) /\ j + 1 = i
    BY <1>1, <1>3, <2>1
  <2> QED
    BY <1>2, <2>2
<1> QED
  BY <1>1, <1>2, <1>3 DEF Deleting

(* Nothing is said and nobody comes or goes.                               *)
LEMMA NothingSaid ==
  ASSUME UNCHANGED <<connected, view, silent, overtaken>>, OnlineUsers' = OnlineUsers,
         \A u \in Users : Deleting(replies', u) <=> Deleting(replies, u),
         \A t \in Sockets :
           /\ Waits(t)' <=> Waits(t)
           /\ t \in connected => (handler'[t] = "serving" <=> handler[t] = "serving"),
         connected \in SUBSET Sockets
  PROVE  UNCHANGED Status!statusVars
<1>1. Due' = Due
  BY WhoIsDue, WhoIsDueNext DEF Due, SocketsOf
<1>2. Here' = Here /\ Ready' = Ready
  BY DEF Here, Ready, Marked, Waits
<1> QED
  BY <1>1, <1>2 DEF Status!statusVars

(* The handshake of s, until the user is announced.                        *)
LEMMA MarkingArrives ==
  ASSUME TypeOK, NEW s \in Sockets, MarkOnline(s)
  PROVE  Status!Arrive(s)
<1> DEFINE u == Owner[s]
<1>1. PICK command : command = [op |-> "setex", sock |-> s]
  OBVIOUS
<1>2. /\ command \in Reply /\ command.op = "setex" /\ Issue(command)
      /\ handler[s] = "joining" /\ UNCHANGED <<connected, view, overtaken>>
      /\ silent' = silent \ {u} /\ u \in Users
  BY <1>1, OwnerAssumption DEF MarkOnline, Reply
<1>3. \A t \in Sockets : handler'[t] = IF t = s THEN "marking" ELSE handler[t]
  BY DEF MarkOnline, TypeOK
<1>4. OnlineUsers' = OnlineUsers \cup {u}
  <2>1. \A v \in Users : key'[v] = IF v = u THEN "fresh" ELSE key[v]
    BY DEF MarkOnline, SetOnline, TypeOK
  <2> QED
    BY <1>2, <2>1 DEF OnlineUsers
<1>5. Due' = Due \cup {u}
  <2>1. \A v \in Users : Deleting(replies', v) <=> Deleting(replies, v)
    BY <1>2, IssuedIsDue
  <2>2. \A t \in Sockets : Waits(t)' <=> Waits(t) \/ t = s
    BY <1>2, <1>3 DEF Waits
  <2>3. \A v \in Users : v \in Due' <=> v \in Due \/ v = u
    BY <2>1, <2>2, WhoIsDue, WhoIsDueNext DEF SocketsOf
  <2> QED
    BY <1>2, <2>3 DEF Due
<1>6. /\ Here' = IF s \in connected THEN Here \cup {s} ELSE Here
      /\ Ready' = Ready
  BY <1>2, <1>3 DEF Here, Ready, Marked, TypeOK
<1>7. (silent \cup overtaken)' \in {silent \cup overtaken, (silent \cup overtaken) \ {u}}
  BY <1>2
<1> QED
  BY <1>2, <1>4, <1>5, <1>6, <1>7 DEF Status!Arrive

(* A socket that goes.                                                     *)
LEMMA DroppingLeaves ==
  ASSUME TypeOK, NEW s \in Sockets, Drop(s),
         \A t \in Sockets : /\ t # s => handler'[t] = handler[t]
                            /\ Waits(t)' <=> Waits(t)
  PROVE  Status!Leave(s)
<1> DEFINE u == Owner[s]
<1>1. /\ u \in Users /\ connected' = connected \ {s} /\ view' = [view EXCEPT ![s] = {}]
      /\ connected \in SUBSET Sockets
  BY OwnerAssumption DEF Drop, TypeOK
<1>2. Here' = Here \ {s} /\ Ready' = Ready \ {s}
  BY <1>1 DEF Here, Ready, Marked
<1>3. CASE UNCHANGED <<key, silent, overtaken, replies>>
  <2>1. Due' = Due
    BY <1>3, WhoIsDue, WhoIsDueNext DEF Due, SocketsOf
  <2>2. OnlineUsers' = OnlineUsers
    BY <1>3 DEF OnlineUsers
  <2> QED
    BY <1>1, <1>2, <1>3, <2>1, <2>2 DEF Status!Leave
<1>4. CASE /\ Live(u) = {s}
           /\ key' = SetOffline(u)
           /\ silent' = silent \ {u} /\ overtaken' = overtaken \ {u}
           /\ Issue([op |-> "del", user |-> u])
  <2>1. \A q \in Here' : Owner[q] # u
    BY <1>1, <1>4 DEF Here, Marked, Live, SocketsOf
  <2>2. OnlineUsers' = OnlineUsers \ {u}
    <3>1. \A v \in Users : key'[v] = IF v = u THEN "absent" ELSE key[v]
      BY <1>4 DEF SetOffline, TypeOK
    <3> QED
      BY <3>1 DEF OnlineUsers
  <2>3. Due' = Due \cup {u}
    <3>1. PICK command : command = [op |-> "del", user |-> u]
      OBVIOUS
    <3>2. command \in Reply /\ command.op = "del" /\ command.user = u /\ Issue(command)
      BY <1>1, <1>4, <3>1 DEF Reply
    <3>3. \A v \in Users : Deleting(replies', v) <=> Deleting(replies, v) \/ v = u
      BY <3>2, IssuedIsDue
    <3>4. \A v \in Users : v \in Due' <=> v \in Due \/ v = u
      BY <3>3, WhoIsDue, WhoIsDueNext DEF SocketsOf
    <3> QED
      BY <1>1, <3>4 DEF Due
  <2>4. (silent \cup overtaken)' = (silent \cup overtaken) \ {u}
    BY <1>4
  <2> QED
    BY <1>1, <1>2, <2>1, <2>2, <2>3, <2>4 DEF Status!Leave
<1> QED
  BY <1>3, <1>4 DEF Drop

LEMMA GoingLeaves ==
  ASSUME TypeOK, NEW s \in Sockets, Disconnect(s) \/ MarkOnlineFails(s)
  PROVE  Status!Leave(s) \/ UNCHANGED Status!statusVars
<1>1. \A t \in Sockets :
        /\ t # s => handler'[t] = handler[t]
        /\ handler'[t] = handler[t] \/ (handler[t] \in {"joining", "serving"} /\ handler'[t] = "idle")
  BY DEF Disconnect, MarkOnlineFails, TypeOK
<1>2. \A t \in Sockets : Waits(t)' <=> Waits(t)
  BY <1>1 DEF Waits
<1>3. CASE Drop(s)
  BY <1>1, <1>2, <1>3, DroppingLeaves
<1>4. CASE /\ MarkOnlineFails(s) /\ s \notin connected
           /\ UNCHANGED <<connected, key, replies, view, silent, overtaken>>
  <2>1. OnlineUsers' = OnlineUsers /\ connected \in SUBSET Sockets
    BY <1>4 DEF OnlineUsers, TypeOK
  <2> QED
    BY <1>1, <1>2, <1>4, <2>1, NothingSaid
<1> QED
  BY <1>3, <1>4 DEF Disconnect, MarkOnlineFails

(* What a client asks for, what time and a logout do.                      *)
LEMMA ConnectingSaysNothing ==
  ASSUME TypeOK, NEW s \in Sockets, Connect(s)
  PROVE  UNCHANGED Status!statusVars
<1>1. /\ handler[s] = "idle" /\ connected' = connected \cup {s} /\ s \notin connected
      /\ \A t \in Sockets : handler'[t] = IF t = s THEN "joining" ELSE handler[t]
      /\ UNCHANGED <<key, replies, view, silent, overtaken>>
  BY DEF Connect, TypeOK
<1>2. Here' = Here /\ Ready' = Ready /\ OnlineUsers' = OnlineUsers
  BY <1>1 DEF Here, Ready, Marked, OnlineUsers, TypeOK
<1>3. \A t \in Sockets : Waits(t)' <=> Waits(t)
  BY <1>1 DEF Waits
<1>4. Due' = Due
  BY <1>1, <1>3, WhoIsDue, WhoIsDueNext DEF Due, SocketsOf
<1> QED
  BY <1>1, <1>2, <1>4 DEF Status!statusVars

LEMMA AskingSaysNothing ==
  ASSUME TypeOK, NEW command \in Reply, Issue(command), command.op # "del",
         UNCHANGED <<connected, handler, key, view, silent, overtaken>>
  PROVE  UNCHANGED Status!statusVars
<1>1. \A u \in Users : Deleting(replies', u) <=> Deleting(replies, u)
  BY IssuedIsDue
<1>2. OnlineUsers' = OnlineUsers /\ connected \in SUBSET Sockets
  BY DEF OnlineUsers, TypeOK
<1> QED
  BY <1>1, <1>2, NothingSaid DEF Waits

LEMMA RequestsSayNothing ==
  ASSUME TypeOK,
         \/ \E s \in Sockets : GetOnlineUsers(s)
         \/ \E u \in Users : LogoutFindsKeys(u)
  PROVE  UNCHANGED Status!statusVars
<1>1. ASSUME NEW s \in Sockets, GetOnlineUsers(s) PROVE UNCHANGED Status!statusVars
  <2>1. PICK command : command = [op |-> "list", sock |-> s, online |-> OnlineUsers]
    OBVIOUS
  <2>2. command \in Reply /\ command.op # "del"
    BY <2>1 DEF Reply, OnlineUsers
  <2> QED
    BY <1>1, <2>1, <2>2, AskingSaysNothing DEF GetOnlineUsers
<1>2. ASSUME NEW u \in Users, LogoutFindsKeys(u) PROVE UNCHANGED Status!statusVars
  <2>1. PICK command : command = [op |-> "logout", user |-> u, found |-> u \in OnlineUsers]
    OBVIOUS
  <2>2. command \in Reply /\ command.op # "del"
    BY <2>1 DEF Reply
  <2> QED
    BY <1>2, <2>1, <2>2, AskingSaysNothing DEF LogoutFindsKeys
<1> QED
  BY <1>1, <1>2

(* A heartbeat brings no key back.                                         *)
LEMMA HeartbeatSaysNothing ==
  ASSUME TypeOK, NEW s \in Sockets, Heartbeat(s)
  PROVE  UNCHANGED Status!statusVars
<1>1. \A u \in Users : key'[u] = "absent" <=> key[u] = "absent"
  BY DEF Heartbeat, RefreshPresence, TypeOK
<1>2. OnlineUsers' = OnlineUsers /\ connected \in SUBSET Sockets
  BY <1>1 DEF OnlineUsers, TypeOK
<1> QED
  BY <1>2, NothingSaid DEF Heartbeat, Waits, Deleting

LEMMA KeyVanishes ==
  ASSUME TypeOK, NEW u \in Users, key' = SetOffline(u), silent' = silent \cup {u},
         UNCHANGED <<connected, handler, view, overtaken>>, Due' = Due
  PROVE  Status!Vanish(u)
<1>1. \A v \in Users : key'[v] = IF v = u THEN "absent" ELSE key[v]
  BY DEF SetOffline, TypeOK
<1>2. OnlineUsers' = OnlineUsers \ {u}
  BY <1>1 DEF OnlineUsers
<1>3. (silent \cup overtaken)' = (silent \cup overtaken) \cup {u}
  OBVIOUS
<1>4. Here' = Here /\ Ready' = Ready
  BY DEF Here, Ready, Marked
<1> QED
  BY <1>2, <1>3, <1>4 DEF Status!Vanish

LEMMA TimeVanishes ==
  ASSUME TypeOK, NEW u \in Users, Age(u)
  PROVE  Status!Vanish(u) \/ UNCHANGED Status!statusVars
<1>1. UNCHANGED <<connected, handler, replies, view, overtaken>> /\ connected \in SUBSET Sockets
  BY DEF Age, TypeOK
<1>2. CASE key[u] = "due"
  <2>1. key' = SetOffline(u) /\ silent' = silent \cup {u}
    BY <1>2 DEF Age, SetOffline
  <2>2. Due' = Due
    BY <1>1, WhoIsDue, WhoIsDueNext DEF Due, SocketsOf, Waits
  <2> QED
    BY <1>1, <2>1, <2>2, KeyVanishes
<1>3. CASE key[u] = "fresh"
  <2>1. \A v \in Users : key'[v] = "absent" <=> key[v] = "absent"
    BY <1>3 DEF Age, TypeOK
  <2>2. OnlineUsers' = OnlineUsers /\ silent' = silent
    BY <1>3, <2>1 DEF OnlineUsers, Age
  <2> QED
    BY <1>1, <2>2, NothingSaid DEF Waits, Deleting
<1> QED
  BY <1>2, <1>3 DEF Age

-----------------------------------------------------------------------------
(* The replies of Redis.                                                   *)
LEMMA MarkedSaysNothing ==
  ASSUME TypeOK, IInv, replies # <<>>, Head(replies).op = "setex", OnMarked(Head(replies).sock)
  PROVE  UNCHANGED Status!statusVars
<1>1. PICK s : s = Head(replies).sock
  OBVIOUS
<1>2. Head(replies) = replies[1] /\ 1 \in DOMAIN replies /\ Tail(replies) \in Seq(Reply)
  BY TailIndices DEF TypeOK
<1>3. s \in Sockets /\ handler[s] = "marking"
  BY <1>1, <1>2, HandshakeSock DEF IInv, HandshakeInv
<1>4. PICK command : command = [op |-> "keys", sock |-> s, online |-> OnlineUsers]
  OBVIOUS
<1>5. /\ command \in Reply /\ command.op = "keys" /\ replies' = Append(Tail(replies), command)
      /\ UNCHANGED <<connected, key, view, silent, overtaken>>
      /\ \A t \in Sockets : handler'[t] = IF t = s THEN "fetching" ELSE handler[t]
  BY <1>1, <1>3, <1>4 DEF OnMarked, Reply, OnlineUsers, TypeOK
<1>6. \A u \in Users : Deleting(replies', u) <=> Deleting(Tail(replies), u)
  <2>1. PICK q : q = Tail(replies)
    OBVIOUS
  <2>2. /\ Len(q) \in Nat /\ DOMAIN q = 1 .. Len(q)
        /\ DOMAIN replies' = 1 .. (Len(q) + 1)
        /\ \A i \in 1 .. Len(q) : replies'[i] = q[i]
        /\ replies'[Len(q) + 1] = command
    BY <1>2, <1>5, <2>1, AppendProperties, LenProperties
  <2>3. /\ \A i \in DOMAIN q : i \in DOMAIN replies' /\ replies'[i] = q[i]
        /\ \A i \in DOMAIN replies' : (i \in DOMAIN q /\ replies'[i] = q[i]) \/ replies'[i] = command
    BY <2>2
  <2> QED
    BY <1>5, <2>1, <2>3 DEF Deleting
<1>7. \A u \in Users : Deleting(replies', u) <=> Deleting(replies, u)
  BY <1>6, HandledIsDue
<1>8. OnlineUsers' = OnlineUsers /\ connected \in SUBSET Sockets
  BY <1>5 DEF OnlineUsers, TypeOK
<1>9. \A t \in Sockets : /\ Waits(t)' <=> Waits(t)
                         /\ handler'[t] = "serving" <=> handler[t] = "serving"
  BY <1>3, <1>5 DEF Waits
<1> QED
  BY <1>5, <1>7, <1>8, <1>9, NothingSaid

LEMMA FetchedSaysArrived ==
  ASSUME TypeOK, IInv, replies # <<>>, Head(replies).op = "keys",
         OnFetched(Head(replies).sock, Head(replies).online)
  PROVE  Status!SayArrived(Head(replies).sock) /\ Head(replies).sock \in Sockets
<1>1. PICK s, online : s = Head(replies).sock /\ online = Head(replies).online
  OBVIOUS
<1> DEFINE u == Owner[s]
<1>2. 1 \in DOMAIN replies /\ Head(replies) = replies[1]
  BY TailIndices DEF TypeOK
<1>3. s \in Sockets /\ handler[s] = "fetching" /\ u \in Users
  BY <1>1, <1>2, HandshakeSock, OwnerAssumption DEF IInv, HandshakeInv
<1>4. /\ replies' = Tail(replies) /\ UNCHANGED <<connected, key, silent>>
      /\ connected \in SUBSET Sockets
      /\ \A t \in Sockets :
           handler'[t] = IF t = s THEN (IF s \in connected THEN "serving" ELSE "idle")
                         ELSE handler[t]
  BY <1>1, <1>3 DEF OnFetched, TypeOK
<1>5. OnlineUsers' = OnlineUsers
  BY <1>4 DEF OnlineUsers
<1>6. u \in Due /\ Due' \in {Due, Due \ {u}}
  <2>1. \A v \in Users : Deleting(replies', v) <=> Deleting(replies, v)
    BY <1>4, HandledIsDue
  <2>2. \A t \in Sockets : t # s => (Waits(t)' <=> Waits(t))
    BY <1>4 DEF Waits
  <2>3. \A v \in Users : v # u => (v \in Due' <=> v \in Due)
    BY <2>1, <2>2, WhoIsDue, WhoIsDueNext DEF SocketsOf
  <2>4. u \in Due
    BY <1>3, WhoIsDue DEF SocketsOf, Waits
  <2> QED
    BY <1>3, <2>3, <2>4 DEF Due
<1>7. /\ ShowOnline(u) \in [Sockets -> SUBSET Users]
      /\ \A t \in Sockets :
           ShowOnline(u)[t] = IF t \in connected THEN view[t] \cup {u} ELSE view[t]
  BY <1>3 DEF ShowOnline, TypeOK
<1>8. Here' = Here
  BY <1>3, <1>4 DEF Here, Marked
<1>9. CASE s \in connected
  <2>1. view' = [ShowOnline(u) EXCEPT ![s] = online \cup {u}] /\ overtaken' = overtaken
    BY <1>1, <1>9 DEF OnFetched
  <2>2. DOMAIN view' = Sockets /\ u \in view'[s]
    BY <1>3, <1>7, <2>1
  <2>3. \A t \in Sockets \ {s} : /\ view'[t] \in {view[t], view[t] \cup {u}}
                                 /\ t \in Ready => u \in view'[t]
    BY <1>7, <2>1 DEF Ready
  <2>4. s \in Here /\ Ready' = Ready \cup {s}
    BY <1>3, <1>4, <1>9 DEF Here, Ready, Marked
  <2>5. (silent \cup overtaken)' = silent \cup overtaken
    BY <1>4, <2>1
  <2>6. Status!SayArrived(s)
    BY <1>5, <1>6, <1>8, <2>2, <2>3, <2>4, <2>5 DEF Status!SayArrived
  <2> QED
    BY <1>1, <1>3, <2>6
<1>10. CASE s \notin connected
  <2>1. view' = ShowOnline(u) /\ overtaken' = overtaken \cup {u}
    BY <1>1, <1>10 DEF OnFetched
  <2>2. DOMAIN view' = Sockets /\ view'[s] = view[s]
    BY <1>3, <1>7, <1>10, <2>1
  <2>3. \A t \in Sockets \ {s} : /\ view'[t] \in {view[t], view[t] \cup {u}}
                                 /\ t \in Ready => u \in view'[t]
    BY <1>7, <2>1 DEF Ready
  <2>4. s \notin Here /\ Ready' = Ready
    BY <1>3, <1>4, <1>10 DEF Here, Ready, Marked
  <2>5. (silent \cup overtaken)' = (silent \cup overtaken) \cup {u}
    BY <1>4, <2>1
  <2>6. Status!SayArrived(s)
    BY <1>5, <1>6, <1>8, <2>2, <2>3, <2>4, <2>5 DEF Status!SayArrived
  <2> QED
    BY <1>1, <1>3, <2>6
<1> QED
  BY <1>9, <1>10

(* A reply that announces nobody leaves what is due as it is.              *)
LEMMA OthersStayDue ==
  ASSUME TypeOK, replies # <<>>, replies' = Tail(replies), Head(replies).op # "del",
         handler' = handler
  PROVE  Due' = Due
<1>1. \A u \in Users : Deleting(replies', u) <=> Deleting(replies, u)
  BY HandledIsDue
<1> QED
  BY <1>1, WhoIsDue, WhoIsDueNext DEF Due, SocketsOf, Waits

LEMMA ListedAnswers ==
  ASSUME TypeOK, replies # <<>>, Head(replies).op = "list",
         OnListed(Head(replies).sock, Head(replies).online)
  PROVE  Status!Answer(Head(replies).sock) /\ Head(replies).sock \in Sockets
<1>1. PICK s : s = Head(replies).sock
  OBVIOUS
<1>2. s \in Sockets
  BY <1>1, HeadTailProperties, ReplyUser DEF TypeOK
<1>3. /\ replies' = Tail(replies) /\ UNCHANGED <<connected, handler, key, silent, overtaken>>
      /\ DOMAIN view' = Sockets /\ \A t \in Sockets \ {s} : view'[t] = view[t]
  BY <1>1 DEF OnListed, TypeOK
<1>4. Due' = Due
  BY <1>3, OthersStayDue
<1>5. OnlineUsers' = OnlineUsers /\ Here' = Here /\ Ready' = Ready
  BY <1>3 DEF OnlineUsers, Here, Ready, Marked
<1>6. Status!Answer(s)
  BY <1>3, <1>4, <1>5 DEF Status!Answer
<1> QED
  BY <1>1, <1>2, <1>6

LEMMA DeletedSaysLeft ==
  ASSUME TypeOK, replies # <<>>, Head(replies).op = "del", OnDeleted(Head(replies).user)
  PROVE  Status!SayLeft(Head(replies).user) /\ Head(replies).user \in Users
<1>1. PICK u : u = Head(replies).user
  OBVIOUS
<1>2. u \in Users
  BY <1>1, HeadTailProperties, ReplyUser DEF TypeOK
<1>3. /\ replies' = Tail(replies) /\ UNCHANGED <<connected, handler, key, silent, overtaken>>
      /\ view' = [t \in Sockets |-> view[t] \ {u}]
  BY <1>1 DEF OnDeleted, ShowOffline
<1>4. u \in Due /\ Due' \in {Due, Due \ {u}}
  <2>1. \A v \in Users : v # u => (Deleting(replies', v) <=> Deleting(replies, v))
    BY <1>1, <1>3, HandledIsDue
  <2>2. \A v \in Users : v # u => (v \in Due' <=> v \in Due)
    BY <1>3, <2>1, WhoIsDue, WhoIsDueNext DEF SocketsOf, Waits
  <2>3. Deleting(replies, u)
    BY <1>1, TailIndices DEF Deleting, TypeOK
  <2>4. u \in Due
    BY <1>2, <2>3, WhoIsDue
  <2> QED
    BY <1>2, <2>2, <2>4 DEF Due
<1>5. OnlineUsers' = OnlineUsers /\ Here' = Here /\ Ready' = Ready
  BY <1>3 DEF OnlineUsers, Here, Ready, Marked
<1>6. Status!SayLeft(u)
  BY <1>3, <1>4, <1>5 DEF Status!SayLeft
<1> QED
  BY <1>1, <1>2, <1>6

LEMMA LogoutVanishes ==
  ASSUME TypeOK, replies # <<>>, Head(replies).op = "logout",
         OnLogoutKeys(Head(replies).user, Head(replies).found)
  PROVE  (\E u \in Users : Status!Vanish(u)) \/ UNCHANGED Status!statusVars
<1>1. PICK u : u = Head(replies).user
  OBVIOUS
<1>2. u \in Users /\ connected \in SUBSET Sockets
  BY <1>1, HeadTailProperties DEF TypeOK, Reply
<1>3. /\ replies' = Tail(replies) /\ UNCHANGED <<connected, handler, view, overtaken>>
      /\ \/ key' = SetOffline(u) /\ silent' = silent \cup {u}
         \/ UNCHANGED <<key, silent>>
  BY <1>1 DEF OnLogoutKeys
<1>4. Due' = Due
  BY <1>3, OthersStayDue
<1>5. CASE key' = SetOffline(u) /\ silent' = silent \cup {u}
  BY <1>2, <1>3, <1>4, <1>5, KeyVanishes
<1>6. CASE UNCHANGED <<key, silent>>
  <2>1. OnlineUsers' = OnlineUsers /\ Here' = Here /\ Ready' = Ready
    BY <1>3, <1>6 DEF OnlineUsers, Here, Ready, Marked
  <2> QED
    BY <1>3, <1>4, <1>6, <2>1 DEF Status!statusVars
<1> QED
  BY <1>3, <1>5, <1>6

LEMMA CrashStops == Crash => Status!Stop
<1> SUFFICES ASSUME Crash PROVE Status!Stop
  OBVIOUS
<1>1. OnlineUsers' = OnlineUsers
  BY DEF Crash, OnlineUsers
<1>2. Here' = {} /\ Ready' = {}
  BY DEF Crash, Here, Ready, Marked
<1>3. Due' = {}
  BY DEF Crash, Due, Announcing, SocketsOf
<1> QED
  BY <1>1, <1>2, <1>3 DEF Crash, Status!Stop

(* Whatever a step does, it is one of OnlineStatus, or it says nothing.    *)
LEMMA StatusStep ==
  TypeOK /\ IInv /\ ViewsAgree' /\ [Next]_vars => [Status!StatusNext]_(Status!statusVars)
<1> SUFFICES ASSUME TypeOK, IInv, ViewsAgree', [Next]_vars
             PROVE  [Status!StatusNext]_(Status!statusVars)
  OBVIOUS
<1>1. Status!Agreed'
  BY DEF ViewsAgree, Status!Agreed, Ready, Due, OnlineUsers
<1>2. ASSUME \/ \E s \in Sockets :
                  Status!Arrive(s) \/ Status!SayArrived(s) \/ Status!Leave(s) \/ Status!Answer(s)
             \/ \E u \in Users : Status!SayLeft(u) \/ Status!Vanish(u)
             \/ Status!Stop
             \/ UNCHANGED Status!statusVars
      PROVE  [Status!StatusNext]_(Status!statusVars)
  BY <1>1, <1>2 DEF Status!StatusNext
<1>3. ASSUME NEW s \in Sockets,
             Connect(s) \/ MarkOnline(s) \/ MarkOnlineFails(s) \/ Disconnect(s) \/ Heartbeat(s)
      PROVE  [Status!StatusNext]_(Status!statusVars)
  BY <1>2, <1>3, ConnectingSaysNothing, MarkingArrives, GoingLeaves, HeartbeatSaysNothing
<1>4. ASSUME \/ \E s \in Sockets : GetOnlineUsers(s)
             \/ \E u \in Users : LogoutFindsKeys(u)
      PROVE  [Status!StatusNext]_(Status!statusVars)
  BY <1>2, <1>4, RequestsSayNothing
<1>5. ASSUME NEW u \in Users, Age(u) PROVE [Status!StatusNext]_(Status!statusVars)
  BY <1>2, <1>5, TimeVanishes
<1>6. CASE HandleReply
  <2>1. replies # <<>>
    BY <1>6 DEF HandleReply
  <2>2. CASE Head(replies).op = "setex" /\ OnMarked(Head(replies).sock)
    BY <1>2, <2>1, <2>2, MarkedSaysNothing
  <2>3. CASE Head(replies).op = "keys" /\ OnFetched(Head(replies).sock, Head(replies).online)
    BY <1>2, <2>1, <2>3, FetchedSaysArrived
  <2>4. CASE Head(replies).op = "list" /\ OnListed(Head(replies).sock, Head(replies).online)
    BY <1>2, <2>1, <2>4, ListedAnswers
  <2>5. CASE Head(replies).op = "del" /\ OnDeleted(Head(replies).user)
    BY <1>2, <2>1, <2>5, DeletedSaysLeft
  <2>6. CASE Head(replies).op = "logout" /\ OnLogoutKeys(Head(replies).user, Head(replies).found)
    BY <1>2, <2>1, <2>6, LogoutVanishes
  <2> QED
    BY <1>6, <2>2, <2>3, <2>4, <2>5, <2>6 DEF HandleReply
<1>7. CASE Crash
  BY <1>2, <1>7, CrashStops
<1>8. CASE UNCHANGED vars
  BY <1>8
     DEF vars, Status!statusVars, OnlineUsers, Here, Ready, Due, Marked, Announcing, SocketsOf
<1> QED
  BY <1>3, <1>4, <1>5, <1>6, <1>7, <1>8 DEF Next, Running

(* Presence implements OnlineStatus, for any number of users, sockets and  *)
(* replies under way: no heartbeat, list, logout or disconnect of another  *)
(* socket brings a user online or takes a present one offline, whatever    *)
(* answers of Redis they wait for, and what clients show of him changes    *)
(* only when he is announced or when they have asked.                      *)
THEOREM StatusIsShown == Spec => ShowsStatus
<1>1. Init => Status!StatusInit
  BY DEF Init, Status!StatusInit, OnlineUsers, Here, Ready, Due, Marked, Announcing, SocketsOf
<1>2. TypeOK /\ IInv /\ ViewsAgree' /\ [Next]_vars => [Status!StatusNext]_(Status!statusVars)
  BY StatusStep
<1> QED
  BY <1>1, <1>2, IInvInvariant, ClientsAgree, PTL DEF Spec, ShowsStatus, Status!StatusSpec
=============================================================================
