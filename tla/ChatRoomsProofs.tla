-------------------------- MODULE ChatRoomsProofs --------------------------
(***************************************************************************)
(* Proofs about ChatRooms, for every set of users, sockets, messages and   *)
(* requests.                                                               *)
(***************************************************************************)
EXTENDS ChatRooms, TLAPS

LEMMA NothingTyped == NoCast \in Cast /\ NoChange \in Change
BY CreatorAssumption DEF NoCast, Cast, NoChange, Change

(* A message is sent to sockets.                                           *)
LEMMA ToldStep ==
  ASSUME TypeOK, NEW m \in Messages, NEW sockets, Told(m, sockets)
  PROVE  /\ shown' \in [Sockets -> SUBSET Messages]
         /\ \A s \in Sockets :
              shown'[s] = IF s \in online \cap sockets THEN shown[s] \cup {m} ELSE shown[s]
BY DEF Told, TypeOK

(* The broadcast of a message goes on, to sockets that already are in the  *)
(* room or belong to a recipient; the other messages stay as they are.     *)
LEMMA TellStep ==
  ASSUME TypeOK, NEW m \in Messages, NEW already, Tell(m, already)
  PROVE  /\ cast' \in [Messages -> Cast]
         /\ cast'[m].at \in {"telling", "done"}
         /\ cast'[m].to \in SUBSET cast[m].to
         /\ \A n \in Messages : n # m => cast'[n] = cast[n]
         /\ shown' \in [Sockets -> SUBSET Messages]
         /\ \A s \in Sockets :
              /\ shown'[s] \in {shown[s], shown[s] \cup {m}}
              /\ s \in online /\ s \in already => m \in shown'[s]
              /\ shown'[s] = shown[s] \/ s \in already \/ Owner[s] \in cast[m].to
<1> DEFINE to == cast[m].to \ {Sender[m]}
<1>1. cast[m] \in Cast /\ to \in SUBSET cast[m].to /\ cast[m].to \in SUBSET Users
  BY DEF TypeOK, Cast
<1>2. ASSUME NEW new \in Cast, cast' = [cast EXCEPT ![m] = new]
      PROVE  /\ cast' \in [Messages -> Cast] /\ cast'[m] = new
             /\ \A n \in Messages : n # m => cast'[n] = cast[n]
  BY <1>2 DEF TypeOK
<1>3. CASE /\ cast' = [cast EXCEPT ![m] = [at |-> "done", to |-> {}]]
           /\ Told(m, already)
  <2>1. [at |-> "done", to |-> {}] \in Cast
    BY DEF Cast
  <2>2. /\ cast' \in [Messages -> Cast] /\ cast'[m] = [at |-> "done", to |-> {}]
        /\ \A n \in Messages : n # m => cast'[n] = cast[n]
    BY <1>2, <1>3, <2>1
  <2>3. /\ shown' \in [Sockets -> SUBSET Messages]
        /\ \A s \in Sockets :
             shown'[s] = IF s \in online \cap already THEN shown[s] \cup {m} ELSE shown[s]
    BY <1>3 DEF Told, TypeOK
  <2>4. \A s \in Sockets :
          /\ shown'[s] \in {shown[s], shown[s] \cup {m}}
          /\ s \in online /\ s \in already => m \in shown'[s]
          /\ shown'[s] = shown[s] \/ s \in already
    BY <2>3
  <2> QED
    BY <2>2, <2>3, <2>4
<1>4. ASSUME NEW u \in to,
             cast' = [cast EXCEPT ![m] = [at |-> "telling", to |-> to \ {u}]],
             Told(m, already \cup SocketsOf({u}))
      PROVE  /\ cast' \in [Messages -> Cast]
             /\ cast'[m].at = "telling"
             /\ cast'[m].to \in SUBSET cast[m].to
             /\ \A n \in Messages : n # m => cast'[n] = cast[n]
             /\ shown' \in [Sockets -> SUBSET Messages]
             /\ \A s \in Sockets :
                  /\ shown'[s] \in {shown[s], shown[s] \cup {m}}
                  /\ s \in online /\ s \in already => m \in shown'[s]
                  /\ shown'[s] = shown[s] \/ s \in already \/ Owner[s] \in cast[m].to
  <2>1. [at |-> "telling", to |-> to \ {u}] \in Cast
    BY <1>1 DEF Cast
  <2>2. /\ cast' \in [Messages -> Cast] /\ cast'[m] = [at |-> "telling", to |-> to \ {u}]
        /\ \A n \in Messages : n # m => cast'[n] = cast[n]
    BY <1>2, <1>4, <2>1
  <2>3. \A s \in SocketsOf({u}) : Owner[s] \in cast[m].to
    BY <1>1 DEF SocketsOf
  <2>4. /\ shown' \in [Sockets -> SUBSET Messages]
        /\ \A s \in Sockets :
             shown'[s] = IF s \in online \cap (already \cup SocketsOf({u}))
                           THEN shown[s] \cup {m} ELSE shown[s]
    BY <1>4 DEF Told, TypeOK
  <2>5. \A s \in Sockets :
          /\ shown'[s] \in {shown[s], shown[s] \cup {m}}
          /\ s \in online /\ s \in already => m \in shown'[s]
          /\ shown'[s] = shown[s] \/ s \in already \/ Owner[s] \in cast[m].to
    BY <2>3, <2>4
  <2> QED
    BY <1>1, <2>2, <2>4, <2>5
<1>5. \/ /\ cast' = [cast EXCEPT ![m] = [at |-> "done", to |-> {}]]
         /\ Told(m, already)
      \/ \E u \in to : /\ cast' = [cast EXCEPT ![m] = [at |-> "telling", to |-> to \ {u}]]
                       /\ Told(m, already \cup SocketsOf({u}))
  BY DEF Tell
<1> QED
  BY <1>3, <1>4, <1>5

-----------------------------------------------------------------------------
LEMMA TypeStep == TypeOK /\ [Next]_vars => TypeOK'
<1> SUFFICES ASSUME TypeOK, [Next]_vars PROVE TypeOK'
  OBVIOUS
<1> USE DEF TypeOK
<1>1. ASSUME NEW s \in Sockets,
             \/ Connect(s) \/ ListConversations(s) \/ AutoJoin(s) \/ Disconnect(s)
             \/ Ask(s, "joining") \/ JoinConversation(s) \/ LeaveConversation(s)
             \/ Ask(s, "messages") \/ FindMessages(s)
      PROVE  TypeOK'
  <2>1. "joining" \in Asked /\ "messages" \in Asked /\ "nothing" \in Asked
    BY DEF Asked
  <2>2. CASE Connect(s)
    BY <2>2 DEF Connect, Handshake
  <2>3. CASE ListConversations(s)
    BY <2>3 DEF ListConversations, Handshake
  <2>4. CASE AutoJoin(s)
    BY <2>4 DEF AutoJoin, Handshake
  <2>5. CASE Disconnect(s)
    BY <2>1, <2>5 DEF Disconnect, Handshake
  <2>6. CASE Ask(s, "joining") \/ Ask(s, "messages")
    BY <2>1, <2>6 DEF Ask
  <2>7. CASE JoinConversation(s) \/ LeaveConversation(s)
    BY <2>1, <2>7 DEF JoinConversation, LeaveConversation
  <2>8. CASE FindMessages(s)
    <3>1. Saved \in SUBSET Messages
      BY DEF Saved
    <3> QED
      BY <2>1, <2>8, <3>1 DEF FindMessages
  <2> QED
    BY <1>1, <2>2, <2>3, <2>4, <2>5, <2>6, <2>7, <2>8
<1>2. ASSUME NEW m \in Messages, CheckSender(m) \/ SaveMessage(m) \/ LookUp(m)
      PROVE  TypeOK'
  <2>2. Recipients(m) \in SUBSET Users /\ cast[m] \in Cast
    BY DEF Recipients, Active
  <2>3. CASE CheckSender(m) \/ SaveMessage(m)
    BY <2>2, <2>3 DEF CheckSender, SaveMessage, Cast
  <2>4. CASE LookUp(m)
    BY <2>2, <2>4 DEF LookUp, Cast
  <2> QED
    BY <1>2, <2>3, <2>4
<1>3. ASSUME NEW m \in Messages, Broadcast(m) \/ Notify(m) PROVE TypeOK'
  <2>1. \E already : Tell(m, already)
    BY <1>3 DEF Broadcast, Notify
  <2>2. cast' \in [Messages -> Cast] /\ shown' \in [Sockets -> SUBSET Messages]
    BY <2>1, TellStep
  <2> QED
    BY <1>3, <2>2 DEF Broadcast, Notify
<1>4. ASSUME NEW m \in Messages, BroadcastBlindly(m) PROVE TypeOK'
  <2>1. cast' \in [Messages -> Cast]
    BY <1>4 DEF BroadcastBlindly, Cast
  <2>2. shown' \in [Sockets -> SUBSET Messages]
    BY <1>4, ToldStep DEF BroadcastBlindly
  <2> QED
    BY <1>4, <2>1, <2>2 DEF BroadcastBlindly
<1>5. ASSUME NEW r \in Requests, NEW u \in Users, AskToAdd(r, u) \/ LookToRemove(r, u)
      PROVE  TypeOK'
  BY <1>5 DEF AskToAdd, LookToRemove, Goes, Change
<1>6. ASSUME NEW r \in Requests,
             \/ LookToAdd(r) \/ Insert(r) \/ Reload(r) \/ Restore(r)
             \/ AskToRemove(r) \/ Leave(r)
      PROVE  TypeOK'
  <2>1. change[r].user \in Users
    BY DEF Change
  <2>2. CASE LookToAdd(r) \/ Reload(r) \/ AskToRemove(r)
    BY <2>1, <2>2, NothingTyped DEF LookToAdd, Reload, AskToRemove, Goes, Ends, User, Change
  <2>3. CASE Insert(r) \/ Restore(r) \/ Leave(r)
    BY <2>1, <2>3, NothingTyped DEF Insert, Restore, Leave, Ends, User, RowState
  <2> QED
    BY <1>6, <2>2, <2>3
<1>7. CASE Crash
  <2>1. \A m \in Messages : cast[m].at = "done" => cast[m] \in Cast
    OBVIOUS
  <2>2. [at |-> "lost", to |-> {}] \in Cast
    BY DEF Cast
  <2>3. cast' \in [Messages -> Cast]
    BY <1>7, <2>2, NothingTyped DEF Crash
  <2> QED
    BY <1>7, <2>3, NothingTyped DEF Crash, Handshake, Asked
<1>8. CASE UNCHANGED vars
  BY <1>8 DEF vars
<1> QED
  BY <1>1, <1>2, <1>3, <1>4, <1>5, <1>6, <1>7, <1>8 DEF Next

(* Every state is well typed (TypeOK).                                     *)
THEOREM RoomsTypeOK == Spec => []TypeOK
<1>1. Init => TypeOK
  BY NothingTyped DEF Init, TypeOK, RowState, Handshake, Asked
<1> QED
  BY <1>1, TypeStep, PTL DEF Spec

-----------------------------------------------------------------------------
(* What a message and a client that has loaded the messages have to do     *)
(* with each other by each step of the broadcast: from the look-up until   *)
(* the room is told, the client has the message or its user is among those *)
(* who will be told.                                                           *)
Way(phase, to, s, has) ==
  /\ phase = "looked" => has \/ Owner[s] \in to
  /\ phase \in {"telling", "done"} => has

Loaders ==
  /\ loaded \in SUBSET online
  /\ \A s \in loaded : row[Owner[s]] = "active"

GapInv ==
  /\ Loaders
  /\ \A m \in Messages, s \in loaded : Way(cast[m].at, cast[m].to, s, m \in shown[s])

(* Messages and what clients have of them stay, and nobody loads.          *)
LEMMA GapAside ==
  ASSUME TypeOK, GapInv, cast' = cast, loaded' \in SUBSET loaded, Loaders',
         \A s \in loaded' : shown'[s] = shown[s]
  PROVE  GapInv'
BY DEF GapInv, Way

(* A step of message m, that takes nothing from the clients.               *)
LEMMA GapMessage ==
  ASSUME TypeOK, GapInv, NEW m \in Messages, UNCHANGED <<row, online, loaded>>,
         \A n \in Messages : n # m => cast'[n] = cast[n],
         \A s \in loaded : shown[s] \in SUBSET shown'[s],
         \A s \in loaded : Way(cast'[m].at, cast'[m].to, s, m \in shown'[s])
  PROVE  GapInv'
<1>1. Loaders'
  BY DEF GapInv, Loaders
<1>2. ASSUME NEW n \in Messages, NEW s \in loaded, n # m
      PROVE  Way(cast'[n].at, cast'[n].to, s, n \in shown'[s])
  BY <1>2 DEF GapInv, Way
<1> QED
  BY <1>1, <1>2 DEF GapInv, Way

(* Only a client that is there waits for an answer.                        *)
AskedInv == \A s \in Sockets : asked[s] # "nothing" => s \in online

LEMMA AskedStep == TypeOK /\ AskedInv /\ [Next]_vars => AskedInv'
<1> SUFFICES ASSUME TypeOK, AskedInv, [Next]_vars PROVE AskedInv'
  OBVIOUS
<1>1. ASSUME UNCHANGED asked, online \in SUBSET online' PROVE AskedInv'
  BY <1>1 DEF AskedInv, TypeOK
<1>2. ASSUME NEW s \in Sockets,
             \/ Disconnect(s) \/ JoinConversation(s) \/ FindMessages(s)
             \/ Ask(s, "joining") \/ Ask(s, "messages")
      PROVE  AskedInv'
  BY <1>2 DEF AskedInv, TypeOK, Disconnect, JoinConversation, FindMessages, Ask
<1>3. CASE Crash
  BY <1>3 DEF Crash, AskedInv
<1> QED
  BY <1>1, <1>2, <1>3
     DEF Next, vars, Connect, ListConversations, AutoJoin, LeaveConversation,
         CheckSender, SaveMessage, LookUp, Broadcast, BroadcastBlindly, Notify,
         AskToAdd, LookToAdd, Insert, Reload, Restore, LookToRemove, AskToRemove, Leave

LEMMA GapStep == TypeOK /\ AskedInv /\ GapInv /\ [Next]_vars => GapInv'
<1> SUFFICES ASSUME TypeOK, AskedInv, GapInv, [Next]_vars PROVE GapInv'
  OBVIOUS
<1>0. /\ online \in SUBSET Sockets /\ loaded \in SUBSET online
      /\ \A s \in loaded : s \in Sockets /\ Owner[s] \in Users /\ row[Owner[s]] = "active"
  BY OwnerAssumption DEF TypeOK, GapInv, Loaders
<1>1. ASSUME UNCHANGED <<row, cast, shown, loaded>>, online \in SUBSET online' PROVE GapInv'
  BY <1>0, <1>1, GapAside DEF Loaders
<1>2. ASSUME NEW s \in Sockets, Disconnect(s) PROVE GapInv'
  <2>1. loaded' \in SUBSET loaded /\ loaded' \in SUBSET online'
    BY <1>0, <1>2 DEF Disconnect
  <2>2. \A q \in loaded' : shown'[q] = shown[q]
    BY <1>0, <1>2 DEF Disconnect, TypeOK
  <2> QED
    BY <1>0, <1>2, <2>1, <2>2, GapAside DEF Disconnect, Loaders
<1>3. ASSUME NEW s \in Sockets, FindMessages(s) PROVE GapInv'
  <2>1. s \in online /\ UNCHANGED <<row, online, cast>>
        /\ loaded' \in SUBSET (loaded \cup {s})
        /\ (s \in loaded' => s \in loaded \/ row[Owner[s]] = "active")
    BY <1>3 DEF FindMessages, AskedInv
  <2>2. /\ shown'[s] = shown[s] \cup Saved
        /\ \A q \in Sockets : q # s => shown'[q] = shown[q]
    BY <1>3 DEF FindMessages, TypeOK
  <2>3. Loaders'
    BY <1>0, <2>1 DEF Loaders
  <2>4. ASSUME NEW m \in Messages, NEW q \in loaded', q # s
        PROVE  Way(cast'[m].at, cast'[m].to, q, m \in shown'[q])
    BY <1>0, <2>1, <2>2, <2>4 DEF GapInv
  <2>5. ASSUME NEW m \in Messages
        PROVE  Way(cast'[m].at, cast'[m].to, s, m \in shown'[s])
    BY <2>1, <2>2 DEF Way, Saved
  <2> QED
    BY <2>3, <2>4, <2>5 DEF GapInv, Way
<1>4. ASSUME NEW m \in Messages, CheckSender(m) \/ SaveMessage(m) PROVE GapInv'
  <2>1. cast'[m].at \in {"checked", "saved"} /\ \A n \in Messages : n # m => cast'[n] = cast[n]
    BY <1>4 DEF CheckSender, SaveMessage, TypeOK, Cast
  <2> QED
    BY <1>4, <2>1, GapMessage DEF CheckSender, SaveMessage, Way
<1>5. ASSUME NEW m \in Messages, LookUp(m) PROVE GapInv'
  <2>1. /\ \/ cast'[m].at = "blind"
           \/ cast'[m].at = "looked" /\ cast'[m].to = Active
        /\ \A n \in Messages : n # m => cast'[n] = cast[n]
    <3>1. cast[m] \in Cast
      BY DEF TypeOK
    <3>2. CASE cast' = [cast EXCEPT ![m].at = "looked", ![m].to = Active]
      BY <3>1, <3>2 DEF TypeOK, Cast
    <3>3. CASE cast' = [cast EXCEPT ![m].at = "blind"]
      BY <3>1, <3>3 DEF TypeOK, Cast
    <3> QED
      BY <1>5, <3>2, <3>3 DEF LookUp, Recipients
  <2>2. \A s \in loaded : Owner[s] \in Active
    BY <1>0 DEF Active
  <2> QED
    BY <1>5, <2>1, <2>2, GapMessage DEF LookUp, Way
<1>6. ASSUME NEW m \in Messages, Broadcast(m) PROVE GapInv'
  <2>1. PICK already : Tell(m, already) /\ already = room'
    BY <1>6 DEF Broadcast
  <2>2. /\ cast'[m].at \in {"telling", "done"}
        /\ \A n \in Messages : n # m => cast'[n] = cast[n]
        /\ \A s \in Sockets : /\ shown[s] \in SUBSET shown'[s]
                              /\ s \in online /\ s \in already => m \in shown'[s]
    BY <2>1, TellStep
  <2>3. ASSUME NEW s \in loaded PROVE m \in shown'[s]
    <3>1. m \in shown[s] \/ Owner[s] \in cast[m].to
      BY <1>6 DEF Broadcast, GapInv, Way
    <3>2. Owner[s] \in cast[m].to => s \in room'
      BY <1>0, <1>6 DEF Broadcast, SocketsOf
    <3> QED
      BY <1>0, <2>1, <2>2, <3>1, <3>2
  <2> QED
    BY <1>0, <1>6, <2>2, <2>3, GapMessage DEF Broadcast, Way
<1>7. ASSUME NEW m \in Messages, Notify(m) PROVE GapInv'
  <2>1. /\ cast[m].at = "telling" /\ cast'[m].at \in {"telling", "done"}
        /\ \A n \in Messages : n # m => cast'[n] = cast[n]
        /\ \A s \in Sockets : shown[s] \in SUBSET shown'[s]
    BY <1>7, TellStep DEF Notify
  <2>2. \A s \in loaded : shown[s] \in SUBSET shown'[s]
    BY <1>0, <2>1
  <2>3. \A s \in loaded : m \in shown'[s]
    BY <2>1, <2>2 DEF GapInv, Way
  <2> QED
    BY <1>7, <2>1, <2>2, <2>3, GapMessage DEF Notify, Way
<1>8. ASSUME NEW m \in Messages, BroadcastBlindly(m) PROVE GapInv'
  <2>1. cast'[m].at = "lost" /\ \A n \in Messages : n # m => cast'[n] = cast[n]
    BY <1>8 DEF BroadcastBlindly, TypeOK, Cast
  <2>2. \A s \in loaded : shown[s] \in SUBSET shown'[s]
    BY <1>0, <1>8, ToldStep DEF BroadcastBlindly
  <2> QED
    BY <1>8, <2>1, <2>2, GapMessage DEF BroadcastBlindly, Way
<1>9. ASSUME NEW r \in Requests, Insert(r) \/ Restore(r) PROVE GapInv'
  <2>1. \A u \in Users : row[u] = "active" => row'[u] = "active"
    BY <1>9 DEF Insert, Restore, TypeOK
  <2> QED
    BY <1>0, <1>9, <2>1, GapAside DEF Insert, Restore, Loaders
<1>10. ASSUME NEW r \in Requests, Leave(r) PROVE GapInv'
  <2>1. \A s \in loaded' : s \in loaded /\ Owner[s] # User(r)
    BY <1>0, <1>10 DEF Leave, SocketsOf
  <2>2. \A u \in Users : u # User(r) => row'[u] = row[u]
    BY <1>10 DEF Leave, TypeOK
  <2> QED
    BY <1>0, <1>10, <2>1, <2>2, GapAside DEF Leave, Loaders
<1>11. CASE Crash
  BY <1>11 DEF Crash, GapInv, Loaders
<1> QED
  BY <1>1, <1>2, <1>3, <1>4, <1>5, <1>6, <1>7, <1>8, <1>9, <1>10, <1>11
     DEF Next, vars, Connect, ListConversations, AutoJoin, Ask, JoinConversation,
         LeaveConversation, AskToAdd, LookToAdd, Reload, LookToRemove, AskToRemove

(* Loading and being told leave no gap (NoGap), for every number of        *)
(* messages sent around at a time and of participants that come and go.    *)
THEOREM NothingMissed == Spec => []NoGap
<1>1. Init => TypeOK /\ AskedInv /\ GapInv
  BY NothingTyped DEF Init, TypeOK, RowState, Handshake, Asked, AskedInv, GapInv, Loaders
<1>2. TypeOK /\ AskedInv /\ GapInv /\ [Next]_vars => (TypeOK /\ AskedInv /\ GapInv)'
  BY TypeStep, AskedStep, GapStep
<1>3. GapInv => NoGap
  BY DEF GapInv, Way, NoGap
<1> QED
  BY <1>1, <1>2, <1>3, PTL DEF Spec

-----------------------------------------------------------------------------
(* Everything that a request may still do to the room rests on a row that  *)
(* it has seen.                                                            *)
Invited(s) == row[Owner[s]] # "none"

SeenInv ==
  /\ OnlyInvited
  /\ \A s \in Sockets : handler[s] = "counting" \/ asked[s] # "nothing" => Invited(s)
  /\ \A m \in Messages : \A u \in cast[m].to : row[u] # "none"

(* Rows stay.                                                              *)
LEMMA RowsStay ==
  TypeOK /\ [Next]_vars => \A u \in Users : row[u] # "none" => row'[u] # "none"
<1>1. ASSUME TypeOK, NEW r \in Requests, Insert(r) \/ Restore(r) \/ Leave(r)
      PROVE  \A u \in Users : row[u] # "none" => row'[u] # "none"
  BY <1>1 DEF Insert, Restore, Leave, TypeOK
<1> QED
  BY <1>1
     DEF Next, vars, Connect, ListConversations, AutoJoin, Disconnect, Ask, JoinConversation,
         FindMessages, LeaveConversation, CheckSender, SaveMessage, LookUp, Broadcast,
         BroadcastBlindly, Notify, AskToAdd, LookToAdd, Reload, LookToRemove, AskToRemove,
         Crash

LEMMA SeenStep == TypeOK /\ SeenInv /\ [Next]_vars => SeenInv'
<1> SUFFICES ASSUME TypeOK, SeenInv, [Next]_vars PROVE SeenInv'
  OBVIOUS
<1>0. /\ \A s \in Sockets : Owner[s] \in Users /\ (Invited(s) => Invited(s)')
      /\ \A m \in Messages : cast[m] \in Cast /\ cast[m].to \in SUBSET Users
      /\ \A u \in Users : row[u] # "none" => row'[u] # "none"
  BY RowsStay, OwnerAssumption DEF TypeOK, Cast, Invited
(* A step that brings nobody into the room, asks for nothing and shows     *)
(* nothing new.                                                            *)
<1>1. ASSUME \A s \in Sockets :
               /\ s \in room' => s \in room \/ Invited(s)
               /\ shown'[s] # {} => shown[s] # {} \/ Invited(s)
               /\ handler'[s] = "counting" => handler[s] = "counting" \/ Invited(s)
               /\ asked'[s] # "nothing" => asked[s] # "nothing" \/ Invited(s),
             \A m \in Messages : \A u \in cast'[m].to :
               u \in Users /\ (u \in cast[m].to \/ row[u] # "none")
      PROVE  SeenInv'
  <2>1. ASSUME NEW s \in Sockets,
               s \in room' \/ shown'[s] # {} \/ handler'[s] = "counting"
                 \/ asked'[s] # "nothing"
        PROVE  Invited(s)'
    <3>1. Invited(s)
      BY <1>1, <2>1 DEF SeenInv, OnlyInvited, Invited
    <3> QED
      BY <1>0, <3>1
  <2>2. ASSUME NEW m \in Messages, NEW u \in cast'[m].to PROVE row'[u] # "none"
    <3>1. u \in Users /\ row[u] # "none"
      BY <1>1, <2>2 DEF SeenInv
    <3> QED
      BY <1>0, <3>1
  <2> QED
    BY <2>1, <2>2 DEF SeenInv, OnlyInvited, Invited
<1>2. ASSUME UNCHANGED <<room, handler, asked, cast, shown>> PROVE SeenInv'
  BY <1>0, <1>1, <1>2
<1>3. ASSUME NEW s \in Sockets,
             \/ Connect(s) \/ ListConversations(s) \/ AutoJoin(s) \/ Disconnect(s)
             \/ Ask(s, "joining") \/ JoinConversation(s) \/ LeaveConversation(s)
             \/ Ask(s, "messages") \/ FindMessages(s)
      PROVE  SeenInv'
  <2>1. /\ cast' = cast
        /\ \A q \in Sockets : q # s =>
             /\ q \in room' => q \in room
             /\ shown'[q] = shown[q] /\ handler'[q] = handler[q] /\ asked'[q] = asked[q]
    BY <1>3
       DEF TypeOK, Connect, ListConversations, AutoJoin, Disconnect, Ask, JoinConversation,
           FindMessages, LeaveConversation
  <2>2. /\ s \in room' => s \in room \/ Invited(s)
        /\ shown'[s] # {} => shown[s] # {} \/ Invited(s)
        /\ handler'[s] = "counting" => handler[s] = "counting" \/ Invited(s)
        /\ asked'[s] # "nothing" => asked[s] # "nothing" \/ Invited(s)
    BY <1>3
       DEF TypeOK, SeenInv, Invited, Connect, ListConversations, Listed, AutoJoin,
           Disconnect, Ask, JoinConversation, FindMessages, LeaveConversation
  <2> QED
    BY <1>0, <1>1, <2>1, <2>2
<1>4. ASSUME NEW m \in Messages, CheckSender(m) \/ SaveMessage(m) \/ LookUp(m)
      PROVE  SeenInv'
  <2>1. /\ \A n \in Messages : n # m => cast'[n] = cast[n]
        /\ cast'[m].to = cast[m].to \/ cast'[m].to = Active
    BY <1>4 DEF CheckSender, SaveMessage, LookUp, Recipients, TypeOK, Cast
  <2>2. \A u \in Active : u \in Users /\ row[u] # "none"
    BY DEF Active
  <2> QED
    BY <1>0, <1>1, <1>4, <2>1, <2>2 DEF CheckSender, SaveMessage, LookUp
<1>5. ASSUME NEW m \in Messages, Broadcast(m) \/ Notify(m) PROVE SeenInv'
  <2>1. PICK already : Tell(m, already) /\ already \in {room', {}}
    BY <1>5 DEF Broadcast, Notify
  <2>2. \A s \in Sockets :
          shown'[s] = shown[s] \/ s \in already \/ Owner[s] \in cast[m].to
    BY <2>1, TellStep
  <2>3. \A s \in Sockets : s \in room' => s \in room \/ Owner[s] \in cast[m].to
    BY <1>5 DEF Broadcast, Notify, SocketsOf
  <2>4. \A s \in Sockets : s \in room' => Invited(s)
    BY <2>3 DEF SeenInv, OnlyInvited, Invited
  <2>6. \A s \in Sockets : shown'[s] # {} => shown[s] # {} \/ Invited(s)
    BY <2>1, <2>2, <2>4 DEF SeenInv, Invited
  <2>7. \A n \in Messages : cast'[n].to \in SUBSET cast[n].to
    BY <2>1, TellStep
  <2>8. UNCHANGED <<handler, asked>>
    BY <1>5 DEF Broadcast, Notify
  <2> QED
    BY <1>0, <1>1, <2>4, <2>6, <2>7, <2>8
<1>6. ASSUME NEW m \in Messages, BroadcastBlindly(m) PROVE SeenInv'
  <2>1. \A n \in Messages : cast'[n].to = cast[n].to
    BY <1>0, <1>6 DEF BroadcastBlindly, TypeOK, Cast
  <2>2. \A s \in Sockets : s \in room => Invited(s)
    BY DEF SeenInv, OnlyInvited, Invited
  <2>3. \A s \in Sockets : shown'[s] # {} => shown[s] # {} \/ Invited(s)
    BY <1>6, <2>2, ToldStep DEF BroadcastBlindly
  <2> QED
    BY <1>0, <1>1, <1>6, <2>1, <2>3 DEF BroadcastBlindly
<1>7. CASE Crash
  <2>1. \A n \in Messages : cast'[n].to \in SUBSET cast[n].to
    BY <1>7 DEF Crash, NoCast
  <2> QED
    BY <1>0, <1>1, <1>7, <2>1 DEF Crash
<1> QED
  BY <1>2, <1>3, <1>4, <1>5, <1>6, <1>7
     DEF Next, vars, AskToAdd, LookToAdd, Insert, Reload, Restore, LookToRemove,
         AskToRemove, Leave

(* Only those who are or were participants are in the room or get a        *)
(* message (OnlyInvited), for every number of sockets and requests.        *)
THEOREM RoomIsOfInvited == Spec => []OnlyInvited
<1>1. Init => TypeOK /\ SeenInv
  BY NothingTyped
     DEF Init, TypeOK, RowState, Handshake, Asked, SeenInv, OnlyInvited, NoCast
<1>2. TypeOK /\ SeenInv /\ [Next]_vars => (TypeOK /\ SeenInv)'
  BY TypeStep, SeenStep
<1>3. SeenInv => OnlyInvited
  BY DEF SeenInv
<1> QED
  BY <1>1, <1>2, <1>3, PTL DEF Spec

-----------------------------------------------------------------------------
(* The rooms and the broadcasts implement Delivery.                        *)

(* Rows, messages and clients stay as they are.                            *)
LEMMA NothingDelivered ==
  ASSUME Invitees' = Invitees, Saved' = Saved, SentAround' = SentAround,
         UNCHANGED <<shown, loaded>>
  PROVE  UNCHANGED Promise!deliveryVars
BY DEF Promise!deliveryVars

(* What only changes the rooms, the handshakes or what a client waits for, *)
(* and the requests that have not written yet, delivers nothing.           *)
LEMMA AsideDelivers ==
  ASSUME UNCHANGED <<row, cast, shown, loaded>>
  PROVE  UNCHANGED Promise!deliveryVars
BY NothingDelivered DEF Invitees, Saved, SentAround

LEMMA SendingDelivers ==
  ASSUME TypeOK, NEW m \in Messages, CheckSender(m) \/ SaveMessage(m) \/ LookUp(m)
  PROVE  [Promise!DeliveryNext]_(Promise!deliveryVars)
<1>1. /\ \A n \in Messages : n # m => cast'[n] = cast[n]
      /\ Invitees' = Invitees /\ UNCHANGED <<shown, loaded>>
  BY DEF CheckSender, SaveMessage, LookUp, TypeOK, Cast, Invitees
<1>2. CASE SaveMessage(m)
  <2>1. cast[m].at = "checked" /\ cast'[m].at = "saved"
    BY <1>2 DEF SaveMessage, TypeOK, Cast
  <2>2. Saved' = Saved \cup {m} /\ SentAround' = SentAround
    BY <1>1, <2>1 DEF Saved, SentAround
  <2>3. Promise!Save(m)
    BY <1>1, <2>2 DEF Promise!Save
  <2> QED
    BY <2>3 DEF Promise!DeliveryNext
<1>3. CASE CheckSender(m) \/ LookUp(m)
  <2>1. \/ cast[m].at = "none" /\ cast'[m].at = "checked"
        \/ cast[m].at = "saved" /\ cast'[m].at \in {"looked", "blind"}
    BY <1>3 DEF CheckSender, LookUp, TypeOK, Cast
  <2>2. Saved' = Saved /\ SentAround' = SentAround
    BY <1>1, <2>1 DEF Saved, SentAround
  <2> QED
    BY <1>1, <2>2, NothingDelivered
<1> QED
  BY <1>2, <1>3

(* A step that shows message m, which all who attend have once it has been *)
(* sent around (GapInv), to clients of invited users.                      *)
LEMMA ShowingDelivers ==
  ASSUME TypeOK, GapInv', NEW m \in Saved, UNCHANGED <<row, loaded>>,
         shown' \in [Sockets -> SUBSET Messages],
         \A s \in Sockets : \/ shown'[s] = shown[s]
                            \/ Invited(s) /\ shown'[s] = shown[s] \cup {m},
         \A n \in Messages : n # m => cast'[n] = cast[n],
         \/ cast'[m].at \in {"telling", "done"}
         \/ cast'[m].at = "lost" /\ cast[m].at \notin {"telling", "done"}
  PROVE  Promise!Show(m)
<1>1. Invitees' = Invitees /\ Saved' = Saved
  BY DEF Invitees, Saved
<1>2. \A s \in Sockets : Invited(s) => Owner[s] \in Invitees
  BY OwnerAssumption DEF Invited, Invitees
<1>3. \/ SentAround' = SentAround
      \/ SentAround' = SentAround \cup {m} /\ \A s \in loaded : m \in shown'[s]
  <2>1. CASE cast'[m].at \in {"telling", "done"}
    <3>1. SentAround' = SentAround \cup {m}
      BY <2>1 DEF SentAround, Saved
    <3>2. \A s \in loaded : m \in shown'[s]
      BY <2>1 DEF GapInv, Way, Saved
    <3> QED
      BY <3>1, <3>2
  <2>2. CASE cast'[m].at = "lost" /\ cast[m].at \notin {"telling", "done"}
    BY <2>2 DEF SentAround, Saved
  <2> QED
    BY <2>1, <2>2
<1> QED
  BY <1>1, <1>2, <1>3 DEF Promise!Show

LEMMA BroadcastDelivers ==
  ASSUME TypeOK, GapInv', SeenInv, NEW m \in Messages,
         Broadcast(m) \/ Notify(m) \/ BroadcastBlindly(m)
  PROVE  Promise!Show(m)
<1>1. m \in Saved /\ UNCHANGED <<row, loaded>>
  BY DEF Saved, Broadcast, Notify, BroadcastBlindly
<1>2. ASSUME NEW s \in Sockets, s \in room \/ Owner[s] \in cast[m].to PROVE Invited(s)
  BY <1>2 DEF SeenInv, OnlyInvited, Invited
<1>3. CASE Broadcast(m) \/ Notify(m)
  <2>1. PICK already : Tell(m, already) /\ already \in {room', {}}
    BY <1>3 DEF Broadcast, Notify
  <2>2. \A s \in Sockets : s \in room' => Invited(s)
    BY <1>2, <1>3 DEF Broadcast, Notify, SocketsOf
  <2>3. \A s \in Sockets : \/ shown'[s] = shown[s]
                           \/ Invited(s) /\ shown'[s] = shown[s] \cup {m}
    BY <1>2, <2>1, <2>2, TellStep
  <2>4. /\ shown' \in [Sockets -> SUBSET Messages]
        /\ cast'[m].at \in {"telling", "done"}
        /\ \A n \in Messages : n # m => cast'[n] = cast[n]
    BY <2>1, TellStep
  <2> QED
    BY <1>1, <2>3, <2>4, ShowingDelivers
<1>4. CASE BroadcastBlindly(m)
  <2>1. /\ cast[m].at = "blind" /\ cast'[m].at = "lost"
        /\ \A n \in Messages : n # m => cast'[n] = cast[n]
    BY <1>4 DEF BroadcastBlindly, TypeOK, Cast
  <2>2. /\ shown' \in [Sockets -> SUBSET Messages]
        /\ \A s \in Sockets : \/ shown'[s] = shown[s]
                              \/ Invited(s) /\ shown'[s] = shown[s] \cup {m}
    <3>1. Told(m, room)
      BY <1>4 DEF BroadcastBlindly
    <3>2. /\ shown' \in [Sockets -> SUBSET Messages]
          /\ \A s \in Sockets :
               shown'[s] = IF s \in online \cap room THEN shown[s] \cup {m} ELSE shown[s]
      BY <3>1, ToldStep
    <3> QED
      BY <1>2, <3>2
  <2> QED
    BY <1>1, <2>1, <2>2, ShowingDelivers
<1> QED
  BY <1>3, <1>4

(* What socket s does.                                                     *)
LEMMA ClientDelivers ==
  ASSUME TypeOK, SeenInv, NEW s \in Sockets,
         \/ Connect(s) \/ ListConversations(s) \/ AutoJoin(s) \/ Disconnect(s)
         \/ Ask(s, "joining") \/ JoinConversation(s) \/ LeaveConversation(s)
         \/ Ask(s, "messages") \/ FindMessages(s)
  PROVE  [Promise!DeliveryNext]_(Promise!deliveryVars)
<1>1. UNCHANGED <<row, cast>> /\ Invitees' = Invitees /\ Saved' = Saved /\ SentAround' = SentAround
  BY DEF Connect, ListConversations, AutoJoin, Disconnect, Ask, JoinConversation,
     LeaveConversation, FindMessages, Invitees, Saved, SentAround
<1>2. CASE Disconnect(s)
  <2>1. Promise!Go(s)
    BY <1>1, <1>2 DEF Disconnect, Promise!Go
  <2> QED
    BY <2>1 DEF Promise!DeliveryNext
<1>3. CASE FindMessages(s)
  <2>1. Owner[s] \in Invitees
    BY <1>3, OwnerAssumption DEF FindMessages, SeenInv, Invited, Invitees
  <2>2. Promise!Load(s)
    BY <1>1, <1>3, <2>1 DEF FindMessages, Promise!Load
  <2> QED
    BY <2>2 DEF Promise!DeliveryNext
<1>4. CASE ~(Disconnect(s) \/ FindMessages(s))
  BY <1>1, <1>4, NothingDelivered
     DEF Connect, ListConversations, AutoJoin, Ask, JoinConversation, LeaveConversation
<1> QED
  BY <1>2, <1>3, <1>4

(* Only who has a row is about to leave.                                   *)
LeaversInv ==
  \A r \in Requests : change[r].at \in {"asking", "leaving"} => row[User(r)] # "none"

LEMMA LeaversStep == TypeOK /\ LeaversInv /\ [Next]_vars => LeaversInv'
<1> SUFFICES ASSUME TypeOK, LeaversInv, [Next]_vars PROVE LeaversInv'
  OBVIOUS
<1>0. /\ \A r \in Requests : User(r) \in Users
      /\ \A u \in Users : row[u] # "none" => row'[u] # "none"
  BY RowsStay DEF TypeOK, Change, User
<1>1. ASSUME NEW r \in Requests, \A q \in Requests : q # r => change'[q] = change[q],
             change'[r].at \in {"asking", "leaving"} =>
               change'[r].user \in Users /\ row[change'[r].user] # "none"
      PROVE  LeaversInv'
  BY <1>0, <1>1 DEF LeaversInv, User
<1>2. ASSUME NEW r \in Requests, NEW u \in Users, AskToAdd(r, u) \/ LookToRemove(r, u)
      PROVE  LeaversInv'
  BY <1>1, <1>2 DEF AskToAdd, LookToRemove, Goes, TypeOK
<1>3. ASSUME NEW r \in Requests,
             \/ LookToAdd(r) \/ Insert(r) \/ Reload(r) \/ Restore(r)
             \/ AskToRemove(r) \/ Leave(r)
      PROVE  LeaversInv'
  <2>1. /\ \A q \in Requests : q # r => change'[q] = change[q]
        /\ \/ change'[r].at \notin {"asking", "leaving"}
           \/ change[r].at = "asking" /\ change'[r].user = User(r)
    BY <1>3
       DEF LookToAdd, Insert, Reload, Restore, AskToRemove, Leave, Goes, Ends, NoChange, TypeOK
  <2> QED
    BY <1>0, <1>1, <2>1 DEF LeaversInv
<1>4. CASE Crash
  BY <1>4 DEF Crash, LeaversInv, NoChange
<1>5. CASE UNCHANGED change
  BY <1>0, <1>5 DEF LeaversInv, User
<1> QED
  BY <1>2, <1>3, <1>4, <1>5
     DEF Next, vars, Connect, ListConversations, AutoJoin, Disconnect, Ask, JoinConversation,
         FindMessages, LeaveConversation, CheckSender, SaveMessage, LookUp, Broadcast,
         BroadcastBlindly, Notify

(* Whoever joins is invited, whoever leaves withdraws.                     *)
LEMMA ChangeDelivers ==
  ASSUME TypeOK, GapInv, LeaversInv, NEW r \in Requests, Insert(r) \/ Restore(r) \/ Leave(r)
  PROVE  [Promise!DeliveryNext]_(Promise!deliveryVars)
<1>1. User(r) \in Users /\ cast' = cast /\ shown' = shown
  BY DEF TypeOK, Change, User, Insert, Restore, Leave
<1>2. Saved' = Saved /\ SentAround' = SentAround
  BY <1>1 DEF Saved, SentAround
<1>3. CASE Insert(r) \/ Restore(r)
  <2>1. \A u \in Users : row'[u] # "none" <=> row[u] # "none" \/ u = User(r)
    BY <1>3 DEF Insert, Restore, TypeOK
  <2>2. Invitees' = Invitees \cup {User(r)} /\ loaded' = loaded
    BY <1>1, <1>3, <2>1 DEF Insert, Restore, Invitees
  <2>3. Promise!Invite(User(r))
    BY <1>1, <1>2, <2>2 DEF Promise!Invite
  <2> QED
    BY <1>1, <2>3 DEF Promise!DeliveryNext
<1>4. CASE Leave(r)
  <2>1. \A u \in Users : row'[u] # "none" <=> row[u] # "none"
    BY <1>4 DEF Leave, LeaversInv, TypeOK
  <2>2. loaded' = {s \in loaded : Owner[s] # User(r)}
    BY <1>4 DEF Leave, SocketsOf, TypeOK
  <2>3. Promise!Withdraw(User(r))
    BY <1>1, <1>2, <2>1, <2>2 DEF Promise!Withdraw, Invitees
  <2> QED
    BY <1>1, <2>3 DEF Promise!DeliveryNext
<1> QED
  BY <1>3, <1>4

LEMMA CrashDelivers == TypeOK /\ Crash => Promise!GoAll
<1> SUFFICES ASSUME TypeOK, Crash PROVE Promise!GoAll
  OBVIOUS
<1>1. ASSUME NEW m \in Messages
      PROVE  /\ m \in Saved' <=> m \in Saved
             /\ m \in SentAround' => m \in SentAround
  BY DEF Crash, Saved, SentAround, NoCast
<1>2. Saved' = Saved /\ SentAround' \in SUBSET SentAround
  BY <1>1 DEF Saved, SentAround
<1> QED
  BY <1>2 DEF Crash, Promise!GoAll, Invitees

LEMMA DeliveryStep ==
  TypeOK /\ GapInv /\ GapInv' /\ SeenInv /\ LeaversInv /\ [Next]_vars
    => [Promise!DeliveryNext]_(Promise!deliveryVars)
<1> SUFFICES ASSUME TypeOK, GapInv, GapInv', SeenInv, LeaversInv, [Next]_vars
             PROVE  [Promise!DeliveryNext]_(Promise!deliveryVars)
  OBVIOUS
<1>1. ASSUME NEW s \in Sockets,
             \/ Connect(s) \/ ListConversations(s) \/ AutoJoin(s) \/ Disconnect(s)
             \/ Ask(s, "joining") \/ JoinConversation(s) \/ LeaveConversation(s)
             \/ Ask(s, "messages") \/ FindMessages(s)
      PROVE  [Promise!DeliveryNext]_(Promise!deliveryVars)
  BY <1>1, ClientDelivers
<1>2. ASSUME NEW m \in Messages, CheckSender(m) \/ SaveMessage(m) \/ LookUp(m)
      PROVE  [Promise!DeliveryNext]_(Promise!deliveryVars)
  BY <1>2, SendingDelivers
<1>3. ASSUME NEW m \in Messages, Broadcast(m) \/ Notify(m) \/ BroadcastBlindly(m)
      PROVE  [Promise!DeliveryNext]_(Promise!deliveryVars)
  BY <1>3, BroadcastDelivers DEF Promise!DeliveryNext
<1>4. ASSUME NEW r \in Requests, Insert(r) \/ Restore(r) \/ Leave(r)
      PROVE  [Promise!DeliveryNext]_(Promise!deliveryVars)
  BY <1>4, ChangeDelivers
<1>5. CASE UNCHANGED <<row, cast, shown, loaded>>
  BY <1>5, AsideDelivers
<1>6. CASE Crash
  BY <1>6, CrashDelivers DEF Promise!DeliveryNext
<1> QED
  BY <1>1, <1>2, <1>3, <1>4, <1>5, <1>6
     DEF Next, vars, AskToAdd, LookToAdd, Reload, LookToRemove, AskToRemove

(* The conversation implements Delivery, for every number of sockets,      *)
(* messages and requests: whatever requests that change the participants,  *)
(* joins, loads, disconnects and broadcasts do between each other's        *)
(* queries, a step of theirs brings a client only what is saved, and only  *)
(* if its user was invited, takes nothing back while the client is there,  *)
(* and completes no broadcast that a client which attends has missed.      *)
THEOREM RoomsDeliver == Spec => Delivers
<1>1. Init => TypeOK /\ AskedInv /\ GapInv /\ SeenInv /\ LeaversInv
  BY NothingTyped
     DEF Init, TypeOK, RowState, Handshake, Asked, AskedInv, GapInv, Loaders, SeenInv,
         OnlyInvited, NoCast, LeaversInv, NoChange
<1>2. TypeOK /\ AskedInv /\ GapInv /\ SeenInv /\ LeaversInv /\ [Next]_vars
        => (TypeOK /\ AskedInv /\ GapInv /\ SeenInv /\ LeaversInv)'
  BY TypeStep, AskedStep, GapStep, SeenStep, LeaversStep
<1>3. Init => Promise!DeliveryInit
  BY DEF Init, Promise!DeliveryInit, Invitees, Saved, SentAround, NoCast
<1>4. TypeOK /\ GapInv /\ GapInv' /\ SeenInv /\ LeaversInv /\ [Next]_vars
        => [Promise!DeliveryNext]_(Promise!deliveryVars)
  BY DeliveryStep
<1> QED
  BY <1>1, <1>2, <1>3, <1>4, PTL DEF Spec, Delivers, Promise!DeliverySpec
=============================================================================
