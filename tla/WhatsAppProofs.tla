--------------------------- MODULE WhatsAppProofs ---------------------------
(* What is proved of a WhatsApp device: its session, and the inbox on top  *)
(* of it. Each part names its inductive invariant and shows that every     *)
(* action keeps it; the theorems are at the end, about both together.      *)
EXTENDS WhatsApp, FiniteSetTheorems, TLAPS

(***************************************************************************)
(* WaSession: what a logout ended stays out, for any number of sockets,    *)
(* calls and pairings.                                                     *)
(***************************************************************************)

(* A call that no longer fails, or a socket: from then on the session      *)
(* tries again.  Between the removal of the folder and the end of a logout *)
(* there is one, or nothing is registered and the folder stays away.       *)
Trying(c) == call[c].at = "making" \/ (call[c].at # "idle" /\ call[c].by = "reconnect")
Lives == (\E s \in Sockets : Alive(s)) \/ \E c \in Calls : Trying(c)
Away == active = None /\ folder = Absent
LogoutInv == logout.at = "updating" => Lives \/ Away
SessionInv == SessionTypeOK /\ LogoutInv /\ SealedStaysOut

LEMMA AbsentType == Absent \in Folder /\ Absent # 0 /\ \A p \in 0..MaxPairings : p \in Folder /\ p # Absent
  BY PairingsAssumption DEF Absent, Folder

LEMMA SocketType ==
  /\ NoSocket \in Socket /\ NoSocket.at = "none" /\ NoSocket.opening = "no"
  /\ \A x \in Socket :
       /\ x.at \in {"none", "linking", "open"} /\ x.creds \in 0..MaxPairings
       /\ x.isNewLogin \in BOOLEAN /\ x.opening \in {"no", "logs", "contacts", "update"}
       /\ x.closing \in BOOLEAN /\ x.unsaved \in BOOLEAN
  BY PairingsAssumption DEF NoSocket, Socket

LEMMA CallType ==
  /\ NoCall \in Call /\ NoCall.at = "idle"
  /\ \A by \in {"http", "boot", "reconnect"} :
       Calling(by) \in Call /\ Calling(by).at = "finding" /\ Calling(by).by = by
  /\ \A x \in Call : x.by \in {"http", "boot", "reconnect"} /\ x.creds \in 0..MaxPairings
<1>1. 0 \in 0..MaxPairings
  BY PairingsAssumption
<1>2. NoCall \in Call /\ NoCall.at = "idle"
  BY <1>1 DEF NoCall, Call
<1>3. ASSUME NEW by \in {"http", "boot", "reconnect"}
      PROVE  Calling(by) \in Call /\ Calling(by).at = "finding" /\ Calling(by).by = by
  BY <1>1 DEF NoCall, Call, Calling
<1>4. \A x \in Call : x.by \in {"http", "boot", "reconnect"} /\ x.creds \in 0..MaxPairings
  BY DEF Call
<1>5. QED
  BY <1>2, <1>3, <1>4

LEMMA LogoutType ==
  /\ NoLogout \in Logout /\ NoLogout.at = "idle"
  /\ \A x \in Logout : x.sock \in Sockets \cup {None} /\ x.clear \in BOOLEAN
  BY DEF NoLogout, Logout

(* Whatever is sealed has nothing that could act.                          *)
LEMMA SealedRests ==
  ASSUME SessionInv, sealed
  PROVE  /\ \A s \in Sockets : sock[s].at = "none" /\ sock[s].opening = "no"
         /\ \A c \in Calls : call[c].at = "idle"
         /\ active = None /\ folder = Absent /\ code = None /\ row \in {"none", "disconnected"}
  BY DEF SessionInv, SealedStaysOut, NothingLeft, Idle, Alive

LEMMA Sealing ==
  ASSUME \A s \in Sockets : sock'[s].at = "none" /\ sock'[s].opening = "no",
         \A c \in Calls : call'[c].at = "idle",
         active' = None, folder' = Absent, code' = None, row' \in {"none", "disconnected"}
  PROVE  SealedStaysOut'
  BY DEF SealedStaysOut, NothingLeft, Idle, Alive

(* A step of a socket that stays as it is, linking or open.                *)
LEMMA SocketGoesOn ==
  ASSUME SessionInv, NEW s \in Sockets, NEW x \in Socket, x.at = sock[s].at \/ x.at # "none",
         sock' = [sock EXCEPT ![s] = x], sock[s].opening # "no" \/ Alive(s),
         row' \in Status, linked' \in SUBSET Pairing, scans' \in 0..MaxPairings,
         code' \in Sockets \cup {None},
         UNCHANGED <<folder, active, call, logout, gaveUp, sealed>>
  PROVE  SessionInv'
<1>1. /\ sock \in [Sockets -> Socket]
      /\ \A z \in Sockets : sock'[z] = IF z = s THEN x ELSE sock[z]
  BY DEF SessionInv, SessionTypeOK
<1>2. SessionTypeOK'
  BY <1>1 DEF SessionInv, SessionTypeOK
<1>3. Lives => Lives'
  BY <1>1 DEF Lives, Alive, Trying
<1>4. LogoutInv'
  BY <1>3 DEF SessionInv, LogoutInv, Away
<1>5. ~sealed'
  BY SealedRests DEF Alive
<1>6. SealedStaysOut'
  BY <1>5 DEF SealedStaysOut
<1>7. QED
  BY <1>2, <1>4, <1>6 DEF SessionInv

LEMMA SocketKeeps ==
  ASSUME SessionInv, NEW s \in Sockets,
         ShowCode(s) \/ Scan(s) \/ Open(s) \/ MarkConnected(s) \/ ResetLogs(s) \/ ResetContacts(s)
  PROVE  SessionInv'
<1>1. /\ sock \in [Sockets -> Socket] /\ sock[s] \in Socket /\ row \in Status
      /\ linked \in SUBSET Pairing /\ scans \in 0..MaxPairings /\ code \in Sockets \cup {None}
  BY DEF SessionInv, SessionTypeOK
<1>2. CASE ShowCode(s)
  <2>1. PICK x : x = [sock[s] EXCEPT !.isNewLogin = TRUE]
    OBVIOUS
  <2>2. x \in Socket /\ x.at = sock[s].at /\ sock' = [sock EXCEPT ![s] = x]
    BY <1>1, <1>2, <2>1 DEF Socket, ShowCode
  <2>3. QED
    BY <1>1, <1>2, <2>2, SocketGoesOn DEF ShowCode, Alive
<1>3. CASE Scan(s)
  <2>1. PICK x : x = [sock[s] EXCEPT !.creds = scans + 1, !.unsaved = TRUE]
    OBVIOUS
  <2>2. scans + 1 \in 0..MaxPairings /\ scans + 1 \in Pairing
    BY <1>1, <1>3, PairingsAssumption DEF Scan, Pairing
  <2>3. x \in Socket /\ x.at = sock[s].at /\ sock' = [sock EXCEPT ![s] = x]
    BY <1>1, <1>3, <2>1, <2>2 DEF Socket, Scan
  <2>4. linked' \in SUBSET Pairing /\ scans' \in 0..MaxPairings
    BY <1>1, <1>3, <2>2 DEF Scan
  <2>5. QED
    BY <1>1, <1>3, <2>3, <2>4, SocketGoesOn DEF Scan, Alive
<1>4. CASE Open(s)
  <2>1. PICK x : x = [sock[s] EXCEPT !.at = "open", !.unsaved = TRUE,
                                     !.opening = IF sock[s].isNewLogin THEN "logs" ELSE "update"]
    OBVIOUS
  <2>2. x \in Socket /\ x.at = "open" /\ sock' = [sock EXCEPT ![s] = x]
    BY <1>1, <1>4, <2>1 DEF Socket, Open
  <2>3. QED
    BY <1>1, <1>4, <2>2, SocketGoesOn DEF Open, Alive
<1>5. CASE MarkConnected(s)
  <2>1. PICK x : x = [sock[s] EXCEPT !.opening = "no"]
    OBVIOUS
  <2>2. x \in Socket /\ x.at = sock[s].at /\ sock' = [sock EXCEPT ![s] = x]
    BY <1>1, <1>5, <2>1 DEF Socket, MarkConnected
  <2>3. row' \in Status
    BY <1>5 DEF MarkConnected, Mark, Status
  <2>4. QED
    BY <1>1, <1>5, <2>2, <2>3, SocketGoesOn DEF MarkConnected
<1>6. CASE ResetLogs(s)
  <2>1. PICK rest \in {"contacts", "update"} :
          sock' = [sock EXCEPT ![s].opening = rest, ![s].isNewLogin = (rest = "contacts")]
    BY <1>6 DEF ResetLogs
  <2>2. PICK x : x = [sock[s] EXCEPT !.opening = rest, !.isNewLogin = (rest = "contacts")]
    OBVIOUS
  <2>3. x \in Socket /\ x.at = sock[s].at /\ sock' = [sock EXCEPT ![s] = x]
    BY <1>1, <2>1, <2>2 DEF Socket
  <2>4. QED
    BY <1>1, <1>6, <2>3, SocketGoesOn DEF ResetLogs
<1>7. CASE ResetContacts(s)
  <2>1. PICK x : x = [sock[s] EXCEPT !.opening = "update", !.isNewLogin = FALSE]
    OBVIOUS
  <2>2. x \in Socket /\ x.at = sock[s].at /\ sock' = [sock EXCEPT ![s] = x]
    BY <1>1, <1>7, <2>1 DEF Socket, ResetContacts
  <2>3. QED
    BY <1>1, <1>7, <2>2, SocketGoesOn DEF ResetContacts
<1>8. QED
  BY <1>2, <1>3, <1>4, <1>5, <1>6, <1>7

(* A write of the credentials finds the folder; a rejected socket marks    *)
(* the row.                                                                *)
LEMMA SaveCredsKeeps ==
  ASSUME SessionInv, NEW s \in Sockets, SaveCreds(s)
  PROVE  SessionInv'
<1>1. /\ sock \in [Sockets -> Socket] /\ sock[s] \in Socket /\ folder # Absent
      /\ folder' = sock[s].creds
      /\ UNCHANGED <<row, linked, active, code, call, logout, scans, gaveUp, sealed>>
  BY DEF SaveCreds, SessionInv, SessionTypeOK
<1>2. PICK x : x = [sock[s] EXCEPT !.unsaved = FALSE]
  OBVIOUS
<1>3. x \in Socket /\ x.at = sock[s].at /\ sock' = [sock EXCEPT ![s] = x]
  BY <1>1, <1>2 DEF Socket, SaveCreds
<1>4. SessionTypeOK'
  BY <1>1, <1>3, SocketType, AbsentType DEF SessionInv, SessionTypeOK
<1>5. \A z \in Sockets : sock'[z].at = sock[z].at
  BY <1>1, <1>3
<1>6. LogoutInv'
  BY <1>1, <1>5 DEF SessionInv, LogoutInv, Lives, Away, Alive, Trying
<1>7. SealedStaysOut'
  BY <1>1, SealedRests DEF SealedStaysOut
<1>8. QED
  BY <1>4, <1>6, <1>7 DEF SessionInv

LEMMA MarkDisconnectedKeeps ==
  ASSUME SessionInv, NEW s \in Sockets, MarkDisconnected(s)
  PROVE  SessionInv'
<1>1. /\ sock \in [Sockets -> Socket] /\ sock[s] \in Socket
      /\ row' \in {"none", "disconnected"}
      /\ UNCHANGED <<folder, linked, active, code, call, logout, scans, gaveUp, sealed>>
  BY DEF MarkDisconnected, Mark, SessionInv, SessionTypeOK
<1>2. PICK x : x = [sock[s] EXCEPT !.closing = FALSE]
  OBVIOUS
<1>3. /\ x \in Socket /\ x.at = sock[s].at /\ x.opening = sock[s].opening
      /\ sock' = [sock EXCEPT ![s] = x]
  BY <1>1, <1>2 DEF Socket, MarkDisconnected
<1>4. SessionTypeOK'
  BY <1>1, <1>3 DEF SessionInv, SessionTypeOK, Status
<1>5. \A z \in Sockets : sock'[z].at = sock[z].at /\ sock'[z].opening = sock[z].opening
  BY <1>1, <1>3
<1>6. LogoutInv'
  BY <1>1, <1>5 DEF SessionInv, LogoutInv, Lives, Away, Alive, Trying
<1>7. CASE sealed
  BY <1>1, <1>4, <1>5, <1>6, <1>7, SealedRests, Sealing DEF SessionInv
<1>8. CASE ~sealed
  BY <1>1, <1>4, <1>6, <1>8 DEF SessionInv, SealedStaysOut
<1>9. QED
  BY <1>7, <1>8

(* A socket that is gone is replaced, or everything is cleared.            *)
LEMMA GoneType ==
  ASSUME SessionInv, NEW s \in Sockets, NEW closing \in BOOLEAN, Gone(s, closing)
  PROVE  /\ sock' \in [Sockets -> Socket] /\ logout' \in Logout /\ logout'.at = logout.at
<1>1. sock \in [Sockets -> Socket] /\ sock[s] \in Socket /\ logout \in Logout
  BY DEF SessionInv, SessionTypeOK
<1>2. PICK x : x = [sock[s] EXCEPT !.at = "none", !.closing = @ \/ closing]
  OBVIOUS
<1>3. x \in Socket
  BY <1>1, <1>2 DEF Socket
<1>4. sock' = [sock EXCEPT ![s] = x]
  BY <1>1, <1>2 DEF Gone
<1>5. logout' \in Logout /\ logout'.at = logout.at
  BY <1>1 DEF Gone, Logout
<1>6. QED
  BY <1>1, <1>3, <1>4, <1>5

LEMMA LoseKeeps ==
  ASSUME SessionInv, NEW s \in Sockets, Lose(s)
  PROVE  SessionInv'
<1>1. /\ Alive(s) /\ Gone(s, FALSE) /\ code' = None
      /\ UNCHANGED <<row, folder, linked, active, scans, gaveUp, sealed>>
  BY DEF Lose
<1>2. PICK c \in Calls : call[c].at = "idle" /\ call' = [call EXCEPT ![c] = Calling("reconnect")]
  BY DEF Lose
<1>3. call \in [Calls -> Call]
  BY DEF SessionInv, SessionTypeOK
<1>4. call' \in [Calls -> Call] /\ Trying(c)'
  BY <1>2, <1>3, CallType DEF Trying
<1>5. SessionTypeOK'
  BY <1>1, <1>4, GoneType DEF SessionInv, SessionTypeOK
<1>6. LogoutInv'
  BY <1>4 DEF LogoutInv, Lives
<1>7. SealedStaysOut'
  BY <1>1, SealedRests DEF SealedStaysOut, Alive
<1>8. QED
  BY <1>5, <1>6, <1>7 DEF SessionInv

LEMMA RejectKeeps ==
  ASSUME SessionInv, NEW s \in Sockets, Reject(s)
  PROVE  SessionInv'
<1>1. /\ Alive(s) /\ Gone(s, TRUE) /\ code' = None /\ active' = None /\ folder' = Absent
      /\ UNCHANGED <<row, linked, call, scans, gaveUp, sealed>>
  BY DEF Reject
<1>2. SessionTypeOK'
  BY <1>1, GoneType, AbsentType DEF SessionInv, SessionTypeOK
<1>3. LogoutInv'
  BY <1>1 DEF LogoutInv, Away
<1>4. SealedStaysOut'
  BY <1>1, SealedRests DEF SealedStaysOut, Alive
<1>5. QED
  BY <1>2, <1>3, <1>4 DEF SessionInv

(* A call goes on; one that tries does not give up.                        *)
LEMMA CallGoesOn ==
  ASSUME SessionInv, NEW c \in Calls, NEW x \in Call, call' = [call EXCEPT ![c] = x],
         Trying(c) => x.at = "making" \/ (x.at # "idle" /\ x.by = "reconnect"),
         row' \in Status, gaveUp' \in BOOLEAN, ~sealed',  sealed' \in BOOLEAN,
         UNCHANGED <<folder, linked, sock, active, code, logout, scans>>
  PROVE  SessionInv'
<1>1. call \in [Calls -> Call]
  BY DEF SessionInv, SessionTypeOK
<1>2. SessionTypeOK'
  BY <1>1 DEF SessionInv, SessionTypeOK
<1>3. \A d \in Calls : Trying(d) => Trying(d)'
  BY <1>1 DEF Trying
<1>4. Lives => Lives'
  BY <1>3 DEF Lives, Alive
<1>5. LogoutInv'
  BY <1>4 DEF SessionInv, LogoutInv, Away
<1>6. QED
  BY <1>2, <1>5 DEF SessionInv, SealedStaysOut

LEMMA CallKeeps ==
  ASSUME SessionInv, NEW c \in Calls,
         InitSession(c) \/ FindDevice(c) \/ SaveDevice(c) \/ CallFails(c)
  PROVE  SessionInv'
<1>1. /\ call \in [Calls -> Call] /\ call[c] \in Call /\ row \in Status
      /\ gaveUp \in BOOLEAN /\ sealed \in BOOLEAN
  BY DEF SessionInv, SessionTypeOK
<1>2. call[c].at # "idle" => ~sealed
  BY SealedRests
<1>3. CASE InitSession(c)
  <2>1. PICK x : x = Calling("http")
    OBVIOUS
  <2>2. x \in Call /\ call' = [call EXCEPT ![c] = x]
    BY <1>3, <2>1, CallType DEF InitSession
  <2>3. ~Trying(c)
    BY <1>3 DEF InitSession, Trying
  <2>4. QED
    BY <1>1, <1>3, <2>2, <2>3, CallGoesOn DEF InitSession
<1>4. ASSUME NEW at \in {"saving", "loading"}, call' = [call EXCEPT ![c].at = at],
             call[c].at \in {"finding", "saving"}, row' \in Status,
             UNCHANGED <<folder, linked, sock, active, code, logout, scans, gaveUp, sealed>>
      PROVE  SessionInv'
  <2>1. PICK x : x = [call[c] EXCEPT !.at = at]
    OBVIOUS
  <2>2. x \in Call /\ x.at = at /\ x.by = call[c].by /\ call' = [call EXCEPT ![c] = x]
    BY <1>1, <1>4, <2>1 DEF Call
  <2>3. Trying(c) => x.at # "idle" /\ x.by = "reconnect"
    BY <1>4, <2>2 DEF Trying
  <2>4. ~sealed'
    BY <1>2, <1>4
  <2>5. QED
    BY <1>1, <1>4, <2>2, <2>3, <2>4, CallGoesOn
<1>5. CASE FindDevice(c)
  BY <1>1, <1>4, <1>5 DEF FindDevice
<1>6. CASE SaveDevice(c)
  BY <1>4, <1>6 DEF SaveDevice, Status
<1>7. CASE CallFails(c)
  <2>1. ~Trying(c) /\ ~sealed'
    BY <1>2, <1>7 DEF CallFails, Trying
  <2>2. NoCall \in Call /\ call' = [call EXCEPT ![c] = NoCall]
    BY <1>7, CallType DEF CallFails
  <2>3. QED
    BY <1>1, <1>7, <2>1, <2>2, CallGoesOn DEF CallFails
<1>8. QED
  BY <1>3, <1>5, <1>6, <1>7

LEMMA LoadCredsKeeps ==
  ASSUME SessionInv, NEW c \in Calls, LoadCreds(c)
  PROVE  SessionInv'
<1>1. /\ call \in [Calls -> Call] /\ call[c] \in Call /\ folder \in Folder
      /\ call[c].at = "loading"
      /\ UNCHANGED <<row, linked, sock, active, code, logout, scans, gaveUp, sealed>>
  BY DEF SessionInv, SessionTypeOK, LoadCreds
<1>2. PICK creds : creds = IF folder = Absent THEN 0 ELSE folder
  OBVIOUS
<1>3. creds \in 0..MaxPairings /\ creds \in Folder
  BY <1>1, <1>2, PairingsAssumption DEF Folder, Absent
<1>4. PICK x : x = [call[c] EXCEPT !.at = "making", !.creds = creds]
  OBVIOUS
<1>5. x \in Call /\ x.at = "making" /\ call' = [call EXCEPT ![c] = x] /\ folder' = creds
  BY <1>1, <1>2, <1>3, <1>4 DEF Call, LoadCreds
<1>6. SessionTypeOK'
  BY <1>1, <1>3, <1>5 DEF SessionInv, SessionTypeOK
<1>7. LogoutInv'
  BY <1>1, <1>5 DEF LogoutInv, Lives, Trying
<1>8. SealedStaysOut'
  BY <1>1, SealedRests DEF SealedStaysOut
<1>9. QED
  BY <1>6, <1>7, <1>8 DEF SessionInv

LEMMA MakeSocketKeeps ==
  ASSUME SessionInv, NEW c \in Calls, NEW s \in Sockets, MakeSocket(c, s)
  PROVE  SessionInv'
<1>1. /\ call \in [Calls -> Call] /\ call[c] \in Call /\ sock \in [Sockets -> Socket]
      /\ call[c].at = "making" /\ active' = s /\ call' = [call EXCEPT ![c] = NoCall]
      /\ UNCHANGED <<row, folder, linked, code, logout, scans, gaveUp, sealed>>
  BY DEF SessionInv, SessionTypeOK, MakeSocket
<1>2. PICK x : x = [NoSocket EXCEPT !.at = "linking", !.creds = call[c].creds]
  OBVIOUS
<1>3. x \in Socket /\ x.at = "linking"
  BY <1>1, <1>2, CallType DEF NoSocket, Socket
<1>4. sock' = [sock EXCEPT ![s] = x]
  BY <1>2 DEF MakeSocket
<1>5. SessionTypeOK'
  BY <1>1, <1>3, <1>4, CallType DEF SessionInv, SessionTypeOK
<1>6. LogoutInv'
  BY <1>1, <1>3, <1>4 DEF LogoutInv, Lives, Alive
<1>7. SealedStaysOut'
  BY <1>1, SealedRests DEF SealedStaysOut
<1>8. QED
  BY <1>5, <1>6, <1>7 DEF SessionInv

(* The logout, and the phone.                                              *)
LEMMA LogoutGoesOn ==
  ASSUME SessionInv, logout' \in Logout, linked' \in SUBSET Pairing,
         logout'.at = "updating" => logout.at = "updating" \/ Away,
         UNCHANGED <<row, folder, sock, active, code, call, scans, gaveUp, sealed>>
  PROVE  SessionInv'
<1>1. SessionTypeOK'
  BY DEF SessionInv, SessionTypeOK
<1>2. (Lives => Lives') /\ (Away => Away')
  BY DEF Lives, Alive, Trying, Away
<1>3. LogoutInv'
  BY <1>2 DEF SessionInv, LogoutInv
<1>4. SealedStaysOut'
  BY DEF SessionInv, SealedStaysOut, NothingLeft, Idle, Alive
<1>5. QED
  BY <1>1, <1>3, <1>4 DEF SessionInv

LEMMA ForgetKeeps ==
  ASSUME SessionInv, Forget, sock' \in [Sockets -> Socket], linked' \in SUBSET Pairing,
         \A s \in Sockets : sock'[s].at \in {sock[s].at, "none"} /\ sock'[s].opening = sock[s].opening,
         code' \in {code, None}, UNCHANGED <<row, call, scans, gaveUp, sealed>>
  PROVE  SessionInv'
<1>1. logout \in Logout /\ code \in Sockets \cup {None}
  BY DEF SessionInv, SessionTypeOK
<1>2. active' = None /\ folder' = Absent /\ logout' \in Logout
  BY <1>1 DEF Forget, Logout
<1>3. SessionTypeOK'
  BY <1>1, <1>2, AbsentType DEF SessionInv, SessionTypeOK
<1>4. LogoutInv'
  BY <1>2 DEF LogoutInv, Away
<1>5. CASE sealed
  BY <1>2, <1>3, <1>4, <1>5, SealedRests, Sealing DEF SessionInv
<1>6. CASE ~sealed
  BY <1>3, <1>4, <1>6 DEF SessionInv, SealedStaysOut
<1>7. QED
  BY <1>5, <1>6

LEMMA LogoutKeeps ==
  ASSUME SessionInv,
         \/ RequestLogout \/ BeginLogout \/ LeaveFails \/ FinishLogout \/ ClearLogs \/ ClearContacts
         \/ \E s \in Sockets : Leave(s)
  PROVE  SessionInv'
<1>1. /\ logout \in Logout /\ linked \in SUBSET Pairing /\ sock \in [Sockets -> Socket]
      /\ active \in Sockets \cup {None}
  BY DEF SessionInv, SessionTypeOK
<1>2. CASE RequestLogout
  <2>1. logout' \in Logout /\ logout'.at = "finding"
    BY <1>2 DEF RequestLogout, NoLogout, Logout
  <2>2. QED
    BY <1>1, <1>2, <2>1, LogoutGoesOn DEF RequestLogout
<1>3. CASE BeginLogout
  <2>1. UNCHANGED <<row, linked, sock, active, code, call, scans, gaveUp, sealed>>
    BY <1>3 DEF BeginLogout
  <2>2. CASE logout' = NoLogout /\ UNCHANGED folder
    BY <1>1, <2>1, <2>2, LogoutType, LogoutGoesOn
  <2>3. ASSUME NEW clear \in BOOLEAN, UNCHANGED folder,
               logout' = [at |-> "leaving", clear |-> clear,
                          sock |-> IF Alive(active) THEN active ELSE None]
        PROVE  SessionInv'
    <3>1. logout' \in Logout /\ logout'.at = "leaving"
      BY <1>1, <2>3 DEF Logout
    <3>2. QED
      BY <1>1, <2>1, <2>3, <3>1, LogoutGoesOn
  <2>4. ASSUME NEW clear \in BOOLEAN, active = None, folder' = Absent,
               logout' = [at |-> "updating", clear |-> clear, sock |-> None]
        PROVE  SessionInv'
    <3>1. logout' \in Logout
      BY <2>4 DEF Logout
    <3>2. SessionTypeOK'
      BY <2>1, <2>4, <3>1, AbsentType DEF SessionInv, SessionTypeOK
    <3>3. LogoutInv'
      BY <2>1, <2>4 DEF LogoutInv, Away
    <3>4. CASE sealed
      BY <2>1, <2>4, <3>2, <3>3, <3>4, SealedRests, Sealing DEF SessionInv
    <3>5. CASE ~sealed
      BY <2>1, <3>2, <3>3, <3>5 DEF SessionInv, SealedStaysOut
    <3>6. QED
      BY <3>4, <3>5
  <2>5. QED
    <3>1. {FALSE, row # "none"} \subseteq BOOLEAN
      OBVIOUS
    <3>2. \/ logout' = NoLogout /\ UNCHANGED folder
          \/ \E clear \in BOOLEAN :
               \/ /\ logout' = [at |-> "leaving", clear |-> clear,
                                sock |-> IF Alive(active) THEN active ELSE None]
                  /\ UNCHANGED folder
               \/ /\ active = None
                  /\ logout' = [at |-> "updating", clear |-> clear, sock |-> None]
                  /\ folder' = Absent
      BY <1>3, <3>1 DEF BeginLogout
    <3>3. QED
      BY <2>2, <2>3, <2>4, <3>2
<1>4. CASE LeaveFails
  BY <1>1, <1>4, ForgetKeeps DEF LeaveFails
<1>5. ASSUME NEW s \in Sockets, Leave(s) PROVE SessionInv'
  <2>1. PICK x : x = [sock[s] EXCEPT !.at = "none", !.closing = TRUE]
    OBVIOUS
  <2>2. sock[s] \in Socket /\ sock' = [sock EXCEPT ![s] = x]
    BY <1>1, <1>5, <2>1 DEF Leave
  <2>3. x \in Socket /\ x.at = "none" /\ x.opening = sock[s].opening
    BY <2>1, <2>2 DEF Socket
  <2>4. /\ sock' \in [Sockets -> Socket]
        /\ \A z \in Sockets :
             sock'[z].at \in {sock[z].at, "none"} /\ sock'[z].opening = sock[z].opening
    BY <1>1, <2>2, <2>3
  <2>5. /\ linked' \in SUBSET Pairing /\ code' \in {code, None} /\ Forget
        /\ UNCHANGED <<row, call, scans, gaveUp, sealed>>
    BY <1>1, <1>5 DEF Leave
  <2>6. QED
    BY <2>4, <2>5, ForgetKeeps
<1>6. CASE FinishLogout
  <2>1. CASE logout' = NoLogout /\ UNCHANGED <<row, code, sealed>>
    BY <1>1, <1>6, <2>1, LogoutType, LogoutGoesOn DEF FinishLogout
  <2>2. CASE /\ Mark("disconnected")
             /\ code' = None
             /\ sealed' = NothingLeft
             /\ logout' = IF logout.clear THEN [logout EXCEPT !.at = "logs"] ELSE NoLogout
    <3>1. /\ logout.at = "updating"
          /\ UNCHANGED <<folder, linked, sock, active, call, scans, gaveUp>>
      BY <1>6 DEF FinishLogout
    <3>2. logout' \in Logout /\ logout'.at # "updating"
      BY <1>1, <2>2, LogoutType DEF Logout
    <3>3. row' \in {"none", "disconnected"}
      BY <2>2 DEF Mark
    <3>4. NothingLeft \in BOOLEAN
      BY DEF NothingLeft, Idle
    <3>5. SessionTypeOK'
      BY <2>2, <3>1, <3>2, <3>3, <3>4 DEF SessionInv, SessionTypeOK, Status
    <3>6. LogoutInv'
      BY <3>2 DEF LogoutInv
    <3>7. ASSUME NothingLeft PROVE SealedStaysOut'
      <4>1. /\ \A s \in Sockets : sock[s].at = "none" /\ sock[s].opening = "no"
            /\ \A c \in Calls : call[c].at = "idle"
        BY <3>7 DEF NothingLeft, Idle, Alive
      <4>2. Away
        BY <3>1, <4>1 DEF SessionInv, LogoutInv, Lives, Alive, Trying
      <4>3. QED
        BY <2>2, <3>1, <3>3, <4>1, <4>2, Sealing DEF Away
    <3>8. ASSUME ~NothingLeft PROVE SealedStaysOut'
      <4>1. ~sealed'
        BY <2>2, <3>8
      <4>2. QED
        BY <4>1 DEF SealedStaysOut
    <3>9. QED
      BY <3>5, <3>6, <3>7, <3>8 DEF SessionInv
  <2>3. QED
    BY <1>6, <2>1, <2>2 DEF FinishLogout
<1>7. CASE ClearLogs \/ ClearContacts
  <2>1. logout' \in Logout /\ logout'.at # "updating"
    BY <1>1, <1>7, LogoutType DEF ClearLogs, ClearContacts, Logout
  <2>2. QED
    BY <1>1, <1>7, <2>1, LogoutGoesOn DEF ClearLogs, ClearContacts
<1>8. QED
  BY <1>2, <1>3, <1>4, <1>5, <1>6, <1>7

LEMMA CrashKeeps ==
  ASSUME SessionInv, Crash
  PROVE  SessionInv'
<1>1. call' \in [Calls -> Call]
  BY CallType DEF Crash
<1>2. SessionTypeOK'
  BY <1>1, SocketType, LogoutType DEF Crash, SessionInv, SessionTypeOK
<1>3. LogoutInv' /\ SealedStaysOut'
  BY LogoutType DEF Crash, LogoutInv, SealedStaysOut
<1>4. QED
  BY <1>2, <1>3 DEF SessionInv

LEMMA SessionStarts == SessionInit => SessionInv
<1> SUFFICES ASSUME SessionInit PROVE SessionInv
  OBVIOUS
<1>1. SessionTypeOK
  <2>1. /\ sock \in [Sockets -> Socket] /\ call \in [Calls -> Call] /\ logout \in Logout
    BY SocketType, CallType, LogoutType DEF SessionInit
  <2>2. folder \in Folder /\ scans \in 0..MaxPairings
    BY AbsentType, PairingsAssumption DEF SessionInit
  <2>3. QED
    BY <2>1, <2>2 DEF SessionInit, SessionTypeOK, Status
<1>2. LogoutInv /\ SealedStaysOut
  BY LogoutType DEF SessionInit, LogoutInv, SealedStaysOut
<1>3. QED
  BY <1>1, <1>2 DEF SessionInv

LEMMA SessionGoesOn == SessionInv /\ [SessionNext]_sessionVars => SessionInv'
<1> SUFFICES ASSUME SessionInv, [SessionNext]_sessionVars PROVE SessionInv'
  OBVIOUS
<1>1. CASE UNCHANGED sessionVars
  <2>1. UNCHANGED <<row, folder, linked, sock, active, code, call, logout, scans, gaveUp, sealed>>
    BY <1>1 DEF sessionVars
  <2>2. logout' \in Logout /\ linked' \in SUBSET Pairing
    BY <2>1 DEF SessionInv, SessionTypeOK
  <2>3. QED
    BY <2>1, <2>2, LogoutGoesOn
<1>2. ASSUME NEW s \in Sockets, SocketStep(s) \/ ResetLogs(s) \/ ResetContacts(s)
      PROVE  SessionInv'
  BY <1>2, SocketKeeps, SaveCredsKeeps, MarkDisconnectedKeeps, LoseKeeps, RejectKeeps
     DEF SocketStep
<1>3. ASSUME NEW c \in Calls, CallStep(c) PROVE SessionInv'
  BY <1>3, CallKeeps, LoadCredsKeeps, MakeSocketKeeps DEF CallStep
<1>4. ASSUME NEW p \in Pairing, Unlink(p) PROVE SessionInv'
  <2>1. logout' \in Logout /\ linked' \in SUBSET Pairing
    BY <1>4 DEF Unlink, SessionInv, SessionTypeOK
  <2>2. QED
    BY <1>4, <2>1, LogoutGoesOn DEF Unlink
<1>5. CASE LogoutStep \/ ClearLogs \/ ClearContacts
  BY <1>5, LogoutKeeps DEF LogoutStep
<1>6. QED
  BY <1>1, <1>2, <1>3, <1>4, <1>5, CrashKeeps DEF SessionNext, SessionStep, ResetStep

(***************************************************************************)
(* WhatsApp: messages, the contact, the count of unread messages and what  *)
(* is sent, for any messages, handlers, recipients and numbers of          *)
(* deliveries.                                                             *)
(***************************************************************************)

(* A message that is handled is one; one that has not been sent, or could  *)
(* not be, has no row and has not come back.                               *)
Early(x) == send[x].at \notin {"recording", "done"} /\ x \notin cutOff
CutInv == \A x \in cutOff : send[x].at = "failed"
HandlersInv == \A h \in Handlers : handler[h].at # "idle" => handler[h].msg \in Messages
EarlyInv == \A x \in Outgoing : Early(x) =>
  /\ log[x] = 0 /\ arrived[x] = 0
  /\ \A h \in Handlers : handler[h].at # "idle" => handler[h].msg # x

(* Unless two were at work at one time, a message has one writer at most,  *)
(* and none once it is logged.                                             *)
Saving(h, m) == handler[h].at = "saving" /\ handler[h].msg = m
OnceInv == \A m \in Messages \ raced :
  /\ log[m] <= 1
  /\ log[m] = 1 => ~Writing(m)
  /\ \A h, g \in Handlers : Saving(h, m) /\ Saving(g, m) => h = g
  /\ m \in Outgoing /\ send[m].at = "recording" => \A h \in Handlers : ~Saving(h, m)
LogInv == HandlersInv /\ CutInv /\ EarlyInv /\ OnceInv

(* Unless two writers of the contact overlapped, there is one, and it has  *)
(* found the row that is there.                                            *)
ContactInv ==
  /\ \A f \in Filings : filing[f].at # "saving" => filing[f].row = 0
  /\ ~bookRaced =>
       /\ \A r, s \in book : r = s
       /\ \A f, g \in Filings : filing[f].at = "saving" /\ filing[g].at = "saving" => f = g
       /\ \A f \in Filings : filing[f].at = "saving" => \A r \in book : r = filing[f].row

(* The last reply under way, or else the badge, has the count of Redis.    *)
BadgeInv ==
  /\ replies # <<>> => replies[Len(replies)].count = unread
  /\ replies = <<>> /\ ~cut => badge = unread

InboxInv == InboxTypeOK /\ LogInv /\ ContactInv /\ BadgeInv

-----------------------------------------------------------------------------
LEMMA HandlerType ==
  /\ NoHandler \in Handler /\ NoHandler.at = "idle"
  /\ \A m \in Messages : /\ [at |-> "device", msg |-> m, live |-> TRUE] \in Handler
                         /\ [at |-> "dedup", msg |-> m, live |-> FALSE] \in Handler
  /\ \A x \in Handler : x.live \in BOOLEAN /\ x.msg \in Messages \cup {None}
<1>1. NoHandler \in Handler /\ NoHandler.at = "idle"
  BY DEF NoHandler, Handler
<1>2. \A m \in Messages : /\ [at |-> "device", msg |-> m, live |-> TRUE] \in Handler
                          /\ [at |-> "dedup", msg |-> m, live |-> FALSE] \in Handler
  BY DEF Handler
<1>3. \A x \in Handler : x.live \in BOOLEAN /\ x.msg \in Messages \cup {None}
  BY DEF Handler
<1>4. QED
  BY <1>1, <1>2, <1>3

LEMMA FilingType ==
  /\ NoFiling \in Filing /\ NoFiling.at = "idle" /\ NoFiling.row = 0
  /\ \A x \in Filing : x.at \in {"idle", "finding", "saving"} /\ x.row \in 0..MaxContacts
  BY BoundsAssumption DEF NoFiling, Filing

LEMMA SendType ==
  /\ NoSend \in Send /\ NoSend.at = "idle" /\ NoSend.sock = None
  /\ \A x \in Send : x.sock \in Sockets \cup {None} /\ x.by \in {"http", "cast", "ping"}
  BY DEF NoSend, Send

LEMMA CastType ==
  /\ Len(Recipients) \in Nat /\ 1 \in 1..Len(Recipients)
  /\ \A n \in 1..Len(Recipients) : Recipients[n] \in Outgoing
  /\ NoCast \in Cast
  /\ \A x \in Cast : x.next \in 1..Len(Recipients)
<1>1. Recipients \in Seq(Outgoing) /\ Recipients # <<>>
  BY RecipientsAssumption
<1>2. Len(Recipients) \in Nat /\ Len(Recipients) # 0
  BY <1>1
<1>3. \A n \in 1..Len(Recipients) : Recipients[n] \in Outgoing
  BY <1>1
<1>4. QED
  BY <1>2, <1>3 DEF NoCast, Cast

(* How a call of sendMessage and a handler go on, or end.                  *)
SendsMove == \A x \in Outgoing :
  /\ Early(x)' => Early(x)
  /\ send'[x].at = "recording" => send[x].at = "recording"
  /\ send[x].at = "failed" => send'[x].at = "failed"
  /\ x \in cutOff' => x \in cutOff \/ send'[x].at = "failed"
HandlersMove == \A h \in Handlers : handler'[h].at # "idle" =>
  /\ handler[h].at # "idle" /\ handler'[h].msg = handler[h].msg
  /\ handler'[h].at = "saving" => handler[h].at = "saving"

LEMMA LogGoesOn ==
  ASSUME InboxTypeOK, InboxTypeOK', LogInv, SendsMove, HandlersMove,
         UNCHANGED <<log, arrived, raced>>
  PROVE  LogInv'
<1>1. HandlersInv'
  BY DEF LogInv, HandlersInv, HandlersMove
<1>2. EarlyInv'
  BY DEF LogInv, EarlyInv, SendsMove, HandlersMove
<1>3. \A h \in Handlers, m \in Messages : Saving(h, m)' => Saving(h, m)
  BY DEF Saving, HandlersMove
<1>4. \A x \in Outgoing : send'[x].at = "recording" => send[x].at = "recording"
  BY DEF SendsMove
<1>5. \A m \in Messages : Writing(m)' => Writing(m)
  BY <1>3, <1>4 DEF Writing, Saving
<1>6. OnceInv'
  BY <1>3, <1>4, <1>5 DEF LogInv, OnceInv
<1>7. CutInv'
  BY DEF LogInv, CutInv, SendsMove, InboxTypeOK
<1>8. QED
  BY <1>1, <1>2, <1>6, <1>7 DEF LogInv

LEMMA SendsStay == ASSUME UNCHANGED <<send, cutOff>> PROVE SendsMove
  BY DEF SendsMove, Early

LEMMA HandlersStay == ASSUME handler' = handler PROVE HandlersMove
  BY DEF HandlersMove

LEMMA ContactGoesOn ==
  ASSUME ContactInv, book' \subseteq book, bookRaced' = bookRaced,
         \A f \in Filings : \/ filing'[f] = filing[f]
                            \/ filing'[f].at # "saving" /\ filing'[f].row = 0
  PROVE  ContactInv'
  BY DEF ContactInv

LEMMA BadgeGoesOn ==
  ASSUME BadgeInv, UNCHANGED <<replies, unread, badge, cut>>
  PROVE  BadgeInv'
  BY DEF BadgeInv

LEMMA FilingStarts ==
  ASSUME InboxTypeOK, ContactInv, NEW f \in Filings, StartFiling(f), UNCHANGED <<book, bookRaced>>
  PROVE  filing' \in [Filings -> Filing] /\ ContactInv'
<1>1. filing \in [Filings -> Filing] /\ filing[f] \in Filing
  BY DEF InboxTypeOK
<1>2. PICK x : x = [filing[f] EXCEPT !.at = "finding"]
  OBVIOUS
<1>3. /\ x \in Filing /\ x.at = "finding" /\ x.row = filing[f].row
      /\ filing' = [filing EXCEPT ![f] = x] /\ filing[f].at = "idle"
  BY <1>1, <1>2 DEF StartFiling, Filing
<1>4. filing[f].row = 0
  BY <1>3 DEF ContactInv
<1>5. \A g \in Filings : \/ filing'[g] = filing[g]
                         \/ filing'[g].at # "saving" /\ filing'[g].row = 0
  BY <1>1, <1>3, <1>4
<1>6. QED
  BY <1>1, <1>3, <1>5, ContactGoesOn

LEMMA SendStarts ==
  ASSUME SessionTypeOK, InboxTypeOK, NEW x \in Outgoing, NEW by \in {"http", "cast", "ping"},
         send[x].at = "idle", StartSend(x, by), cutOff' = cutOff
  PROVE  send' \in [Outgoing -> Send] /\ SendsMove
<1>1. PICK s : s = IF Alive(active) THEN active ELSE None
  OBVIOUS
<1>2. s \in Sockets \cup {None}
  BY <1>1 DEF SessionTypeOK
<1>3. PICK y : y = [at |-> "device", by |-> by, sock |-> s]
  OBVIOUS
<1>4. y \in Send /\ y.at = "device"
  BY <1>2, <1>3 DEF Send
<1>5. send' = [send EXCEPT ![x] = y] /\ send \in [Outgoing -> Send]
  BY <1>1, <1>3 DEF StartSend, InboxTypeOK
<1>6. QED
  BY <1>4, <1>5 DEF SendsMove, Early

LEMMA SendFailed ==
  ASSUME InboxTypeOK, NEW x \in Outgoing, Early(x), Fails(x), cutOff' = cutOff
  PROVE  send' \in [Outgoing -> Send] /\ SendsMove
<1>1. send \in [Outgoing -> Send] /\ send[x] \in Send
  BY DEF InboxTypeOK
<1>2. PICK y : y = [send[x] EXCEPT !.at = "failed", !.sock = None]
  OBVIOUS
<1>3. y \in Send /\ y.at = "failed" /\ send' = [send EXCEPT ![x] = y]
  BY <1>1, <1>2 DEF Send, Fails
<1>4. QED
  BY <1>1, <1>3 DEF SendsMove, Early

LEMMA HandlerEnds ==
  ASSUME InboxTypeOK, NEW h \in Handlers, handler' = [handler EXCEPT ![h] = NoHandler]
  PROVE  handler' \in [Handlers -> Handler] /\ HandlersMove
  BY HandlerType DEF InboxTypeOK, HandlersMove

LEMMA HandlerFinishes ==
  ASSUME SessionTypeOK, InboxTypeOK, NEW h \in Handlers, Finish(h), cutOff' = cutOff
  PROVE  /\ handler' = [handler EXCEPT ![h] = NoHandler]
         /\ handler' \in [Handlers -> Handler] /\ HandlersMove
         /\ send' \in [Outgoing -> Send] /\ SendsMove
<1>1. handler' = [handler EXCEPT ![h] = NoHandler]
  BY DEF Finish
<1>2. CASE UNCHANGED send
  BY <1>1, <1>2, HandlerEnds, SendsStay DEF InboxTypeOK
<1>3. CASE /\ handler[h].msg \in Incoming /\ Pong[handler[h].msg] # None
           /\ send[Pong[handler[h].msg]].at = "idle"
           /\ StartSend(Pong[handler[h].msg], "ping")
  <2>1. Pong[handler[h].msg] \in Outgoing
    BY <1>3, PongAssumption
  <2>2. QED
    BY <1>1, <1>3, <2>1, HandlerEnds, SendStarts
<1>4. QED
  BY <1>1, <1>2, <1>3 DEF Finish

-----------------------------------------------------------------------------
(* Arriving messages                                                       *)
LEMMA ReceiveKeeps ==
  ASSUME InboxInv, NEW h \in Handlers, NEW m \in Messages, NEW s \in Sockets, Receive(h, m, s)
  PROVE  InboxInv'
<1>1. /\ handler[h].at = "idle" /\ arrived[m] < MaxDeliveries
      /\ arrived' = [arrived EXCEPT ![m] = @ + 1]
      /\ m \in Outgoing => ~Early(m)
      /\ UNCHANGED <<log, book, filing, commands, unread, replies, badge, send, cast,
                     raced, bookRaced, cutOff, cut>>
  BY DEF InboxInv, LogInv, CutInv, Receive, Early
<1>2. PICK x \in Handler : /\ handler' = [handler EXCEPT ![h] = x]
                           /\ x.at \in {"device", "dedup"} /\ x.msg = m
  BY HandlerType DEF Receive
<1>3. InboxTypeOK /\ LogInv /\ ContactInv /\ BadgeInv
  BY DEF InboxInv
<1>4. arrived' \in [Messages -> 0..MaxDeliveries]
  <2>1. arrived \in [Messages -> 0..MaxDeliveries] /\ arrived[m] + 1 \in 0..MaxDeliveries
    BY <1>1, <1>3, BoundsAssumption DEF InboxTypeOK
  <2>2. QED
    BY <1>1, <2>1
<1>5. InboxTypeOK'
  BY <1>1, <1>2, <1>3, <1>4 DEF InboxTypeOK
<1>6. /\ handler \in [Handlers -> Handler]
      /\ \A g \in Handlers : handler'[g] = IF g = h THEN x ELSE handler[g]
  BY <1>2, <1>3 DEF InboxTypeOK
<1>7. HandlersInv'
  BY <1>2, <1>3, <1>6 DEF LogInv, HandlersInv
<1>8. EarlyInv'
  BY <1>1, <1>2, <1>3, <1>6 DEF LogInv, EarlyInv, Early, InboxTypeOK, Messages
<1>9. \A g \in Handlers, z \in Messages : Saving(g, z)' <=> Saving(g, z)
  BY <1>1, <1>2, <1>6 DEF Saving
<1>10. \A z \in Messages : Writing(z)' <=> Writing(z)
  BY <1>1, <1>9 DEF Writing, Saving
<1>11. OnceInv'
  BY <1>1, <1>3, <1>9, <1>10 DEF LogInv, OnceInv
<1>12. CutInv'
  BY <1>1, <1>3 DEF LogInv, CutInv
<1>13. ContactInv' /\ BadgeInv'
  BY <1>1, <1>3, ContactGoesOn, BadgeGoesOn
<1>14. QED
  BY <1>5, <1>7, <1>8, <1>11, <1>12, <1>13 DEF InboxInv, LogInv

LEMMA FindReceiverKeeps ==
  ASSUME InboxInv, NEW h \in Handlers, FindReceiver(h)
  PROVE  InboxInv'
<1>1. /\ InboxTypeOK /\ LogInv /\ ContactInv /\ BadgeInv
      /\ handler[h].at = "device"
      /\ UNCHANGED <<log, book, filing, arrived, commands, unread, replies, badge, send, cast,
                     raced, bookRaced, cutOff, cut>>
      /\ handler \in [Handlers -> Handler] /\ handler[h] \in Handler
  BY DEF InboxInv, FindReceiver, InboxTypeOK
<1>2. PICK x : x = [handler[h] EXCEPT !.at = "dedup"]
  OBVIOUS
<1>3. x \in Handler /\ x.at = "dedup" /\ x.msg = handler[h].msg
  BY <1>1, <1>2 DEF Handler
<1>4. handler' = [handler EXCEPT ![h] = x] \/ handler' = [handler EXCEPT ![h] = NoHandler]
  BY <1>1, <1>2 DEF FindReceiver
<1>5. handler' \in [Handlers -> Handler] /\ HandlersMove
  BY <1>1, <1>3, <1>4, HandlerEnds DEF HandlersMove
<1>6. InboxTypeOK'
  BY <1>1, <1>5 DEF InboxTypeOK
<1>7. LogInv'
  BY <1>1, <1>5, <1>6, SendsStay, LogGoesOn
<1>8. QED
  BY <1>1, <1>6, <1>7, ContactGoesOn, BadgeGoesOn DEF InboxInv

LEMMA DedupKeeps ==
  ASSUME InboxInv, NEW h \in Handlers, Dedup(h)
  PROVE  InboxInv'
<1> DEFINE m == handler[h].msg
<1>1. /\ InboxTypeOK /\ LogInv /\ ContactInv /\ BadgeInv
      /\ handler[h].at = "dedup" /\ m \in Messages
      /\ UNCHANGED <<log, book, filing, arrived, commands, unread, replies, badge, send, cast,
                     bookRaced, cutOff, cut>>
      /\ handler \in [Handlers -> Handler] /\ handler[h] \in Handler
  BY DEF InboxInv, Dedup, InboxTypeOK, LogInv, HandlersInv
<1>2. CASE Known(m)
  <2>1. handler' = [handler EXCEPT ![h] = NoHandler] /\ raced' = raced
    BY <1>2 DEF Dedup
  <2>2. handler' \in [Handlers -> Handler] /\ HandlersMove
    BY <1>1, <2>1, HandlerEnds
  <2>3. InboxTypeOK'
    BY <1>1, <2>1, <2>2 DEF InboxTypeOK
  <2>4. LogInv'
    BY <1>1, <2>1, <2>2, <2>3, SendsStay, LogGoesOn
  <2>5. QED
    BY <1>1, <2>3, <2>4, ContactGoesOn, BadgeGoesOn DEF InboxInv
<1>3. CASE ~Known(m)
  <2>1. PICK x : x = [handler[h] EXCEPT !.at = "saving"]
    OBVIOUS
  <2>2. x \in Handler /\ x.at = "saving" /\ x.msg = m /\ handler' = [handler EXCEPT ![h] = x]
    BY <1>1, <1>3, <2>1 DEF Handler, Dedup
  <2>3. raced' = IF Writing(m) THEN raced \cup {m} ELSE raced
    BY <1>3 DEF Dedup
  <2>4. log[m] = 0 /\ log \in [Messages -> Nat]
    BY <1>1, <1>3 DEF Known, InboxTypeOK
  <2> HIDE DEF m
  <2>5. InboxTypeOK'
    <3>1. raced' \in SUBSET Messages /\ handler' \in [Handlers -> Handler]
      BY <1>1, <2>2, <2>3 DEF InboxTypeOK
    <3>2. QED
      BY <1>1, <3>1 DEF InboxTypeOK
  <2>6. \A g \in Handlers : handler'[g] = IF g = h THEN x ELSE handler[g]
    BY <1>1, <2>2
  <2>7. HandlersInv'
    BY <1>1, <2>2, <2>6 DEF LogInv, HandlersInv
  <2>8. EarlyInv'
    <3>1. m = handler[h].msg
      BY DEF m
    <3>2. \A x_1 \in Outgoing : Early(x_1) => m # x_1
      BY <1>1, <3>1 DEF LogInv, EarlyInv
    <3>3. QED
      BY <1>1, <2>2, <2>6, <3>2 DEF LogInv, EarlyInv, Early
  <2>9. \A g \in Handlers, z \in Messages :
          Saving(g, z)' <=> Saving(g, z) \/ (g = h /\ z = m)
    BY <1>1, <2>2, <2>6 DEF Saving
  <2>10. \A z \in Messages : Writing(z)' => Writing(z) \/ z = m
    BY <1>1, <2>9 DEF Writing, Saving
  <2>11. m \notin raced' => /\ \A g \in Handlers : ~Saving(g, m)
                            /\ ~(m \in Outgoing /\ send[m].at = "recording")
    BY <2>3 DEF Writing, Saving
  <2>12. OnceInv'
    <3> SUFFICES ASSUME NEW z \in Messages \ raced'
                 PROVE  /\ log'[z] <= 1
                        /\ log'[z] = 1 => ~Writing(z)'
                        /\ \A k, g \in Handlers : Saving(k, z)' /\ Saving(g, z)' => k = g
                        /\ z \in Outgoing /\ send'[z].at = "recording" =>
                             \A k \in Handlers : ~Saving(k, z)'
      BY DEF OnceInv
    <3>1. CASE z = m
      BY <1>1, <2>4, <2>9, <2>11, <3>1
    <3>2. CASE z # m
      BY <1>1, <2>3, <2>9, <2>10, <3>2 DEF LogInv, OnceInv
    <3>3. QED
      BY <3>1, <3>2
  <2>13. CutInv'
    BY <1>1 DEF LogInv, CutInv
  <2>14. ContactInv' /\ BadgeInv'
    BY <1>1, ContactGoesOn, BadgeGoesOn
  <2>15. QED
    BY <2>5, <2>7, <2>8, <2>12, <2>13, <2>14 DEF InboxInv, LogInv
<1>4. QED
  BY <1>2, <1>3

(* A row more: of a message that one writer is about to save.              *)
LEMMA LogGrows ==
  ASSUME InboxTypeOK, InboxTypeOK', LogInv, SendsMove, HandlersMove, NEW m \in Messages,
         log' = [log EXCEPT ![m] = @ + 1], UNCHANGED <<arrived, raced, cutOff>>,
         Writing(m), m \in Outgoing => ~Early(m),
         m \notin raced => ~Writing(m)'
  PROVE  LogInv'
<1>1. /\ log \in [Messages -> Nat]
      /\ \A z \in Messages : log'[z] = IF z = m THEN log[z] + 1 ELSE log[z]
      /\ \A z \in Messages : log'[z] \in Nat
  BY DEF InboxTypeOK
<1>2. HandlersInv'
  BY DEF LogInv, HandlersInv, HandlersMove
<1>3. EarlyInv'
  BY <1>1 DEF LogInv, EarlyInv, SendsMove, HandlersMove, Messages
<1>4. \A h \in Handlers, z \in Messages : Saving(h, z)' => Saving(h, z)
  BY DEF Saving, HandlersMove
<1>5. \A x \in Outgoing : send'[x].at = "recording" => send[x].at = "recording"
  BY DEF SendsMove
<1>6. \A z \in Messages : Writing(z)' => Writing(z)
  BY <1>4, <1>5 DEF Writing, Saving
<1>7. m \notin raced => log[m] = 0
  BY <1>1 DEF LogInv, OnceInv
<1>8. OnceInv'
  <2> SUFFICES ASSUME NEW z \in Messages \ raced
               PROVE  /\ log'[z] <= 1
                      /\ log'[z] = 1 => ~Writing(z)'
                      /\ \A k, g \in Handlers : Saving(k, z)' /\ Saving(g, z)' => k = g
                      /\ z \in Outgoing /\ send'[z].at = "recording" =>
                           \A k \in Handlers : ~Saving(k, z)'
    BY DEF OnceInv
  <2>1. log'[z] <= 1 /\ (log'[z] = 1 => ~Writing(z)')
    BY <1>1, <1>6, <1>7 DEF LogInv, OnceInv
  <2>2. QED
    BY <1>4, <1>5, <2>1 DEF LogInv, OnceInv
<1>9. CutInv'
  BY DEF LogInv, CutInv, SendsMove, InboxTypeOK
<1>10. QED
  BY <1>2, <1>3, <1>8, <1>9 DEF LogInv

LEMMA SaveLogKeeps ==
  ASSUME SessionTypeOK, InboxInv, NEW h \in Handlers, SaveLog(h)
  PROVE  InboxInv'
<1>0. PICK m : m = handler[h].msg
  OBVIOUS
<1>1. /\ InboxTypeOK /\ LogInv /\ ContactInv /\ BadgeInv
      /\ handler[h].at = "saving" /\ m \in Messages
      /\ UNCHANGED <<book, arrived, unread, replies, badge, cast, raced, bookRaced, cutOff, cut>>
      /\ handler \in [Handlers -> Handler] /\ handler[h] \in Handler
      /\ log \in [Messages -> Nat] /\ commands \in Seq(Command)
  BY <1>0 DEF InboxInv, SaveLog, InboxTypeOK, LogInv, HandlersInv
<1>2. BadgeInv'
  BY <1>1, BadgeGoesOn
<1>3. /\ Writing(m) /\ (m \in Outgoing => ~Early(m))
      /\ m \notin raced => \A g \in Handlers \ {h} : ~Saving(g, m)
      /\ m \notin raced /\ m \in Outgoing => send[m].at # "recording"
  BY <1>0, <1>1 DEF Writing, LogInv, EarlyInv, OnceInv, Saving
<1>4. CASE Finish(h) /\ UNCHANGED <<log, filing, commands>>
  <2>1. /\ handler' \in [Handlers -> Handler] /\ HandlersMove
        /\ send' \in [Outgoing -> Send] /\ SendsMove
    BY <1>1, <1>4, HandlerFinishes
  <2>2. InboxTypeOK'
    BY <1>1, <1>4, <2>1 DEF InboxTypeOK
  <2>3. LogInv'
    BY <1>1, <1>4, <2>1, <2>2, LogGoesOn
  <2>4. QED
    BY <1>1, <1>2, <1>4, <2>2, <2>3, ContactGoesOn DEF InboxInv
<1>5. ASSUME log' = [log EXCEPT ![m] = @ + 1], InboxTypeOK', ContactInv', SendsMove,
             NEW x, handler' = [handler EXCEPT ![h] = x], x.at \in {"idle", "counting"},
             x.at # "idle" => x.msg = m
      PROVE  InboxInv'
  <2>1. HandlersMove
    BY <1>0, <1>1, <1>5 DEF HandlersMove
  <2>2. m \notin raced => ~Writing(m)'
    <3>1. \A g \in Handlers : g # h => handler'[g] = handler[g]
      BY <1>1, <1>5
    <3>2. handler'[h].at # "saving"
      BY <1>1, <1>5
    <3>3. m \notin raced => \A g \in Handlers : ~(handler'[g].at = "saving" /\ handler'[g].msg = m)
      BY <1>3, <3>1, <3>2 DEF Saving
    <3>4. m \notin raced /\ m \in Outgoing => send'[m].at # "recording"
      BY <1>3, <1>5 DEF SendsMove
    <3>5. QED
      BY <3>3, <3>4 DEF Writing
  <2>3. LogInv'
    BY <1>1, <1>3, <1>5, <2>1, <2>2, LogGrows
  <2>4. QED
    BY <1>2, <1>5, <2>3 DEF InboxInv
<1>6. CASE /\ log' = [log EXCEPT ![m] = @ + 1]
           /\ handler' = [handler EXCEPT ![h].at = "counting"]
           /\ commands' = Append(commands, h)
           /\ (\E f \in Filings : StartFiling(f)) \/ UNCHANGED filing
           /\ UNCHANGED send
  <2>1. PICK x : x = [handler[h] EXCEPT !.at = "counting"]
    OBVIOUS
  <2>2. x \in Handler /\ x.at = "counting" /\ x.msg = m /\ handler' = [handler EXCEPT ![h] = x]
    BY <1>0, <1>1, <1>6, <2>1 DEF Handler
  <2>3. filing' \in [Filings -> Filing] /\ ContactInv'
    <3>1. CASE UNCHANGED filing
      BY <1>1, <3>1, ContactGoesOn DEF InboxTypeOK
    <3>2. QED
      BY <1>1, <1>6, <3>1, FilingStarts
  <2>4. commands' \in Seq(Command)
    BY <1>1, <1>6 DEF Command
  <2>5. log' \in [Messages -> Nat] /\ handler' \in [Handlers -> Handler]
    <3>1. log' \in [Messages -> Nat]
      BY <1>1, <1>6
    <3>2. handler' \in [Handlers -> Handler]
      BY <1>1, <2>2
    <3>3. QED
      BY <3>1, <3>2
  <2>6. InboxTypeOK'
    BY <1>1, <1>6, <2>3, <2>4, <2>5 DEF InboxTypeOK
  <2>7. QED
    BY <1>1, <1>5, <1>6, <2>2, <2>3, <2>6, SendsStay
<1>7. CASE /\ log' = [log EXCEPT ![m] = @ + 1]
           /\ Finish(h) /\ UNCHANGED <<filing, commands>>
  <2>1. /\ handler' = [handler EXCEPT ![h] = NoHandler] /\ handler' \in [Handlers -> Handler]
        /\ send' \in [Outgoing -> Send] /\ SendsMove
    BY <1>1, <1>7, HandlerFinishes
  <2>2. log' \in [Messages -> Nat]
    BY <1>1, <1>7
  <2>3. InboxTypeOK'
    BY <1>1, <1>7, <2>1, <2>2 DEF InboxTypeOK
  <2>4. ContactInv'
    BY <1>1, <1>7, ContactGoesOn
  <2>5. QED
    BY <1>5, <1>7, <2>1, <2>3, <2>4, HandlerType
<1>8. QED
  BY <1>0, <1>1, <1>4, <1>6, <1>7 DEF SaveLog

-----------------------------------------------------------------------------
(* The count of unread messages                                            *)

(* What leaves the log, the contact and the sends alone, or ends some.     *)
LEMMA RestGoesOn ==
  ASSUME InboxInv, InboxTypeOK', SendsMove, HandlersMove,
         UNCHANGED <<log, book, filing, arrived, raced, bookRaced>>
  PROVE  LogInv' /\ ContactInv'
<1>1. InboxTypeOK /\ LogInv /\ ContactInv
  BY DEF InboxInv
<1>2. LogInv'
  BY <1>1, LogGoesOn
<1>3. ContactInv'
  BY <1>1, ContactGoesOn
<1>4. QED
  BY <1>2, <1>3

LEMMA MarkAllSeenKeeps == ASSUME InboxInv, MarkAllSeen PROVE InboxInv'
<1>1. /\ InboxTypeOK /\ BadgeInv
      /\ commands' = Append(commands, None)
      /\ UNCHANGED <<log, book, handler, filing, arrived, unread, replies, badge, send, cast,
                     raced, bookRaced, cutOff, cut>>
  BY DEF InboxInv, MarkAllSeen
<1>2. commands' \in Seq(Command)
  BY <1>1 DEF InboxTypeOK, Command
<1>3. InboxTypeOK'
  BY <1>1, <1>2 DEF InboxTypeOK
<1>4. SendsMove /\ HandlersMove
  BY <1>1, SendsStay, HandlersStay
<1>5. LogInv' /\ ContactInv'
  BY <1>1, <1>3, <1>4, RestGoesOn
<1>6. BadgeInv'
  BY <1>1, BadgeGoesOn
<1>7. QED
  BY <1>3, <1>5, <1>6 DEF InboxInv

LEMMA ExecuteKeeps == ASSUME SessionTypeOK, InboxInv, Execute PROVE InboxInv'
<1>0. PICK by : by = Head(commands)
  OBVIOUS
<1>1. /\ InboxTypeOK /\ BadgeInv /\ commands # <<>> /\ commands' = Tail(commands)
      /\ UNCHANGED <<log, book, filing, arrived, badge, cast, raced, bookRaced, cutOff, cut>>
  BY DEF InboxInv, Execute
<1>2. /\ commands \in Seq(Command) /\ replies \in Seq(Reply) /\ unread \in Nat
      /\ handler \in [Handlers -> Handler] /\ send \in [Outgoing -> Send]
  BY <1>1 DEF InboxTypeOK
<1>3. by \in Command /\ commands' \in Seq(Command)
  BY <1>0, <1>1, <1>2
<1>4. /\ handler' \in [Handlers -> Handler] /\ HandlersMove
      /\ send' \in [Outgoing -> Send] /\ SendsMove
      /\ unread' \in Nat /\ replies' \in Seq(Reply) /\ BadgeInv'
  <2>1. CASE /\ unread' = IF by = None THEN 0 ELSE unread + 1
             /\ replies' = Append(replies, [by |-> by, count |-> unread'])
             /\ UNCHANGED <<handler, send>>
    <3>1. unread' \in Nat
      BY <1>2, <2>1
    <3>2. PICK reply : reply = [by |-> by, count |-> unread']
      OBVIOUS
    <3>3. reply \in Reply /\ reply.count = unread' /\ replies' = Append(replies, reply)
      BY <1>3, <2>1, <3>1, <3>2 DEF Reply
    <3>4. /\ replies' \in Seq(Reply) /\ replies' # <<>>
          /\ replies'[Len(replies')] = reply
      BY <1>2, <3>3
    <3>5. BadgeInv'
      BY <3>3, <3>4 DEF BadgeInv
    <3>6. QED
      BY <1>1, <1>2, <2>1, <3>1, <3>4, <3>5, SendsStay, HandlersStay
  <2>2. CASE by = None /\ UNCHANGED <<handler, send, unread, replies>>
    BY <1>1, <1>2, <2>2, SendsStay, HandlersStay, BadgeGoesOn
  <2>3. CASE by # None /\ Finish(by) /\ UNCHANGED <<unread, replies>>
    <3>1. by \in Handlers
      BY <1>3, <2>3 DEF Command
    <3>2. BadgeInv'
      BY <1>1, <2>3, BadgeGoesOn
    <3>3. QED
      BY <1>1, <1>2, <2>3, <3>1, <3>2, HandlerFinishes
  <2>4. QED
    BY <1>0, <2>1, <2>2, <2>3 DEF Execute
<1>5. InboxTypeOK'
  BY <1>1, <1>3, <1>4 DEF InboxTypeOK
<1>6. LogInv' /\ ContactInv'
  BY <1>1, <1>4, <1>5, RestGoesOn
<1>7. QED
  BY <1>4, <1>5, <1>6 DEF InboxInv

(* The reply that comes is the oldest: the last one stays the last, and    *)
(* the badge has its count when there is no other.                         *)
LEMMA OnReplyKeeps == ASSUME SessionTypeOK, InboxInv, OnReply PROVE InboxInv'
<1>0. PICK reply : reply = Head(replies)
  OBVIOUS
<1>1. /\ InboxTypeOK /\ BadgeInv /\ replies # <<>> /\ replies' = Tail(replies)
      /\ badge' = reply.count /\ cut' = FALSE
      /\ UNCHANGED <<log, book, filing, arrived, commands, unread, cast, raced, bookRaced, cutOff>>
  BY <1>0 DEF InboxInv, OnReply, Emitted
<1>2. /\ replies \in Seq(Reply) /\ unread \in Nat
      /\ handler \in [Handlers -> Handler] /\ send \in [Outgoing -> Send]
  BY <1>1 DEF InboxTypeOK
<1>3. reply \in Reply /\ replies' \in Seq(Reply) /\ reply = replies[1] /\ Len(replies) \in Nat \ {0}
  BY <1>0, <1>1, <1>2
<1>4. badge' \in Nat
  BY <1>1, <1>3 DEF Reply
<1>5. BadgeInv'
  <2>1. replies[Len(replies)].count = unread
    BY <1>1 DEF BadgeInv
  <2>2. CASE replies' = <<>>
    <3>1. Len(replies') = Len(replies) - 1
      BY <1>1, <1>2
    <3>2. Len(replies') = 0
      BY <2>2
    <3>3. Len(replies) = 1
      BY <1>3, <3>1, <3>2
    <3>4. QED
      BY <1>1, <1>3, <2>1, <2>2, <3>3 DEF BadgeInv
  <2>3. CASE replies' # <<>>
    <3>1. replies'[Len(replies')] = replies[Len(replies)]
      BY <1>1, <1>2, <1>3, <2>3
    <3>2. QED
      BY <1>1, <2>1, <2>3, <3>1 DEF BadgeInv
  <2>4. QED
    BY <2>2, <2>3
<1>6. /\ handler' \in [Handlers -> Handler] /\ HandlersMove
      /\ send' \in [Outgoing -> Send] /\ SendsMove
  <2>1. CASE UNCHANGED <<handler, send>>
    BY <1>1, <1>2, <2>1, SendsStay, HandlersStay
  <2>2. CASE reply.by # None /\ Finish(reply.by)
    <3>1. reply.by \in Handlers
      BY <1>3, <2>2 DEF Reply, Command
    <3>2. QED
      BY <1>1, <2>2, <3>1, HandlerFinishes
  <2>3. QED
    BY <1>0, <2>1, <2>2 DEF OnReply
<1>7. InboxTypeOK'
  BY <1>1, <1>3, <1>4, <1>6 DEF InboxTypeOK
<1>8. LogInv' /\ ContactInv'
  BY <1>1, <1>6, <1>7, RestGoesOn
<1>9. QED
  BY <1>5, <1>7, <1>8 DEF InboxInv

-----------------------------------------------------------------------------
(* The contact                                                             *)

(* Only the contact is touched.                                            *)
LEMMA ContactAlone ==
  ASSUME InboxInv, filing' \in [Filings -> Filing], book' \in SUBSET (1..MaxContacts),
         bookRaced' \in BOOLEAN, ContactInv',
         UNCHANGED <<log, handler, arrived, commands, unread, replies, badge, send, cast,
                     raced, cutOff, cut>>
  PROVE  InboxInv'
<1>1. InboxTypeOK /\ LogInv /\ BadgeInv
  BY DEF InboxInv
<1>2. InboxTypeOK'
  BY <1>1 DEF InboxTypeOK
<1>3. LogInv'
  BY <1>1, <1>2, SendsStay, HandlersStay, LogGoesOn
<1>4. QED
  BY <1>1, <1>2, <1>3, BadgeGoesOn DEF InboxInv

LEMMA BeginFilingKeeps ==
  ASSUME InboxInv, NEW f \in Filings, BeginFiling(f)
  PROVE  InboxInv'
<1>1. /\ InboxTypeOK /\ ContactInv /\ StartFiling(f)
      /\ UNCHANGED <<log, book, handler, arrived, commands, unread, replies, badge, send, cast,
                     raced, bookRaced, cutOff, cut>>
  BY DEF InboxInv, BeginFiling
<1>2. filing' \in [Filings -> Filing] /\ ContactInv'
  BY <1>1, FilingStarts
<1>3. book' \in SUBSET (1..MaxContacts) /\ bookRaced' \in BOOLEAN
  BY <1>1 DEF InboxTypeOK
<1>4. QED
  BY <1>1, <1>2, <1>3, ContactAlone

LEMMA FindContactKeeps ==
  ASSUME InboxInv, NEW f \in Filings, FindContact(f)
  PROVE  InboxInv'
<1>1. /\ InboxTypeOK /\ ContactInv /\ filing[f].at = "finding"
      /\ bookRaced' = (bookRaced \/ \E g \in Filings \ {f} : filing[g].at = "saving")
      /\ UNCHANGED <<log, book, handler, arrived, commands, unread, replies, badge, send, cast,
                     raced, cutOff, cut>>
  BY DEF InboxInv, FindContact
<1>2. /\ filing \in [Filings -> Filing] /\ filing[f] \in Filing /\ filing[f].row = 0
      /\ book \in SUBSET (1..MaxContacts) /\ bookRaced \in BOOLEAN
  BY <1>1 DEF InboxTypeOK, ContactInv
<1>3. PICK x \in Filing : /\ filing' = [filing EXCEPT ![f] = x] /\ x.at = "saving"
                          /\ x.row \in book \/ book = {}
  <2>1. CASE \E r \in book : filing' = [filing EXCEPT ![f] = [at |-> "saving", row |-> r]]
    <3>1. PICK r \in book : filing' = [filing EXCEPT ![f] = [at |-> "saving", row |-> r]]
      BY <2>1
    <3>2. r \in 0..MaxContacts
      BY <1>2, BoundsAssumption
    <3>3. PICK x : x = [at |-> "saving", row |-> r]
      OBVIOUS
    <3>4. x \in Filing /\ x.at = "saving" /\ x.row \in book
      BY <3>2, <3>3 DEF Filing
    <3>5. QED
      BY <3>1, <3>3, <3>4
  <2>2. CASE book = {} /\ filing' = [filing EXCEPT ![f].at = "saving"]
    <3>1. PICK x : x = [filing[f] EXCEPT !.at = "saving"]
      OBVIOUS
    <3>2. x \in Filing /\ x.at = "saving"
      BY <1>2, <3>1 DEF Filing
    <3>3. QED
      BY <1>2, <2>2, <3>1, <3>2
  <2>3. QED
    BY <2>1, <2>2 DEF FindContact
<1>4. /\ filing' \in [Filings -> Filing] /\ bookRaced' \in BOOLEAN
      /\ \A g \in Filings : filing'[g] = IF g = f THEN x ELSE filing[g]
  BY <1>1, <1>2, <1>3
<1>5. ContactInv'
  <2>1. \A g \in Filings : filing'[g].at # "saving" => filing'[g].row = 0
    BY <1>1, <1>3, <1>4 DEF ContactInv
  <2>2. ASSUME ~bookRaced'
        PROVE  ~bookRaced /\ \A g \in Filings : filing'[g].at = "saving" => g = f
    BY <1>1, <1>4, <2>2
  <2>3. ~bookRaced' => \A r, s \in book' : r = s
    BY <1>1, <2>2 DEF ContactInv
  <2>4. ~bookRaced' => \A g \in Filings : filing'[g].at = "saving" =>
                         \A r \in book' : r = filing'[g].row
    BY <1>1, <1>3, <1>4, <2>2, <2>3
  <2>5. QED
    BY <2>1, <2>2, <2>3, <2>4 DEF ContactInv
<1>6. QED
  BY <1>1, <1>2, <1>4, <1>5, ContactAlone

LEMMA SaveContactKeeps ==
  ASSUME InboxInv, NEW f \in Filings, SaveContact(f)
  PROVE  InboxInv'
<1>1. /\ InboxTypeOK /\ ContactInv /\ filing[f].at = "saving"
      /\ filing' = [filing EXCEPT ![f] = NoFiling]
      /\ UNCHANGED <<log, handler, arrived, commands, unread, replies, badge, send, cast,
                     raced, bookRaced, cutOff, cut>>
  BY DEF InboxInv, SaveContact
<1>2. /\ filing \in [Filings -> Filing] /\ filing[f] \in Filing
      /\ book \in SUBSET (1..MaxContacts) /\ bookRaced' \in BOOLEAN
  BY <1>1 DEF InboxTypeOK
<1>3. /\ filing' \in [Filings -> Filing]
      /\ \A g \in Filings : filing'[g] = IF g = f THEN NoFiling ELSE filing[g]
  BY <1>1, <1>2, FilingType
<1>4. CASE UNCHANGED book
  <2>1. \A g \in Filings : \/ filing'[g] = filing[g]
                           \/ filing'[g].at # "saving" /\ filing'[g].row = 0
    BY <1>3, FilingType
  <2>2. ContactInv'
    BY <1>1, <1>4, <2>1, ContactGoesOn
  <2>3. QED
    BY <1>1, <1>2, <1>3, <1>4, <2>2, ContactAlone
<1>5. CASE \E r \in Kept(f) : book' = book \cup {r}
  <2>1. PICK r \in Kept(f) : book' = book \cup {r}
    BY <1>5
  <2>2. filing[f].row \in 0..MaxContacts
    BY <1>2, FilingType
  <2>3. r \in 1..MaxContacts /\ (filing[f].row # 0 => r = filing[f].row)
    BY <2>2, BoundsAssumption DEF Kept
  <2>4. book' \in SUBSET (1..MaxContacts)
    BY <1>2, <2>1, <2>3
  <2>5. \A g \in Filings : filing'[g].at # "saving" => filing'[g].row = 0
    BY <1>1, <1>3, FilingType DEF ContactInv
  <2>6. ~bookRaced => \A q \in book : q = r
    <3>1. ~bookRaced => \A q \in book : q = filing[f].row
      BY <1>1 DEF ContactInv
    <3>2. \A q \in book : q # 0
      BY <1>2
    <3>3. QED
      BY <2>3, <3>1, <3>2
  <2>7. ~bookRaced => \A g \in Filings : filing'[g].at # "saving"
    BY <1>1, <1>3, FilingType DEF ContactInv
  <2>8. ContactInv'
    BY <1>1, <2>1, <2>5, <2>6, <2>7 DEF ContactInv
  <2>9. QED
    BY <1>1, <1>2, <1>3, <2>4, <2>8, ContactAlone
<1>6. QED
  BY <1>4, <1>5 DEF SaveContact

LEMMA DeleteContactKeeps == ASSUME InboxInv, DeleteContact PROVE InboxInv'
<1>1. /\ InboxTypeOK /\ ContactInv /\ book' \subseteq book
      /\ UNCHANGED <<log, handler, filing, arrived, commands, unread, replies, badge, send, cast,
                     raced, bookRaced, cutOff, cut>>
  BY DEF InboxInv, DeleteContact
<1>2. /\ book' \in SUBSET (1..MaxContacts) /\ bookRaced' \in BOOLEAN
      /\ filing' \in [Filings -> Filing]
  BY <1>1 DEF InboxTypeOK
<1>3. ContactInv'
  BY <1>1, ContactGoesOn
<1>4. QED
  BY <1>1, <1>2, <1>3, ContactAlone

-----------------------------------------------------------------------------
(* sendMessage                                                             *)

(* Only the calls of sendMessage and the broadcast go on.                  *)
LEMMA SendsAlone ==
  ASSUME InboxInv, send' \in [Outgoing -> Send], cast' \in Cast, SendsMove,
         UNCHANGED <<log, book, handler, filing, arrived, commands, unread, replies, badge,
                     raced, bookRaced, cutOff, cut>>
  PROVE  InboxInv'
<1>1. InboxTypeOK /\ BadgeInv
  BY DEF InboxInv
<1>2. InboxTypeOK'
  BY <1>1 DEF InboxTypeOK
<1>3. LogInv' /\ ContactInv'
  BY <1>2, HandlersStay, RestGoesOn
<1>4. QED
  BY <1>1, <1>2, <1>3, BadgeGoesOn DEF InboxInv

LEMMA SendMessageKeeps ==
  ASSUME SessionTypeOK, InboxInv, NEW x \in Outgoing, SendMessage(x)
  PROVE  InboxInv'
<1>1. /\ InboxTypeOK /\ send[x].at = "idle" /\ StartSend(x, "http")
      /\ UNCHANGED <<log, book, handler, filing, arrived, commands, unread, replies, badge, cast,
                     raced, bookRaced, cutOff, cut>>
  BY DEF InboxInv, SendMessage
<1>2. send' \in [Outgoing -> Send] /\ SendsMove
  BY <1>1, SendStarts
<1>3. cast' \in Cast
  BY <1>1 DEF InboxTypeOK
<1>4. QED
  BY <1>1, <1>2, <1>3, SendsAlone

LEMMA PrepareKeeps ==
  ASSUME InboxInv, NEW x \in Outgoing, Prepare(x)
  PROVE  InboxInv'
<1>1. /\ InboxTypeOK /\ send[x].at \in {"device", "number"}
      /\ \E at \in {"number", "composing"} : send' = [send EXCEPT ![x].at = at]
      /\ UNCHANGED <<log, book, handler, filing, arrived, commands, unread, replies, badge, cast,
                     raced, bookRaced, cutOff, cut>>
  BY DEF InboxInv, Prepare
<1>2. send \in [Outgoing -> Send] /\ send[x] \in Send /\ cast' \in Cast
  BY <1>1 DEF InboxTypeOK
<1>3. PICK at \in {"number", "composing"} : send' = [send EXCEPT ![x].at = at]
  BY <1>1
<1>4. PICK y : y = [send[x] EXCEPT !.at = at]
  OBVIOUS
<1>5. y \in Send /\ y.at = at /\ send' = [send EXCEPT ![x] = y]
  BY <1>2, <1>3, <1>4 DEF Send
<1>6. send' \in [Outgoing -> Send] /\ SendsMove
  BY <1>1, <1>2, <1>3, <1>5 DEF SendsMove, Early
<1>7. QED
  BY <1>1, <1>2, <1>6, SendsAlone

LEMMA SendFailsKeeps ==
  ASSUME InboxInv, NEW x \in Outgoing, SendFails(x)
  PROVE  InboxInv'
<1>1. /\ InboxTypeOK /\ Early(x) /\ Fails(x)
      /\ UNCHANGED <<log, book, handler, filing, arrived, commands, unread, replies, badge, cast,
                     raced, bookRaced, cutOff, cut>>
  BY DEF InboxInv, LogInv, CutInv, Early, SendFails
<1>2. send' \in [Outgoing -> Send] /\ SendsMove
  BY <1>1, SendFailed
<1>3. cast' \in Cast
  BY <1>1 DEF InboxTypeOK
<1>4. QED
  BY <1>1, <1>2, <1>3, SendsAlone

(* What is delivered was early: nobody has written or handled it yet.      *)
LEMMA DeliverKeeps ==
  ASSUME InboxInv, NEW x \in Outgoing, Deliver(x)
  PROVE  InboxInv'
<1>1. /\ InboxTypeOK /\ LogInv /\ ContactInv /\ BadgeInv
      /\ send[x].at = "composing" /\ send' = [send EXCEPT ![x].at = "recording"]
      /\ UNCHANGED <<log, book, handler, filing, arrived, commands, unread, replies, badge, cast,
                     raced, bookRaced, cutOff, cut>>
  BY DEF InboxInv, Deliver
<1>2. send \in [Outgoing -> Send] /\ send[x] \in Send /\ log \in [Messages -> Nat]
  BY <1>1 DEF InboxTypeOK
<1>3. PICK y : y = [send[x] EXCEPT !.at = "recording"]
  OBVIOUS
<1>4. y \in Send /\ y.at = "recording" /\ send' = [send EXCEPT ![x] = y]
  BY <1>1, <1>2, <1>3 DEF Send
<1>5. /\ send' \in [Outgoing -> Send]
      /\ \A z \in Outgoing : send'[z] = IF z = x THEN y ELSE send[z]
  BY <1>2, <1>4
<1>6. InboxTypeOK'
  BY <1>1, <1>5 DEF InboxTypeOK
<1>7. log[x] = 0 /\ x \notin cutOff /\ \A h \in Handlers : ~Saving(h, x)
  BY <1>1 DEF LogInv, CutInv, EarlyInv, Early, Saving
<1>8. HandlersInv'
  BY <1>1 DEF LogInv, HandlersInv
<1>9. EarlyInv'
  <2>1. \A z \in Outgoing : Early(z)' => Early(z)
    BY <1>1, <1>4, <1>5 DEF Early
  <2>2. QED
    BY <1>1, <2>1 DEF LogInv, EarlyInv
<1>10. OnceInv'
  <2>1. \A g \in Handlers, z \in Messages : Saving(g, z)' <=> Saving(g, z)
    BY <1>1 DEF Saving
  <2>2. \A z \in Messages : z # x => (Writing(z)' <=> Writing(z))
    BY <1>1, <1>5 DEF Writing
  <2> SUFFICES ASSUME NEW z \in Messages \ raced
               PROVE  /\ log'[z] <= 1
                      /\ log'[z] = 1 => ~Writing(z)'
                      /\ \A k, g \in Handlers : Saving(k, z)' /\ Saving(g, z)' => k = g
                      /\ z \in Outgoing /\ send'[z].at = "recording" =>
                           \A k \in Handlers : ~Saving(k, z)'
    BY <1>1 DEF OnceInv
  <2>3. CASE z = x
    BY <1>1, <1>7, <2>1, <2>3
  <2>4. CASE z # x
    BY <1>1, <1>5, <2>1, <2>2, <2>4 DEF LogInv, OnceInv
  <2>5. QED
    BY <2>3, <2>4
<1>11. CutInv'
  BY <1>1, <1>5, <1>7 DEF LogInv, CutInv, InboxTypeOK
<1>12. ContactInv' /\ BadgeInv'
  BY <1>1, ContactGoesOn, BadgeGoesOn
<1>13. QED
  BY <1>6, <1>8, <1>9, <1>10, <1>11, <1>12 DEF InboxInv, LogInv

LEMMA RecordKeeps ==
  ASSUME InboxInv, NEW x \in Outgoing, Record(x)
  PROVE  InboxInv'
<1>1. /\ InboxTypeOK /\ LogInv /\ ContactInv /\ BadgeInv
      /\ send[x].at = "recording"
      /\ send' = [send EXCEPT ![x].at = "done", ![x].sock = None]
      /\ log' = [log EXCEPT ![x] = @ + 1] \/ UNCHANGED log
      /\ UNCHANGED <<book, handler, filing, arrived, commands, unread, replies, badge, cast,
                     raced, bookRaced, cutOff, cut>>
      /\ x \in Messages
  BY DEF InboxInv, Record, Unrecorded, Messages
<1>2. /\ send \in [Outgoing -> Send] /\ send[x] \in Send
      /\ log \in [Messages -> Nat]
  BY <1>1 DEF InboxTypeOK
<1>3. PICK y : y = [send[x] EXCEPT !.at = "done", !.sock = None]
  OBVIOUS
<1>4. y \in Send /\ y.at = "done" /\ send' = [send EXCEPT ![x] = y]
  BY <1>1, <1>2, <1>3 DEF Send
<1>5. /\ send' \in [Outgoing -> Send]
      /\ \A z \in Outgoing : send'[z] = IF z = x THEN y ELSE send[z]
  BY <1>2, <1>4
<1>6. /\ log' \in [Messages -> Nat]
      /\ \A z \in Messages : z # x => log'[z] = log[z]
      /\ log'[x] \in {log[x], log[x] + 1}
  BY <1>1, <1>2
<1>7. InboxTypeOK'
  BY <1>1, <1>5, <1>6 DEF InboxTypeOK
<1>8. Writing(x) /\ (x \notin raced => log[x] = 0 /\ \A h \in Handlers : ~Saving(h, x))
  <2>1. Writing(x)
    BY <1>1 DEF Writing
  <2>2. x \notin raced => log[x] # 1 /\ log[x] <= 1 /\ \A h \in Handlers : ~Saving(h, x)
    BY <1>1, <2>1 DEF LogInv, OnceInv
  <2>3. QED
    BY <1>1, <1>2, <2>1, <2>2
<1>9. HandlersInv'
  BY <1>1 DEF LogInv, HandlersInv
<1>10. EarlyInv'
  <2>1. \A z \in Outgoing : Early(z)' => Early(z) /\ z # x
    BY <1>1, <1>4, <1>5 DEF Early
  <2>2. QED
    BY <1>1, <1>6, <2>1 DEF LogInv, EarlyInv, Messages
<1>11. OnceInv'
  <2>1. \A g \in Handlers, z \in Messages : Saving(g, z)' <=> Saving(g, z)
    BY <1>1 DEF Saving
  <2>2. \A z \in Messages : z # x => (Writing(z)' <=> Writing(z))
    BY <1>1, <1>5 DEF Writing
  <2>3. x \notin raced => ~Writing(x)' /\ log'[x] <= 1
    <3>1. x \notin raced => ~Writing(x)'
      <4>1. x \notin raced => \A g \in Handlers : ~Saving(g, x)'
        BY <1>1, <1>8, <2>1
      <4>2. send'[x].at # "recording"
        BY <1>4, <1>5
      <4>3. QED
        BY <4>1, <4>2 DEF Writing, Saving
    <3>2. QED
      BY <1>6, <1>8, <3>1
  <2> SUFFICES ASSUME NEW z \in Messages \ raced
               PROVE  /\ log'[z] <= 1
                      /\ log'[z] = 1 => ~Writing(z)'
                      /\ \A k, g \in Handlers : Saving(k, z)' /\ Saving(g, z)' => k = g
                      /\ z \in Outgoing /\ send'[z].at = "recording" =>
                           \A k \in Handlers : ~Saving(k, z)'
    BY <1>1 DEF OnceInv
  <2>4. CASE z = x
    BY <1>8, <2>1, <2>3, <2>4
  <2>5. CASE z # x
    BY <1>1, <1>5, <1>6, <2>1, <2>2, <2>5 DEF LogInv, OnceInv
  <2>6. QED
    BY <2>4, <2>5
<1>12. CutInv'
  BY <1>1, <1>5 DEF LogInv, CutInv, InboxTypeOK
<1>13. ContactInv' /\ BadgeInv'
  BY <1>1, ContactGoesOn, BadgeGoesOn
<1>14. QED
  BY <1>7, <1>9, <1>10, <1>11, <1>12, <1>13 DEF InboxInv, LogInv

-----------------------------------------------------------------------------
(* The broadcast                                                           *)

LEMMA CastKeeps ==
  ASSUME SessionTypeOK, InboxInv, StartBroadcast \/ CheckBroadcast \/ NextRecipient
  PROVE  InboxInv'
<1>1. InboxTypeOK /\ cast \in Cast /\ cast.next \in 1..Len(Recipients)
  BY CastType DEF InboxInv, InboxTypeOK
<1>2. \A at \in {"checking", "running", "over"} : [cast EXCEPT !.at = at] \in Cast
  BY <1>1 DEF Cast
<1>3. CASE /\ \E at \in {"checking", "running", "over"} : cast' = [cast EXCEPT !.at = at]
           /\ UNCHANGED send
           /\ UNCHANGED <<log, book, handler, filing, arrived, commands, unread, replies, badge,
                          raced, bookRaced, cutOff, cut>>
  BY <1>1, <1>2, <1>3, SendsStay, SendsAlone DEF InboxTypeOK
<1>4. CASE StartBroadcast
  BY <1>3, <1>4 DEF StartBroadcast
<1>5. CASE CheckBroadcast
  BY <1>3, <1>5 DEF CheckBroadcast
<1>6. CASE NextRecipient
  <2>1. PICK x : x = Recipients[cast.next]
    OBVIOUS
  <2>2. x \in Outgoing
    BY <1>1, <2>1, CastType
  <2>3. /\ \/ send[x].at = "idle" /\ StartSend(x, "cast") /\ UNCHANGED cast
           \/ send[x].at = "idle" /\ Fails(x) /\ UNCHANGED cast
           \/ cast' = Advance /\ UNCHANGED send
        /\ UNCHANGED <<log, book, handler, filing, arrived, commands, unread, replies, badge,
                       raced, bookRaced, cutOff, cut>>
    BY <1>6, <2>1 DEF NextRecipient
  <2>4. CASE send[x].at = "idle" /\ StartSend(x, "cast") /\ UNCHANGED cast
    <3>1. send' \in [Outgoing -> Send] /\ SendsMove
      BY <1>1, <2>2, <2>3, <2>4, SendStarts
    <3>2. QED
      BY <1>1, <2>3, <2>4, <3>1, SendsAlone
  <2>5. CASE send[x].at = "idle" /\ Fails(x) /\ UNCHANGED cast
    <3>1. send' \in [Outgoing -> Send] /\ SendsMove
      <4>1. Early(x)
        BY <1>1, <2>2, <2>5 DEF InboxInv, LogInv, CutInv, Early
      <4>2. QED
        BY <1>1, <2>2, <2>3, <2>5, <4>1, SendFailed
    <3>2. QED
      BY <1>1, <2>3, <2>5, <3>1, SendsAlone
  <2>6. CASE cast' = Advance /\ UNCHANGED send
    <3>1. CASE cast' = [cast EXCEPT !.at = "over"]
      BY <1>3, <2>3, <2>6, <3>1
    <3>2. CASE cast.next < Len(Recipients) /\ cast' = [cast EXCEPT !.next = cast.next + 1]
      <4>1. cast.next + 1 \in 1..Len(Recipients)
        BY <1>1, <3>2, CastType
      <4>2. cast' \in Cast
        BY <1>1, <3>2, <4>1 DEF Cast
      <4>3. send' \in [Outgoing -> Send]
        BY <1>1, <2>6 DEF InboxTypeOK
      <4>4. QED
        BY <2>3, <2>6, <4>2, <4>3, SendsStay, SendsAlone
    <3>3. QED
      BY <2>6, <3>1, <3>2 DEF Advance
  <2>7. QED
    BY <2>3, <2>4, <2>5, <2>6
<1>7. QED
  BY <1>4, <1>5, <1>6

-----------------------------------------------------------------------------
(* The session's steps                                                     *)

LEMMA LoseSocketKeeps == ASSUME InboxInv, LoseSocket PROVE InboxInv'
<1>1. /\ InboxTypeOK
      /\ send' = [x \in Outgoing |->
           IF send[x].sock # None /\ sock'[send[x].sock].at = "none"
           THEN [send[x] EXCEPT !.sock = None] ELSE send[x]]
      /\ UNCHANGED <<log, book, handler, filing, arrived, commands, unread, replies, badge, cast,
                     raced, bookRaced, cutOff, cut>>
  BY DEF InboxInv, LoseSocket
<1>2. \A x \in Outgoing : send[x] \in Send
  BY <1>1 DEF InboxTypeOK
<1>3. \A y \in Send : /\ [y EXCEPT !.sock = None] \in Send
                      /\ [y EXCEPT !.sock = None].at = y.at
  BY DEF Send
<1>4. \A x \in Outgoing : send'[x] \in Send /\ send'[x].at = send[x].at
  BY <1>1, <1>2, <1>3
<1>5. send' \in [Outgoing -> Send]
  BY <1>1, <1>4
<1>6. SendsMove
  BY <1>1, <1>4 DEF SendsMove, Early
<1>7. cast' \in Cast
  BY <1>1 DEF InboxTypeOK
<1>8. QED
  BY <1>1, <1>5, <1>6, <1>7, SendsAlone

LEMMA ResetInboxKeeps == ASSUME InboxInv, ResetInbox PROVE InboxInv'
<1>1. /\ InboxTypeOK /\ LogInv /\ ContactInv /\ BadgeInv
      /\ UNCHANGED <<handler, filing, arrived, commands, unread, replies, badge, send, cast,
                     raced, bookRaced, cutOff, cut>>
      /\ log' = [m \in Messages |-> 0] \/ UNCHANGED log
      /\ book' = {} \/ UNCHANGED book
  BY DEF InboxInv, ResetInbox
<1>2. ContactInv' /\ BadgeInv'
  BY <1>1, ContactGoesOn, BadgeGoesOn
<1>3. CASE UNCHANGED log
  <2>1. InboxTypeOK'
    BY <1>1, <1>3 DEF InboxTypeOK
  <2>2. LogInv'
    BY <1>1, <1>3, <2>1, SendsStay, HandlersStay, LogGoesOn
  <2>3. QED
    BY <1>2, <2>1, <2>2 DEF InboxInv
<1>4. CASE log' = [m \in Messages |-> 0]
  <2>1. log' \in [Messages -> Nat]
    BY <1>4
  <2>2. InboxTypeOK'
    BY <1>1, <2>1 DEF InboxTypeOK
  <2>3. \A m \in Messages : log'[m] = 0
    BY <1>4
  <2>4. HandlersInv' /\ CutInv' /\ EarlyInv'
    BY <1>1, <2>3 DEF LogInv, HandlersInv, CutInv, EarlyInv, Early, Messages
  <2>5. OnceInv'
    <3>1. \A g \in Handlers, z \in Messages : Saving(g, z)' <=> Saving(g, z)
      BY <1>1 DEF Saving
    <3>2. QED
      BY <1>1, <2>3, <3>1 DEF LogInv, OnceInv
  <2>6. QED
    BY <1>2, <2>2, <2>4, <2>5 DEF InboxInv, LogInv
<1>5. QED
  BY <1>1, <1>3, <1>4

LEMMA CrashInboxKeeps == ASSUME InboxInv, CrashInbox PROVE InboxInv'
<1>1. /\ InboxTypeOK /\ LogInv /\ ContactInv /\ BadgeInv
      /\ handler' = [h \in Handlers |-> NoHandler]
      /\ filing' = [f \in Filings |-> NoFiling]
      /\ commands' = <<>> /\ replies' = <<>>
      /\ cut' = (cut \/ commands \o replies # <<>>)
      /\ cutOff' = cutOff \cup {x \in Outgoing : send[x].at = "recording"}
      /\ UNCHANGED <<log, book, arrived, badge, raced, bookRaced>>
  BY DEF InboxInv, CrashInbox
<1>2. /\ commands \in Seq(Command) /\ replies \in Seq(Reply) /\ unread \in Nat
      /\ cut \in BOOLEAN /\ cutOff \in SUBSET Outgoing
      /\ \A x \in Outgoing : send[x] \in Send
  BY <1>1 DEF InboxTypeOK
<1>3. /\ unread' \in Nat
      /\ commands = <<>> => unread' = unread
  <2>1. unread' \in {unread, IF commands = <<>> THEN unread
                             ELSE IF Head(commands) = None THEN 0 ELSE unread + 1}
    BY DEF CrashInbox
  <2>2. QED
    BY <1>2, <2>1
<1>4. /\ handler' \in [Handlers -> Handler] /\ filing' \in [Filings -> Filing]
      /\ \A h \in Handlers : handler'[h].at = "idle"
      /\ \A f \in Filings : filing'[f] = NoFiling
  BY <1>1, HandlerType, FilingType
<1>5. commands' \in Seq(Command) /\ replies' \in Seq(Reply)
  BY <1>1
<1>6. \A x \in Outgoing :
        /\ send'[x] \in Send
        /\ send'[x].at \in {"idle", "done"} => send'[x] = send[x]
        /\ send'[x].at \in {"idle", "done", "failed"}
        /\ send'[x].at = "failed" <=> send[x].at \notin {"idle", "done"}
  <2>1. send' = [x \in Outgoing |-> IF send[x].at \in {"idle", "done"} THEN send[x]
                                    ELSE [send[x] EXCEPT !.at = "failed", !.sock = None]]
    BY DEF CrashInbox
  <2>2. \A y \in Send : /\ [y EXCEPT !.at = "failed", !.sock = None] \in Send
                        /\ [y EXCEPT !.at = "failed", !.sock = None].at = "failed"
    BY DEF Send
  <2>3. QED
    BY <1>2, <2>1, <2>2
<1>7. send' \in [Outgoing -> Send]
  BY <1>6 DEF CrashInbox
<1>8. SendsMove
  BY <1>1, <1>6 DEF SendsMove, Early
<1>9. HandlersMove
  BY <1>4 DEF HandlersMove
<1>10. cast' \in Cast
  <2>1. cast \in Cast /\ cast' = IF cast.at = "idle" THEN cast ELSE [cast EXCEPT !.at = "over"]
    BY <1>1 DEF InboxTypeOK, CrashInbox
  <2>2. [cast EXCEPT !.at = "over"] \in Cast
    BY <2>1 DEF Cast
  <2>3. QED
    BY <2>1, <2>2
<1>11. cut' \in BOOLEAN /\ cutOff' \in SUBSET Outgoing
  BY <1>1, <1>2
<1>12. InboxTypeOK'
  BY <1>1, <1>3, <1>4, <1>5, <1>7, <1>10, <1>11 DEF InboxTypeOK
<1>13. LogInv'
  BY <1>1, <1>8, <1>9, <1>12, LogGoesOn
<1>14. ContactInv'
  BY <1>1, <1>4, FilingType, ContactGoesOn
<1>15. BadgeInv'
  <2>1. ~cut' => ~cut /\ commands = <<>> /\ replies = <<>>
    <3>1. commands \o replies = <<>> => commands = <<>> /\ replies = <<>>
      <4>1. Len(commands \o replies) = Len(commands) + Len(replies)
        BY <1>2
      <4>2. Len(commands) \in Nat /\ Len(replies) \in Nat
        BY <1>2
      <4>3. Len(commands) = 0 => commands = <<>>
        BY <1>2
      <4>4. Len(replies) = 0 => replies = <<>>
        BY <1>2
      <4>5. commands \o replies = <<>> => Len(commands \o replies) = 0
        OBVIOUS
      <4>6. QED
        BY <4>1, <4>2, <4>3, <4>4, <4>5
    <3>2. QED
      BY <1>1, <3>1
  <2>2. ~cut' => badge' = unread'
    BY <1>1, <1>3, <2>1 DEF BadgeInv
  <2>3. QED
    BY <1>1, <2>2 DEF BadgeInv
<1>16. QED
  BY <1>12, <1>13, <1>14, <1>15 DEF InboxInv

-----------------------------------------------------------------------------
LEMMA InboxStarts == InboxInit => InboxInv
<1> SUFFICES ASSUME InboxInit PROVE InboxInv
  OBVIOUS
<1>1. /\ log = [m \in Messages |-> 0] /\ book = {}
      /\ handler = [h \in Handlers |-> NoHandler]
      /\ filing = [f \in Filings |-> NoFiling]
      /\ arrived = [m \in Messages |-> 0]
      /\ commands = <<>> /\ unread = 0 /\ replies = <<>> /\ badge = 0
      /\ send = [x \in Outgoing |-> NoSend] /\ cast = NoCast
      /\ raced = {} /\ bookRaced = FALSE /\ cutOff = {} /\ cut = FALSE
  BY DEF InboxInit
<1>2. handler \in [Handlers -> Handler] /\ \A h \in Handlers : handler[h].at = "idle"
  BY <1>1, HandlerType
<1>3. filing \in [Filings -> Filing] /\ \A f \in Filings : filing[f].at = "idle" /\ filing[f].row = 0
  BY <1>1, FilingType
<1>4. send \in [Outgoing -> Send] /\ \A x \in Outgoing : send[x].at = "idle"
  BY <1>1, SendType
<1>5. /\ log \in [Messages -> Nat] /\ arrived \in [Messages -> 0..MaxDeliveries]
      /\ \A m \in Messages : log[m] = 0
  BY <1>1, BoundsAssumption
<1>6. InboxTypeOK
  <2>1. commands \in Seq(Command) /\ replies \in Seq(Reply)
    BY <1>1
  <2>2. unread \in Nat /\ badge \in Nat /\ bookRaced \in BOOLEAN /\ cut \in BOOLEAN
    BY <1>1
  <2>3. book \in SUBSET (1..MaxContacts) /\ raced \in SUBSET Messages /\ cutOff \in SUBSET Outgoing
    BY <1>1
  <2>4. cast \in Cast
    BY <1>1, CastType
  <2>5. QED
    BY <1>2, <1>3, <1>4, <1>5, <2>1, <2>2, <2>3, <2>4 DEF InboxTypeOK
<1>7. HandlersInv /\ CutInv /\ EarlyInv
  BY <1>1, <1>2, <1>4, <1>5 DEF HandlersInv, CutInv, EarlyInv, Messages
<1>8. OnceInv
  BY <1>2, <1>4, <1>5 DEF OnceInv, Saving, Writing
<1>9. ContactInv /\ BadgeInv
  BY <1>1, <1>3 DEF ContactInv, BadgeInv
<1>10. QED
  BY <1>6, <1>7, <1>8, <1>9 DEF InboxInv, LogInv

LEMMA InboxGoesOn == ASSUME SessionInv, InboxInv, [Next]_vars PROVE InboxInv'
<1>1. SessionTypeOK
  BY DEF SessionInv
<1>2. CASE UNCHANGED vars
  <2>1. UNCHANGED <<log, book, handler, filing, arrived, commands, unread, replies, badge, send,
                    cast, raced, bookRaced, cutOff, cut>>
    BY <1>2 DEF vars, inboxVars
  <2>2. send' \in [Outgoing -> Send] /\ cast' \in Cast
    BY <2>1 DEF InboxInv, InboxTypeOK
  <2>3. QED
    BY <2>1, <2>2, SendsStay, SendsAlone
<1>3. CASE InboxStep
  <2>1. CASE \E h \in Handlers, m \in Messages, s \in Sockets : Receive(h, m, s)
    BY <2>1, ReceiveKeeps
  <2>2. CASE \E h \in Handlers : FindReceiver(h) \/ Dedup(h) \/ SaveLog(h)
    BY <1>1, <2>2, FindReceiverKeeps, DedupKeeps, SaveLogKeeps
  <2>3. CASE \E f \in Filings : BeginFiling(f) \/ FindContact(f) \/ SaveContact(f)
    BY <2>3, BeginFilingKeeps, FindContactKeeps, SaveContactKeeps
  <2>4. CASE DeleteContact \/ MarkAllSeen \/ Execute \/ OnReply
    BY <1>1, <2>4, DeleteContactKeeps, MarkAllSeenKeeps, ExecuteKeeps, OnReplyKeeps
  <2>5. CASE \E x \in Outgoing : SendMessage(x) \/ Prepare(x) \/ Deliver(x) \/ Record(x) \/ SendFails(x)
    BY <1>1, <2>5, SendMessageKeeps, PrepareKeeps, DeliverKeeps, RecordKeeps, SendFailsKeeps
  <2>6. CASE StartBroadcast \/ CheckBroadcast \/ NextRecipient
    BY <1>1, <2>6, CastKeeps
  <2>7. QED
    BY <1>3, <2>1, <2>2, <2>3, <2>4, <2>5, <2>6 DEF InboxStep
<1>4. CASE LoseSocket \/ ResetInbox \/ ProcessCrash
  BY <1>4, LoseSocketKeeps, ResetInboxKeeps, CrashInboxKeeps DEF ProcessCrash
<1>5. QED
  BY <1>2, <1>3, <1>4 DEF Next

(* A step of the whole is one of the session, or leaves it alone.          *)
LEMMA SessionSteps == ASSUME [Next]_vars PROVE [SessionNext]_sessionVars
<1>1. CASE UNCHANGED sessionVars
  BY <1>1
<1>2. CASE LoseSocket
  BY <1>2 DEF LoseSocket, SessionNext
<1>3. CASE ResetInbox
  BY <1>3 DEF ResetInbox, SessionNext, ResetStep
<1>4. CASE ProcessCrash
  BY <1>4 DEF ProcessCrash, SessionNext
<1>5. QED
  BY <1>1, <1>2, <1>3, <1>4 DEF Next, vars

LEMMA WhatsAppInvariant == Spec => [](SessionInv /\ InboxInv)
<1>1. Init => SessionInv /\ InboxInv
  BY SessionStarts, InboxStarts DEF Init
<1>2. (SessionInv /\ InboxInv) /\ [Next]_vars => (SessionInv /\ InboxInv)'
  BY SessionSteps, SessionGoesOn, InboxGoesOn
<1>3. QED
  BY <1>1, <1>2, PTL DEF Spec

LEMMA OneOrNone ==
  ASSUME NEW S, \A r, s \in S : r = s
  PROVE  Cardinality(S) <= 1
<1>1. CASE S = {}
  BY <1>1, FS_EmptySet
<1>2. CASE S # {}
  <2>1. PICK r \in S : S = {r}
    BY <1>2
  <2>2. QED
    BY <2>1, FS_Singleton
<1>3. QED
  BY <1>1, <1>2

-----------------------------------------------------------------------------
(* The state of a device and of its inbox keeps its types, whatever        *)
(* interleaves: sockets' events, calls, messages, replies and crashes.     *)
THEOREM WhatsAppIsTyped == Spec => []TypeOK
<1>1. SessionInv /\ InboxInv => TypeOK
  BY DEF SessionInv, InboxInv, TypeOK
<1>2. QED
  BY <1>1, WhatsAppInvariant, PTL

(* A message has one row of whatsapp_logs at most, however often it comes  *)
(* and on however many sockets, unless one of its writers looked while     *)
(* another was between its look and its insert: handleMessageUpsert's      *)
(* findOneBy fails for no other message.                                   *)
THEOREM MessagesAreLoggedOnce == Spec => []LoggedOnce
<1>1. SessionInv /\ InboxInv => LoggedOnce
  BY DEF InboxInv, LogInv, OnceInv, LoggedOnce
<1>2. QED
  BY <1>1, WhatsAppInvariant, PTL

(* The contact has one row at most, unless two writers overlapped, though  *)
(* rows are deleted under a writer that has found one: save then inserts   *)
(* the row that was found again.                                           *)
THEOREM ContactsAreOne == Spec => []OneContact
<1>1. SessionInv /\ InboxInv => OneContact
  BY OneOrNone DEF InboxInv, ContactInv, OneContact
<1>2. QED
  BY <1>1, WhatsAppInvariant, PTL

(* With nothing under way between the process and Redis the badge shows    *)
(* the count of Redis, with any number of handlers and with resets between *)
(* their increments: replies come in the order of execution.               *)
THEOREM BadgeFollowsRedis == Spec => []BadgeIsUnread
<1>1. SessionInv /\ InboxInv => BadgeIsUnread
  BY DEF InboxInv, BadgeInv, BadgeIsUnread
<1>2. QED
  BY <1>1, WhatsAppInvariant, PTL

(* A call of sendMessage that failed - of a request, the broadcast or the  *)
(* answer to a /ping - has sent nothing: no row and no echo of it exists,  *)
(* on whatever sockets and however often messages come, unless the process *)
(* crashed with the message out.                                           *)
THEOREM FailedSendsAreUnsent == Spec => []FailedIsUnsent
<1>1. SessionInv /\ InboxInv => FailedIsUnsent
  BY DEF InboxInv, LogInv, EarlyInv, Early, FailedIsUnsent
<1>2. QED
  BY <1>1, WhatsAppInvariant, PTL

(* After a logout that left nothing behind the device stays out, for any   *)
(* number of sockets and calls of initSession, until somebody calls it.    *)
THEOREM LogoutStays == Spec => []SealedStaysOut
<1>1. SessionInv /\ InboxInv => SealedStaysOut
  BY DEF SessionInv
<1>2. QED
  BY <1>1, WhatsAppInvariant, PTL

(* The inbox adds nothing to the session and hinders nothing of it: what   *)
(* holds of a device's session alone holds of the session under the inbox. *)
THEOREM InboxKeepsSession == Spec => SessionSpec
<1>1. Init => SessionInit
  BY DEF Init
<1>2. [Next]_vars => [SessionNext]_sessionVars
  BY SessionSteps
<1>3. QED
  BY <1>1, <1>2, PTL DEF Spec, SessionSpec
=============================================================================
