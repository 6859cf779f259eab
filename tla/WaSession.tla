----------------------------- MODULE WaSession -----------------------------
(***************************************************************************)
(* The session of one WhatsApp device: WhatsappService's initSession, the  *)
(* connection.update handler it installs on every socket, logoutSession    *)
(* and the reconnection at start-up.                                       *)
(*                                                                         *)
(* Three things outlive a socket: the row in whatsapp_devices, the session *)
(* folder with the credentials of a pairing, and the phone's list of       *)
(* paired companions.  The maps activeSockets and qrCodes live as long as  *)
(* the process.  Nothing stops a second initSession, so sockets overlap;   *)
(* each keeps the handlers and the isNewLogin of the call that made it.    *)
(* A step is what a handler does between two awaits with the query it      *)
(* waited for.  The library and the phone are external: they show codes,   *)
(* pair, open, lose and reject sockets at any time the protocol allows.    *)
(***************************************************************************)
EXTENDS Naturals, FiniteSets

CONSTANTS
  Sockets,     \* slots for sockets that are alive or have work left
  Calls,       \* slots for calls of initSession under way
  MaxPairings, \* bound: how often a code is scanned
  None         \* no socket

ASSUME PairingsAssumption == MaxPairings \in Nat
ASSUME NoneAssumption == None \notin Sockets

VARIABLES
  row,     \* whatsapp_devices: the status of the device
  folder,  \* the pairing whose credentials the session folder holds
  linked,  \* the phone: the pairings it still accepts
  sock,    \* the sockets
  active,  \* activeSockets
  code,    \* qrCodes: the socket whose code is kept
  call,    \* the calls of initSession
  logout,  \* the call of logoutSession
  scans,   \* how many codes were scanned
  gaveUp,  \* history: the reconnection at start-up failed, nobody tried since
  sealed   \* history: a logout ended with nothing left, nobody tried since

sessionVars ==
  <<row, folder, linked, sock, active, code, call, logout, scans, gaveUp, sealed>>

-----------------------------------------------------------------------------
Status == {"none", "connecting", "connected", "disconnected"}

(* 0 is a folder with credentials that were never paired.                  *)
Absent == MaxPairings + 1
Pairing == 1..MaxPairings
Folder == 0..Absent

(* opening: what the handler of "open" still has to do; closing: the row   *)
(* is still to be updated for a rejected socket; unsaved: saveCreds is     *)
(* still to write.                                                         *)
Socket ==
  [at : {"none", "linking", "open"}, creds : 0..MaxPairings, isNewLogin : BOOLEAN,
   opening : {"no", "logs", "contacts", "update"}, closing : BOOLEAN, unsaved : BOOLEAN]
NoSocket ==
  [at |-> "none", creds |-> 0, isNewLogin |-> FALSE,
   opening |-> "no", closing |-> FALSE, unsaved |-> FALSE]

Alive(s) == sock[s].at # "none"
Free(s) ==
  ~Alive(s) /\ sock[s].opening = "no" /\ ~sock[s].closing /\ ~sock[s].unsaved

(* sock.user is set from the credentials, connected or not.                *)
HasUser(s) == sock[s].creds # 0

Call ==
  [at : {"idle", "finding", "saving", "loading", "making"},
   by : {"http", "boot", "reconnect"}, creds : 0..MaxPairings]
NoCall == [at |-> "idle", by |-> "http", creds |-> 0]
Calling(caller) == [NoCall EXCEPT !.at = "finding", !.by = caller]

Logout ==
  [at : {"idle", "finding", "leaving", "updating", "logs", "contacts"},
   sock : Sockets \cup {None}, clear : BOOLEAN]
NoLogout == [at |-> "idle", sock |-> None, clear |-> FALSE]

SessionTypeOK ==
  /\ row \in Status
  /\ folder \in Folder
  /\ linked \in SUBSET Pairing
  /\ sock \in [Sockets -> Socket]
  /\ active \in Sockets \cup {None}
  /\ code \in Sockets \cup {None}
  /\ call \in [Calls -> Call]
  /\ logout \in Logout
  /\ scans \in 0..MaxPairings
  /\ gaveUp \in BOOLEAN
  /\ sealed \in BOOLEAN

SessionInit ==
  /\ row = "none"
  /\ folder = Absent
  /\ linked = {}
  /\ sock = [s \in Sockets |-> NoSocket]
  /\ active = None
  /\ code = None
  /\ call = [c \in Calls |-> NoCall]
  /\ logout = NoLogout
  /\ scans = 0
  /\ gaveUp = FALSE
  /\ sealed = FALSE

-----------------------------------------------------------------------------
(* The process ends and starts again: onApplicationBootstrap calls         *)
(* initSession for the device if it has a row, whatever its status.        *)
Crash ==
  /\ sock' = [s \in Sockets |-> NoSocket]
  /\ active' = None
  /\ code' = None
  /\ \/ row = "none" /\ call' = [c \in Calls |-> NoCall]
     \/ \E boot \in Calls :
          /\ row # "none"
          /\ call' = [[c \in Calls |-> NoCall] EXCEPT ![boot] = Calling("boot")]
  /\ logout' = NoLogout
  /\ gaveUp' = FALSE
  /\ sealed' = FALSE
  /\ UNCHANGED <<row, folder, linked, scans>>

-----------------------------------------------------------------------------
(* initSession                                                             *)

InitSession(c) ==
  /\ call[c].at = "idle"
  /\ call' = [call EXCEPT ![c] = Calling("http")]
  /\ gaveUp' = FALSE
  /\ sealed' = FALSE
  /\ UNCHANGED <<row, folder, linked, sock, active, code, logout, scans>>

FindDevice(c) ==
  /\ call[c].at = "finding"
  /\ call' = [call EXCEPT ![c].at = IF row = "none" THEN "saving" ELSE "loading"]
  /\ UNCHANGED <<row, folder, linked, sock, active, code, logout, scans, gaveUp, sealed>>

(* save writes the new entity over a row another call has put there.       *)
SaveDevice(c) ==
  /\ call[c].at = "saving"
  /\ row' = "connecting"
  /\ call' = [call EXCEPT ![c].at = "loading"]
  /\ UNCHANGED <<folder, linked, sock, active, code, logout, scans, gaveUp, sealed>>

(* A query of initSession fails: the caller of the endpoint is told, at    *)
(* start-up it is logged.  Nobody handles what a reconnection rejects      *)
(* with, which ends the process (Crash).                                   *)
CallFails(c) ==
  /\ call[c].at \in {"finding", "saving"} /\ call[c].by # "reconnect"
  /\ call' = [call EXCEPT ![c] = NoCall]
  /\ gaveUp' = TRUE
  /\ UNCHANGED <<row, folder, linked, sock, active, code, logout, scans, sealed>>

(* The folder is made and useMultiFileAuthState reads it, when the writes  *)
(* under way are done: the library locks its files.                        *)
LoadCreds(c) ==
  LET creds == IF folder = Absent THEN 0 ELSE folder
  IN /\ call[c].at = "loading"
     /\ \A s \in Sockets : ~sock[s].unsaved
     /\ folder' = creds
     /\ call' = [call EXCEPT ![c].at = "making", ![c].creds = creds]
     /\ UNCHANGED <<row, linked, sock, active, code, logout, scans, gaveUp, sealed>>

(* makeWASocket; an earlier socket is replaced in the map, not closed.     *)
MakeSocket(c, s) ==
  /\ call[c].at = "making"
  /\ Free(s)
  /\ sock' = [sock EXCEPT ![s] = [NoSocket EXCEPT !.at = "linking", !.creds = call[c].creds]]
  /\ active' = s
  /\ call' = [call EXCEPT ![c] = NoCall]
  /\ UNCHANGED <<row, folder, linked, code, logout, scans, gaveUp, sealed>>

-----------------------------------------------------------------------------
(* connection.update and creds.update                                      *)

ShowCode(s) ==
  /\ sock[s].at = "linking" /\ ~HasUser(s)
  /\ sock' = [sock EXCEPT ![s].isNewLogin = TRUE]
  /\ code' = s
  /\ UNCHANGED <<row, folder, linked, active, call, logout, scans, gaveUp, sealed>>

(* The phone scans a code the socket has shown.                            *)
Scan(s) ==
  /\ sock[s].at = "linking" /\ ~HasUser(s) /\ sock[s].isNewLogin
  /\ scans < MaxPairings
  /\ scans' = scans + 1
  /\ linked' = linked \cup {scans + 1}
  /\ sock' = [sock EXCEPT ![s].creds = scans + 1, ![s].unsaved = TRUE]
  /\ UNCHANGED <<row, folder, active, code, call, logout, gaveUp, sealed>>

(* The phone's owner removes a companion.                                  *)
Unlink(p) ==
  /\ p \in linked
  /\ linked' = linked \ {p}
  /\ UNCHANGED <<row, folder, sock, active, code, call, logout, scans, gaveUp, sealed>>

SaveCreds(s) ==
  /\ sock[s].unsaved /\ folder # Absent
  /\ folder' = sock[s].creds
  /\ sock' = [sock EXCEPT ![s].unsaved = FALSE]
  /\ UNCHANGED <<row, linked, active, code, call, logout, scans, gaveUp, sealed>>

(* Without a folder the write fails; nobody handles that, which ends the   *)
(* process.                                                                *)
Doomed == folder = Absent /\ \E s \in Sockets : sock[s].unsaved

(* connection = "open"; the library updates the credentials with it.       *)
Open(s) ==
  /\ sock[s].at = "linking" /\ sock[s].creds \in linked
  /\ sock' = [sock EXCEPT ![s].at = "open", ![s].unsaved = TRUE,
                          ![s].opening = IF sock[s].isNewLogin THEN "logs" ELSE "update"]
  /\ code' = None
  /\ UNCHANGED <<row, folder, linked, active, call, logout, scans, gaveUp, sealed>>

(* A first login empties the inbox (the rows are in WhatsApp) step by      *)
(* step; when a step fails the rest is skipped.                            *)
ResetLogs(s) ==
  /\ sock[s].opening = "logs"
  /\ \E rest \in {"contacts", "update"} :
       sock' = [sock EXCEPT ![s].opening = rest,
                            ![s].isNewLogin = (rest = "contacts")]
  /\ UNCHANGED <<row, folder, linked, active, code, call, logout, scans, gaveUp, sealed>>

ResetContacts(s) ==
  /\ sock[s].opening = "contacts"
  /\ sock' = [sock EXCEPT ![s].opening = "update", ![s].isNewLogin = FALSE]
  /\ UNCHANGED <<row, folder, linked, active, code, call, logout, scans, gaveUp, sealed>>

Mark(status) == row' = IF row = "none" THEN "none" ELSE status

MarkConnected(s) ==
  /\ sock[s].opening = "update"
  /\ Mark("connected")
  /\ sock' = [sock EXCEPT ![s].opening = "no"]
  /\ UNCHANGED <<folder, linked, active, code, call, logout, scans, gaveUp, sealed>>

(* A socket has gone; whoever waits for its logout is told.                *)
Gone(s, closing) ==
  /\ sock' = [sock EXCEPT ![s].at = "none", ![s].closing = @ \/ closing]
  /\ logout' = [logout EXCEPT !.sock = IF @ = s THEN None ELSE @]

(* Mutant of Lose: a lost socket is not replaced.                          *)
LoseForGood(s) ==
  /\ Alive(s)
  /\ Gone(s, FALSE)
  /\ code' = None
  /\ UNCHANGED <<row, folder, linked, active, call, scans, gaveUp, sealed>>

(* connection = "close" for any reason but loggedOut (network, replaced by *)
(* another socket, restart after pairing): initSession again, not awaited. *)
Lose(s) ==
  /\ Alive(s)
  /\ Gone(s, FALSE)
  /\ code' = None
  /\ \E c \in Calls : call[c].at = "idle" /\ call' = [call EXCEPT ![c] = Calling("reconnect")]
  /\ UNCHANGED <<row, folder, linked, active, scans, gaveUp, sealed>>

(* connection = "close" with loggedOut: the phone does not know the        *)
(* pairing.  The map, the folder and the row are cleared whatever other    *)
(* socket they belong to by now.                                           *)
Reject(s) ==
  /\ Alive(s) /\ HasUser(s) /\ sock[s].creds \notin linked
  /\ Gone(s, TRUE)
  /\ code' = None
  /\ active' = None
  /\ folder' = Absent
  /\ UNCHANGED <<row, linked, call, scans, gaveUp, sealed>>

MarkDisconnected(s) ==
  /\ sock[s].closing
  /\ Mark("disconnected")
  /\ sock' = [sock EXCEPT ![s].closing = FALSE]
  /\ UNCHANGED <<folder, linked, active, code, call, logout, scans, gaveUp, sealed>>

-----------------------------------------------------------------------------
(* logoutSession                                                           *)

RequestLogout ==
  /\ logout.at = "idle"
  /\ logout' = [NoLogout EXCEPT !.at = "finding"]
  /\ UNCHANGED <<row, folder, linked, sock, active, code, call, scans, gaveUp, sealed>>

(* The row has been found or not, or the query failed and with it the      *)
(* request.  The socket of that moment is asked to log out, a device       *)
(* without one has only its folder removed.  clear: there is a row and     *)
(* clearData is asked for.                                                 *)
BeginLogout ==
  /\ logout.at = "finding"
  /\ \/ logout' = NoLogout /\ UNCHANGED folder
     \/ \E clear \in {FALSE, row # "none"} :
          \/ /\ active # None
             /\ logout' = [at |-> "leaving", clear |-> clear,
                           sock |-> IF Alive(active) THEN active ELSE None]
             /\ UNCHANGED folder
          \/ /\ active = None
             /\ logout' = [at |-> "updating", clear |-> clear, sock |-> None]
             /\ folder' = Absent
  /\ UNCHANGED <<row, linked, sock, active, code, call, scans, gaveUp, sealed>>

(* Mutant of Forget: the entry of activeSockets stays.                     *)
ForgetFolder ==
  /\ folder' = Absent
  /\ logout' = [logout EXCEPT !.at = "updating", !.sock = None]
  /\ UNCHANGED active

(* What follows sock.logout, whatever socket is in the map by now.         *)
Forget ==
  /\ active' = None
  /\ folder' = Absent
  /\ logout' = [logout EXCEPT !.at = "updating", !.sock = None]

(* The phone removes the companion and the socket closes with loggedOut;   *)
(* a socket that was never paired just closes.                             *)
Leave(s) ==
  /\ logout.at = "leaving" /\ logout.sock = s
  /\ sock[s].at = "open" \/ ~HasUser(s)
  /\ linked' = linked \ {sock[s].creds}
  /\ sock' = [sock EXCEPT ![s].at = "none", ![s].closing = TRUE]
  /\ code' = None
  /\ Forget
  /\ UNCHANGED <<row, call, scans, gaveUp, sealed>>

(* The socket has no connection (any more): the error is ignored, the      *)
(* phone keeps the companion.                                              *)
LeaveFails ==
  /\ logout.at = "leaving"
  /\ logout.sock # None => sock[logout.sock].at = "linking" /\ HasUser(logout.sock)
  /\ Forget
  /\ UNCHANGED <<row, linked, sock, code, call, scans, gaveUp, sealed>>

Idle == \A c \in Calls : call[c].at = "idle"
NothingLeft == Idle /\ \A s \in Sockets : ~Alive(s) /\ sock[s].opening = "no"

FinishLogout ==
  /\ logout.at = "updating"
  /\ \/ \* the UPDATE fails and with it the request
        /\ logout' = NoLogout
        /\ UNCHANGED <<row, code, sealed>>
     \/ /\ Mark("disconnected")
        /\ code' = None
        /\ sealed' = NothingLeft
        /\ logout' = IF logout.clear THEN [logout EXCEPT !.at = "logs"] ELSE NoLogout
  /\ UNCHANGED <<folder, linked, sock, active, call, scans, gaveUp>>

(* clearData empties the inbox like a first login does.                    *)
ClearLogs ==
  /\ logout.at = "logs"
  /\ logout' \in {NoLogout, [logout EXCEPT !.at = "contacts"]}
  /\ UNCHANGED <<row, folder, linked, sock, active, code, call, scans, gaveUp, sealed>>

ClearContacts ==
  /\ logout.at = "contacts"
  /\ logout' = NoLogout
  /\ UNCHANGED <<row, folder, linked, sock, active, code, call, scans, gaveUp, sealed>>

-----------------------------------------------------------------------------
SocketStep(s) ==
  \/ ShowCode(s) \/ Scan(s) \/ SaveCreds(s) \/ Open(s) \/ MarkConnected(s)
  \/ Lose(s) \/ Reject(s) \/ MarkDisconnected(s)

CallStep(c) ==
  \/ InitSession(c) \/ FindDevice(c) \/ SaveDevice(c) \/ CallFails(c) \/ LoadCreds(c)
  \/ \E s \in Sockets : MakeSocket(c, s)

LogoutStep ==
  RequestLogout \/ BeginLogout \/ (\E s \in Sockets : Leave(s)) \/ LeaveFails \/ FinishLogout

(* Steps that leave the inbox alone.                                       *)
SessionStep ==
  \/ \E s \in Sockets : SocketStep(s)
  \/ \E c \in Calls : CallStep(c)
  \/ \E p \in Pairing : Unlink(p)
  \/ LogoutStep

(* Steps that reach into the inbox.                                        *)
ResetStep ==
  \/ \E s \in Sockets : ResetLogs(s) \/ ResetContacts(s)
  \/ ClearLogs \/ ClearContacts
SessionNext == SessionStep \/ ResetStep \/ Crash

(* The process runs on, queries are answered, a network that lets sockets  *)
(* try again and again lets one open (SF), and the phone rejects what it   *)
(* does not know.  Nobody has to scan, to call initSession or to log out.  *)
SessionFairness ==
  /\ WF_sessionVars(Doomed /\ Crash)
  /\ \A s \in Sockets :
       /\ WF_sessionVars(SaveCreds(s)) /\ SF_sessionVars(Open(s)) /\ WF_sessionVars(Reject(s))
       /\ WF_sessionVars(MarkConnected(s)) /\ WF_sessionVars(MarkDisconnected(s))
       /\ WF_sessionVars(ResetLogs(s)) /\ WF_sessionVars(ResetContacts(s))
  /\ \A c \in Calls :
       /\ WF_sessionVars(FindDevice(c)) /\ WF_sessionVars(SaveDevice(c))
       /\ WF_sessionVars(LoadCreds(c)) /\ WF_sessionVars(\E s \in Sockets : MakeSocket(c, s))

SessionSpec == SessionInit /\ [][SessionNext]_sessionVars /\ SessionFairness

-----------------------------------------------------------------------------
(* When a logout ended with no socket alive and no initSession or "open"   *)
(* handler under way, nothing comes back by itself: no socket is made,     *)
(* none is registered, the folder stays away and the row says so, until    *)
(* somebody calls initSession or the process starts again.                 *)
SealedStaysOut ==
  sealed => NothingLeft /\ active = None /\ folder = Absent /\ code = None
            /\ row \in {"none", "disconnected"}

(* While the folder holds a pairing the phone accepts, the device does not *)
(* stay without an open connection: whatever is lost, replaced, restarted  *)
(* or crashed, it reconnects, once the process has stopped crashing.  The  *)
(* exception is a call of initSession that failed, at start-up or for a    *)
(* user, which nothing tries again.  (Nor is it offline while there are as *)
(* many sockets as the bound lets there be.)                               *)
Offline ==
  /\ folder \in linked
  /\ \A s \in Sockets : sock[s].at # "open"
  /\ \E s \in Sockets : Free(s)
  /\ ~gaveUp
Reconnects == <>[][~Crash]_sessionVars => ~<>[]Offline
=============================================================================
