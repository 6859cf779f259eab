----------------------------- MODULE MCWhatsApp -----------------------------
(* Instances of WhatsApp that keep one part of it busy at a time: the      *)
(* session, with an empty inbox; or, with a device that is connected by    *)
(* one socket or two, what arrives, the writers of the contact, what is    *)
(* sent, or the answer to /ping.  There sockets are lost and the process   *)
(* crashes and connects again, but nothing is paired.                      *)
EXTENDS WhatsApp, TLC

CONSTANTS s1, s2, c1, hi, ping, pong, offer, note, h1, h2, f1, f2

TwoIncoming == {hi, ping}
ThreeOutgoing == {pong, offer, note}
PingPong == hi :> None @@ ping :> pong
OneRecipient == <<offer>>
TwoHandlers == {h1, h2}
TwoFilings == {f1, f2}

VARIABLE focus
mcVars == <<vars, focus>>

OpenSocket ==
  [NoSocket EXCEPT !.at = "open", !.creds = 1]

(* Both sockets are open, or the second one, which was perhaps made while  *)
(* the first was logged out and the inbox is about to be emptied.          *)
ConnectedInit ==
  /\ row = "connected" /\ folder = 1 /\ linked = {1} /\ scans = 1
  /\ active = s2 /\ code = None
  /\ call = [c \in Calls |-> NoCall]
  /\ \/ sock = [s \in Sockets |-> OpenSocket] /\ logout = NoLogout
     \/ /\ sock = [s \in Sockets |-> IF s = s2 THEN OpenSocket ELSE NoSocket]
        /\ logout \in {NoLogout, [NoLogout EXCEPT !.at = "logs", !.clear = TRUE]}
  /\ gaveUp = FALSE /\ sealed = FALSE

MCInit ==
  /\ InboxInit
  /\ \/ focus = "session" /\ SessionInit
     \/ focus \in {"arriving", "contact", "sending", "answering"} /\ ConnectedInit

(* What may happen to the session while the inbox is busy: sockets are     *)
(* lost, and the process crashes and connects again.                       *)
Restart ==
  /\ UNCHANGED <<linked, scans, gaveUp>>
  /\ \A c \in Calls :
       \/ call'[c] = NoCall \/ call'[c].by = "boot"
       \/ call'[c] = Calling("reconnect")
  /\ logout'.at # "finding"

MCNext ==
  /\ UNCHANGED focus
  /\ Next
  /\ \/ focus = "session" /\ UNCHANGED <<handler, send, cast, filing, commands>>
        /\ ~logout'.clear
     \/ focus = "arriving" /\ Restart /\ UNCHANGED <<cast, book, send>>
        /\ filing'[f2] = NoFiling
        /\ Len(commands') + Len(replies') <= 2
        /\ \A h \in Handlers : handler'[h].msg \in {hi, None}
     \/ focus = "contact" /\ Restart /\ UNCHANGED <<handler, send, cast, commands>>
     \/ focus = "sending" /\ Restart /\ UNCHANGED <<book, filing, commands>>
        /\ \A h \in Handlers : handler'[h].msg \in {offer, None}
     \/ focus = "answering" /\ Restart /\ UNCHANGED <<book, cast, filing>>
        /\ None \notin Range(commands')
        /\ \A h \in Handlers : handler'[h].msg \in {ping, pong, None}
        /\ \A x \in Outgoing : send'[x].by = "ping" \/ send'[x] = NoSend

MCSpec == MCInit /\ [][MCNext]_mcVars /\ SessionFairness
=============================================================================
