CONSTANTS
  s1 = s1
  s2 = s2
  c1 = c1
  hi = hi
  ping = ping
  pong = pong
  offer = offer
  note = note
  h1 = h1
  h2 = h2
  f1 = f1
  f2 = f2
  None = None
  Sockets = {s1, s2}
  Calls = {c1}
  MaxPairings = 1
  Incoming <- TwoIncoming
  Outgoing <- ThreeOutgoing
  Pong <- PingPong
  Recipients <- OneRecipient
  Handlers <- TwoHandlers
  Filings <- TwoFilings
  MaxDeliveries = 2
  MaxContacts = 2
SPECIFICATION MCSpec
INVARIANTS
  TypeOK
  SealedStaysOut
  LoggedOnce
  OneContact
  BadgeIsUnread
  
PROPERTIES
  Reconnects
CHECK_DEADLOCK FALSE
