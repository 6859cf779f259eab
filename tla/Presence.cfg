CONSTANTS
  ann = ann
  bob = bob
  a1 = a1
  a2 = a2
  b1 = b1
  Users <- TwoUsers
  Sockets <- ThreeSockets
  Owner <- TabsOfTwo
  MaxReplies = 2
SPECIFICATION Spec
SYMMETRY TabsOfAnn
INVARIANTS
  TypeOK
  PresentUserIsOnline
  NoLateOffline
PROPERTY
  ShowsStatus
