CONSTANTS
  ann = ann
  bob = bob
  b1 = b1
  m1 = m1
  m2 = m2
  r1 = r1
  r2 = r2
  Users <- TwoUsers
  Creator = ann
  Sockets = {b1}
  Owner <- SocketOfBob
  Messages <- TwoMessages
  Sender <- OneByEach
  Requests <- TwoRequests
SPECIFICATION Spec
SYMMETRY Alike
INVARIANTS
  TypeOK
  NoGap
  OnlyInvited
PROPERTY
  Delivers
