CONSTANTS
  ann = ann
  bob = bob
  a1 = a1
  a2 = a2
  b1 = b1
  Users <- TwoUsers
  Sockets <- ThreeSockets
  Owner <- TabsOfTwo
  MaxReplies = 3
SPECIFICATION OrderlySpec
INVARIANTS
  GoneUserIsNotShown
