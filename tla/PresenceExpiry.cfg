CONSTANTS
  ann = ann
  bob = bob
  a1 = a1
  a2 = a2
  b1 = b1
  Users <- OneUser
  Sockets <- TwoSockets
  Owner <- TabsOfOne
  MaxReplies = 4
SPECIFICATION Spec
PROPERTIES
  GhostsExpire
