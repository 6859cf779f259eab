CONSTANTS
  ann = ann
  bob = bob
  root = root
  reply = reply
  r1 = r1
  r2 = r2
  None = None
  Users <- TwoUsers
  Messages <- TwoMessages
  Author <- AuthorOfTwo
  Parent <- ParentOfTwo
  Requests <- TwoRequests
  TicksPerMs = 2
  MaxTime = 2
SPECIFICATION Spec
SYMMETRY Slots
INVARIANTS
  TypeOK
  QuietRemovalFinal
  MarkedIsRead
  InboxFollowsSends
