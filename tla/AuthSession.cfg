CONSTANTS
  r1 = r1
  r2 = r2
  r3 = r3
  old = old
  new = new
  None = None
  Requests <- TwoRequests
  Passwords <- TwoPasswords
  MaxSeconds = 3
SPECIFICATION Spec
SYMMETRY Slots
INVARIANTS
  TypeOK
  ConcurrentRefreshSurvives
PROPERTY
  KeepsSession
