CONSTANTS
  k1 = k1
  b1 = b1
  t1 = t1
  t2 = t2
  c1 = c1
  c2 = c2
  m1 = m1
  ra = ra
  rb = rb
  xa = xa
  xb = xb
  ma = ma
  mb = mb
  mc = mc
  sa = sa
  sb = sb
  sc = sc
  oa = oa
  ob = ob
  na = na
  nb = nb
  u1 = u1
  u2 = u2
  u3 = u3
  g1 = g1
  j1 = j1
  p1 = p1
  p2 = p2
  Keys = {k1}
  Budgeted = {b1}
  Amounts = {1, 2}
  Callers = {p1, p2}
  MaxRows = 4
  MaxCalls = 3
  Entries = {t1, t2}
  AmountOf <- MCAmountOf
  Dates <- MCDates
  Since <- MCSince
  Categories = {c1, c2}
  Members = {m1}
  Nobody = Nobody
  Writers = {1}
  MaxWrites = 2
  Roles = {ra, rb}
  Resources = {xa, xb}
  Levels = {"full"}
  Actions = {"view", "manage"}
  Allows <- MCAllows
  Perms = {1, 2, 3}
  Admins = {p1, p2}
  NoRole = NoRole
  MaxNamed = 2
  MaxOrders = 2
  Menu = {ma, mb, mc}
  Top = Top
  Gone = Gone
  NoTree = NoTree
  Editors = {p1, p2}
  TreeViewers = {1}
  MaxMenuChanges = 2
  Origins = {oa, ob}
  Sources = {sa, sb, sc}
  OriginOf <- MCOriginOf
  NameOf <- MCNameOf
  Rows = {1, 2, 3}
  RoleNames = {na, nb}
  SuperAdmin = nb
  Nowhere = Nowhere
  Clones = {p1, p2}
  MaxClones = 2
  MaxMoves = 1
  Users = {u1, u2}
  Pegawai = {g1}
  Joinable = {j1}
  NoCopy = NoCopy
  Doers = {p1, p2}
  ProfileViewers = {1}
  MaxDoings = 4
  Ids = {1, 2, 3}
  ColumnValues = {1, 2, 3}
  TicksPerMs = 2
  Limits = {1, 2}
  NoRecord = NoRecord
  MaxChanges = 1
  ChatUsers = {u1, u2, u3}
  NoUser = NoUser
  MaxConvs = 2
  Askers = {p1, p2}
  MaxAsks = 3
  Visits = {p1, p2}
  TicksPerSecond = 2
  Lifetime = 2
  MaxSeconds = 2
  MaxTicks = 7
SPECIFICATION MCSpec
SYMMETRY MCSymmetry
INVARIANTS
  TypeOK
  
  SumsAgree
  RevokedIsDenied
  CachedTree
  MenusOnce
  NewPasswordStays
  ProfileIsFresh
  EachRowOnce
  OneDirect
  LoggedOutIsRefused
CHECK_DEADLOCK FALSE
