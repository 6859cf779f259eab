CONSTANTS
  video = video
  photo = photo
  paper = paper
  a1 = a1
  r1 = r1
  r2 = r2
  p1 = p1
  p2 = p2
  l1 = l1
  l2 = l2
  c1 = c1
  c2 = c2
  None = None
  NoLogo = NoLogo
  NParts = 2
  Files = {video, photo, paper}
  Videos = {video}
  Papers = {paper}
  Albums = {a1}
  Requests = {r1, r2}
  MaxSends = 4
  MaxEdits = 3
  MaxSize = 5
  MaxSpan = 2
  Profiles = {p1, p2}
  Logos = {l1, l2}
  Changers = {c1, c2}
  MaxChanges = 3
SPECIFICATION MCSpec
INVARIANTS
  TypeOK
  RowsMatchFiles
  RangeAsAsked
  ShownAsStored
PROPERTIES
  ShownWhole
  UploadEnds
CHECK_DEADLOCK FALSE
