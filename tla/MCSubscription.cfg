\* Two points, two groups, a client; one point is written twice, the other once.
CONSTANTS
  p1 = p1
  Points = {p1, p2}
  UnknownTags = {t1}
  g1 = g1
  g2 = g2
  Groups = {g1, g2}
  Prefix <- MCPrefix
  Clients = {c1}
  NoGroup = NoGroup
  MaxVersion = 2
  WriteLimit <- MCWriteLimit
  MaxFailures = 1
SPECIFICATION Spec
INVARIANTS
  SentOrMarked
  NothingElseMissed
CHECK_DEADLOCK FALSE
