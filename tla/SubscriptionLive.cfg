\* One point in groups loaded whole.
CONSTANTS
  p1 = p1
  Points = {p1}
  UnknownTags = {}
  g1 = g1
  g2 = g2
  Groups = {g1, g2}
  Prefix <- MCPrefix
  Clients = {c1}
  NoGroup = NoGroup
  MaxVersion = 2
  WriteLimit <- MCWriteLimit
  MaxFailures = 1
SPECIFICATION LiveSpec
PROPERTIES
  MarksAreCleared
  UpdatesAreDelivered
CHECK_DEADLOCK FALSE
