SPECIFICATION Spec
CONSTANTS
  Workers = {w1, w2}
  MaxItems = 2
  Kinds = {"read", "write", "group", "other"}
INVARIANTS
  OwnResultWhenAlone
  ReadIsTold
  LastWriteIsTold
SYMMETRY Symmetric
