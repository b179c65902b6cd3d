SPECIFICATION Spec
CONSTANTS
  Workers = {w1}
  MaxItems = 2
  Kinds = {"read", "write", "group", "other"}
INVARIANT
  WriteReplyIsTrue
