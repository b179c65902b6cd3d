SPECIFICATION SignalSpec
CONSTANTS
  Values = {0, 1}
  Delivered <- MCDelivered
  WrittenAttributes = {"VAL", "VALACQ", "VALMANUAL", "INHIB", "INHIBLOCAL"}
INVARIANT
  ValidMeansAcquired
PROPERTIES
  ValidTakesAcquired
  HeldAgainstAcquisition
  LiftedWhenFree
