\* Up to three mishaps in any lives of a Digger and of the snapshot tool.
CONSTANTS
  Programs <- MCPrograms
  MaxVersion = 3
  MaxMishaps = 3
SPECIFICATION Spec
INVARIANTS
  Kept
  OneSnapshotWhole
  HandlersRegistered
  AbortsOnFailureOnly
