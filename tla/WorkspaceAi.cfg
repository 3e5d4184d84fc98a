SPECIFICATION Spec
CONSTANTS
  r1 = r1
  r2 = r2
  r3 = r3
  Runs <- MCRuns
  NoRecord = NoRecord
  NoOne = NoOne
  PreviewValid = 1
  Retention = 2
  MaxTime = 4
SYMMETRY MCSymmetry
INVARIANTS SpentPreviewIsBlocked
PROPERTIES MarkerIsPermanent
CHECK_DEADLOCK FALSE
