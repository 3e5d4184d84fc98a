\* Requests of one, two and three (oversize) words against a cap of two words,
\* and two calls against a limit of one.
SPECIFICATION LimitSpec
CONSTANTS
  s1 = s1
  s2 = s2
  s3 = s3
  s4 = s4
  c1 = c1
  c2 = c2
  Spenders <- MCSpenders
  Words <- MCWords
  Callers <- MCCallers
  CallLimit = 1
  WordLimit = 2
  Window = 1
  MaxTime = 2
SYMMETRY MCSymmetry
INVARIANTS WordsMatchReservations CapHoldsPerWindow CallsPerWindow
CHECK_DEADLOCK FALSE
