SPECIFICATION FairSpec
CONSTANTS
  Cron = {"cron"}
  Web = {"web"}
  MaxPlan = 3
  Months = {0}
  Reclaim = 0
  Window = 1
  KeyLife = 2
  MaxDuration = 1
  MaxTime = 1
  MaxSpare = 1
  NoAttempt = NoAttempt
  NoKey = NoKey
PROPERTIES UncertainAttemptsAreHeld
