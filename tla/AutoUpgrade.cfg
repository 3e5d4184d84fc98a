SPECIFICATION FairSpec
CONSTANTS
  Cron = {"cron"}
  Web = {"web"}
  MaxPlan = 2
  Months = {0}
  Reclaim = 0
  Window = 1
  KeyLife = 2
  MaxDuration = 1
  MaxTime = 2
  MaxSpare = 1
  NoAttempt = NoAttempt
  NoKey = NoKey
INVARIANTS OneChargePerAttempt ChargesAreHeld
PROPERTIES RaisesArePaid DispatchesEnd
