SPECIFICATION FairSpec
CONSTANTS
  N = 2
  MaxAttempts = 2
  OnSuccess = "delete"
  OnExhausted = "quarantine"
  CreateStates <- OrderlyCreates
  RewriteStates <- OrderlyRewrites
  LossStates = {}
  Damage = {0}
  EarlyTrigger = FALSE
  MaxVersion = 2
  MaxForced = 0
  MaxCrashes = 1
  MaxFaults = 0
  MaxPauses = 0
PROPERTIES EveryRowSettles EveryVersionIsServed
