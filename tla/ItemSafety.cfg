SPECIFICATION Spec
CONSTANTS
  N = 2
  MaxAttempts = 2
  OnSuccess = "archive"
  OnExhausted = "retainInPlace"
  CreateStates = {"none"}
  RewriteStates <- OrderlyRewrites
  LossStates = {"in_progress", "verified"}
  Damage = {0}
  EarlyTrigger = FALSE
  MaxVersion = 2
  MaxForced = 2
  MaxCrashes = 1
  MaxFaults = 1
  MaxPauses = 1
INVARIANT CountedAtMostOnce
PROPERTY NoUndeliveredRelease
