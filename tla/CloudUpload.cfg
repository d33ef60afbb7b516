SPECIFICATION FairSpec
CONSTANTS
  MaxUnits = 3
  SizeOf <- EmptyThenFull
  Chunk = 2
  Threshold = 1
  Backends = {"http", "gcs", "azure"}
  Policies = {"checksum", "size"}
  MaxTries = 8
  MaxVersion = 3
  MaxFails = 1
  MaxFaults = 1
  MaxCuts = 1
  MaxLosses = 1
INVARIANTS TypeOK VerifiedWhole CheckpointHeld
PROPERTIES EventuallyVerified
CHECK_DEADLOCK FALSE
