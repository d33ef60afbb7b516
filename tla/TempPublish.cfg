SPECIFICATION FairSpec
CONSTANTS
  MaxChunks = 3
  SizeOf <- Growing
  Every = 2
  Backends = {"sftp", "ftps", "local"}
  MaxTries = 8
  MaxVersion = 2
  MaxFiles = 4
  MaxFails = 1
  MaxFaults = 1
  MaxCuts = 1
INVARIANTS TypeOK DeliveredUndisturbed PublishedWhole
PROPERTIES VerifiedWhenWhole EventuallyVerified
CHECK_DEADLOCK FALSE
