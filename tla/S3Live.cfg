SPECIFICATION FairSpec
CONSTANTS
    NumParts = 2
    MaxConcurrent = 2
    SizeOf <- DistinctSizes
    Threshold = 1
    Label = "s3"
    Siblings = FALSE
    Refusals = FALSE
    Stragglers = FALSE
    MaxTries = 8
    MaxVersion = 3
    MaxUploads = 6
    MaxFails = 1
    MaxFaults = 1
    MaxSweeps = 1
    MaxCuts = 1
PROPERTY EventuallyVerified
CHECK_DEADLOCK FALSE
