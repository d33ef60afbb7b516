SPECIFICATION Spec
CONSTANTS
    NumParts = 2
    MaxConcurrent = 2
    SizeOf <- DistinctSizes
    Threshold = 1
    Label = "s3"
    Siblings = TRUE
    Refusals = TRUE
    Stragglers = TRUE
    MaxTries = 2
    MaxVersion = 3
    MaxUploads = 4
    MaxFails = 1
    MaxFaults = 1
    MaxSweeps = 1
    MaxCuts = 1
INVARIANTS DeliveredWhole PartListGenuine
CHECK_DEADLOCK FALSE
