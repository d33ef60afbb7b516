SPECIFICATION Spec
CONSTANTS
  Second = 1
  Word = 15
  MaxShift = 3
  Ids = {"a", "b"}
  EntryLists <- Lists
  GlobalPolicy = "disableInstance"
  Transfers = {"x1", "x2"}
  Owner <- OwnerOf
  Rate <- RateOf
  Chunk = 2
  Chunks = 1
  InstanceRetry <- InstanceOptions
  GlobalRetry <- GlobalOptions
  DefaultRetry <- Defaults
  Bases = {1, 8}
  Windows = {1}
  Horizon = 3
INVARIANTS AggregateCap RetriesBounded BackoffGrows NoOrphans
PROPERTIES Paced
CHECK_DEADLOCK FALSE
