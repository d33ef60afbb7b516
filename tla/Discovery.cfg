SPECIFICATION Spec
CONSTANTS
  Files = {f1, f2}
  Strategies = {"stability", "marker", "rename"}
  Quiet = 2
  Rescan = 3
  Relog = 2
  NudgeCap = 1
  MaxSlow = 1
  MaxWrites = 2
  MaxUpsets = 1
INVARIANTS TypeOK QueuedInTime
PROPERTIES OnlySettled AnnouncedOnce
SYMMETRY Symmetry
