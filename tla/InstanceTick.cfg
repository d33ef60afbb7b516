SPECIFICATION Spec
CONSTANTS
  Horizon = 4
  Fires <- FiresAt
  Opens <- OpensAt
  Closes <- ClosesAt
  Duration = 0
  Files = {f1, f2}
  PerLimit = 1
  GlobalLimit = 2
  Rescan = 2
  Modes = {"immediate", "cron", "window"}
  Enabled = TRUE
  MaxTaken = 2
  MaxOrders = 1
  MaxMishaps = 1
INVARIANTS PermitFree PermitsConserved EdgesAlternate NoStranded ActivationAgrees NothingMissed FireKept
PROPERTIES ClaimedInside
