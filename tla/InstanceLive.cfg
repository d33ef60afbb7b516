SPECIFICATION FairSpec
CONSTANTS
  Horizon = 3
  Fires <- EarlyFires
  Opens <- FirstOpen
  Closes <- FirstClose
  Duration = 0
  Files = {f1, f2}
  PerLimit = 1
  GlobalLimit = 1
  Rescan = 2
  Modes = {"immediate", "cron", "window"}
  Enabled = TRUE
  MaxTaken = 1
  MaxOrders = 1
  MaxMishaps = 0
PROPERTIES FireNoticed ComesToRest Claimed
