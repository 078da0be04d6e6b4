SPECIFICATION FairSpec
CONSTANTS
  c1 = c1  c2 = c2  lr = lr
  Cfgs <- MCCfgs
  Usable = {c1, c2, lr}
  AllowLocal = {c1}
  LpsCfg = lr
  LastResortCfg = lr
  Inputs <- MCInputs
  NetStates = {"ok", "noip"}
  waitForIfRetries = 1
  waitForAsyncRetries = 1
  waitForIPDNSRetries = 1
  waitForWwanRetries = 1
  TestBetter = TRUE
  MaxInputs = 1
  MaxNet = 1
  MaxReboots = 1
PROPERTIES Recovers ReturnsToNewest
CHECK_DEADLOCK FALSE
