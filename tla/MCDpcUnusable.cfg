SPECIFICATION Spec
CONSTANTS
  c1 = c1  c2 = c2  lr = lr
  Cfgs <- MCCfgs
  Usable = {c1, lr}
  AllowLocal = {c1}
  LpsCfg = lr
  LastResortCfg = lr
  Inputs <- MCInputs
  NetStates = {"ok", "wwan"}
  waitForIfRetries = 1
  waitForAsyncRetries = 1
  waitForIPDNSRetries = 1
  waitForWwanRetries = 1
  TestBetter = TRUE
  MaxInputs = 2
  MaxNet = 1
  MaxReboots = 0
INVARIANT TestNeverStops
CHECK_DEADLOCK FALSE
