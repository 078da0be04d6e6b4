SPECIFICATION BaseOsMgrSpec
CONSTANTS
  v1 = v1
  v2 = v2
  v3 = v3
  Versions = {v1, v2, v3}
  NoVer = NoVer
  Garbage = Garbage
  Installed = v1
  ImageOf <- MCImageOf
  OtherHVType = {}
  TooLarge = {}
  ConfigInputs <- MCConfigs
  ContentInputs = {"none", "loaded", "error"}
  VaultInputs = {"ready"}
  MaxFallback = 0
  MaxWorkers = 2
  MaxRetry = 0
INVARIANT TriedIsWhole
CHECK_DEADLOCK FALSE
