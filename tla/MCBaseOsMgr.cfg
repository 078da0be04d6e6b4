SPECIFICATION BaseOsMgrSpec
CONSTANTS
  v1 = v1
  v2 = v2
  v3 = v3
  Versions = {v1, v2}
  NoVer = NoVer
  Garbage = Garbage
  Installed = v1
  ImageOf <- MCImageOf
  OtherHVType = {}
  TooLarge = {}
  ConfigInputs <- MCConfigs
  ContentInputs = {"none", "loading", "loaded", "error"}
  VaultInputs = {"ready"}
  MaxFallback = 1
  MaxWorkers = 2
  MaxRetry = 1
INVARIANTS BosmTypeOK FallbackSafe StatusIsCurrent
CHECK_DEADLOCK FALSE
