SPECIFICATION Spec
CONSTANTS
  v1 = v1
  v2 = v2
  v3 = v3
  Versions = {v1, v2}
  NoVer = NoVer
  Garbage = Garbage
  Installed = v1
  ImageOf <- MCImageOf
  OtherHVType = {}
  TooLarge = {}
  ContentInputs = {"none", "loading", "loaded", "error"}
  MaxFallback = 0
  MaxWorkers = 2
  MaxRetry = 0
  MintimeUpdateSuccess = 1
  FallbackIfCloudGoneTime = 0
  ResetIfCloudGoneTime = 1
  VaultReadyCutOffTime = 0
  ConfigGetInputs = {"Success", "Fail"}
  VaultInputs = {"ready"}
  CommandInputs = {}
  ConfigInputs <- MCAllConfigs
  MaxCrashes = 1
  MaxConfigs = 1
INVARIANT OtherActiveMeansTesting
CHECK_DEADLOCK FALSE
