SPECIFICATION SpecEither
CONSTANTS
  v1 = v1
  v2 = v2
  v3 = v3
  Versions = {v1, v2, v3}
  NoVer = NoVer
  Garbage = Garbage
  Installed = v1
  ImageOf <- MCImageOf
  OtherHVType = {}
  TooLarge = {}
  ContentInputs = {"none", "loaded"}
  VaultInputs = {"ready"}
  MaxFallback = 1
  MaxWorkers = 2
  MaxRetry = 1
  MintimeUpdateSuccess = 0
  FallbackIfCloudGoneTime = 0
  ResetIfCloudGoneTime = 0
  VaultReadyCutOffTime = 0
  ConfigGetInputs = {"Success"}
  CommandInputs = {}
  ConfigInputs <- MCAllConfigs
  MaxCrashes = 1
  MaxConfigs = 1
INVARIANTS TypeOK UpdateNotForgotten
PROPERTY RefusesFailed
CHECK_DEADLOCK FALSE
