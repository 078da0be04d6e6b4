SPECIFICATION FairUpdated
CONSTANTS
  v1 = v1
  v2 = v2
  v3 = v3
  Versions = {v1, v2}
  NoVer = NoVer
  Garbage = Garbage
  Installed = v1
  ImageOf <- MCImageOf
  OtherHVType = {}
  TooLarge = {}
  ContentInputs = {"none", "loaded"}
  VaultInputs = {"locked", "converting", "ready"}
  MaxFallback = 0
  MaxWorkers = 2
  MaxRetry = 0
  MintimeUpdateSuccess = 2
  FallbackIfCloudGoneTime = 1
  ResetIfCloudGoneTime = 2
  VaultReadyCutOffTime = 1
  ConfigGetInputs = {"Success", "Fail", "TemporaryFail", "ReadSaved"}
  CommandInputs = {"reboot"}
  ConfigInputs <- MCAllConfigs
  MaxCrashes = 0
  MaxConfigs = 0
PROPERTIES CommitAfterContact VaultReadyAtCommit TestDecided
CHECK_DEADLOCK FALSE
