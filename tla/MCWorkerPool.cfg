SPECIFICATION FairSpec
CONSTANTS
  Keys = {k1, k2}
  NoKey = NoKey
  MaxWorkers = 2
  MaxMade = 3
  MaxJobs = 3
INVARIANTS PoolTypeOK KeptIsFound ChannelStaysOpen
PROPERTY AcceptedIsProcessed
CHECK_DEADLOCK FALSE
