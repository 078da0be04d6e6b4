SPECIFICATION FairSpec
CONSTANTS
  Keys = {k1, k2}
  Values = {a, b}
  NoValue = NoValue
  MaxOps = 3
  MaxFaults = 1
  MaxWire = 2
INVARIANTS PubTypeOK RestartAfterItems
PROPERTIES LastValues Converges
CHECK_DEADLOCK FALSE
