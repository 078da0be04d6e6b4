SPECIFICATION FairSpec
CONSTANTS
  NumSlots = 3
  MaxCrashes = 2
  MaxErrors = 1
INVARIANTS EvalTypeOK PassedStaysBootable NotBricked BestPassed
PROPERTY EvaluationEnds
CHECK_DEADLOCK FALSE
