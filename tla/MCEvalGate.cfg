SPECIFICATION FairSpec
CONSTANTS
  NumSlots = 3
  MaxCrashes = 0
  MaxErrors = 0
INVARIANT OnboardingGate
CHECK_DEADLOCK FALSE
