SPECIFICATION Spec
CONSTANTS
  t1 = t1
  t2 = t2
  Trees = {t1, t2}
  MaxRetries = 1
  Boots = {"in_CAS"}
  MaxLag = 1
  MaxChanges = 3
  MaxFails = 1
  MaxHandlers = 1
INVARIANTS VolTypeOK RefsMatch LoadedInCAS
CHECK_DEADLOCK FALSE
SYMMETRY TreeSymmetry
