SPECIFICATION Spec
CONSTANTS
  Nonces = {n1, n2, n3}
  Nil = Nil
  MaxRestarts = 2
SYMMETRY Symmetry
CHECK_DEADLOCK FALSE
INVARIANT NoUnexpectedEvent
