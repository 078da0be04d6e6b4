SPECIFICATION FairSpec
CONSTANTS
  Nonces = {n1, n2, n3}
  Nil = Nil
  MaxRestarts = 1
INVARIANTS
  TypeOK
  QuoteMatchesNonce
  OneDriverAtATime
  NoFatalButUnexpected
  NeverForgotten
  CompleteMeansEscrowed
CHECK_DEADLOCK FALSE
PROPERTY Converges
