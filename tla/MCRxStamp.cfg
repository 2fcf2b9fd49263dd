CONSTANTS
  RuntsToPass = 2
  IsrPrompt = TRUE
  MaxArrivals = 3
  MaxRebuilds = 1
SPECIFICATION Spec
INVARIANT TypeOK
INVARIANT StampBelongs
INVARIANT TurnaroundEndsHere
PROPERTY Drained
