CONSTANTS
  Requests <- Shapes
  Cap = 3
  Patience = 2
  MaxConns = 3
SPECIFICATION Spec
PROPERTY FormHandledWhole
