CONSTANTS
  Requests <- Shapes
  Cap = 3
  Patience = 2
  MaxConns = 3
SPECIFICATION Spec
INVARIANT TypeOK
INVARIANT OneConnection
PROPERTY PromptHandledWhole
PROPERTY PromptNotGivenUp
PROPERTY ListensAgain
