CONSTANTS
  Fields = {capValue, edgeUs}
  MaxTries = 2
  MaxPublish = 3
SPECIFICATION FairHandoff
INVARIANT HandoffTypeOK
INVARIANT NoTornSnapshot
PROPERTY EventuallyConsumed
PROPERTY AbstractSpec
