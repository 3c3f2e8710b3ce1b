\* An integration whose drive is too small for every envelope, and a drive used
\* directly.
CONSTANTS
    Id = {999, 1000}
    OwnId = {"i1", "i2", "i3"}
    Type = {"Intent", "Execute"}
    Size = {1, 2}
    MaxSize = 3
    MaxStores = 3
    DefaultProtocol = {"Raci"}
    Rejected <- MCRejected
SPECIFICATION MCSpec
INVARIANTS
    PlanMatchesDrive
    StoredWasPlanned
    RemotePlansInfer
    WithinLimit
    QueryComplete

    
