\* Several ids, a guard of two entries, a strategy that salts: what the
\* dispatch does with its keys.
CONSTANTS
    None = None
    Domain = {"trade"}
    Strategy = {"salting"}
    Request <- KeysRequest
    Qpid <- KeysQpid
    SaltedKey <- KeysSaltedKey
    Hints <- KeysHints
    Amo = {"amo.100"}
    Scheme <- Schemes
    FanTable <- OneTable
    DefaultTable <- FullTable
    MaxEntries = 2
    MaxQueue = 2
    MaxInflight = 1
    U32 = 8
    MaxU64 = 1
    Instants = {0}
    MayStepBack = FALSE
    Intake = {"p"}
    Supervisor = {"s"}
    Threshold = 0
    OpenFor = 1
    MaxAccepts = 2
    MaxFailures = 0
    MaxPanics = 1
SPECIFICATION Spec
INVARIANTS
    AtMostOnce
    RemembersLargest
PROPERTIES
    ReplayOnlyBelowFloor
    LedgerSpec
