\* A strategy that forces requests to a remote node.
CONSTANTS
    None = None
    Domain = {"trade"}
    Strategy = {"remote"}
    Request <- LoadRequest
    Qpid <- LoadQpid
    SaltedKey <- LoadSaltedKey
    Hints <- LoadHints
    Amo = {"amo.100"}
    Scheme <- Schemes
    FanTable <- OneTable
    DefaultTable <- FullTable
    MaxEntries = 2
    MaxQueue = 2
    MaxInflight = 1
    U32 = 4
    MaxU64 = 1
    Instants = {0}
    MayStepBack = FALSE
    Intake = {}
    Supervisor = {"s"}
    Threshold = 0
    OpenFor = 1
    MaxAccepts = 2
    MaxFailures = 0
    MaxPanics = 0
SPECIFICATION Spec
INVARIANT RemoteUsesBridge
