\* Requests keep coming while failures trip the breaker: does every dispatch
\* end, and does the breaker let requests through again?
CONSTANTS
    None = None
    Domain = {"trade"}
    Strategy = {}
    Request <- LoadRequest
    Qpid <- LoadQpid
    SaltedKey <- LoadSaltedKey
    Hints <- LoadHints
    Amo = {"amo.100"}
    Scheme <- Schemes
    FanTable <- OneTable
    DefaultTable <- FullTable
    MaxEntries = 2
    MaxQueue = 2
    MaxInflight = 1
    U32 = 4
    MaxU64 = 4
    Instants = {0, 1, 2, 4}
    MayStepBack = FALSE
    Intake = {"p1"}
    Supervisor = {"s"}
    Threshold = 0
    OpenFor = 2
    MaxAccepts = 2
    MaxFailures = 2
    MaxPanics = 1
SPECIFICATION BusySpec
PROPERTIES
    DispatchReturns
    
