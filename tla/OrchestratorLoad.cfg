\* Two ids, intake threads, a supervisor that trips the breaker, a clock that
\* may be set back, reloads of the resolver and a shell that may panic.
CONSTANTS
    None = None
    Domain = {"trade"}
    Strategy = {}
    Request <- LoadRequest
    Qpid <- LoadQpid
    SaltedKey <- LoadSaltedKey
    Hints <- LoadHints
    Amo = {"amo.100"}
    Scheme <- Schemes
    FanTable <- TwoTables
    DefaultTable <- FullTable
    MaxEntries = 2
    MaxQueue = 2
    MaxInflight = 1
    U32 = 4
    MaxU64 = 400
    Instants = {0, 10, 34}
    MayStepBack = TRUE
    Intake = {"p1", "p2"}
    Supervisor = {"s"}
    Threshold = 1
    OpenFor = 12
    MaxAccepts = 2
    MaxFailures = 2
    MaxPanics = 1
SPECIFICATION Spec
INVARIANTS
    TypeOK
    QueueBalance
    InflightBalance
    AnswerTruthful
    LatencyBounded
