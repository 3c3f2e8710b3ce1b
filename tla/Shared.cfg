\* Each part of the orchestrator that other threads share, by itself.
CONSTANTS
    None = None
    Unanswered = Unanswered
    Domain = {"trade"}
    Strategy = {"s"}
    Thread = {"t1", "t2", "t3"}
    MaxCalls = 5
    Table = {x1, x2, x3}
    Default = d
    Holder = {h1, h2, h3}
    Task = {k1, k2, k3}
SPECIFICATION SharedSpec
INVARIANTS
    ReadersSafe
    FreedOnce
    LeaksReplaced
PROPERTIES
    Linearizable
    CallsReturn
    EntryReturns
\* The callers may stop calling.
CHECK_DEADLOCK FALSE
