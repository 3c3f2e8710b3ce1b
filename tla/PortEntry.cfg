\* Four tasks for a queue of four, in which the fourth is rejected, and two
\* supervisors.
CONSTANTS
    Task = {t1, t2, t3, t4}
    Supervisor = {s1, s2}
    MaxQueue = 4
    MaxInflight = 2
    U32 = 5
    MaxU64 = 4
    Instants = {0, 1, 2, 3}
    Threshold = 0
    OpenFor = 2
    MaxFailures = 2
SYMMETRY Symmetry
SPECIFICATION Spec
INVARIANTS
    AdmittedBounded
    DeadlineBounded
