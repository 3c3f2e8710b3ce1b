CONSTANTS
    A = A
    B = B
    Fem = {A, B}
    Thread = {t1, t2}
    Config <- MCConfig
    Epoch <- MCEpoch
    Chain <- MCChain
    MaxInjections = 2
SPECIFICATION Spec
INVARIANT TripsAtThreshold
SYMMETRY MCSymmetry
