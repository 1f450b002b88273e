CONSTANTS
    c1 = c1
    c2 = c2
    k1 = k1
    Callers = {c1, c2}
    Keys = {k1}
    TokenTicks = 2
    Burst = 2
    StaleAfter = 2
    From = 1
    To = 2
    MaxTime = 4
SPECIFICATION Spec
SYMMETRY CallerSymmetry
INVARIANTS
    TypeOK
    BucketRateBound
    ClientBound
    SolventNow
PROPERTY RetryAfterHonoured
