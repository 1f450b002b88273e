CONSTANTS
    c1 = c1
    k1 = k1
    Callers = {c1}
    Keys = {k1}
    TokenTicks = 2
    Burst = 2
    StaleAfter = 4
    From = 5
    To = 5
    MaxTime = 5
SPECIFICATION Spec
INVARIANT KeyRateBound
