SPECIFICATION Spec
CONSTANTS
    Attempt = {a1, a2, a3, a4}
    Key = {k1}
    None = None
    MaxAttempts = 2
    Window = 1
    MaxInFlight = 1
    MaxTime = 2
INVARIANT
    LimitPerKey
