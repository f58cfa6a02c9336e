\* Four requests, any interleaving of up to three of them, two accounts.
SPECIFICATION Spec
CONSTANTS
    Request = {r1, r2, r3, r4}
    User = {u1, u2}
    Temporary = Temporary
    Chosen = Chosen
    None = None
    MaxInFlight = 3
SYMMETRY Symmetry
INVARIANTS
    TypeOK
    RotationRevokesOld
    ResetEndsSessions
    SessionNeedsChosenPassword
    SecondFactor
PROPERTY
    ImplementsLifecycle
