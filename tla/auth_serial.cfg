SPECIFICATION Spec
CONSTANTS
    Request = {r1, r2, r3, r4, r5}
    User = {u1}
    Temporary = Temporary
    Chosen = Chosen
    None = None
    MaxInFlight = 1
SYMMETRY Symmetry
INVARIANTS
    RotatesOnce
    CredentialsWorkOnce
PROPERTY
    PasswordMovesForward
