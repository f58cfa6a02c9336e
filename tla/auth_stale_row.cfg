SPECIFICATION FairSpec
CONSTANTS
    Request = {r1, r2, r3}
    User = {u1}
    Temporary = Temporary
    Chosen = Chosen
    None = None
    MaxInFlight = 2
PROPERTY
    PasswordMovesForward
