SPECIFICATION Spec
CONSTANTS
    Request = {r1, r2}
    Child = {"resources", "sdlc"}
    Default = Default
    None = None
    Bodies <- SomeBodies
    MaxInFlight = 2
INVARIANT
    DealValueFollows
