SPECIFICATION FairSpec
CONSTANTS
    Request = {r1, r2, r3}
    Child = {"resources", "sdlc"}
    Default = Default
    None = None
    Bodies <- SomeBodies
    MaxInFlight = 3
INVARIANTS
    TypeOK
    OneAuthor
    SyncedValueIsCurrent
PROPERTIES
    OmittedKept
    UpdatesAnswer
