SPECIFICATION Spec
CONSTANTS
    Request = {r1, r2, r3}
    Lead = {l1, l2}
    admin = admin
    manager = manager
    executive = executive
    User = {admin, manager, executive}
    Role <- Roles
    Team <- Teams
    c1 = c1
    c2 = c2
    Company = {c1, c2}
    Unlisted = Unlisted
    None = None
    Bodies <- SomeBodies
    Offers <- SomeOffers
    MaxInFlight = 3
SYMMETRY Symmetry
INVARIANTS
    TypeOK
    CompanyOnce
    EditedStaysPaired
    LostHasReasonSerially
    OwnerNamesAssignee
PROPERTY
    ReassignmentAllowed
