SPECIFICATION Spec
CONSTANTS
    None = None
    Currency = {"USD", "INR", "KWD", "BHD"}
    Today <- MCToday
    Required <- MCRequired
    Bodies <- MCBodies
INVARIANTS
    TypeOK
    PricesAgree
    FiguresAddUp
    DatesOrdered
    DriftBounded
PROPERTY
    ResendKeepsPage
