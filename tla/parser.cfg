SPECIFICATION Spec
CONSTANTS
    None = None
    Field <- Fields
    Value <- Values
    Documents <- SomeDocuments
INVARIANTS
    TypeOK
    ReadAsWritten
    SameInEveryLayout
    LeadsInOrder
    BoundariesHold
