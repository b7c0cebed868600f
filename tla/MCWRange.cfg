CONSTANTS
    Size = 6
SPECIFICATION Spec
INVARIANTS
    TypeOK
    SortedApart
    ContainExact
    LengthExact
