SPECIFICATION Spec
CONSTANTS
    Cap = 3
    Items = 2
    PrintVars <- OnlyState
    SendVars <- OnlyState
    Actors = {"main", "ctl"}
    MaxChanges = 2
INVARIANTS
    TypeOK
    StaysInBuffer
PROPERTIES
    GroundShowsState
    DescribesAll
