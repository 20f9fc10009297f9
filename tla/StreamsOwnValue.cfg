SPECIFICATION Spec
CONSTANTS
    Cap = 3
    Items = 2
    PrintVars <- OnlyState
    SendVars <- Other
    Actors = {"main", "ctl"}
    MaxChanges = 1
INVARIANTS
    StreamsOwnValue
