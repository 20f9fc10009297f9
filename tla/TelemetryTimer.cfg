SPECIFICATION Spec
CONSTANTS
    Cap = 3
    Items = 1
    PrintVars <- OnlyState
    SendVars <- NoVars
    Actors = {"main", "timer"}
    MaxChanges = 0
INVARIANTS
    HarmOnlyByPreempting
PROPERTIES
    KeepsSending
