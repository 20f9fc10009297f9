SPECIFICATION Spec
CONSTANTS
    Motors = 2
    Nib = 1
    MinOutput = 2
    Min = 2
    Idle = 1
    Max = 3
    Outputs <- OneOutput
    Behind <- OneBehind
INVARIANTS
    FrameCarriesCommand
    NoSpecialCommand
PROPERTY KeepsLastCommand
