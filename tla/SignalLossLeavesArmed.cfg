SPECIFICATION FlyingSpec
CONSTANTS
    ClockMod = 4
    Timeout = 2
    FrameSet <- ArmedFrames
    GyroStates = {"READY"}
    GroundModes = {}
    MaxGround = 0
    MaxQuiet = 4
INVARIANT SignalLossLeavesArmed
