SPECIFICATION Spec
CONSTANTS
    ClockMod = 2
    Timeout = 1
    FrameSet <- OneOffFrames
    GyroStates = {"READY"}
    GroundModes = {"CALIBRATE_FAIL", "FAILSAFE", "ARMED"}
    MaxGround = 1
    MaxQuiet = 2
INVARIANTS
    TypeOK
    UntornUpdateArmsByFrame
    ArmsWithPidCleared
    SilenceIsReported
    FalseLossOnlyByRacingFrame
    UntornUpdateDrivesByFrame
PROPERTIES
    ImplementsArming
    FailsafeStopsMotors
    ArmsWhenAsked
    DisarmsWhenReleased
