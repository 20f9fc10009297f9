SPECIFICATION Spec
CONSTANTS
    Samples = 3
    Axes = 2
    MaxEarly = 3
INVARIANTS
    ControlsOnWholeSample
    CallbackRegistered
    EarlyReadsCostOneEach
PROPERTY KeepsControlling
