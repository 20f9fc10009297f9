SPECIFICATION Spec
CONSTANTS
    Samples = 3
    Axes = 2
    MaxEarly = 3
INVARIANT CalibrationSums
