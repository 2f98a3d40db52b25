\* PRN period 3 samples, one-period acquisition vectors, two dwells.
CONSTANTS
    PrnLength = 3
    FftSize = 3
    MaxDwells = 2
    BufSize = 9
    LengthJitter = 1
    MaxSamples = 24
SPECIFICATION Spec
CHECK_DEADLOCK FALSE
PROPERTY PullInWithinInput
