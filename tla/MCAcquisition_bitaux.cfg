\* Two-dwell mode (bit_transition_flag) with auxiliary peaks (d_peak = 2):
\* the auxiliary peak of dwell 1 overwrites the kept statistics.
CONSTANTS
    DopplerMax = 1
    DopplerStep = 2
    FftSize = 2
    SamplesPerCode = 2
    MaxMag = 4
    Powers = {1}
    Threshold = 1
    Peak = 2
    BitTransitionFlag = TRUE
    MaxDwells = 2
SPECIFICATION Spec
INVARIANT TypeOK
INVARIANT DecisionSound
PROPERTY ActivationAnswered
PROPERTY ServiceRefined
