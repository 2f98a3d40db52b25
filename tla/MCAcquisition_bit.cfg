\* Single-dwell mode (bit_transition_flag false), no auxiliary peaks,
\* two dwells per attempt.
CONSTANTS
    DopplerMax = 1
    DopplerStep = 1
    FftSize = 2
    SamplesPerCode = 2
    MaxMag = 2
    Powers = {1, 2}
    Threshold = 1
    Peak = 1
    BitTransitionFlag = TRUE
    MaxDwells = 2
SPECIFICATION Spec
INVARIANT TypeOK
INVARIANT ReportedPeakIsStrongest
INVARIANT DecisionSound
PROPERTY ActivationAnswered
PROPERTY ServiceRefined
