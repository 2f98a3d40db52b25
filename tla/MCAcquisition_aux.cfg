\* Auxiliary-peak mode (d_peak = 2): two Doppler bins (-1, +1) of two
\* samples, magnitudes up to 4 so that three distinct peaks clear the
\* threshold.
CONSTANTS
    DopplerMax = 1
    DopplerStep = 2
    FftSize = 2
    SamplesPerCode = 2
    MaxMag = 4
    Powers = {1}
    Threshold = 1
    Peak = 2
    BitTransitionFlag = FALSE
    MaxDwells = 2
SPECIFICATION Spec
INVARIANT DecisionSound
PROPERTY ActivationAnswered
PROPERTY ServiceRefined
