\* Loops against closed form, d_peak = 2, for both values of
\* bit_transition_flag (the variable bit; the constant below is only the
\* one AcqSearch's own definitions see): three Doppler bins of two
\* samples, magnitudes up to 3.
CONSTANTS
    DopplerMax = 1
    DopplerStep = 1
    FftSize = 2
    SamplesPerCode = 2
    MaxMag = 3
    Powers = {1, 2}
    Threshold = 0
    Peak = 2
    BitTransitionFlag = FALSE
    MaxDwells = 2
SPECIFICATION Spec
INVARIANT ScanMatchesClosedForm
