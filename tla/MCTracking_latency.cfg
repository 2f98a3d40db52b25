\* Lock-loss latency against the bound the spec states.
CONSTANTS
    CN0Samples = 2
    MaxLockFail = 1
    PromoteAt = 2
    MaxNaN = 0
    MaxSessions = 2
SPECIFICATION Spec
INVARIANT LockLossWithinSpecBound
