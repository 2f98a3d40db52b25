\* Control message 2 after a loss of lock followed by stop_tracking.
CONSTANTS
    CN0Samples = 2
    MaxLockFail = 1
    PromoteAt = 2
    MaxNaN = 0
    MaxSessions = 2
SPECIFICATION Spec
INVARIANT LockLossReportedOnce
