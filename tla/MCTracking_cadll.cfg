\* The secondary DLL runs only after a promotion of the same session.
CONSTANTS
    CN0Samples = 2
    MaxLockFail = 1
    PromoteAt = 2
    MaxNaN = 0
    MaxSessions = 2
SPECIFICATION Spec
INVARIANT SecondarySeeded
