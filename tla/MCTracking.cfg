\* Three prompts per CN0 evaluation, loss of lock after more than two net
\* failures, promotion after three PRN periods, one NaN block and three
\* sessions, so that a session starts on a buffer and a CN0 counter left
\* by an earlier one.
CONSTANTS
    CN0Samples = 3
    MaxLockFail = 2
    PromoteAt = 3
    MaxNaN = 1
    MaxSessions = 3
SPECIFICATION Spec
INVARIANT TypeOK
INVARIANT NoFalseLossOfLock
PROPERTY LockLossEventuallyDeclared
