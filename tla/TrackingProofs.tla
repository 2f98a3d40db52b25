---------------------------- MODULE TrackingProofs ----------------------------
(***************************************************************************)
(* Proofs about the control of the CADLL tracking block, for every value  *)
(* of the constants allowed by TrackingAssumption.                         *)
(***************************************************************************)
EXTENDS Tracking, TLAPS

(***************************************************************************)
(* The inductive invariant.  NoFalseLossOfLock is not inductive: a good   *)
(* session starts with the CN0 counter and the prompt buffer of the       *)
(* previous session, so its first evaluation may fail and raise the lock  *)
(* fail counter to 1.  What keeps it from going further is that the next  *)
(* evaluation only sees prompts of this session: while the counter is 1,  *)
(* every slot below d_cn0_estimation_counter already holds a Good prompt. *)
(* The lock fail counter can reach MAXIMUM_LOCK_FAIL_COUNTER + 1 only     *)
(* while enabled, and an enabled session has posted nothing yet.          *)
(***************************************************************************)
TInv ==
    /\ TypeOK
    /\ enable => posted = 0
    /\ good_session =>
          /\ ~lock_lost
          /\ fail_count <= 1
          /\ fail_count = 1 => \A i \in 0 .. cn0_count - 1 : buffer[i] = Good

LEMMA InitTInv == Init => TInv
<1> SUFFICES ASSUME Init PROVE TInv
    OBVIOUS
<1>1. TypeOK
    <2>1. buffer \in [0 .. CN0Samples - 1 -> Prompts]
        BY DEF Init, Prompts
    <2>2. /\ 0 \in 0 .. CN0Samples
          /\ 0 \in 0 .. MaxLockFail
          /\ 0 \in 0 .. PromoteAt + 1
          /\ 0 \in 0 .. MaxPosted
          /\ 0 \in 0 .. LatencyCap
          /\ MaxNaN \in 0 .. MaxNaN
          /\ 0 \in 0 .. MaxSessions
        BY TrackingAssumption DEF LatencyCap, MaxPosted
    <2>3. QED
        BY <2>1, <2>2 DEF Init, TypeOK
<1>2. QED
    BY <1>1 DEF Init, TInv

(* A buffer of Good prompts passes the lock test.                          *)
LEMMA GoodBufferPasses ==
    ASSUME NEW b \in [0 .. CN0Samples - 1 -> Prompts],
           \A i \in 0 .. CN0Samples - 1 : b[i] = Good
    PROVE  LockTestFails(b) = {FALSE}
<1>1. 0 \in DOMAIN b
    BY TrackingAssumption
<1>2. ~(\A i \in DOMAIN b : b[i] = Bad)
    BY <1>1 DEF Good, Bad
<1>3. \A i \in DOMAIN b : b[i] = Good
    OBVIOUS
<1>4. QED
    BY <1>2, <1>3 DEF LockTestFails

(* The lock fail counter stays within 0 .. MAXIMUM_LOCK_FAIL_COUNTER.      *)
LEMMA CountedFailsRange ==
    ASSUME NEW fc \in 0 .. MaxLockFail, NEW fails \in BOOLEAN
    PROVE  CountedFails(fc, fails) \in 0 .. MaxLockFail + 1
BY TrackingAssumption DEF CountedFails

LEMMA TickRange ==
    ASSUME NEW t \in 0 .. PromoteAt + 1
    PROVE  Tick(t) \in 0 .. PromoteAt + 1
BY TrackingAssumption DEF Tick

LEMMA NextTInv == TInv /\ [Next]_vars => TInv'
<1> SUFFICES ASSUME TInv, [Next]_vars PROVE TInv'
    OBVIOUS
<1> USE TrackingAssumption
<1>1. CASE StartTracking
    <2>1. TypeOK'
        <3>1. /\ buffer' = buffer /\ cn0_count' = cn0_count /\ clock' = clock
              /\ nan_left' = nan_left
            BY <1>1 DEF StartTracking
        <3>2. /\ fail_count' \in 0 .. MaxLockFail
              /\ posted' \in 0 .. MaxPosted
              /\ noise_prns' \in 0 .. LatencyCap
              /\ sessions' \in 0 .. MaxSessions
            BY <1>1 DEF TInv, TypeOK, StartTracking, MaxPosted, LatencyCap
        <3>3. QED
            BY <1>1, <3>1, <3>2 DEF TInv, TypeOK, StartTracking
    <2>2. QED
        BY <1>1, <2>1 DEF TInv, StartTracking
<1>2. CASE StopTracking
    <2>1. TypeOK'
        <3>1. /\ buffer' = buffer /\ cn0_count' = cn0_count /\ clock' = clock
              /\ nan_left' = nan_left
            BY <1>2 DEF StopTracking
        <3>2. /\ fail_count' \in 0 .. MaxLockFail
              /\ posted' \in 0 .. MaxPosted
              /\ noise_prns' \in 0 .. LatencyCap
              /\ sessions' \in 0 .. MaxSessions
            BY <1>2 DEF TInv, TypeOK, StopTracking, MaxPosted, LatencyCap
        <3>3. QED
            BY <1>2, <3>1, <3>2 DEF TInv, TypeOK, StopTracking
    <2>2. QED
        BY <1>2, <2>1 DEF TInv, StopTracking
<1>3. CASE NoiseStarts
    BY <1>3 DEF TInv, TypeOK, NoiseStarts
<1>4. CASE GeneralWorkPullIn
    BY <1>4, TickRange DEF TInv, TypeOK, GeneralWorkPullIn
<1>5. CASE GeneralWorkNaN
    BY <1>5, TickRange DEF TInv, TypeOK, GeneralWorkNaN
<1>6. CASE GeneralWorkTrack
    <2>1. PICK q \in (IF noisy THEN {Bad} ELSE Prompts),
               fails \in LockTestFails(buffer) :
            LET evaluate == cn0_count = CN0Samples
                fc1      == CountedFails(fail_count, fails)
                lost     == evaluate /\ fc1 > MaxLockFail
                promote  == cadll_init /\ clock > PromoteAt
            IN /\ cn0_count' = IF evaluate THEN 0 ELSE cn0_count + 1
               /\ buffer' = IF evaluate THEN buffer
                            ELSE [buffer EXCEPT ![cn0_count] = q]
               /\ fail_count' = IF ~evaluate THEN fail_count
                                ELSE IF lost THEN 0 ELSE fc1
               /\ posted' = IF lost THEN posted + 1 ELSE posted
               /\ lock_lost' = (lock_lost \/ lost)
               /\ enable' = ~lost
               /\ cadll_init' = IF promote THEN FALSE ELSE cadll_init
               /\ seeded' = (seeded \/ promote)
               /\ good_session' = (good_session /\ q = Good)
               /\ noise_prns' = IF noisy /\ noise_prns < LatencyCap
                                THEN noise_prns + 1 ELSE noise_prns
        BY <1>6 DEF GeneralWorkTrack
    <2> DEFINE evaluate == cn0_count = CN0Samples
               fc1      == CountedFails(fail_count, fails)
               lost     == evaluate /\ fc1 > MaxLockFail
    <2>2. q \in Prompts /\ fails \in BOOLEAN
        BY DEF Prompts, LockTestFails
    <2>3. fc1 \in 0 .. MaxLockFail + 1
        BY <2>2, CountedFailsRange DEF TInv, TypeOK
    <2>4. enable /\ posted = 0
        BY <1>6 DEF TInv, GeneralWorkTrack
    <2>5. TypeOK'
        <3>1. cn0_count' \in 0 .. CN0Samples
            BY <2>1 DEF TInv, TypeOK
        <3>2. buffer' \in [0 .. CN0Samples - 1 -> Prompts]
            BY <2>1, <2>2 DEF TInv, TypeOK
        <3>3. fail_count' \in 0 .. MaxLockFail
            BY <2>1, <2>3 DEF TInv, TypeOK
        <3>4. posted' \in 0 .. MaxPosted
            BY <2>1, <2>4 DEF MaxPosted
        <3>5. noise_prns' \in 0 .. LatencyCap
            BY <2>1 DEF TInv, TypeOK, LatencyCap
        <3>6. clock' \in 0 .. PromoteAt + 1
            BY <1>6, TickRange DEF TInv, TypeOK, GeneralWorkTrack
        <3>7. QED
            BY <2>1, <3>1, <3>2, <3>3, <3>4, <3>5, <3>6, <1>6
            DEF TInv, TypeOK, GeneralWorkTrack
    <2>6. enable' => posted' = 0
        BY <2>1, <2>4
    <2>7. good_session' =>
              /\ ~lock_lost'
              /\ fail_count' <= 1
              /\ fail_count' = 1 =>
                    \A i \in 0 .. cn0_count' - 1 : buffer'[i] = Good
        <3> SUFFICES ASSUME good_session'
                     PROVE  /\ ~lock_lost'
                            /\ fail_count' <= 1
                            /\ fail_count' = 1 =>
                                  \A i \in 0 .. cn0_count' - 1 : buffer'[i] = Good
            OBVIOUS
        <3>1. good_session /\ q = Good
            BY <2>1
        <3>2. /\ ~lock_lost
              /\ fail_count \in 0 .. 1
              /\ fail_count = 1 => \A i \in 0 .. cn0_count - 1 : buffer[i] = Good
            BY <3>1 DEF TInv, TypeOK
        <3>3. evaluate => fc1 \in 0 .. 1
            <4>1. CASE fail_count = 0
                BY <4>1, <2>2 DEF CountedFails
            <4>2. CASE fail_count = 1
                <5> SUFFICES ASSUME evaluate PROVE fc1 \in 0 .. 1
                    OBVIOUS
                <5>1. \A i \in 0 .. CN0Samples - 1 : buffer[i] = Good
                    BY <3>2, <4>2
                <5>2. fails = FALSE
                    BY <5>1, GoodBufferPasses DEF TInv, TypeOK
                <5>3. QED
                    BY <5>2, <4>2 DEF CountedFails
            <4>3. QED
                BY <3>2, <4>1, <4>2
        <3>4. ~lost
            BY <3>3
        <3>5. ~lock_lost'
            BY <2>1, <3>2, <3>4
        <3>6. fail_count' <= 1
            BY <2>1, <3>2, <3>3, <3>4
        <3>7. fail_count' = 1 =>
                  \A i \in 0 .. cn0_count' - 1 : buffer'[i] = Good
            <4>1. CASE evaluate
                BY <2>1, <4>1
            <4>2. CASE ~evaluate
                <5> SUFFICES ASSUME fail_count' = 1,
                                    NEW i \in 0 .. cn0_count' - 1
                             PROVE  buffer'[i] = Good
                    OBVIOUS
                <5>1. fail_count = 1 /\ cn0_count' = cn0_count + 1
                    BY <2>1, <4>2
                <5>2. cn0_count \in 0 .. CN0Samples - 1
                    BY <4>2 DEF TInv, TypeOK
                <5>3. buffer' = [buffer EXCEPT ![cn0_count] = q]
                    BY <2>1, <4>2
                <5>4. CASE i = cn0_count
                    BY <5>2, <5>3, <5>4, <3>1 DEF TInv, TypeOK
                <5>5. CASE i # cn0_count
                    BY <5>1, <5>2, <5>3, <5>5, <3>2 DEF TInv, TypeOK
                <5>6. QED
                    BY <5>4, <5>5
            <4>3. QED
                BY <4>1, <4>2
        <3>8. QED
            BY <3>5, <3>6, <3>7
    <2>8. QED
        BY <2>5, <2>6, <2>7 DEF TInv
<1>7. CASE GeneralWorkDisabled
    BY <1>7, TickRange DEF TInv, TypeOK, GeneralWorkDisabled
<1>8. CASE UNCHANGED vars
    BY <1>8 DEF TInv, TypeOK, vars
<1>9. QED
    BY <1>1, <1>2, <1>3, <1>4, <1>5, <1>6, <1>7, <1>8 DEF Next, GeneralWork

(* Every state of the tracking control is well typed; in particular the   *)
(* lock fail counter never exceeds MAXIMUM_LOCK_FAIL_COUNTER and at most  *)
(* one loss-of-lock message is posted while tracking is enabled.          *)
THEOREM TrackingTypeCorrect == Spec => []TypeOK
<1>1. TInv => TypeOK
    BY DEF TInv
<1>2. QED
    BY <1>1, InitTInv, NextTInv, PTL DEF Spec

(* A session whose prompts are all Good never declares loss of lock, for  *)
(* every CN0_ESTIMATION_SAMPLES and MAXIMUM_LOCK_FAIL_COUNTER >= 1,       *)
(* although start_tracking leaves the CN0 counter and the prompt buffer of *)
(* the previous session in place.                                          *)
THEOREM NoFalseLossOfLockHolds == Spec => []NoFalseLossOfLock
<1>1. TInv => NoFalseLossOfLock
    BY DEF TInv, NoFalseLossOfLock
<1>2. QED
    BY <1>1, InitTInv, NextTInv, PTL DEF Spec

=============================================================================
