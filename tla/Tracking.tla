------------------------------ MODULE Tracking ------------------------------
(***************************************************************************)
(* The control of the CADLL tracking block                                 *)
(* Gps_L1_Ca_Dll_Pll_CADLL_Tracking_cc: start_tracking, stop_tracking and  *)
(* the three paths of general_work (pull-in, one PRN period, disabled),    *)
(* with the NaN early return.  The loop filters, NCOs and correlators are  *)
(* abstracted: what is kept is the control state they drive, i.e. the      *)
(* enable and pull-in flags, the CADLL_init flag and the state of the      *)
(* secondary DLL, the CN0 estimation counter and prompt buffer, the lock   *)
(* fail counter and the control messages posted to the channel queue.     *)
(*                                                                         *)
(* A prompt correlator output is Good (the signal is tracked) or Bad       *)
(* (noise).  The CN0 / lock-detector evaluation of a buffer fails when     *)
(* every prompt in it is Bad, passes when every prompt is Good, and may do *)
(* either on a mixed buffer.                                               *)
(*                                                                         *)
(* Time is the stream sample counter d_sample_counter in PRN periods; it   *)
(* saturates one step past PromoteAt, the period at which                  *)
(* Tracking_timestamp_secs exceeds 1 s, since that comparison is the only  *)
(* use the block makes of its value.                                       *)
(***************************************************************************)
EXTENDS Naturals

CONSTANTS
    CN0Samples,     \* CN0_ESTIMATION_SAMPLES
    MaxLockFail,    \* MAXIMUM_LOCK_FAIL_COUNTER
    PromoteAt,      \* PRN periods of stream time before Tracking_timestamp_secs > 1
    MaxNaN,         \* NaN blocks the sample source delivers
    MaxSessions     \* start_tracking calls

ASSUME TrackingAssumption ==
    /\ CN0Samples \in Nat \ {0}
    /\ MaxLockFail \in Nat \ {0}
    /\ PromoteAt \in Nat
    /\ MaxNaN \in Nat
    /\ MaxSessions \in Nat \ {0}

VARIABLES
    enable,         \* d_enable_tracking
    pull_in,        \* d_pull_in
    cadll_init,     \* CADLL_init
    cn0_count,      \* d_cn0_estimation_counter
    buffer,         \* d_Prompt_buffer
    fail_count,     \* d_carrier_lock_fail_counter
    clock,          \* d_sample_counter, in PRN periods, saturating
    posted,         \* control messages (channel, 2) posted in this session
    lock_lost,      \* history: loss of lock was declared in this session
    seeded,         \* history: the secondary DLL was seeded in this session
    good_session,   \* history: every prompt of this session was Good
    noisy,          \* environment: the signal has been replaced by noise
    noise_prns,     \* history: PRN periods tracked since the noise began
    nan_left,       \* environment: NaN blocks still to come
    sessions        \* environment: start_tracking calls made

vars == <<enable, pull_in, cadll_init, cn0_count, buffer, fail_count, clock,
          posted, lock_lost, seeded, good_session, noisy, noise_prns, nan_left,
          sessions>>

Good == "good"
Bad == "bad"
Prompts == {Good, Bad}

(* The latency, in PRN periods, beyond which noise_prns saturates.         *)
LatencyCap == (MaxLockFail + 2) * (CN0Samples + 1)

(* The stop_tracking calls of the channel that the model follows in one    *)
(* session.                                                                *)
MaxPosted == 2

Tick(t) == IF t > PromoteAt THEN t ELSE t + 1

-----------------------------------------------------------------------------
(* The constructor: tracking disabled, counters at zero.  CADLL_init is   *)
(* not assigned by the constructor, so it holds whatever the allocation    *)
(* left there.  The prompt buffer is zero-filled; it is overwritten        *)
(* before it is first evaluated, so its content is immaterial.             *)
Init ==
    /\ enable = FALSE
    /\ pull_in = FALSE
    /\ cadll_init \in BOOLEAN
    /\ cn0_count = 0
    /\ buffer = [i \in 0 .. CN0Samples - 1 |-> Bad]
    /\ fail_count = 0
    /\ clock = 0
    /\ posted = 0
    /\ lock_lost = FALSE
    /\ seeded = FALSE
    /\ good_session = TRUE
    /\ noisy = FALSE
    /\ noise_prns = 0
    /\ nan_left = MaxNaN
    /\ sessions = 0

(* Fault: start_tracking does not reset the lock fail counter.            *)
StartTrackingKeepFails ==
    /\ ~enable
    /\ sessions < MaxSessions
    /\ pull_in' = TRUE
    /\ enable' = TRUE
    /\ sessions' = sessions + 1
    /\ posted' = 0
    /\ lock_lost' = FALSE
    /\ seeded' = FALSE
    /\ good_session' = TRUE
    /\ noise_prns' = 0
    /\ UNCHANGED <<cadll_init, cn0_count, buffer, fail_count, clock, noisy,
                   nan_left>>

(* start_tracking, called by the channel once acquisition succeeded.  It   *)
(* resets the loop filters, the lock fail counter and both code NCOs, and  *)
(* sets d_pull_in and d_enable_tracking; it leaves CADLL_init, the CN0    *)
(* counter and the prompt buffer as the previous session left them.       *)
StartTracking ==
    /\ ~enable
    /\ sessions < MaxSessions
    /\ fail_count' = 0
    /\ pull_in' = TRUE
    /\ enable' = TRUE
    /\ sessions' = sessions + 1
    /\ posted' = 0
    /\ lock_lost' = FALSE
    /\ seeded' = FALSE
    /\ good_session' = TRUE
    /\ noise_prns' = 0
    /\ UNCHANGED <<cadll_init, cn0_count, buffer, clock, noisy, nan_left>>

(* stop_tracking: post (channel, 2), then clear d_enable_tracking; it      *)
(* does not look at d_enable_tracking first.                               *)
StopTracking ==
    /\ posted < MaxPosted
    /\ posted' = posted + 1
    /\ enable' = FALSE
    /\ UNCHANGED <<pull_in, cadll_init, cn0_count, buffer, fail_count, clock,
                   lock_lost, seeded, good_session, noisy, noise_prns, nan_left,
                   sessions>>

(* The signal is lost for good (the satellite sets, the antenna is cut).   *)
NoiseStarts ==
    /\ ~noisy
    /\ noisy' = TRUE
    /\ UNCHANGED <<enable, pull_in, cadll_init, cn0_count, buffer, fail_count,
                   clock, posted, lock_lost, seeded, good_session, noise_prns, nan_left,
                   sessions>>

-----------------------------------------------------------------------------
(* general_work, first call of a session: consume samples_offset samples   *)
(* so that the next block starts at a PRN boundary.                        *)
GeneralWorkPullIn ==
    /\ enable
    /\ pull_in
    /\ pull_in' = FALSE
    /\ clock' = Tick(clock)
    /\ UNCHANGED <<enable, cadll_init, cn0_count, buffer, fail_count, posted,
                   lock_lost, seeded, good_session, noisy, noise_prns, nan_left,
                   sessions>>

(* A NaN prompt: consume every available sample and output an invalid     *)
(* record, before the loops, the CN0 estimator and the lock detector.      *)
GeneralWorkNaN ==
    /\ enable
    /\ ~pull_in
    /\ nan_left > 0
    /\ nan_left' = nan_left - 1
    /\ clock' = Tick(clock)
    /\ UNCHANGED <<enable, pull_in, cadll_init, cn0_count, buffer, fail_count,
                   posted, lock_lost, seeded, good_session, noisy, noise_prns,
                   sessions>>

(* Fault: the lock test comparisons are inverted.                         *)
LockTestFailsInverted(b) ==
    IF \A i \in DOMAIN b : b[i] = Bad THEN {FALSE}
    ELSE IF \A i \in DOMAIN b : b[i] = Good THEN {TRUE}
    ELSE BOOLEAN

(* The outcomes the CN0 estimator and the carrier lock detector can give   *)
(* on a buffer: TRUE for a failed test.                                    *)
LockTestFails(b) ==
    IF \A i \in DOMAIN b : b[i] = Bad THEN {TRUE}
    ELSE IF \A i \in DOMAIN b : b[i] = Good THEN {FALSE}
    ELSE BOOLEAN

(* Fault: the decrement is not guarded by d_carrier_lock_fail_counter > 0. *)
CountedFailsNoFloor(fc, fails) ==
    IF fails THEN fc + 1 ELSE fc - 1

(* The lock fail counter after an evaluation that failed or passed.        *)
CountedFails(fc, fails) ==
    IF fails THEN fc + 1 ELSE IF fc > 0 THEN fc - 1 ELSE fc

(* One PRN period with prompt q: the loops run, the prompt is buffered or  *)
(* the buffer is evaluated, loss of lock is declared when the fail counter *)
(* exceeds MAXIMUM_LOCK_FAIL_COUNTER, and CADLL is promoted once the       *)
(* timestamp passes 1 s.                                                   *)
GeneralWorkTrack ==
    /\ enable
    /\ ~pull_in
    /\ \E q \in (IF noisy THEN {Bad} ELSE Prompts) :
       \E fails \in LockTestFails(buffer) :
         LET evaluate == cn0_count = CN0Samples
             fc1      == CountedFails(fail_count, fails)
             lost     == evaluate /\ fc1 > MaxLockFail
             promote  == cadll_init /\ clock > PromoteAt
         IN /\ cn0_count' = IF evaluate THEN 0 ELSE cn0_count + 1
            /\ buffer' = IF evaluate THEN buffer
                         ELSE [buffer EXCEPT ![cn0_count] = q]
            /\ fail_count' = IF ~evaluate THEN fail_count
                             ELSE IF lost THEN 0 ELSE fc1
            /\ posted' = IF lost THEN posted + 1 ELSE posted
            /\ lock_lost' = (lock_lost \/ lost)
            /\ enable' = ~lost
            /\ cadll_init' = IF promote THEN FALSE ELSE cadll_init
            /\ seeded' = (seeded \/ promote)
            /\ good_session' = (good_session /\ q = Good)
            /\ noise_prns' = IF noisy /\ noise_prns < LatencyCap
                             THEN noise_prns + 1 ELSE noise_prns
    /\ clock' = Tick(clock)
    /\ UNCHANGED <<pull_in, noisy, nan_left, sessions>>

(* Tracking disabled: output the acquisition record and consume one PRN.   *)
GeneralWorkDisabled ==
    /\ ~enable
    /\ clock' = Tick(clock)
    /\ UNCHANGED <<enable, pull_in, cadll_init, cn0_count, buffer, fail_count,
                   posted, lock_lost, seeded, good_session, noisy, noise_prns, nan_left,
                   sessions>>

GeneralWork ==
    \/ GeneralWorkPullIn
    \/ GeneralWorkNaN
    \/ GeneralWorkTrack
    \/ GeneralWorkDisabled

Next ==
    \/ StartTracking
    \/ StopTracking
    \/ NoiseStarts
    \/ GeneralWork

(* The sample source keeps feeding the block, so general_work keeps being  *)
(* called.                                                                 *)
Spec == Init /\ [][Next]_vars /\ WF_vars(GeneralWork)

-----------------------------------------------------------------------------
TypeOK ==
    /\ enable \in BOOLEAN
    /\ pull_in \in BOOLEAN
    /\ cadll_init \in BOOLEAN
    /\ cn0_count \in 0 .. CN0Samples
    /\ buffer \in [0 .. CN0Samples - 1 -> Prompts]
    /\ fail_count \in 0 .. MaxLockFail
    /\ clock \in 0 .. PromoteAt + 1
    /\ posted \in 0 .. MaxPosted
    /\ lock_lost \in BOOLEAN
    /\ seeded \in BOOLEAN
    /\ good_session \in BOOLEAN
    /\ noisy \in BOOLEAN
    /\ noise_prns \in 0 .. LatencyCap
    /\ nan_left \in 0 .. MaxNaN
    /\ sessions \in 0 .. MaxSessions

(* No false loss of lock: a session whose prompts were all Good never     *)
(* declares loss of lock, even though the CN0 counter and the prompt      *)
(* buffer carry prompts of the previous session into its first            *)
(* evaluation (start_tracking resets only the lock fail counter).          *)
NoFalseLossOfLock == lock_lost => ~good_session

(* Once the signal is gone for good, a tracking session ends: the lock     *)
(* detector eventually trips and general_work clears d_enable_tracking.    *)
LockLossEventuallyDeclared == (noisy /\ enable) ~> ~enable

(* As the spec states lock-loss latency: with noise injected after lock,  *)
(* the fail counter exceeds MAXIMUM_LOCK_FAIL_COUNTER within               *)
(* MAXIMUM_LOCK_FAIL_COUNTER * CN0_ESTIMATION_SAMPLES PRN periods.         *)
LockLossWithinSpecBound ==
    noise_prns > MaxLockFail * CN0Samples => ~enable

(* As the spec states it: after a loss of lock, control message 2 is      *)
(* emitted exactly once in the session.                                    *)
LockLossReportedOnce == lock_lost => posted = 1

(* As the spec states start-up: the secondary DLL runs on its own only    *)
(* after CADLL_init was set by start_tracking and then cleared by the      *)
(* one-shot promotion of this session, which seeds it from the primary.    *)
SecondarySeeded == (enable /\ ~cadll_init) => seeded

=============================================================================
