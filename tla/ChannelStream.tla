---------------------------- MODULE ChannelStream ----------------------------
(***************************************************************************)
(* One channel as two readers of one sample stream.  The acquisition block *)
(* (pcps_sd_acquisition_cc) and the tracking block                         *)
(* (Gps_L1_Ca_Dll_Pll_CADLL_Tracking_cc) each count the samples they       *)
(* consumed in their own d_sample_counter; acquisition stamps its          *)
(* detection with its counter, and tracking, at pull-in, aligns its own    *)
(* counter from the difference of the two.  The channel controller (spec  *)
(* 4.H, not under src/) starts tracking on ACQ_SUCCESS and re-arms         *)
(* acquisition on a failure or a loss of lock.                             *)
(*                                                                         *)
(* Data is abstracted to positions: the stream carries PRN boundaries at   *)
(* the positions congruent to boundary modulo PrnLength (one satellite,    *)
(* zero Doppler, so the Doppler reprojection of start_tracking leaves the  *)
(* code phase unchanged and every PRN period is PrnLength samples).  The   *)
(* dwell statistics are left to the Acquisition module: a dwell either     *)
(* finds the true peak (strong) or some other cell (weak).                 *)
(***************************************************************************)
EXTENDS Naturals, Integers, Sequences

CONSTANTS
    PrnLength,    \* d_samples_per_code = d_vector_length = PRN period
    FftSize,      \* d_fft_size: samples of one acquisition input vector
    MaxDwells,    \* d_max_dwells
    BufSize,      \* capacity of the source's output buffer, in samples
    LengthJitter, \* how far round(K_blk_samples) strays from the PRN period
    MaxSamples    \* length of the recorded stream (the file source ends)

ASSUME StreamAssumption ==
    /\ PrnLength \in Nat \ {0}
    /\ FftSize \in Nat \ {0}
    /\ FftSize % PrnLength = 0
    /\ MaxDwells \in Nat \ {0}
    /\ BufSize >= 2 * PrnLength + FftSize
    /\ LengthJitter \in 0 .. PrnLength - 1
    /\ MaxSamples \in Nat

VARIABLES
    written,      \* samples the source has produced
    boundary,     \* the stream's PRN boundaries are boundary + k * PrnLength
    acq_counter,  \* acquisition d_sample_counter
    acq_state,    \* acquisition d_state: 0 idle, 1 dwell, 2 positive, 3 negative
    active,       \* acquisition d_active
    well_count,   \* acquisition d_well_count
    record,       \* Acq_delay_samples and Acq_samplestamp_samples
    channel_queue,\* channel_internal_queue, read by the controller
    control_queue,\* d_queue, the control messages of tracking
    trk_counter,  \* tracking d_sample_counter
    prn_len,      \* tracking d_current_prn_length_samples
    enable,       \* tracking d_enable_tracking
    pull_in,      \* tracking d_pull_in
    trk_phase,    \* tracking d_acq_code_phase_samples
    trk_stamp     \* tracking d_acq_sample_stamp

acq  == <<acq_counter, acq_state, active, well_count, record>>
trk  == <<trk_counter, prn_len, enable, pull_in, trk_phase, trk_stamp>>
vars == <<written, boundary, channel_queue, control_queue, acq, trk>>

AcqSuccess == 1
AcqFail == 2
LossOfLock == 2

NoRecord == [delay |-> 0, stamp |-> 0]

(* Whole vectors of FftSize samples the acquisition input holds.           *)
AcqVectors == (written - acq_counter) \div FftSize

(* ninput_items of a tracking call: forecast asks for 2 * d_vector_length. *)
TrkAvailable == written - trk_counter

(* C fmod on integers: the remainder takes the sign of the dividend.      *)
TruncDiv(a, b) == IF a >= 0 THEN a \div b ELSE -((-a) \div b)
FMod(a, b) == a - b * TruncDiv(a, b)

Init ==
    /\ written = 0
    /\ boundary \in 0 .. PrnLength - 1
    /\ acq_counter = 0
    /\ acq_state = 0
    /\ active = TRUE
    /\ well_count = 0
    /\ record = NoRecord
    /\ channel_queue = <<>>
    /\ control_queue = <<>>
    /\ trk_counter = 0
    /\ prn_len = PrnLength
    /\ enable = FALSE
    /\ pull_in = FALSE
    /\ trk_phase = 0
    /\ trk_stamp = 0

(* The source writes a sample when neither reader is BufSize behind.       *)
Source ==
    /\ written < MaxSamples
    /\ written + 1 - acq_counter <= BufSize
    /\ written + 1 - trk_counter <= BufSize
    /\ written' = written + 1
    /\ UNCHANGED <<boundary, channel_queue, control_queue, acq, trk>>

-----------------------------------------------------------------------------
(* Acquisition general_work.  States 0, 2 and 3 consume every vector the   *)
(* call is given, n of them; state 1 consumes one.                          *)

(* Fault: d_well_count is not restarted on a new activation.              *)
AcqIdleNoWellReset ==
    /\ acq_state = 0
    /\ \E n \in 1 .. AcqVectors :
          acq_counter' = acq_counter + FftSize * n
    /\ IF active
       THEN /\ record' = NoRecord
            /\ acq_state' = 1
            /\ UNCHANGED well_count
       ELSE UNCHANGED <<record, well_count, acq_state>>
    /\ UNCHANGED <<active, written, boundary, channel_queue, control_queue, trk>>

AcqIdle ==
    /\ acq_state = 0
    /\ \E n \in 1 .. AcqVectors :
          acq_counter' = acq_counter + FftSize * n
    /\ IF active
       THEN /\ record' = NoRecord
            /\ well_count' = 0
            /\ acq_state' = 1
       ELSE UNCHANGED <<record, well_count, acq_state>>
    /\ UNCHANGED <<active, written, boundary, channel_queue, control_queue, trk>>

(* A dwell: the counter is advanced before the search, so the stamp is the *)
(* end of the searched vector and the delay is the peak's index modulo     *)
(* d_samples_per_code.  A strong dwell's peak is the true PRN boundary.    *)
AcqDwell ==
    /\ acq_state = 1
    /\ AcqVectors >= 1
    /\ acq_counter' = acq_counter + FftSize
    /\ well_count' = well_count + 1
    /\ \E strong \in BOOLEAN, weak_peak \in 0 .. PrnLength - 1 :
          /\ record' = [delay |-> IF strong
                                  THEN (boundary - acq_counter) % PrnLength
                                  ELSE weak_peak,
                        stamp |-> acq_counter']
          /\ acq_state' = IF strong THEN 2
                          ELSE IF well_count' = MaxDwells THEN 3 ELSE 1
    /\ UNCHANGED <<active, written, boundary, channel_queue, control_queue, trk>>

AcqDecide ==
    /\ acq_state \in {2, 3}
    /\ \E n \in 1 .. AcqVectors :
          acq_counter' = acq_counter + FftSize * n
    /\ active' = FALSE
    /\ acq_state' = 0
    /\ channel_queue' = Append(channel_queue,
                               IF acq_state = 2 THEN AcqSuccess ELSE AcqFail)
    /\ UNCHANGED <<well_count, record, written, boundary, control_queue, trk>>

-----------------------------------------------------------------------------
(* Tracking general_work, called with at least 2 * d_vector_length samples.*)

(* Fault: forecast is not honoured; a call may come with fewer samples.   *)
TrkDisabledNoForecast ==
    /\ ~enable
    /\ trk_counter' = trk_counter + prn_len
    /\ UNCHANGED <<prn_len, enable, pull_in, trk_phase, trk_stamp, written, boundary,
                   channel_queue, control_queue, acq>>

(* Disabled: output the acquisition record and consume the last length.   *)
TrkDisabled ==
    /\ ~enable
    /\ TrkAvailable >= 2 * PrnLength
    /\ trk_counter' = trk_counter + prn_len
    /\ UNCHANGED <<prn_len, enable, pull_in, trk_phase, trk_stamp, written, boundary,
                   channel_queue, control_queue, acq>>

(* Fault: the delay is taken the other way round, stamp minus counter.    *)
PullInOffsetSwapped ==
    LET delay == trk_stamp - trk_counter
    IN  trk_phase + (PrnLength - FMod(delay, PrnLength))

(* samples_offset of the pull-in, with the code's int delay and fmod.      *)
PullInOffset ==
    LET delay == trk_counter - trk_stamp
    IN  trk_phase + (PrnLength - FMod(delay, PrnLength))

TrkPullIn ==
    /\ enable /\ pull_in
    /\ TrkAvailable >= 2 * PrnLength
    /\ trk_counter' = trk_counter + PullInOffset
    /\ pull_in' = FALSE
    /\ UNCHANGED <<prn_len, enable, trk_phase, trk_stamp, written, boundary,
                   channel_queue, control_queue, acq>>

(* Fault: loss of lock is posted but d_enable_tracking is left set.       *)
TrkTrackKeepEnabled ==
    /\ enable /\ ~pull_in
    /\ TrkAvailable >= 2 * PrnLength
    /\ prn_len' \in PrnLength - LengthJitter .. PrnLength + LengthJitter
    /\ trk_counter' = trk_counter + prn_len'
    /\ \/ UNCHANGED control_queue
       \/ control_queue' = Append(control_queue, LossOfLock)
    /\ UNCHANGED <<enable, pull_in, trk_phase, trk_stamp, written, boundary,
                   channel_queue, acq>>

(* One PRN of tracking.  The next length is round(K_blk_samples), which   *)
(* the filtered code error moves by up to LengthJitter samples, and it is  *)
(* the new length that is consumed; the lock detector may trip and post    *)
(* LossOfLock.                                                             *)
TrkTrack ==
    /\ enable /\ ~pull_in
    /\ TrkAvailable >= 2 * PrnLength
    /\ prn_len' \in PrnLength - LengthJitter .. PrnLength + LengthJitter
    /\ trk_counter' = trk_counter + prn_len'
    /\ \/ UNCHANGED <<enable, control_queue>>
       \/ /\ enable' = FALSE
          /\ control_queue' = Append(control_queue, LossOfLock)
    /\ UNCHANGED <<pull_in, trk_phase, trk_stamp, written, boundary,
                   channel_queue, acq>>

-----------------------------------------------------------------------------
(* Channel controller (spec 4.H).                                          *)

(* ACQ_SUCCESS: start_tracking copies the record and arms the pull-in.     *)
ControllerSuccess ==
    /\ channel_queue # <<>>
    /\ Head(channel_queue) = AcqSuccess
    /\ channel_queue' = Tail(channel_queue)
    /\ trk_phase' = record.delay
    /\ trk_stamp' = record.stamp
    /\ prn_len' = PrnLength
    /\ pull_in' = TRUE
    /\ enable' = TRUE
    /\ UNCHANGED <<trk_counter, written, boundary, control_queue, acq>>

(* ACQ_FAIL: search again.                                                 *)
ControllerFail ==
    /\ channel_queue # <<>>
    /\ Head(channel_queue) = AcqFail
    /\ channel_queue' = Tail(channel_queue)
    /\ active' = TRUE
    /\ UNCHANGED <<acq_counter, acq_state, well_count, record, written,
                   boundary, control_queue, trk>>

(* Loss of lock reported by tracking: return to acquisition.               *)
ControllerLost ==
    /\ control_queue # <<>>
    /\ control_queue' = Tail(control_queue)
    /\ active' = TRUE
    /\ UNCHANGED <<acq_counter, acq_state, well_count, record, written,
                   boundary, channel_queue, trk>>

Next ==
    \/ Source
    \/ AcqIdle \/ AcqDwell \/ AcqDecide
    \/ TrkDisabled \/ TrkPullIn \/ TrkTrack
    \/ ControllerSuccess \/ ControllerFail \/ ControllerLost

Spec == Init /\ [][Next]_vars

-----------------------------------------------------------------------------
TypeOK ==
    /\ written \in 0 .. MaxSamples
    /\ boundary \in 0 .. PrnLength - 1
    /\ acq_counter \in 0 .. written
    /\ acq_state \in 0 .. 3
    /\ active \in BOOLEAN
    /\ well_count \in 0 .. MaxDwells
    /\ record \in [delay : 0 .. PrnLength - 1, stamp : 0 .. written]
    /\ channel_queue \in Seq({AcqSuccess, AcqFail})
    /\ control_queue \in Seq({LossOfLock})
    /\ trk_counter \in Nat
    /\ prn_len \in PrnLength - LengthJitter .. PrnLength + LengthJitter
    /\ enable \in BOOLEAN
    /\ pull_in \in BOOLEAN
    /\ trk_phase \in 0 .. PrnLength - 1
    /\ trk_stamp \in 0 .. MaxSamples

(* The channel runs one stage at a time (spec 5, Ordering): of an armed   *)
(* or searching acquisition, a decision waiting in channel_queue, an       *)
(* enabled tracking and a loss of lock waiting in d_queue, exactly one     *)
(* exists in every state, however the blocks and the controller interleave.*)
OneStageAtATime ==
    (IF active THEN 1 ELSE 0) + Len(channel_queue)
      + (IF enable THEN 1 ELSE 0) + Len(control_queue) = 1

(* The pull-in lands on a PRN boundary of the stream: the stamp and delay *)
(* acquisition wrote, copied by start_tracking and combined at pull-in     *)
(* with tracking's own counter, put the first tracked PRN at the start of  *)
(* a code period, whatever tracking's counter became in earlier sessions   *)
(* and even when it lags the acquisition stamp.                            *)
PullInAligned ==
    [][TrkPullIn => (trk_counter' - boundary) % PrnLength = 0]_vars

(* How far the pull-in overruns the stream: tracking's d_sample_counter   *)
(* gets past the samples the source has written by at most                 *)
(* d_vector_length - 2, and only through the pull-in; every other call     *)
(* consumes within the 2 * d_vector_length that forecast asks for, so the  *)
(* overrun of chan_pullin_input stays below one PRN period and is caught   *)
(* up before tracking consumes again.                                      *)
OverrunBelowPrn ==
    trk_counter <= written \/ trk_counter - written <= PrnLength - 2

(* The pull-in consumes no more samples than its call was given: the      *)
(* GNU Radio contract of consume_each, with forecast asking only for       *)
(* 2 * d_vector_length.                                                    *)
PullInWithinInput ==
    [][TrkPullIn => PullInOffset <= TrkAvailable]_vars

=============================================================================
