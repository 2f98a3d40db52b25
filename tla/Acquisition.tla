---------------------------- MODULE Acquisition ----------------------------
(***************************************************************************)
(* The acquisition state machine of pcps_sd_acquisition_cc::general_work:  *)
(* IDLE (0), DWELL (1), POSITIVE (2), NEGATIVE (3), the dwell counter, the *)
(* test statistics kept across dwells, the Acq_* fields of the shared      *)
(* synchronisation record and the channel internal queue the result is     *)
(* pushed to.  The channel side (set_active and the pop of the queue) is   *)
(* the environment.                                                        *)
(*                                                                         *)
(* Two history variables serve the properties only: dwells records, per   *)
(* dwell of the current attempt, its strongest ratio and cell, and        *)
(* higher records the higher_peaks set of the latest dwell.               *)
(***************************************************************************)
EXTENDS AcqSearch, Sequences

VARIABLES
    active,           \* d_active
    state,            \* d_state
    well_count,       \* d_well_count
    test_statistics,  \* d_test_statistics
    acq,              \* d_gnss_synchro->Acq_delay_samples / Acq_doppler_hz
    channel_queue,    \* d_channel_internal_queue
    dwells,           \* history: [ratio, cell] of every dwell of the attempt
    higher            \* history: higher_peaks of the latest dwell

vars == <<active, state, well_count, test_statistics, acq, channel_queue,
          dwells, higher>>

Idle == 0
Dwell == 1
Positive == 2
Negative == 3

AcqSuccess == 1
AcqFail == 2

RatioSet == [num : 0 .. MaxMag, den : Powers \cup {1}]
AcqRecord == [delay : 0 .. SamplesPerCode - 1, doppler : Int]

NoAcq == [delay |-> 0, doppler |-> 0]

-----------------------------------------------------------------------------
(* Constructor followed by init() and set_local_code().                    *)
Init ==
    /\ active = FALSE
    /\ state = Idle
    /\ well_count = 0
    /\ test_statistics = Ratio(0, 1)
    /\ acq = NoAcq
    /\ channel_queue = <<>>
    /\ dwells = <<>>
    /\ higher = {}

(* The channel arms acquisition (set_active(true)) once it has consumed    *)
(* the previous result.                                                    *)
SetActive ==
    /\ ~active
    /\ channel_queue = <<>>
    /\ active' = TRUE
    /\ UNCHANGED <<state, well_count, test_statistics, acq, channel_queue,
                   dwells, higher>>

(* The channel controller pops the result.                                 *)
ChannelPop ==
    /\ channel_queue # <<>>
    /\ channel_queue' = Tail(channel_queue)
    /\ UNCHANGED <<active, state, well_count, test_statistics, acq,
                   dwells, higher>>

(* case 0 with d_active: restart the acquisition variables.  With d_active *)
(* false the case only counts and consumes samples, a stutter here.        *)
GeneralWorkIdle ==
    /\ state = Idle
    /\ active
    /\ state' = Dwell
    /\ well_count' = 0
    /\ test_statistics' = Ratio(0, 1)
    /\ acq' = NoAcq
    /\ dwells' = <<>>
    /\ higher' = {}
    /\ UNCHANGED <<active, channel_queue>>

(* Fault: the dwell limit is tested with > in place of ==.                *)
DwellDecisionOffByOne(wc, found, ts) ==
    IF ~BitTransitionFlag
    THEN IF AuxMode /\ ~found THEN Negative
         ELSE IF AboveThreshold(ts) THEN Positive
         ELSE IF wc > MaxDwells THEN Negative
         ELSE Dwell
    ELSE IF wc > MaxDwells
         THEN IF AuxMode /\ ~found THEN Negative
              ELSE IF AboveThreshold(ts) THEN Positive ELSE Negative
         ELSE Dwell

(* Fault: with bit_transition_flag the last dwell is declared positive    *)
(* without the threshold test.                                             *)
DwellDecisionNoThreshold(wc, found, ts) ==
    IF ~BitTransitionFlag
    THEN IF AuxMode /\ ~found THEN Negative
         ELSE IF AboveThreshold(ts) THEN Positive
         ELSE IF wc = MaxDwells THEN Negative
         ELSE Dwell
    ELSE IF wc = MaxDwells
         THEN IF AuxMode /\ ~found THEN Negative ELSE Positive
         ELSE Dwell

(* The decision at the end of case 1.                                      *)
DwellDecision(wc, found, ts) ==
    IF ~BitTransitionFlag
    THEN IF AuxMode /\ ~found THEN Negative
         ELSE IF AboveThreshold(ts) THEN Positive
         ELSE IF wc = MaxDwells THEN Negative
         ELSE Dwell
    ELSE IF wc = MaxDwells
         THEN IF AuxMode /\ ~found THEN Negative
              ELSE IF AboveThreshold(ts) THEN Positive ELSE Negative
         ELSE Dwell

(* case 1: one dwell over a block whose correlation grid is g and whose    *)
(* input power is p.                                                       *)
GeneralWorkDwell ==
    /\ state = Dwell
    /\ \E g \in Grids, p \in Powers :
         LET out == DwellOutcome(g, p, test_statistics, acq)
         IN /\ well_count' = well_count + 1
            /\ test_statistics' = out.ts
            /\ acq' = out.acq
            /\ state' = DwellDecision(well_count + 1, out.found, out.ts)
            /\ dwells' = Append(dwells,
                                [ratio |-> Ratio(DwellMax(g), p),
                                 cell  |-> CellParams(FirstMaxCell(g))])
            /\ higher' = HigherPeaks(g, p)
    /\ UNCHANGED <<active, channel_queue>>

(* Fault: case 2 does not clear d_active.                                 *)
GeneralWorkPositiveKeepActive ==
    /\ state = Positive
    /\ state' = Idle
    /\ channel_queue' = Append(channel_queue, AcqSuccess)
    /\ UNCHANGED <<active, well_count, test_statistics, acq, dwells, higher>>

(* case 2 and case 3: clear d_active, return to IDLE, push the result.     *)
GeneralWorkPositive ==
    /\ state = Positive
    /\ active' = FALSE
    /\ state' = Idle
    /\ channel_queue' = Append(channel_queue, AcqSuccess)
    /\ UNCHANGED <<well_count, test_statistics, acq, dwells, higher>>

(* Fault: case 3 pushes the success code.                                 *)
GeneralWorkNegativeWrongCode ==
    /\ state = Negative
    /\ active' = FALSE
    /\ state' = Idle
    /\ channel_queue' = Append(channel_queue, AcqSuccess)
    /\ UNCHANGED <<well_count, test_statistics, acq, dwells, higher>>

(* Fault: case 3 returns to IDLE without pushing anything.                 *)
GeneralWorkNegativeSilent ==
    /\ state = Negative
    /\ active' = FALSE
    /\ state' = Idle
    /\ UNCHANGED <<well_count, test_statistics, acq, channel_queue, dwells,
                   higher>>

GeneralWorkNegative ==
    /\ state = Negative
    /\ active' = FALSE
    /\ state' = Idle
    /\ channel_queue' = Append(channel_queue, AcqFail)
    /\ UNCHANGED <<well_count, test_statistics, acq, dwells, higher>>

GeneralWork ==
    \/ GeneralWorkIdle
    \/ GeneralWorkDwell
    \/ GeneralWorkPositive
    \/ GeneralWorkNegative

Next ==
    \/ SetActive
    \/ ChannelPop
    \/ GeneralWork

(* The sample source keeps feeding the block, so the scheduler keeps       *)
(* calling general_work; the channel keeps draining its queue.             *)
Spec ==
    /\ Init
    /\ [][Next]_vars
    /\ WF_vars(GeneralWork)
    /\ WF_vars(ChannelPop)

-----------------------------------------------------------------------------
TypeOK ==
    /\ active \in BOOLEAN
    /\ state \in {Idle, Dwell, Positive, Negative}
    /\ well_count \in 0 .. MaxDwells
    /\ test_statistics \in RatioSet
    /\ acq \in AcqRecord
    /\ channel_queue \in Seq({AcqSuccess, AcqFail})
    /\ dwells \in Seq([ratio : RatioSet, cell : AcqRecord])
    /\ higher \in SUBSET ((0 .. SamplesPerCode - 1) \X Int)

(* The dwell whose peak the attempt should report: with                   *)
(* bit_transition_flag the strongest dwell of the attempt (the earliest    *)
(* on a tie), otherwise the latest dwell.                                  *)
StrongestDwell ==
    dwells[Least({i \in 1 .. Len(dwells) :
                    \A j \in 1 .. Len(dwells) :
                        ~RatioLess(dwells[i].ratio, dwells[j].ratio)})]
ReferenceDwell ==
    IF BitTransitionFlag THEN StrongestDwell ELSE dwells[Len(dwells)]

(* A positive acquisition reports the code phase and Doppler of the peak   *)
(* of the reference dwell, with its statistic: d_test_statistics is never *)
(* reset between the dwells of a two-dwell attempt, and the Acq_* fields   *)
(* change only together with it (general_work case 1).                     *)
ReportedPeakIsStrongest ==
    (~AuxMode /\ (state = Positive \/
                    \E i \in 1 .. Len(channel_queue) :
                        channel_queue[i] = AcqSuccess))
        => /\ acq = ReferenceDwell.cell
           /\ test_statistics = ReferenceDwell.ratio

(* The result pushed to the channel queue agrees with the attempt: a       *)
(* success only with a statistic above d_threshold; without auxiliary     *)
(* peaks a failure only after d_max_dwells dwells and with a statistic     *)
(* below it; and the engine is idle and disarmed once a result is posted. *)
DecisionSound ==
    channel_queue # <<>> =>
        /\ ~active /\ state = Idle
        /\ Head(channel_queue) = AcqSuccess => AboveThreshold(test_statistics)
        /\ (Head(channel_queue) = AcqFail /\ ~AuxMode) =>
               /\ well_count = MaxDwells
               /\ ~AboveThreshold(test_statistics)

(* Every arming of acquisition is eventually answered on the queue.        *)
ActivationAnswered == active ~> (channel_queue # <<>>)

(* The abstract acquisition service, seen through the engine's state: the *)
(* dwell counter and the statistic belong to an attempt only outside IDLE *)
(* (case 0 resets them when the engine leaves IDLE), and the result is the *)
(* one on the channel queue.                                               *)
Service == INSTANCE AcqService WITH
    Stats      <- RatioSet,
    Strong     <- {r \in RatioSet : AboveThreshold(r)},
    MaxTries   <- MaxDwells,
    FailEarly  <- AuxMode,
    DecideLast <- BitTransitionFlag,
    Zero       <- Ratio(0, 1),
    Success    <- AcqSuccess,
    Fail       <- AcqFail,
    armed      <- active,
    tries      <- IF state = Idle THEN 0 ELSE well_count,
    stat       <- IF state = Idle THEN Ratio(0, 1) ELSE test_statistics,
    answer     <- channel_queue

(* general_work together with the channel implements the service: every  *)
(* dwell is a search, the push of case 2 or 3 is the one answer of the    *)
(* attempt, justified by the counter and statistic it leaves, and an      *)
(* armed engine eventually answers.                                        *)
ServiceRefined == Service!Spec

(* As the spec states the auxiliary-peak rule: the peak reported in        *)
(* auxiliary mode is more than 2 * samples_per_code away in code phase, or *)
(* differs in Doppler, from every higher peak.                             *)
AuxPeakDisjoint ==
    (AuxMode /\ state = Positive) =>
        \A h \in higher :
            \/ AbsDiff(h[1], acq.delay) > 2 * SamplesPerCode
            \/ h[2] # acq.doppler

=============================================================================
