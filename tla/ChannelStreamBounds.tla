------------------------- MODULE ChannelStreamBounds -------------------------
(***************************************************************************)
(* Proofs of the ranges of the channel's counters, for every value of the *)
(* constants allowed by StreamAssumption: the counters, the record and the *)
(* queues keep their types, and tracking's d_sample_counter overruns the   *)
(* samples written by less than one PRN period.                            *)
(*                                                                         *)
(* TypeOK is not inductive by itself: a dwell increments d_well_count,     *)
(* and TypeOK alone allows a dwell to start at d_max_dwells.  SInv adds    *)
(* that a searching acquisition has a dwell left (d_state = 1 only while   *)
(* d_well_count < d_max_dwells).  The overrun needs the forecast of        *)
(* 2 * d_vector_length: with it a call consumes a length of at most        *)
(* 2 * d_vector_length - 1 and stays within the input, and the pull-in,    *)
(* which consumes up to 3 * d_vector_length - 2, overruns by at most        *)
(* d_vector_length - 2.                                                    *)
(***************************************************************************)
EXTENDS ChannelStreamProofs

(***************************************************************************)
(* Arithmetic of the counters.                                             *)
(***************************************************************************)

(* C fmod by a positive integer stays strictly within one period of zero. *)
LEMMA FModRange ==
    ASSUME NEW m \in Nat \ {0}, NEW x \in Int
    PROVE  FMod(x, m) \in -(m - 1) .. m - 1
<1>1. CASE x >= 0
    <2>1. TruncDiv(x, m) = x \div m
        BY <1>1 DEF TruncDiv
    <2>2. x = (x \div m) * m + (x % m) /\ x \div m \in Int
        BY DivMod
    <2>3. FMod(x, m) = x % m
        BY <2>1, <2>2 DEF FMod
    <2>4. x % m \in 0 .. m - 1
        BY SMT
    <2>5. QED
        BY <2>3, <2>4
<1>2. CASE x < 0
    <2>1. TruncDiv(x, m) = -((-x) \div m)
        BY <1>2 DEF TruncDiv
    <2>2. -x = ((-x) \div m) * m + ((-x) % m) /\ (-x) \div m \in Int
        BY DivMod
    <2>3. FMod(x, m) = -((-x) % m)
        BY <2>1, <2>2 DEF FMod
    <2>4. (-x) % m \in 0 .. m - 1
        BY SMT
    <2>5. QED
        BY <2>3, <2>4
<1>3. QED
    BY <1>1, <1>2

(* The samples_offset of the pull-in is positive and below three periods. *)
LEMMA OffsetRange ==
    ASSUME trk_counter \in Int, trk_stamp \in Int,
           trk_phase \in 0 .. PrnLength - 1
    PROVE  PullInOffset \in 1 .. 3 * PrnLength - 2
<1>1. PrnLength \in Nat \ {0}
    BY StreamAssumption
<1>2. trk_counter - trk_stamp \in Int
    OBVIOUS
<1>3. FMod(trk_counter - trk_stamp, PrnLength) \in -(PrnLength - 1) .. PrnLength - 1
    BY <1>1, <1>2, FModRange
<1>4. PullInOffset = trk_phase + (PrnLength - FMod(trk_counter - trk_stamp, PrnLength))
    BY Zenon DEF PullInOffset
<1>5. QED
    BY <1>1, <1>3, <1>4

(* Consuming n whole vectors of the ones the input holds stays within it. *)
LEMMA VectorBound ==
    ASSUME NEW w \in Int, NEW a \in Int, a <= w, NEW f \in Nat \ {0},
           NEW n \in 1 .. (w - a) \div f
    PROVE  a + f * n \in a + 1 .. w
<1> DEFINE q == (w - a) \div f
<1>1. w - a = q * f + ((w - a) % f) /\ q \in Int
    BY DivMod
<1>2. (w - a) % f >= 0
    BY SMT
<1>3. f * n <= f * q /\ f * n >= 1
    BY SMT
<1>4. QED
    BY <1>1, <1>2, <1>3

(* The same, for the vectors general_work of acquisition is given.         *)
LEMMA VectorsAdvance ==
    ASSUME acq_counter \in 0 .. written, written \in Int
    PROVE  \A n \in 1 .. AcqVectors :
              acq_counter + FftSize * n \in acq_counter + 1 .. written
<1>1. FftSize \in Nat \ {0}
    BY StreamAssumption
<1>2. QED
    BY <1>1, VectorBound DEF AcqVectors

(***************************************************************************)
(* The inductive invariant.                                                *)
(***************************************************************************)
SInv ==
    /\ TypeOK
    /\ acq_state = 1 => well_count < MaxDwells
    /\ OverrunBelowPrn

LEMMA InitSInv == Init => SInv
<1> SUFFICES ASSUME Init PROVE SInv
    OBVIOUS
<1> USE StreamAssumption
<1>1. channel_queue \in Seq({AcqSuccess, AcqFail})
      /\ control_queue \in Seq({LossOfLock})
    BY EmptySeq DEF Init
<1>2. record \in [delay : 0 .. PrnLength - 1, stamp : 0 .. written]
    BY DEF Init, NoRecord
<1>3. /\ written \in 0 .. MaxSamples /\ boundary \in 0 .. PrnLength - 1
      /\ acq_counter \in 0 .. written /\ acq_state \in 0 .. 3
      /\ well_count \in 0 .. MaxDwells /\ trk_counter \in Nat
      /\ prn_len \in PrnLength - LengthJitter .. PrnLength + LengthJitter
      /\ trk_phase \in 0 .. PrnLength - 1 /\ trk_stamp \in 0 .. MaxSamples
      /\ acq_state # 1 /\ trk_counter <= written
    BY DEF Init
<1>4. active \in BOOLEAN /\ enable \in BOOLEAN /\ pull_in \in BOOLEAN
    BY Zenon DEF Init
<1>5. QED
    BY <1>1, <1>2, <1>3, <1>4 DEF SInv, TypeOK, OverrunBelowPrn

LEMMA NextSInv == SInv /\ [Next]_vars => SInv'
<1> SUFFICES ASSUME SInv, [Next]_vars PROVE SInv'
    OBVIOUS
<1>a. /\ PrnLength \in Nat \ {0} /\ FftSize \in Nat \ {0}
      /\ MaxDwells \in Nat \ {0} /\ LengthJitter \in 0 .. PrnLength - 1
      /\ MaxSamples \in Nat
    BY StreamAssumption
<1> USE <1>a
<1>0. TypeOK /\ (acq_state = 1 => well_count < MaxDwells) /\ OverrunBelowPrn
    BY DEF SInv
<1>1. CASE Source
    <2>1. /\ written' = written + 1 /\ written < MaxSamples
          /\ UNCHANGED <<boundary, channel_queue, control_queue>>
          /\ UNCHANGED <<acq_counter, acq_state, active, well_count, record>>
          /\ UNCHANGED <<trk_counter, prn_len, enable, pull_in, trk_phase,
                         trk_stamp>>
        BY <1>1 DEF Source, acq, trk
    <2>2. record' \in [delay : 0 .. PrnLength - 1, stamp : 0 .. written']
        BY <1>0, <2>1 DEF TypeOK
    <2>3. QED
        BY <1>0, <2>1, <2>2 DEF SInv, TypeOK, OverrunBelowPrn
<1>2. CASE AcqIdle
    <2>1. PICK n \in 1 .. AcqVectors : acq_counter' = acq_counter + FftSize * n
        BY <1>2 DEF AcqIdle
    <2>2. acq_counter' \in 0 .. written
        <3>1. acq_counter + FftSize * n \in acq_counter + 1 .. written
            BY <1>0, <2>1, VectorsAdvance DEF TypeOK
        <3>2. QED
            BY <1>0, <2>1, <3>1 DEF TypeOK
    <2>3. UNCHANGED <<active, written, boundary, channel_queue, control_queue,
                      trk_counter, prn_len, enable, pull_in, trk_phase, trk_stamp>>
        BY <1>2 DEF AcqIdle, trk
    <2>4. CASE active
        <3>1. record' = NoRecord /\ well_count' = 0 /\ acq_state' = 1
            BY <1>2, <2>4 DEF AcqIdle
        <3>2. record' \in [delay : 0 .. PrnLength - 1, stamp : 0 .. written']
            BY <1>0, <2>2, <2>3, <3>1 DEF NoRecord, TypeOK
        <3>3. QED
            BY <1>0, <2>2, <2>3, <3>1, <3>2 DEF SInv, TypeOK, OverrunBelowPrn
    <2>5. CASE ~active
        <3>1. UNCHANGED <<record, well_count, acq_state>> /\ acq_state = 0
            BY <1>2, <2>5 DEF AcqIdle
        <3>2. QED
            BY <1>0, <2>2, <2>3, <3>1 DEF SInv, TypeOK, OverrunBelowPrn
    <2>6. QED
        BY <2>4, <2>5
<1>3. CASE AcqDwell
    <2>1. acq_state = 1 /\ AcqVectors >= 1
        BY <1>3 DEF AcqDwell
    <2>2. UNCHANGED <<active, written, boundary, channel_queue, control_queue,
                      trk_counter, prn_len, enable, pull_in, trk_phase, trk_stamp>>
        BY <1>3 DEF AcqDwell, trk
    <2>3. /\ acq_counter' = acq_counter + FftSize
          /\ well_count' = well_count + 1
        BY <1>3 DEF AcqDwell
    <2>4. PICK strong \in BOOLEAN, weak_peak \in 0 .. PrnLength - 1 :
              /\ record' = [delay |-> IF strong
                                      THEN (boundary - acq_counter) % PrnLength
                                      ELSE weak_peak,
                            stamp |-> acq_counter']
              /\ acq_state' = IF strong THEN 2
                              ELSE IF well_count' = MaxDwells THEN 3 ELSE 1
        BY <1>3 DEF AcqDwell
    <2>5. acq_counter + FftSize * 1 \in acq_counter + 1 .. written
        <3>1. 1 \in 1 .. AcqVectors
            BY <2>1, <1>0, DivMod DEF AcqVectors, TypeOK
        <3>2. QED
            BY <1>0, <3>1, VectorsAdvance DEF TypeOK
    <2>6. acq_counter' \in 0 .. written
        BY <1>0, <2>3, <2>5 DEF TypeOK
    <2>7. (boundary - acq_counter) % PrnLength \in 0 .. PrnLength - 1
        BY <1>0 DEF TypeOK
    <2>8. record' \in [delay : 0 .. PrnLength - 1, stamp : 0 .. written']
        <3>1. (IF strong THEN (boundary - acq_counter) % PrnLength ELSE weak_peak)
                \in 0 .. PrnLength - 1
            BY <2>7
        <3>2. QED
            BY <2>2, <2>4, <2>6, <3>1
    <2>9. /\ well_count' \in 0 .. MaxDwells /\ acq_state' \in 0 .. 3
          /\ (acq_state' = 1 => well_count' < MaxDwells)
        BY <1>0, <2>1, <2>3, <2>4 DEF TypeOK
    <2>10. QED
        BY <1>0, <2>2, <2>6, <2>8, <2>9 DEF SInv, TypeOK, OverrunBelowPrn
<1>4. CASE AcqDecide
    <2>1. PICK n \in 1 .. AcqVectors : acq_counter' = acq_counter + FftSize * n
        BY <1>4 DEF AcqDecide
    <2>2. acq_counter' \in 0 .. written
        <3>1. acq_counter + FftSize * n \in acq_counter + 1 .. written
            BY <1>0, <2>1, VectorsAdvance DEF TypeOK
        <3>2. QED
            BY <1>0, <2>1, <3>1 DEF TypeOK
    <2>3. /\ active' = FALSE /\ acq_state' = 0
          /\ channel_queue' = Append(channel_queue,
                                     IF acq_state = 2 THEN AcqSuccess ELSE AcqFail)
        BY <1>4 DEF AcqDecide
    <2>4. UNCHANGED <<well_count, record, written, boundary, control_queue,
                      trk_counter, prn_len, enable, pull_in, trk_phase, trk_stamp>>
        BY <1>4 DEF AcqDecide, trk
    <2>5. channel_queue' \in Seq({AcqSuccess, AcqFail})
        <3>1. (IF acq_state = 2 THEN AcqSuccess ELSE AcqFail) \in {AcqSuccess, AcqFail}
            OBVIOUS
        <3>2. QED
            BY <1>0, <2>3, <3>1, AppendProperties DEF TypeOK
    <2>6. record' \in [delay : 0 .. PrnLength - 1, stamp : 0 .. written']
        BY <1>0, <2>4 DEF TypeOK
    <2>7. active' \in BOOLEAN /\ acq_state' \in 0 .. 3 /\ acq_state' # 1
        <3>1. active' \in BOOLEAN
            BY <2>3, Zenon
        <3>2. QED
            BY <2>3, <3>1
    <2>8. /\ well_count' = well_count /\ written' = written
          /\ boundary' = boundary /\ control_queue' = control_queue
          /\ trk_counter' = trk_counter /\ prn_len' = prn_len
          /\ enable' = enable /\ pull_in' = pull_in
          /\ trk_phase' = trk_phase /\ trk_stamp' = trk_stamp
        BY <2>4, Zenon
    <2>9. TypeOK'
        BY <1>0, <2>2, <2>5, <2>6, <2>7, <2>8 DEF TypeOK
    <2>10. QED
        BY <1>0, <2>7, <2>8, <2>9 DEF SInv, OverrunBelowPrn
<1>5. CASE TrkDisabled
    <2>1. TrkAvailable >= 2 * PrnLength /\ trk_counter' = trk_counter + prn_len
        BY <1>5 DEF TrkDisabled
    <2>2. UNCHANGED <<prn_len, enable, pull_in, trk_phase, trk_stamp, written,
                      boundary, channel_queue, control_queue, acq_counter,
                      acq_state, active, well_count, record>>
        BY <1>5 DEF TrkDisabled, acq
    <2>3. trk_counter' \in Nat /\ trk_counter' <= written
        BY <1>0, <2>1 DEF TypeOK, TrkAvailable
    <2>4. QED
        BY <1>0, <2>2, <2>3 DEF SInv, TypeOK, OverrunBelowPrn
<1>6. CASE TrkPullIn
    <2>1. /\ TrkAvailable >= 2 * PrnLength
          /\ trk_counter' = trk_counter + PullInOffset
          /\ pull_in' = FALSE
        BY <1>6 DEF TrkPullIn
    <2>2. UNCHANGED <<prn_len, enable, trk_phase, trk_stamp, written, boundary,
                      channel_queue, control_queue, acq_counter, acq_state,
                      active, well_count, record>>
        BY <1>6 DEF TrkPullIn, acq
    <2>3. PullInOffset \in 1 .. 3 * PrnLength - 2
        BY <1>0, OffsetRange DEF TypeOK
    <2>4. /\ trk_counter' \in Nat
          /\ trk_counter' <= written' \/ trk_counter' - written' <= PrnLength - 2
        BY <1>0, <2>1, <2>2, <2>3 DEF TypeOK, TrkAvailable
    <2>5. QED
        BY <1>0, <2>1, <2>2, <2>4 DEF SInv, TypeOK, OverrunBelowPrn
<1>7. CASE TrkTrack
    <2>1. /\ TrkAvailable >= 2 * PrnLength
          /\ prn_len' \in PrnLength - LengthJitter .. PrnLength + LengthJitter
          /\ trk_counter' = trk_counter + prn_len'
        BY <1>7 DEF TrkTrack
    <2>2. UNCHANGED <<pull_in, trk_phase, trk_stamp, written, boundary,
                      channel_queue, acq_counter, acq_state, active, well_count,
                      record>>
        BY <1>7 DEF TrkTrack, acq
    <2>3. enable' \in BOOLEAN /\ control_queue' \in Seq({LossOfLock})
        <3>1. CASE UNCHANGED <<enable, control_queue>>
            BY <1>0, <3>1 DEF TypeOK
        <3>2. CASE enable' = FALSE
                   /\ control_queue' = Append(control_queue, LossOfLock)
            BY <1>0, <3>2, AppendProperties DEF TypeOK
        <3>3. QED
            BY <1>7, <3>1, <3>2 DEF TrkTrack
    <2>4. trk_counter' \in Nat /\ trk_counter' <= written
        <3>1. prn_len' \in 1 .. 2 * PrnLength - 1
            BY <2>1
        <3>2. trk_counter \in Nat /\ written \in Int
            BY <1>0 DEF TypeOK
        <3>3. written - trk_counter >= 2 * PrnLength
            BY <2>1 DEF TrkAvailable
        <3>4. PICK len \in 1 .. 2 * PrnLength - 1 : len = prn_len'
            BY <3>1
        <3>5. trk_counter + len \in Nat /\ trk_counter + len <= written
            BY <3>2, <3>3
        <3>6. QED
            BY <2>1, <3>4, <3>5, Zenon
    <2>5. QED
        BY <1>0, <2>1, <2>2, <2>3, <2>4 DEF SInv, TypeOK, OverrunBelowPrn
<1>8. CASE ControllerSuccess
    <2>1. /\ channel_queue # <<>> /\ channel_queue' = Tail(channel_queue)
          /\ trk_phase' = record.delay /\ trk_stamp' = record.stamp
          /\ prn_len' = PrnLength /\ pull_in' = TRUE /\ enable' = TRUE
        BY <1>8 DEF ControllerSuccess
    <2>2. UNCHANGED <<trk_counter, written, boundary, control_queue, acq_counter,
                      acq_state, active, well_count, record>>
        BY <1>8 DEF ControllerSuccess, acq
    <2>3. channel_queue' \in Seq({AcqSuccess, AcqFail})
        BY <1>0, <2>1, HeadTailProperties DEF TypeOK
    <2>4. trk_phase' \in 0 .. PrnLength - 1 /\ trk_stamp' \in 0 .. MaxSamples
        BY <1>0, <2>1 DEF TypeOK
    <2>5. QED
        BY <1>0, <2>1, <2>2, <2>3, <2>4 DEF SInv, TypeOK, OverrunBelowPrn
<1>9. CASE ControllerFail
    <2>1. /\ channel_queue # <<>> /\ channel_queue' = Tail(channel_queue)
          /\ active' = TRUE
        BY <1>9 DEF ControllerFail
    <2>2. UNCHANGED <<acq_counter, acq_state, well_count, record, written,
                      boundary, control_queue, trk_counter, prn_len, enable,
                      pull_in, trk_phase, trk_stamp>>
        BY <1>9 DEF ControllerFail, trk
    <2>3. channel_queue' \in Seq({AcqSuccess, AcqFail})
        BY <1>0, <2>1, HeadTailProperties DEF TypeOK
    <2>4. QED
        BY <1>0, <2>1, <2>2, <2>3 DEF SInv, TypeOK, OverrunBelowPrn
<1>10. CASE ControllerLost
    <2>1. /\ control_queue # <<>> /\ control_queue' = Tail(control_queue)
          /\ active' = TRUE
        BY <1>10 DEF ControllerLost
    <2>2. UNCHANGED <<acq_counter, acq_state, well_count, record, written,
                      boundary, channel_queue, trk_counter, prn_len, enable,
                      pull_in, trk_phase, trk_stamp>>
        BY <1>10 DEF ControllerLost, trk
    <2>3. control_queue' \in Seq({LossOfLock})
        BY <1>0, <2>1, HeadTailProperties DEF TypeOK
    <2>4. QED
        BY <1>0, <2>1, <2>2, <2>3 DEF SInv, TypeOK, OverrunBelowPrn
<1>11. CASE UNCHANGED vars
    <2>1. UNCHANGED <<written, boundary, channel_queue, control_queue,
                      acq_counter, acq_state, active, well_count, record,
                      trk_counter, prn_len, enable, pull_in, trk_phase, trk_stamp>>
        BY <1>11 DEF vars, acq, trk
    <2>2. QED
        BY <1>0, <2>1 DEF SInv, TypeOK, OverrunBelowPrn
<1>12. QED
    BY <1>1, <1>2, <1>3, <1>4, <1>5, <1>6, <1>7, <1>8, <1>9, <1>10, <1>11
       DEF Next

LEMMA SpecSInv == Spec => []SInv
BY InitSInv, NextSInv, PTL DEF Spec

(* For every value of the constants, the counters, the acquisition record *)
(* and the two queues of the channel keep their ranges: in particular      *)
(* d_well_count never passes d_max_dwells and the stamp acquisition writes *)
(* never passes the samples the source has produced.                       *)
THEOREM StreamTypeCorrect == Spec => []TypeOK
BY SpecSInv, PTL DEF SInv

(* For every value of the constants, tracking's d_sample_counter overruns *)
(* the samples written by at most d_vector_length - 2, and only through    *)
(* the pull-in's consume_each (chan_pullin_input).                         *)
THEOREM OverrunBounded == Spec => []OverrunBelowPrn
BY SpecSInv, PTL DEF SInv
====
