------------------------- MODULE ChannelStreamProofs -------------------------
(***************************************************************************)
(* Proofs about the channel as two readers of one stream, for every value *)
(* of the constants allowed by StreamAssumption: the channel runs one     *)
(* stage at a time, and the pull-in lands on a PRN boundary.               *)
(***************************************************************************)
EXTENDS ChannelStream, SequenceTheorems, TLAPS

(***************************************************************************)
(* Arithmetic of the code phase.                                           *)
(***************************************************************************)
LEMMA DivMod ==
    ASSUME NEW m \in Nat \ {0}, NEW x \in Int
    PROVE  /\ x = (x \div m) * m + (x % m)
           /\ x \div m \in Int
BY SMT

LEMMA MultipleMod ==
    ASSUME NEW m \in Nat \ {0}, NEW k \in Int
    PROVE  (k * m) % m = 0
BY SMT

(* The delay a strong dwell writes, (boundary - counter) mod              *)
(* d_samples_per_code, with the stamp taken at the end of the vector,      *)
(* points at a PRN boundary when d_fft_size is a whole number of periods.  *)
LEMMA StrongRecordAligned ==
    ASSUME NEW m \in Nat \ {0}, NEW f \in Nat, f % m = 0,
           NEW a \in Int, NEW b \in Int
    PROVE  ((a + f) + ((b - a) % m) - b) % m = 0
<1> DEFINE j == f \div m
           q == (b - a) \div m
<1>1. f = j * m /\ j \in Int
    BY DivMod
<1>2. b - a = q * m + ((b - a) % m) /\ q \in Int
    BY DivMod
<1>3. (a + f) + ((b - a) % m) - b = (j - q) * m
    BY <1>1, <1>2, SMT
<1>4. ((j - q) * m) % m = 0
    BY <1>1, <1>2, MultipleMod
<1>5. QED
    BY <1>3, <1>4, Zenon

LEMMA PullInAlgebra ==
    ASSUME NEW m \in Int, NEW i \in Int, NEW k \in Int, NEW t \in Int,
           NEW s \in Int, NEW p \in Int, NEW b \in Int, NEW f \in Int,
           f = (t - s) - m * k, s + p - b = i * m
    PROVE  t + (p + (m - f)) - b = (i + 1 + k) * m
BY SMT

(* The pull-in: whatever the sign of the delay, adding the code phase and *)
(* d_current_prn_length_samples - fmod(delay, d_current_prn_length_samples)*)
(* to tracking's counter reaches the boundary the stamp and phase name.    *)
LEMMA PullInArith ==
    ASSUME PrnLength \in Nat \ {0}, trk_counter \in Int, trk_stamp \in Int,
           trk_phase \in Int, boundary \in Int,
           (trk_stamp + trk_phase - boundary) % PrnLength = 0
    PROVE  (trk_counter + PullInOffset - boundary) % PrnLength = 0
<1> DEFINE d == trk_counter - trk_stamp
           i == (trk_stamp + trk_phase - boundary) \div PrnLength
           k == TruncDiv(d, PrnLength)
<1>1. trk_stamp + trk_phase - boundary = i * PrnLength /\ i \in Int
    BY DivMod
<1>2. k \in Int
    <2>1. d \div PrnLength \in Int /\ (-d) \div PrnLength \in Int
        BY DivMod
    <2>2. QED
        BY <2>1 DEF TruncDiv
<1>3. FMod(d, PrnLength) = d - PrnLength * k
    BY DEF FMod
<1>4. PullInOffset = trk_phase + (PrnLength - FMod(d, PrnLength))
    BY Zenon DEF PullInOffset
<1>5. trk_counter + PullInOffset - boundary = (i + 1 + k) * PrnLength
    <2>1. FMod(d, PrnLength) \in Int
        BY <1>2, <1>3
    <2>2. trk_counter + (trk_phase + (PrnLength - FMod(d, PrnLength))) - boundary
            = (i + 1 + k) * PrnLength
        BY <1>1, <1>2, <1>3, <2>1, PullInAlgebra
    <2>3. QED
        BY <1>4, <2>2
<1>6. ((i + 1 + k) * PrnLength) % PrnLength = 0
    BY <1>1, <1>2, MultipleMod
<1>7. QED
    BY <1>5, <1>6

LEMMA FModInt ==
    ASSUME NEW m \in Nat \ {0}, NEW x \in Int
    PROVE  FMod(x, m) \in Int
<1>1. x \div m \in Int /\ (-x) \div m \in Int
    BY DivMod
<1>2. TruncDiv(x, m) \in Int
    BY <1>1 DEF TruncDiv
<1>3. QED
    BY <1>2 DEF FMod

(***************************************************************************)
(* Queues of at most one message.                                          *)
(***************************************************************************)
LEMMA LenZero ==
    ASSUME NEW S, NEW q \in Seq(S)
    PROVE  /\ Len(q) \in Nat
           /\ Len(q) = 0 <=> q = <<>>
BY EmptySeq, LenProperties

LEMMA PopOnly ==
    ASSUME NEW S, NEW q \in Seq(S), Len(q) = 1
    PROVE  Tail(q) = <<>> /\ Tail(q) \in Seq(S) /\ q # <<>>
<1>1. q # <<>>
    BY EmptySeq
<1>2. Tail(q) \in Seq(S) /\ Len(Tail(q)) = 0
    BY <1>1, HeadTailProperties
<1>3. QED
    BY <1>1, <1>2, LenZero

LEMMA PushEmpty ==
    ASSUME NEW S, NEW x \in S
    PROVE  Append(<<>>, x) \in Seq(S) /\ Len(Append(<<>>, x)) = 1
          /\ Head(Append(<<>>, x)) = x /\ Append(<<>>, x) # <<>>
<1>1. <<>> \in Seq(S) /\ Len(<<>>) = 0
    BY EmptySeq
<1>2. QED
    BY <1>1, AppendProperties

(***************************************************************************)
(* The inductive invariant.  OneStageAtATime alone is inductive once the   *)
(* types are known and a searching acquisition is known to be armed       *)
(* (d_state # 0 only while d_active).  For the alignment, the record must *)
(* point at a boundary from the strong dwell until start_tracking copies  *)
(* it, and tracking's copy until the pull-in uses it: the record cannot   *)
(* change in between because acquisition is disarmed from its decision    *)
(* until the controller re-arms it, which it does only after the message  *)
(* has been taken and, by OneStageAtATime, only when tracking is stopped. *)
(***************************************************************************)
RecAligned(stamp, delay) == (stamp + delay - boundary) % PrnLength = 0

PType ==
    /\ written \in Int
    /\ boundary \in Int
    /\ acq_counter \in Int
    /\ acq_state \in 0 .. 3
    /\ active \in BOOLEAN
    /\ well_count \in Int
    /\ record \in [delay : Int, stamp : Int]
    /\ channel_queue \in Seq({AcqSuccess, AcqFail})
    /\ control_queue \in Seq({LossOfLock})
    /\ trk_counter \in Int
    /\ prn_len \in Int
    /\ enable \in BOOLEAN
    /\ pull_in \in BOOLEAN
    /\ trk_phase \in Int
    /\ trk_stamp \in Int

CInv ==
    /\ PType
    /\ OneStageAtATime
    /\ acq_state # 0 => active
    /\ acq_state = 2 => RecAligned(record.stamp, record.delay)
    /\ (channel_queue # <<>> /\ Head(channel_queue) = AcqSuccess)
          => RecAligned(record.stamp, record.delay)
    /\ (enable /\ pull_in) => RecAligned(trk_stamp, trk_phase)

LEMMA OneOfFour ==
    ASSUME NEW x \in Nat, NEW y \in Nat, NEW a \in 0 .. 1, NEW e \in 0 .. 1,
           a + x + e + y = 1
    PROVE  /\ x >= 1 => x = 1 /\ a = 0 /\ e = 0 /\ y = 0
           /\ y >= 1 => y = 1 /\ a = 0 /\ e = 0 /\ x = 0
BY SMT

(* What OneStageAtATime says of each stage.                                *)
LEMMA Stages ==
    ASSUME PType, OneStageAtATime
    PROVE  /\ active => /\ channel_queue = <<>> /\ ~enable
                        /\ control_queue = <<>>
           /\ channel_queue # <<>> => /\ Len(channel_queue) = 1 /\ ~active
                                      /\ ~enable /\ control_queue = <<>>
           /\ enable => /\ channel_queue = <<>> /\ ~active
                        /\ control_queue = <<>>
           /\ control_queue # <<>> => /\ Len(control_queue) = 1 /\ ~active
                                      /\ ~enable /\ channel_queue = <<>>
<1>1. /\ Len(channel_queue) \in Nat
      /\ Len(channel_queue) = 0 <=> channel_queue = <<>>
    BY LenZero DEF PType
<1>2. /\ Len(control_queue) \in Nat
      /\ Len(control_queue) = 0 <=> control_queue = <<>>
    BY LenZero DEF PType
<1>3. active \in BOOLEAN /\ enable \in BOOLEAN
    BY DEF PType
<1> DEFINE a == IF active THEN 1 ELSE 0
           e == IF enable THEN 1 ELSE 0
<1>4. a \in 0 .. 1 /\ e \in 0 .. 1 /\ (a = 1 <=> active) /\ (e = 1 <=> enable)
    BY <1>3
<1>5. a + Len(channel_queue) + e + Len(control_queue) = 1
    BY DEF OneStageAtATime
<1>6. active => /\ channel_queue = <<>> /\ ~enable /\ control_queue = <<>>
    BY <1>1, <1>2, <1>4, <1>5
<1>7. channel_queue # <<>> => /\ Len(channel_queue) = 1 /\ ~active
                              /\ ~enable /\ control_queue = <<>>
    <2>1. SUFFICES ASSUME channel_queue # <<>>
                   PROVE  /\ Len(channel_queue) = 1 /\ ~active
                          /\ ~enable /\ control_queue = <<>>
        OBVIOUS
    <2>2. Len(channel_queue) >= 1
        BY <1>1, <2>1
    <2>3. Len(channel_queue) = 1 /\ a = 0 /\ e = 0 /\ Len(control_queue) = 0
        <3>1. /\ Len(channel_queue) \in Nat /\ Len(control_queue) \in Nat
              /\ a \in 0 .. 1 /\ e \in 0 .. 1
            BY <1>1, <1>2, <1>4
        <3>2. QED
            BY <1>5, <2>2, <3>1, OneOfFour, Zenon
    <2>4. QED
        BY <1>2, <1>4, <2>3
<1>8. enable => /\ channel_queue = <<>> /\ ~active /\ control_queue = <<>>
    BY <1>1, <1>2, <1>4, <1>5
<1>9. control_queue # <<>> => /\ Len(control_queue) = 1 /\ ~active
                              /\ ~enable /\ channel_queue = <<>>
    <2>1. SUFFICES ASSUME control_queue # <<>>
                   PROVE  /\ Len(control_queue) = 1 /\ ~active
                          /\ ~enable /\ channel_queue = <<>>
        OBVIOUS
    <2>2. Len(control_queue) >= 1
        BY <1>2, <2>1
    <2>3. Len(control_queue) = 1 /\ a = 0 /\ e = 0 /\ Len(channel_queue) = 0
        <3>1. /\ Len(channel_queue) \in Nat /\ Len(control_queue) \in Nat
              /\ a \in 0 .. 1 /\ e \in 0 .. 1
            BY <1>1, <1>2, <1>4
        <3>2. QED
            BY <1>5, <2>2, <3>1, OneOfFour, Zenon
    <2>4. QED
        BY <1>1, <1>4, <2>3
<1>10. QED
    BY <1>6, <1>7, <1>8, <1>9

LEMMA InitCInv == Init => CInv
<1> SUFFICES ASSUME Init PROVE CInv
    OBVIOUS
<1> USE StreamAssumption
<1>1. PType
    <2>1. channel_queue \in Seq({AcqSuccess, AcqFail})
          /\ control_queue \in Seq({LossOfLock})
        BY EmptySeq DEF Init
    <2>2. record \in [delay : Int, stamp : Int]
        BY DEF Init, NoRecord
    <2>3. boundary \in Int
        BY DEF Init
    <2>4. /\ written \in Int /\ acq_counter \in Int /\ acq_state \in 0 .. 3
          /\ well_count \in Int /\ trk_counter \in Int /\ prn_len \in Int
          /\ trk_phase \in Int /\ trk_stamp \in Int
        BY DEF Init
    <2>5. active \in BOOLEAN /\ enable \in BOOLEAN /\ pull_in \in BOOLEAN
        BY DEF Init
    <2>6. QED
        BY <2>1, <2>2, <2>3, <2>4, <2>5 DEF PType
<1>2. OneStageAtATime
    BY EmptySeq DEF Init, OneStageAtATime
<1>3. QED
    BY <1>1, <1>2 DEF Init, CInv

LEMMA NextCInv == CInv /\ [Next]_vars => CInv'
<1> SUFFICES ASSUME CInv, [Next]_vars PROVE CInv'
    OBVIOUS
<1> USE StreamAssumption
<1>0. /\ PType /\ OneStageAtATime
      /\ acq_state # 0 => active
      /\ acq_state = 2 => RecAligned(record.stamp, record.delay)
      /\ (channel_queue # <<>> /\ Head(channel_queue) = AcqSuccess)
            => RecAligned(record.stamp, record.delay)
      /\ (enable /\ pull_in) => RecAligned(trk_stamp, trk_phase)
    BY DEF CInv
<1>1. /\ active => /\ channel_queue = <<>> /\ ~enable
                   /\ control_queue = <<>>
      /\ channel_queue # <<>> => /\ Len(channel_queue) = 1 /\ ~active
                                 /\ ~enable /\ control_queue = <<>>
      /\ enable => /\ channel_queue = <<>> /\ ~active
                   /\ control_queue = <<>>
      /\ control_queue # <<>> => /\ Len(control_queue) = 1 /\ ~active
                                 /\ ~enable /\ channel_queue = <<>>
    BY <1>0, Stages
<1>2. CASE Source
    <2>1. /\ written' = written + 1
          /\ UNCHANGED <<boundary, channel_queue, control_queue>>
          /\ UNCHANGED <<acq_counter, acq_state, active, well_count, record>>
          /\ UNCHANGED <<trk_counter, prn_len, enable, pull_in, trk_phase,
                         trk_stamp>>
        BY <1>2 DEF Source, acq, trk
    <2>2. PType'
        BY <1>0, <2>1 DEF PType
    <2>3. QED
        BY <1>0, <2>1, <2>2 DEF CInv, OneStageAtATime, RecAligned
<1>3. CASE AcqIdle
    <2>1. PICK n \in 1 .. AcqVectors : acq_counter' = acq_counter + FftSize * n
        BY <1>3 DEF AcqIdle
    <2>2. acq_counter' \in Int
        BY <1>0, <2>1 DEF PType, AcqVectors
    <2>3. UNCHANGED <<active, written, boundary, channel_queue, control_queue,
                      trk_counter, prn_len, enable, pull_in, trk_phase, trk_stamp>>
        BY <1>3 DEF AcqIdle, trk
    <2>4. CASE active
        <3>1. /\ record' = NoRecord /\ well_count' = 0 /\ acq_state' = 1
            BY <1>3, <2>4 DEF AcqIdle
        <3>2. channel_queue = <<>>
            BY <1>1, <2>4
        <3>3. PType'
            BY <1>0, <2>2, <2>3, <3>1 DEF PType, NoRecord
        <3>4. QED
            BY <1>0, <2>3, <2>4, <3>1, <3>2, <3>3
               DEF CInv, OneStageAtATime, RecAligned
    <2>5. CASE ~active
        <3>1. UNCHANGED <<record, well_count, acq_state>>
            BY <1>3, <2>5 DEF AcqIdle
        <3>2. QED
            BY <1>0, <2>2, <2>3, <3>1
               DEF CInv, PType, OneStageAtATime, RecAligned
    <2>6. QED
        BY <2>4, <2>5
<1>4. CASE AcqDwell
    <2>1. acq_state = 1 /\ active /\ channel_queue = <<>>
        BY <1>0, <1>1, <1>4 DEF AcqDwell
    <2>2. UNCHANGED <<active, written, boundary, channel_queue, control_queue,
                      trk_counter, prn_len, enable, pull_in, trk_phase, trk_stamp>>
        BY <1>4 DEF AcqDwell, trk
    <2>3. /\ acq_counter' = acq_counter + FftSize
          /\ well_count' = well_count + 1
        BY <1>4 DEF AcqDwell
    <2>4. PICK strong \in BOOLEAN, weak_peak \in 0 .. PrnLength - 1 :
              /\ record' = [delay |-> IF strong
                                      THEN (boundary - acq_counter) % PrnLength
                                      ELSE weak_peak,
                            stamp |-> acq_counter']
              /\ acq_state' = IF strong THEN 2
                              ELSE IF well_count' = MaxDwells THEN 3 ELSE 1
        BY <1>4 DEF AcqDwell
    <2>5. PType'
        <3>1. (boundary - acq_counter) % PrnLength \in Int
            BY <1>0 DEF PType
        <3>2. record' \in [delay : Int, stamp : Int]
            BY <1>0, <2>3, <2>4, <3>1 DEF PType
        <3>3. acq_state' \in 0 .. 3 /\ acq_counter' \in Int /\ well_count' \in Int
            BY <1>0, <2>3, <2>4 DEF PType
        <3>4. QED
            BY <1>0, <2>2, <3>2, <3>3 DEF PType
    <2>6. acq_state' = 2 => RecAligned(record.stamp, record.delay)'
        <3>1. SUFFICES ASSUME acq_state' = 2
                       PROVE  RecAligned(record.stamp, record.delay)'
            OBVIOUS
        <3>2. strong
            BY <2>4, <3>1
        <3>3. record' = [delay |-> (boundary - acq_counter) % PrnLength,
                         stamp |-> acq_counter + FftSize]
            BY <2>3, <2>4, <3>2
        <3>4. ((acq_counter + FftSize) + ((boundary - acq_counter) % PrnLength)
                 - boundary) % PrnLength = 0
            <4>1. acq_counter \in Int /\ boundary \in Int
                BY <1>0 DEF PType
            <4>2. FftSize \in Nat /\ FftSize % PrnLength = 0
                  /\ PrnLength \in Nat \ {0}
                BY StreamAssumption
            <4>3. QED
                BY <4>1, <4>2, StrongRecordAligned
        <3>5. QED
            BY <2>2, <3>3, <3>4 DEF RecAligned
    <2>7. QED
        BY <1>0, <2>1, <2>2, <2>4, <2>5, <2>6 DEF CInv, OneStageAtATime, RecAligned
<1>5. CASE AcqDecide
    <2>1. acq_state \in {2, 3} /\ active /\ channel_queue = <<>> /\ ~enable
          /\ control_queue = <<>>
        BY <1>0, <1>1, <1>5 DEF AcqDecide
    <2> DEFINE msg == IF acq_state = 2 THEN AcqSuccess ELSE AcqFail
    <2>2. /\ channel_queue' = Append(<<>>, msg)
          /\ active' = FALSE /\ acq_state' = 0
          /\ UNCHANGED <<well_count, record, written, boundary, control_queue>>
          /\ UNCHANGED <<trk_counter, prn_len, enable, pull_in, trk_phase, trk_stamp>>
        BY <1>5, <2>1 DEF AcqDecide, trk
    <2>3. PICK n \in 1 .. AcqVectors : acq_counter' = acq_counter + FftSize * n
        BY <1>5 DEF AcqDecide
    <2>4. /\ channel_queue' \in Seq({AcqSuccess, AcqFail})
          /\ Len(channel_queue') = 1
          /\ Head(channel_queue') = msg
          /\ channel_queue' # <<>>
        <3>1. msg \in {AcqSuccess, AcqFail}
            OBVIOUS
        <3>2. QED
            BY <2>2, <3>1, PushEmpty
    <2>5. PType'
        <3>1. acq_counter' \in Int
            BY <1>0, <2>3 DEF PType, AcqVectors
        <3>2. /\ well_count' = well_count /\ record' = record
              /\ written' = written /\ boundary' = boundary
              /\ control_queue' = control_queue
              /\ trk_counter' = trk_counter /\ prn_len' = prn_len
              /\ enable' = enable /\ pull_in' = pull_in
              /\ trk_phase' = trk_phase /\ trk_stamp' = trk_stamp
            BY <2>2, Zenon
        <3>3. active' = FALSE /\ acq_state' = 0
            BY <2>2
        <3>4. acq_state' \in 0 .. 3
            BY <3>3
        <3>5. active' \in BOOLEAN
            BY <3>3, Zenon
        <3>6. QED
            BY <1>0, <2>4, <3>1, <3>2, <3>4, <3>5, Zenon DEF PType
    <2>6. OneStageAtATime'
        BY <2>1, <2>2, <2>4, EmptySeq DEF OneStageAtATime
    <2>7. (channel_queue # <<>> /\ Head(channel_queue) = AcqSuccess)'
             => RecAligned(record.stamp, record.delay)'
        <3>1. SUFFICES ASSUME Head(channel_queue') = AcqSuccess
                       PROVE  RecAligned(record.stamp, record.delay)'
            OBVIOUS
        <3>2. acq_state = 2
            BY <2>4, <3>1 DEF AcqSuccess, AcqFail
        <3>3. QED
            BY <1>0, <2>2, <3>2 DEF RecAligned
    <2>8. QED
        BY <2>1, <2>2, <2>5, <2>6, <2>7 DEF CInv
<1>6. CASE TrkDisabled
    BY <1>0, <1>6 DEF TrkDisabled, CInv, PType, OneStageAtATime, RecAligned, acq
<1>7. CASE TrkPullIn
    <2>1. PullInOffset \in Int
        <3>1. FMod(trk_counter - trk_stamp, PrnLength) \in Int
            BY <1>0, FModInt DEF PType
        <3>2. QED
            BY <1>0, <3>1 DEF PullInOffset, PType
    <2>2. /\ trk_counter' = trk_counter + PullInOffset /\ pull_in' = FALSE
          /\ UNCHANGED <<prn_len, enable, trk_phase, trk_stamp, written, boundary,
                         channel_queue, control_queue>>
          /\ UNCHANGED <<acq_counter, acq_state, active, well_count, record>>
        BY <1>7 DEF TrkPullIn, acq
    <2>3. /\ prn_len' = prn_len /\ enable' = enable
          /\ trk_phase' = trk_phase /\ trk_stamp' = trk_stamp
          /\ written' = written /\ boundary' = boundary
          /\ channel_queue' = channel_queue /\ control_queue' = control_queue
          /\ acq_counter' = acq_counter /\ acq_state' = acq_state
          /\ active' = active /\ well_count' = well_count /\ record' = record
        BY <2>2, Zenon
    <2>4. trk_counter' \in Int
        BY <1>0, <2>1, <2>2 DEF PType
    <2>5. PType'
        BY <1>0, <2>2, <2>3, <2>4 DEF PType
    <2>6. pull_in' = FALSE
        BY <2>2
    <2>7. QED
        BY <1>0, <2>3, <2>5, <2>6 DEF CInv, OneStageAtATime, RecAligned
<1>8. CASE TrkTrack
    <2>1. enable /\ ~active /\ channel_queue = <<>> /\ control_queue = <<>>
        BY <1>0, <1>1, <1>8 DEF TrkTrack
    <2>2. /\ prn_len' \in Int /\ trk_counter' \in Int
          /\ UNCHANGED <<pull_in, trk_phase, trk_stamp, written, boundary,
                         channel_queue, acq_counter, acq_state, active,
                         well_count, record>>
        BY <1>0, <1>8 DEF TrkTrack, PType, acq
    <2>3. CASE UNCHANGED <<enable, control_queue>>
        BY <1>0, <2>2, <2>3 DEF CInv, PType, OneStageAtATime, RecAligned
    <2>4. CASE enable' = FALSE /\ control_queue' = Append(control_queue, LossOfLock)
        <3>1. /\ control_queue' \in Seq({LossOfLock})
              /\ Len(control_queue') = 1
            BY <2>1, <2>4, PushEmpty
        <3>2. PType'
            BY <1>0, <2>2, <2>4, <3>1 DEF PType
        <3>3. OneStageAtATime'
            BY <2>1, <2>2, <2>4, <3>1, EmptySeq DEF OneStageAtATime
        <3>4. QED
            BY <1>0, <2>2, <2>4, <3>2, <3>3 DEF CInv, RecAligned
    <2>5. QED
        BY <1>8, <2>3, <2>4 DEF TrkTrack
<1>9. CASE ControllerSuccess
    <2>1. channel_queue # <<>> /\ Head(channel_queue) = AcqSuccess
        BY <1>9 DEF ControllerSuccess
    <2>2. Len(channel_queue) = 1 /\ ~active /\ ~enable /\ control_queue = <<>>
          /\ acq_state = 0
        BY <1>0, <1>1, <2>1
    <2>3. channel_queue' = <<>>
        BY <1>0, <1>9, <2>2, PopOnly DEF ControllerSuccess, PType
    <2>4. /\ trk_phase' = record.delay /\ trk_stamp' = record.stamp
          /\ prn_len' = PrnLength /\ pull_in' = TRUE /\ enable' = TRUE
          /\ UNCHANGED <<trk_counter, written, boundary, control_queue,
                         acq_counter, acq_state, active, well_count, record>>
        BY <1>9 DEF ControllerSuccess, acq
    <2>5. RecAligned(record.stamp, record.delay)
        BY <1>0, <2>1
    <2>6. PType'
        BY <1>0, <2>3, <2>4, EmptySeq DEF PType
    <2>7. OneStageAtATime'
        BY <2>2, <2>3, <2>4, EmptySeq DEF OneStageAtATime
    <2>8. QED
        BY <2>2, <2>3, <2>4, <2>5, <2>6, <2>7 DEF CInv, RecAligned
<1>10. CASE ControllerFail
    <2>1. channel_queue # <<>>
        BY <1>10 DEF ControllerFail
    <2>2. Len(channel_queue) = 1 /\ ~active /\ ~enable /\ control_queue = <<>>
          /\ acq_state = 0
        BY <1>0, <1>1, <2>1
    <2>3. channel_queue' = <<>>
        BY <1>0, <1>10, <2>2, PopOnly DEF ControllerFail, PType
    <2>4. /\ active' = TRUE
          /\ UNCHANGED <<acq_counter, acq_state, well_count, record, written,
                         boundary, control_queue, trk_counter, prn_len, enable,
                         pull_in, trk_phase, trk_stamp>>
        BY <1>10 DEF ControllerFail, trk
    <2>5. PType'
        BY <1>0, <2>3, <2>4, EmptySeq DEF PType
    <2>6. OneStageAtATime'
        BY <2>2, <2>3, <2>4, EmptySeq DEF OneStageAtATime
    <2>7. QED
        BY <1>0, <2>2, <2>3, <2>4, <2>5, <2>6 DEF CInv, RecAligned
<1>11. CASE ControllerLost
    <2>1. control_queue # <<>>
        BY <1>11 DEF ControllerLost
    <2>2. Len(control_queue) = 1 /\ ~active /\ ~enable /\ channel_queue = <<>>
          /\ acq_state = 0
        BY <1>0, <1>1, <2>1
    <2>3. control_queue' = <<>>
        BY <1>0, <1>11, <2>2, PopOnly DEF ControllerLost, PType
    <2>4. /\ active' = TRUE
          /\ UNCHANGED <<acq_counter, acq_state, well_count, record, written,
                         boundary, channel_queue, trk_counter, prn_len, enable,
                         pull_in, trk_phase, trk_stamp>>
        BY <1>11 DEF ControllerLost, trk
    <2>5. PType'
        BY <1>0, <2>3, <2>4, EmptySeq DEF PType
    <2>6. OneStageAtATime'
        BY <2>2, <2>3, <2>4, EmptySeq DEF OneStageAtATime
    <2>7. QED
        BY <1>0, <2>2, <2>3, <2>4, <2>5, <2>6 DEF CInv, RecAligned
<1>12. CASE UNCHANGED vars
    BY <1>0, <1>12 DEF vars, acq, trk, CInv, PType, OneStageAtATime, RecAligned
<1>13. QED
    BY <1>2, <1>3, <1>4, <1>5, <1>6, <1>7, <1>8, <1>9, <1>10, <1>11, <1>12
       DEF Next

LEMMA SpecCInv == Spec => []CInv
BY InitCInv, NextCInv, PTL DEF Spec

(* For every value of the constants, the acquisition block, the tracking   *)
(* block and the channel controller never have two stages of the channel   *)
(* running or pending at once (spec 5, Ordering).                          *)
THEOREM OneStageInvariant == Spec => []OneStageAtATime
BY SpecCInv, PTL DEF CInv

(* A pull-in step of a state satisfying the invariant lands on a PRN       *)
(* boundary.                                                               *)
LEMMA PullInStepAligned ==
    CInv /\ TrkPullIn => (trk_counter' - boundary) % PrnLength = 0
<1> SUFFICES ASSUME CInv, TrkPullIn
             PROVE  (trk_counter' - boundary) % PrnLength = 0
    OBVIOUS
<1>1. /\ trk_counter \in Int /\ trk_stamp \in Int /\ trk_phase \in Int
      /\ boundary \in Int
    BY DEF CInv, PType
<1>2. RecAligned(trk_stamp, trk_phase)
    BY DEF CInv, TrkPullIn
<1>3. (trk_counter + PullInOffset - boundary) % PrnLength = 0
    <2>1. PrnLength \in Nat \ {0}
        BY StreamAssumption
    <2>2. (trk_stamp + trk_phase - boundary) % PrnLength = 0
        BY <1>2 DEF RecAligned
    <2>3. QED
        BY <1>1, <2>1, <2>2, PullInArith
<1>4. trk_counter' = trk_counter + PullInOffset
    BY DEF TrkPullIn
<1>5. PullInOffset \in Int
    <2>1. FMod(trk_counter - trk_stamp, PrnLength) \in Int
        BY <1>1, StreamAssumption, FModInt
    <2>2. PullInOffset = trk_phase + (PrnLength
                            - FMod(trk_counter - trk_stamp, PrnLength))
        BY Zenon DEF PullInOffset
    <2>3. QED
        BY <1>1, <2>1, <2>2, StreamAssumption
<1>6. trk_counter' - boundary = trk_counter + PullInOffset - boundary
    BY <1>1, <1>4, <1>5
<1>7. QED
    BY <1>3, <1>6, Zenon

(* For every value of the constants, the pull-in of start_tracking's       *)
(* record puts tracking's counter on a PRN boundary of the stream, whether *)
(* tracking's counter is ahead of the acquisition stamp or behind it.      *)
THEOREM PullInAlignedHolds == Spec => PullInAligned
<1>1. CInv => [TrkPullIn => (trk_counter' - boundary) % PrnLength = 0]_vars
    BY PullInStepAligned
<1>2. QED
    BY SpecCInv, <1>1, PTL DEF PullInAligned

=============================================================================
