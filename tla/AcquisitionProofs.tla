------------------------- MODULE AcquisitionProofs -------------------------
(***************************************************************************)
(* Proofs about the acquisition state machine, for every value of the     *)
(* constants allowed by SearchAssumption.                                  *)
(***************************************************************************)
EXTENDS Acquisition, WellFoundedInduction, SequenceTheorems, TLAPS

-----------------------------------------------------------------------------
(* Least and Greatest pick an element of the set they are applied to.      *)

LEMMA LeastProp ==
    ASSUME NEW T \in SUBSET Nat, T # {}
    PROVE  /\ Least(T) \in T
           /\ \A y \in T : Least(T) <= y
<1>1. PICK x \in T : \A y \in T : ~(<<y, x>> \in OpToRel(<, Nat))
    BY NatLessThanWellFounded, WFMin
<1>2. \A y \in T : x <= y
    <2> TAKE y \in T
    <2>1. <<y, x>> \in Nat \X Nat
        OBVIOUS
    <2>2. ~(y < x)
        BY <1>1, <2>1 DEF OpToRel
    <2>3. QED
        BY <2>2
<1>3. QED
    BY <1>2 DEF Least

LEMMA GreatestProp ==
    ASSUME NEW T \in SUBSET Nat, NEW n \in Nat, T # {},
           \A y \in T : y <= n
    PROVE  /\ Greatest(T) \in T
           /\ \A y \in T : y <= Greatest(T)
<1> DEFINE U == {m \in Nat : \A y \in T : y <= m}
<1>1. U \in SUBSET Nat /\ U # {}
    OBVIOUS
<1> DEFINE u == Least(U)
<1>2. u \in U /\ \A m \in U : u <= m
    BY <1>1, LeastProp
<1>3. u \in T
    <2> SUFFICES ASSUME u \notin T PROVE FALSE
        OBVIOUS
    <2>1. PICK y0 \in T : TRUE
        OBVIOUS
    <2>2. u - 1 \in U
        BY <1>2, <2>1
    <2>3. QED
        BY <1>2, <2>2
<1>4. \E x \in T : \A y \in T : y <= x
    BY <1>2, <1>3
<1>5. QED
    BY <1>4 DEF Greatest

-----------------------------------------------------------------------------
(* Facts about the grid of a dwell.                                        *)

LEMMA CellFacts ==
    /\ NumDopplerBins * FftSize - 1 \in Nat
    /\ Cells \in SUBSET Nat
    /\ Cells # {}
    /\ \A c \in Cells : c <= NumDopplerBins * FftSize - 1
    /\ \A c \in Cells : CellParams(c) \in AcqRecord
<1>1. NumDopplerBins \in Nat \ {0}
    BY SearchAssumption DEF NumDopplerBins
<1>2. NumDopplerBins * FftSize - 1 \in Nat
    BY <1>1, SearchAssumption
<1>3. \A c \in Cells : CellParams(c) \in AcqRecord
    BY SearchAssumption
       DEF Cells, CellParams, CodePhaseOf, IndexOf, DopplerOf, BinOf, AcqRecord
<1>4. QED
    BY <1>2, <1>3 DEF Cells

LEMMA GridFacts ==
    ASSUME NEW g \in Grids
    PROVE  /\ DwellMax(g) \in 0 .. MaxMag
           /\ FirstMaxCell(g) \in Cells
           /\ \A v \in 0 .. MaxMag :
                 (\E c \in Cells : g[c] = v) => PeakCell(g, v) \in Cells
<1>1. DwellMax(g) \in {g[c] : c \in Cells}
    <2>0. g \in [Cells -> 0 .. MaxMag]
        BY DEF Grids
    <2>1. {g[c] : c \in Cells} \in SUBSET Nat /\ {g[c] : c \in Cells} # {}
        <3>1. {g[c] : c \in Cells} \in SUBSET Nat
            BY <2>0, SearchAssumption
        <3>2. {g[c] : c \in Cells} # {}
            BY CellFacts
        <3>3. QED
            BY <3>1, <3>2
    <2>2. \A y \in {g[c] : c \in Cells} : y <= MaxMag
        BY <2>0
    <2>3. QED
        BY <2>1, <2>2, GreatestProp, SearchAssumption DEF DwellMax
<1>2. DwellMax(g) \in 0 .. MaxMag
    BY <1>1, SearchAssumption DEF Grids
<1>3. FirstMaxCell(g) \in Cells
    <2>1. {c \in Cells : g[c] = DwellMax(g)} # {}
        BY <1>1
    <2>2. QED
        BY <2>1, CellFacts, LeastProp DEF FirstMaxCell
<1>4. ASSUME NEW v \in 0 .. MaxMag, \E c \in Cells : g[c] = v
      PROVE  PeakCell(g, v) \in Cells
    <2>1. {c \in Cells : g[c] = v} # {}
        BY <1>4
    <2>2. NumDopplerBins * FftSize - 1 \in Nat
        BY CellFacts
    <2>3. QED
        BY <2>1, <2>2, CellFacts, GreatestProp DEF PeakCell
<1>5. QED
    BY <1>2, <1>3, <1>4

LEMMA PeakFacts ==
    ASSUME NEW g \in Grids, NEW p \in Powers
    PROVE  /\ HigherPeaks(g, p) \in SUBSET ((0 .. SamplesPerCode - 1) \X Int)
           /\ AuxFound(g, p) =>
                 /\ AuxPeak(g, p) \in 0 .. MaxMag
                 /\ PeakCell(g, AuxPeak(g, p)) \in Cells
<1>1. PeakKeys(g, p) \in SUBSET (0 .. MaxMag)
    BY DEF PeakKeys, Grids
<1>2. \A v \in PeakKeys(g, p) : PeakCell(g, v) \in Cells
    BY <1>1, GridFacts DEF PeakKeys
<1>3. HigherPeaks(g, p) \in SUBSET ((0 .. SamplesPerCode - 1) \X Int)
    <2>1. \A v \in PeakKeys(g, p) :
              CellParams(PeakCell(g, v)) \in AcqRecord
        BY <1>2, CellFacts
    <2>2. QED
        BY <2>1 DEF HigherPeaks, CellParams, AcqRecord
<1>4. ASSUME AuxFound(g, p)
      PROVE  /\ AuxPeak(g, p) \in 0 .. MaxMag
             /\ PeakCell(g, AuxPeak(g, p)) \in Cells
    <2>1. AuxCandidates(g, p) \in SUBSET (0 .. MaxMag)
          /\ AuxCandidates(g, p) # {}
        BY <1>1, <1>4 DEF AuxCandidates, AuxFound
    <2>2. /\ AuxCandidates(g, p) \in SUBSET Nat
          /\ \A y \in AuxCandidates(g, p) : y <= MaxMag
        BY <2>1, SearchAssumption
    <2>3. AuxPeak(g, p) \in AuxCandidates(g, p)
        BY <2>1, <2>2, GreatestProp, SearchAssumption DEF AuxPeak
    <2>4. QED
        BY <2>1, <2>3, <1>2 DEF AuxCandidates
<1>5. QED
    BY <1>3, <1>4

LEMMA OutcomeType ==
    ASSUME NEW g \in Grids, NEW p \in Powers, NEW ts \in RatioSet,
           NEW a \in AcqRecord
    PROVE  /\ DwellOutcome(g, p, ts, a).ts \in RatioSet
           /\ DwellOutcome(g, p, ts, a).acq \in AcqRecord
           /\ DwellOutcome(g, p, ts, a).found = AuxFound(g, p)
           /\ DwellOutcome(g, p, ts, a).found \in BOOLEAN
<1>1. Ratio(DwellMax(g), p) \in RatioSet
    BY GridFacts DEF Ratio, RatioSet
<1>2. CellParams(FirstMaxCell(g)) \in AcqRecord
    BY GridFacts, CellFacts
<1>3. AuxFound(g, p) => Ratio(AuxPeak(g, p), p) \in RatioSet
    BY PeakFacts DEF Ratio, RatioSet
<1>4. AuxFound(g, p) => CellParams(PeakCell(g, AuxPeak(g, p))) \in AcqRecord
    BY PeakFacts, CellFacts
<1>5. AuxFound(g, p) \in BOOLEAN
    BY DEF AuxFound
<1>6. QED
    BY <1>1, <1>2, <1>3, <1>4, <1>5 DEF DwellOutcome

(* What the decision at the end of a dwell guarantees.                     *)
LEMMA DecisionFacts ==
    ASSUME NEW wc \in 1 .. MaxDwells, NEW found \in BOOLEAN,
           NEW ts \in RatioSet
    PROVE  LET d == DwellDecision(wc, found, ts) IN
           /\ d \in {Dwell, Positive, Negative}
           /\ d = Positive => AboveThreshold(ts)
           /\ (d = Negative /\ ~AuxMode) =>
                 wc = MaxDwells /\ ~AboveThreshold(ts)
           /\ d = Dwell => wc < MaxDwells
           /\ (d # Dwell /\ BitTransitionFlag) => wc = MaxDwells
<1>1. CASE ~BitTransitionFlag
    BY <1>1, SearchAssumption DEF DwellDecision, Negative, Positive, Dwell
<1>2. CASE BitTransitionFlag
    BY <1>2, SearchAssumption DEF DwellDecision, Negative, Positive, Dwell
<1>3. QED
    BY <1>1, <1>2

-----------------------------------------------------------------------------
(***************************************************************************)
(* The inductive invariant.  TypeOK alone is not inductive: well_count     *)
(* stays in 0..MaxDwells only because a dwell never leaves the engine in   *)
(* DWELL once the counter reaches d_max_dwells.  DecisionSound is not      *)
(* inductive either: the pushed result is sound because the POSITIVE and   *)
(* NEGATIVE states already carry the statistic and the counter that        *)
(* justify them, and because the queue is empty whenever the engine is     *)
(* armed, so the pushed result is the head of the queue.                   *)
(***************************************************************************)
IInv ==
    /\ TypeOK
    /\ state = Dwell => well_count < MaxDwells
    /\ state # Idle => active /\ channel_queue = <<>>
    /\ Len(channel_queue) <= 1
    /\ channel_queue # <<>> => ~active /\ state = Idle
    /\ state = Positive => AboveThreshold(test_statistics)
    /\ (state = Negative /\ ~AuxMode) =>
          well_count = MaxDwells /\ ~AboveThreshold(test_statistics)
    /\ (channel_queue # <<>> /\ Head(channel_queue) = AcqSuccess) =>
          AboveThreshold(test_statistics)
    /\ (channel_queue # <<>> /\ Head(channel_queue) = AcqFail /\ ~AuxMode) =>
          well_count = MaxDwells /\ ~AboveThreshold(test_statistics)
    /\ state \in {Positive, Negative} => well_count >= 1
    /\ (state \in {Positive, Negative} /\ BitTransitionFlag) =>
          well_count = MaxDwells

LEMMA InitIInv == Init => IInv
<1> SUFFICES ASSUME Init PROVE IInv
    OBVIOUS
<1>1. Ratio(0, 1) \in RatioSet
    BY SearchAssumption DEF Ratio, RatioSet
<1>2. NoAcq \in AcqRecord
    BY SearchAssumption DEF NoAcq, AcqRecord
<1>3. TypeOK
    <2>1. 0 \in 0 .. MaxDwells
        BY SearchAssumption
    <2>2. /\ <<>> \in Seq({AcqSuccess, AcqFail})
          /\ <<>> \in Seq([ratio : RatioSet, cell : AcqRecord])
          /\ {} \in SUBSET ((0 .. SamplesPerCode - 1) \X Int)
        OBVIOUS
    <2>3. QED
        BY <1>1, <1>2, <2>1, <2>2 DEF Init, TypeOK, Idle, Dwell, Positive,
                                      Negative
<1>4. QED
    BY <1>3 DEF Init, IInv, Idle, Dwell, Positive, Negative

LEMMA NextIInv == IInv /\ [Next]_vars => IInv'
<1> SUFFICES ASSUME IInv, [Next]_vars PROVE IInv'
    OBVIOUS
<1> USE SearchAssumption
<1>1. CASE SetActive
    BY <1>1 DEF IInv, TypeOK, SetActive, Idle
<1>2. CASE ChannelPop
    BY <1>2 DEF IInv, TypeOK, ChannelPop
<1>3. CASE GeneralWorkIdle
    BY <1>3 DEF IInv, TypeOK, GeneralWorkIdle, Idle, Dwell, Positive, Negative,
                Ratio, RatioSet, NoAcq, AcqRecord
<1>4. CASE GeneralWorkDwell
    <2>1. PICK g \in Grids, p \in Powers :
              LET out == DwellOutcome(g, p, test_statistics, acq)
              IN /\ well_count' = well_count + 1
                 /\ test_statistics' = out.ts
                 /\ acq' = out.acq
                 /\ state' = DwellDecision(well_count + 1, out.found, out.ts)
                 /\ dwells' = Append(dwells,
                                     [ratio |-> Ratio(DwellMax(g), p),
                                      cell  |-> CellParams(FirstMaxCell(g))])
                 /\ higher' = HigherPeaks(g, p)
        BY <1>4 DEF GeneralWorkDwell
    <2> DEFINE out == DwellOutcome(g, p, test_statistics, acq)
    <2>2. /\ out.ts \in RatioSet
          /\ out.acq \in AcqRecord
          /\ out.found \in BOOLEAN
        BY OutcomeType DEF IInv, TypeOK
    <2>3. well_count + 1 \in 1 .. MaxDwells
        BY <1>4 DEF IInv, TypeOK, GeneralWorkDwell
    <2>4. LET d == DwellDecision(well_count + 1, out.found, out.ts) IN
          /\ d \in {Dwell, Positive, Negative}
          /\ d = Positive => AboveThreshold(out.ts)
          /\ (d = Negative /\ ~AuxMode) =>
                well_count + 1 = MaxDwells /\ ~AboveThreshold(out.ts)
          /\ d = Dwell => well_count + 1 < MaxDwells
          /\ (d # Dwell /\ BitTransitionFlag) => well_count + 1 = MaxDwells
        BY <2>2, <2>3, DecisionFacts
    <2>5. [ratio |-> Ratio(DwellMax(g), p),
           cell  |-> CellParams(FirstMaxCell(g))]
            \in [ratio : RatioSet, cell : AcqRecord]
        BY GridFacts, CellFacts DEF Ratio, RatioSet
    <2>6. TypeOK'
        BY <2>1, <2>2, <2>3, <2>4, <2>5, PeakFacts, <1>4
        DEF IInv, TypeOK, GeneralWorkDwell, Dwell, Positive, Negative
    <2>7. QED
        BY <2>1, <2>3, <2>4, <2>6, <1>4
        DEF IInv, GeneralWorkDwell, Idle, Dwell, Positive, Negative
<1>5. CASE GeneralWorkPositive
    <2>1. channel_queue = <<>>
        BY <1>5 DEF IInv, GeneralWorkPositive, Idle, Positive
    <2>2. channel_queue' = <<AcqSuccess>>
        BY <2>1, <1>5 DEF GeneralWorkPositive
    <2>3. TypeOK'
        <3>1. channel_queue' \in Seq({AcqSuccess, AcqFail})
            BY <2>2 DEF AcqSuccess, AcqFail
        <3>2. state' \in {Idle, Dwell, Positive, Negative}
            BY <1>5 DEF GeneralWorkPositive, Idle
        <3>3. QED
            BY <3>1, <3>2, <1>5 DEF IInv, TypeOK, GeneralWorkPositive
    <2>4. QED
        BY <2>2, <2>3, <1>5 DEF IInv, GeneralWorkPositive, Idle, Dwell,
                                Positive, Negative, AcqSuccess, AcqFail
<1>6. CASE GeneralWorkNegative
    <2>1. channel_queue = <<>>
        BY <1>6 DEF IInv, GeneralWorkNegative, Idle, Negative
    <2>2. channel_queue' = <<AcqFail>>
        BY <2>1, <1>6 DEF GeneralWorkNegative
    <2>3. TypeOK'
        <3>1. channel_queue' \in Seq({AcqSuccess, AcqFail})
            BY <2>2 DEF AcqSuccess, AcqFail
        <3>2. state' \in {Idle, Dwell, Positive, Negative}
            BY <1>6 DEF GeneralWorkNegative, Idle
        <3>3. QED
            BY <3>1, <3>2, <1>6 DEF IInv, TypeOK, GeneralWorkNegative
    <2>4. QED
        BY <2>2, <2>3, <1>6 DEF IInv, GeneralWorkNegative, Idle, Dwell,
                                Positive, Negative, AcqSuccess, AcqFail
<1>7. CASE UNCHANGED vars
    BY <1>7 DEF IInv, TypeOK, vars
<1>8. QED
    BY <1>1, <1>2, <1>3, <1>4, <1>5, <1>6, <1>7 DEF Next, GeneralWork

(* Every state the acquisition engine reaches is well typed; in           *)
(* particular the dwell counter d_well_count never exceeds d_max_dwells.   *)
THEOREM TypeCorrect == Spec => []TypeOK
<1>1. IInv => TypeOK
    BY DEF IInv
<1>2. QED
    BY <1>1, InitIInv, NextIInv, PTL DEF Spec

(* Whatever general_work posts to the channel queue is justified by the   *)
(* attempt: ACQ_SUCCESS with a statistic above d_threshold, ACQ_FAIL      *)
(* without auxiliary peaks only after d_max_dwells dwells below it, and   *)
(* the engine is then idle and disarmed.                                   *)
THEOREM DecisionSoundness == Spec => []DecisionSound
<1>1. IInv => DecisionSound
    BY DEF IInv, DecisionSound
<1>2. QED
    BY <1>1, InitIInv, NextIInv, PTL DEF Spec

-----------------------------------------------------------------------------
(***************************************************************************)
(* Refinement of the acquisition service.  Under the mapping of            *)
(* Acquisition!Service, case 0 is a stutter (it resets exactly the values  *)
(* the mapping already shows as reset), a dwell is a search, the pushes of *)
(* cases 2 and 3 are the answer, and set_active and the pop of the queue   *)
(* are the controller's steps.  IInv supplies what each step needs: the   *)
(* engine is armed and the queue empty outside IDLE, the counter is below *)
(* d_max_dwells in DWELL, and POSITIVE and NEGATIVE carry the counter and *)
(* statistic that justify their answer.                                    *)
(***************************************************************************)
(* A non-empty queue of at most one element empties when popped.          *)
LEMMA PopSingleton ==
    ASSUME NEW S, NEW q \in Seq(S), q # <<>>, Len(q) <= 1
    PROVE  Len(q) = 1 /\ Tail(q) = <<>>
<1>1. Len(q) \in Nat \ {0}
    BY EmptySeq
<1>2. Len(q) = 1
    BY <1>1
<1>3. Tail(q) \in Seq(S) /\ Len(Tail(q)) = 0
    BY <1>2, HeadTailProperties
<1>4. QED
    BY <1>2, <1>3, EmptySeq

LEMMA StepRefines == IInv /\ [Next]_vars => [Service!Next]_Service!svars
<1> SUFFICES ASSUME IInv, [Next]_vars PROVE [Service!Next]_Service!svars
    OBVIOUS
<1> USE SearchAssumption
<1>1. CASE SetActive
    <2>1. state = Idle
        BY <1>1 DEF IInv, SetActive
    <2>2. Service!Arm
        BY <1>1, <2>1 DEF SetActive, Service!Arm
    <2>3. QED
        BY <2>2 DEF Service!Next
<1>2. CASE ChannelPop
    <2>0. channel_queue \in Seq({AcqSuccess, AcqFail})
        BY DEF IInv, TypeOK
    <2>1. state = Idle /\ channel_queue # <<>> /\ Len(channel_queue) <= 1
        BY <1>2 DEF IInv, ChannelPop
    <2>2. Tail(channel_queue) = <<>>
        BY <2>0, <2>1, PopSingleton
    <2>3. Service!Consume
        BY <1>2, <2>1, <2>2 DEF ChannelPop, Service!Consume
    <2>4. QED
        BY <2>3 DEF Service!Next
<1>3. CASE GeneralWorkIdle
    BY <1>3 DEF GeneralWorkIdle, Service!svars, Idle, Dwell
<1>4. CASE GeneralWorkDwell
    <2>1. PICK g \in Grids, p \in Powers :
              LET out == DwellOutcome(g, p, test_statistics, acq)
              IN /\ well_count' = well_count + 1
                 /\ test_statistics' = out.ts
                 /\ state' = DwellDecision(well_count + 1, out.found, out.ts)
        BY <1>4 DEF GeneralWorkDwell
    <2> DEFINE out == DwellOutcome(g, p, test_statistics, acq)
    <2>2. out.ts \in RatioSet /\ out.found \in BOOLEAN
        BY OutcomeType DEF IInv, TypeOK
    <2>3. well_count + 1 \in 1 .. MaxDwells
        BY <1>4 DEF IInv, TypeOK, GeneralWorkDwell
    <2>4. state' # Idle
        BY <2>1, <2>2, <2>3, DecisionFacts DEF Idle, Dwell, Positive, Negative
    <2>5. /\ active /\ channel_queue = <<>>
          /\ well_count < MaxDwells
        BY <1>4 DEF IInv, GeneralWorkDwell, Idle, Dwell
    <2>6. Service!Search
        BY <1>4, <2>1, <2>2, <2>3, <2>4, <2>5
        DEF GeneralWorkDwell, Service!Search, Idle, Dwell
    <2>7. QED
        BY <2>6 DEF Service!Next, Service!Progress
<1>5. CASE GeneralWorkPositive
    <2>1. /\ active /\ channel_queue = <<>>
          /\ AboveThreshold(test_statistics)
          /\ test_statistics \in RatioSet
          /\ well_count \in 1 .. MaxDwells
          /\ BitTransitionFlag => well_count = MaxDwells
        BY <1>5 DEF IInv, TypeOK, GeneralWorkPositive, Idle, Positive, Negative
    <2>2. Service!Answer(AcqSuccess)
        BY <1>5, <2>1 DEF GeneralWorkPositive, Service!Answer,
                          Service!Justified, Idle, Positive
    <2>3. QED
        BY <2>2 DEF Service!Next, Service!Progress
<1>6. CASE GeneralWorkNegative
    <2>1. /\ active /\ channel_queue = <<>>
          /\ test_statistics \in RatioSet
          /\ well_count \in 1 .. MaxDwells
          /\ BitTransitionFlag => well_count = MaxDwells
          /\ ~AuxMode => well_count = MaxDwells
                         /\ ~AboveThreshold(test_statistics)
        BY <1>6 DEF IInv, TypeOK, GeneralWorkNegative, Idle, Positive, Negative
    <2>2. Service!Answer(AcqFail)
        BY <1>6, <2>1 DEF GeneralWorkNegative, Service!Answer,
                          Service!Justified, Idle, Negative, AcqSuccess, AcqFail
    <2>3. QED
        BY <2>2 DEF Service!Next, Service!Progress
<1>7. CASE UNCHANGED vars
    BY <1>7 DEF vars, Service!svars
<1>8. QED
    BY <1>1, <1>2, <1>3, <1>4, <1>5, <1>6, <1>7 DEF Next, GeneralWork

(* The safety part of the service the channel relies on holds for every   *)
(* value of the constants: general_work, driven by set_active and the     *)
(* controller's pops, dwells at most d_max_dwells times per arming and    *)
(* answers once, with ACQ_SUCCESS only above d_threshold and ACQ_FAIL     *)
(* without auxiliary peaks only after the last dwell below it.            *)
THEOREM Refinement == Spec => Service!Safety
<1>1. Init => Service!Init
    BY DEF Init, Service!Init, Idle
<1>2. Spec => []IInv
    BY InitIInv, NextIInv, PTL DEF Spec
<1>3. QED
    BY <1>1, <1>2, StepRefines, PTL DEF Spec, Service!Safety

=============================================================================
