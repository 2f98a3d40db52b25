---------------------------- MODULE AcqPeakProofs ----------------------------
(***************************************************************************)
(* Proof that a positive acquisition reports the peak of the reference     *)
(* dwell (ReportedPeakIsStrongest) for every value of the constants.       *)
(*                                                                         *)
(* The property is not inductive: it speaks of POSITIVE and of a queued    *)
(* success only, while the dwells that lead there keep d_test_statistics  *)
(* and the Acq_* fields from one call of general_work to the next.  PInv   *)
(* says what those fields hold during the whole attempt:                   *)
(*   - single-dwell mode: while dwelling the kept statistic is below the   *)
(*     threshold (so a dwell that writes nothing cannot turn positive);    *)
(*   - two-dwell mode: either no dwell had a non-zero peak and the fields  *)
(*     still hold what case 0 wrote, or they hold the ratio and cell of    *)
(*     the first dwell that no other dwell beats.                          *)
(***************************************************************************)
EXTENDS AcquisitionProofs

(* Entry k of a dwell history ds is the first one of largest ratio.       *)
FirstStrongestIn(ds, k) ==
    /\ k \in 1 .. Len(ds)
    /\ \A j \in 1 .. Len(ds) : ~RatioLess(ds[k].ratio, ds[j].ratio)
    /\ \A i \in 1 .. k - 1 :
          \E j \in 1 .. Len(ds) : RatioLess(ds[i].ratio, ds[j].ratio)

FirstStrongest(k) == FirstStrongestIn(dwells, k)

(* No dwell of the attempt found a non-zero magnitude.                     *)
NoPeakYet ==
    /\ \A i \in 1 .. Len(dwells) : dwells[i].ratio.num = 0
    /\ test_statistics = Ratio(0, 1)
    /\ acq = NoAcq

SuccessQueued == channel_queue # <<>> /\ Head(channel_queue) = AcqSuccess

PInv ==
    ~AuxMode =>
      /\ (~BitTransitionFlag /\ state = Dwell) => ~AboveThreshold(test_statistics)
      /\ (~BitTransitionFlag /\ (state = Positive \/ SuccessQueued)) =>
            /\ Len(dwells) >= 1
            /\ acq = dwells[Len(dwells)].cell
            /\ test_statistics = dwells[Len(dwells)].ratio
      /\ (BitTransitionFlag /\ (state # Idle \/ SuccessQueued)) =>
            \/ NoPeakYet
            \/ \E k \in 1 .. Len(dwells) :
                  /\ FirstStrongest(k)
                  /\ acq = dwells[k].cell
                  /\ test_statistics = dwells[k].ratio

RInv == IInv /\ PInv

-----------------------------------------------------------------------------
(* The order of statistics: d_mag / d_input_power compared by cross-       *)
(* multiplication, with positive powers, is a strict weak order.           *)
LEMMA RatioFacts ==
    ASSUME NEW r \in RatioSet
    PROVE  r.num \in Nat /\ r.den \in Nat \ {0}
<1>1. r.num \in 0 .. MaxMag /\ r.den \in Powers \cup {1}
    BY DEF RatioSet
<1>2. r.num \in Nat
    BY <1>1, SearchAssumption
<1>3. r.den \in Nat \ {0}
    <2>1. CASE r.den \in Powers
        BY <2>1, SearchAssumption, Zenon
    <2>2. CASE r.den = 1
        BY <2>2
    <2>3. QED
        BY <1>1, <2>1, <2>2
<1>4. QED
    BY <1>2, <1>3

LEMMA RatioAsym ==
    ASSUME NEW a \in RatioSet, NEW b \in RatioSet, RatioLess(a, b)
    PROVE  ~RatioLess(b, a)
<1>1. /\ a.num \in Nat /\ a.den \in Nat /\ b.num \in Nat /\ b.den \in Nat
    BY RatioFacts
<1>2. QED
    BY <1>1 DEF RatioLess

(* A ratio no larger than s is below every ratio above s.                  *)
LEMMA RatioTrans ==
    ASSUME NEW a \in RatioSet, NEW s \in RatioSet, NEW r \in RatioSet,
           ~RatioLess(s, a), RatioLess(s, r)
    PROVE  RatioLess(a, r)
<1>1. /\ a.num \in Nat /\ a.den \in Nat \ {0}
      /\ s.num \in Nat /\ s.den \in Nat \ {0}
      /\ r.num \in Nat /\ r.den \in Nat \ {0}
    BY RatioFacts
<1>2. a.num * s.den <= s.num * a.den
    BY <1>1 DEF RatioLess
<1>3. s.num * r.den < r.num * s.den
    BY <1>1 DEF RatioLess
<1>4. (a.num * s.den) * r.den <= (s.num * a.den) * r.den
    BY <1>1, <1>2
<1>5. (s.num * r.den) * a.den < (r.num * s.den) * a.den
    BY <1>1, <1>3
<1>6. (a.num * r.den) * s.den < (r.num * a.den) * s.den
    BY <1>1, <1>4, <1>5
<1>7. a.num * r.den < r.num * a.den
    BY <1>1, <1>6
<1>8. QED
    BY <1>7 DEF RatioLess

(* A statistic with zero magnitude is below every non-zero one and above   *)
(* none.                                                                   *)
LEMMA ZeroRatio ==
    ASSUME NEW a \in RatioSet, NEW r \in RatioSet, a.num = 0
    PROVE  /\ r.num > 0 => RatioLess(a, r)
           /\ ~RatioLess(r, a)
<1>1. /\ a.den \in Nat \ {0} /\ r.num \in Nat /\ r.den \in Nat \ {0}
    BY RatioFacts
<1>2. r.num > 0 => 0 < r.num * a.den
    BY <1>1
<1>3. 0 <= r.num * a.den
    BY <1>1
<1>4. QED
    BY <1>1, <1>2, <1>3 DEF RatioLess

(* The reference dwell of a two-dwell attempt is its first strongest one. *)
LEMMA StrongestIsFirst ==
    ASSUME TypeOK, NEW k, FirstStrongest(k)
    PROVE  StrongestDwell = dwells[k]
<1> DEFINE T == {i \in 1 .. Len(dwells) :
                   \A j \in 1 .. Len(dwells) :
                       ~RatioLess(dwells[i].ratio, dwells[j].ratio)}
<1>1. k \in T
    BY DEF FirstStrongest, FirstStrongestIn
<1>2. T \in SUBSET Nat /\ T # {}
    BY <1>1
<1>3. Least(T) \in T /\ Least(T) <= k
    BY <1>1, <1>2, LeastProp
<1>4. ~(Least(T) < k)
    <2>1. SUFFICES ASSUME Least(T) < k PROVE FALSE
        OBVIOUS
    <2>2. Least(T) \in 1 .. k - 1
        BY <1>3, <2>1 DEF FirstStrongest, FirstStrongestIn
    <2>3. PICK j \in 1 .. Len(dwells) :
              RatioLess(dwells[Least(T)].ratio, dwells[j].ratio)
        BY <2>2 DEF FirstStrongest, FirstStrongestIn
    <2>4. QED
        BY <1>3, <2>3
<1>5. Least(T) = k
    BY <1>3, <1>4 DEF FirstStrongest, FirstStrongestIn
<1>6. QED
    BY <1>5 DEF StrongestDwell

DwellEntry == [ratio : RatioSet, cell : AcqRecord]

(* A new dwell no stronger than the first strongest one leaves it first    *)
(* strongest: d_test_statistics is overwritten only by a strictly larger   *)
(* ratio.                                                                  *)
LEMMA KeepFirstStrongest ==
    ASSUME NEW ds \in Seq(DwellEntry), NEW nd \in DwellEntry, NEW k,
           FirstStrongestIn(ds, k), ~RatioLess(ds[k].ratio, nd.ratio)
    PROVE  FirstStrongestIn(Append(ds, nd), k)
<1> DEFINE ds1 == Append(ds, nd)
<1>1. /\ Len(ds1) = Len(ds) + 1
      /\ ds1[Len(ds) + 1] = nd
      /\ \A i \in 1 .. Len(ds) : ds1[i] = ds[i]
    OBVIOUS
<1>2. k \in 1 .. Len(ds1)
    BY <1>1 DEF FirstStrongestIn
<1>3. \A j \in 1 .. Len(ds1) : ~RatioLess(ds1[k].ratio, ds1[j].ratio)
    BY <1>1 DEF FirstStrongestIn
<1>4. \A i \in 1 .. k - 1 :
          \E j \in 1 .. Len(ds1) : RatioLess(ds1[i].ratio, ds1[j].ratio)
    <2>1. SUFFICES ASSUME NEW i \in 1 .. k - 1
                   PROVE  \E j \in 1 .. Len(ds1) :
                              RatioLess(ds1[i].ratio, ds1[j].ratio)
        OBVIOUS
    <2>2. PICK j \in 1 .. Len(ds) : RatioLess(ds[i].ratio, ds[j].ratio)
        BY DEF FirstStrongestIn
    <2>3. i \in 1 .. Len(ds)
        BY DEF FirstStrongestIn
    <2>4. QED
        BY <1>1, <2>2, <2>3
<1>5. QED
    BY <1>2, <1>3, <1>4 DEF FirstStrongestIn

(* A new dwell stronger than every earlier one becomes the first strongest.*)
LEMMA NewFirstStrongest ==
    ASSUME NEW ds \in Seq(DwellEntry), NEW nd \in DwellEntry,
           \A j \in 1 .. Len(ds) : RatioLess(ds[j].ratio, nd.ratio)
    PROVE  FirstStrongestIn(Append(ds, nd), Len(ds) + 1)
<1> DEFINE ds1 == Append(ds, nd)
<1>1. /\ Len(ds1) = Len(ds) + 1
      /\ ds1[Len(ds) + 1] = nd
      /\ \A i \in 1 .. Len(ds) : ds1[i] = ds[i]
    OBVIOUS
<1>2. nd.ratio \in RatioSet /\ \A j \in 1 .. Len(ds) : ds[j].ratio \in RatioSet
    <2>1. \A j \in 1 .. Len(ds) : ds[j] \in DwellEntry
        OBVIOUS
    <2>2. QED
        BY <2>1, Zenon DEF DwellEntry
<1>3. ~RatioLess(nd.ratio, nd.ratio)
    <2>1. nd.ratio.num \in Nat /\ nd.ratio.den \in Nat
        BY <1>2, RatioFacts
    <2>2. QED
        BY <2>1 DEF RatioLess
<1>4. \A j \in 1 .. Len(ds) : ~RatioLess(nd.ratio, ds[j].ratio)
    BY <1>2, RatioAsym
<1>5. \A j \in 1 .. Len(ds1) : ~RatioLess(ds1[Len(ds) + 1].ratio, ds1[j].ratio)
    BY <1>1, <1>3, <1>4
<1>6. \A i \in 1 .. Len(ds) :
          \E j \in 1 .. Len(ds1) : RatioLess(ds1[i].ratio, ds1[j].ratio)
    BY <1>1
<1>7. QED
    BY <1>1, <1>5, <1>6 DEF FirstStrongestIn

-----------------------------------------------------------------------------
LEMMA InitPInv == Init => PInv
BY DEF Init, PInv, SuccessQueued, Idle, Dwell, Positive

(* What a dwell leaves in d_test_statistics and the Acq_* fields when no   *)
(* auxiliary peaks are resolved.                                           *)
LEMMA OutcomeNoAux ==
    ASSUME NEW g \in Grids, NEW p \in Powers, NEW ts, NEW a, ~AuxMode
    PROVE  LET out == DwellOutcome(g, p, ts, a)
               upd == SearchUpdates(g, p, ts)
           IN  /\ out.found = FALSE
               /\ out.ts = IF upd THEN Ratio(DwellMax(g), p) ELSE ts
               /\ out.acq = IF upd THEN CellParams(FirstMaxCell(g)) ELSE a
<1>1. AuxFound(g, p) = FALSE
    BY DEF AuxFound
<1>2. QED
    BY <1>1 DEF DwellOutcome

(* In single-dwell mode without auxiliary peaks the decision stays in      *)
(* DWELL only below the threshold.                                         *)
LEMMA DecisionSingle ==
    ASSUME NEW wc, NEW ts, ~AuxMode, ~BitTransitionFlag
    PROVE  /\ DwellDecision(wc, FALSE, ts) = Dwell => ~AboveThreshold(ts)
           /\ DwellDecision(wc, FALSE, ts) = Positive => AboveThreshold(ts)
BY DEF DwellDecision, Dwell, Positive, Negative

LEMMA NoSuccessPopped ==
    ASSUME NEW q \in Seq({AcqSuccess, AcqFail}), Len(q) <= 1, q # <<>>
    PROVE  Tail(q) = <<>>
BY PopSingleton

LEMMA NextPInv == RInv /\ [Next]_vars => PInv'
<1> SUFFICES ASSUME IInv, PInv, [Next]_vars, ~AuxMode PROVE PInv'
    BY DEF RInv, PInv
<1> USE SearchAssumption
<1>1. CASE SetActive
    BY <1>1 DEF SetActive, IInv, PInv, SuccessQueued, Idle, Dwell, Positive
<1>2. CASE ChannelPop
    <2>1. state = Idle /\ channel_queue # <<>>
        BY <1>2 DEF ChannelPop, IInv
    <2>2. channel_queue' = <<>>
        BY <1>2, <2>1, NoSuccessPopped DEF ChannelPop, IInv, TypeOK
    <2>3. state' = Idle
        BY <1>2, <2>1 DEF ChannelPop
    <2>4. QED
        BY <2>2, <2>3 DEF PInv, SuccessQueued, Idle, Dwell, Positive
<1>3. CASE GeneralWorkIdle
    <2>1. channel_queue' = <<>>
        BY <1>3 DEF GeneralWorkIdle, IInv
    <2>2. ~AboveThreshold(Ratio(0, 1))
        BY DEF AboveThreshold, Ratio
    <2>3. NoPeakYet'
        BY <1>3 DEF GeneralWorkIdle, NoPeakYet
    <2>4. QED
        BY <1>3, <2>1, <2>2, <2>3
        DEF GeneralWorkIdle, PInv, SuccessQueued, Dwell, Positive
<1>4. CASE GeneralWorkPositive
    <2>1. state = Positive /\ ~SuccessQueued
        BY <1>4 DEF GeneralWorkPositive, IInv, SuccessQueued, Idle, Positive
    <2>2. UNCHANGED <<dwells, acq, test_statistics>>
        BY <1>4 DEF GeneralWorkPositive
    <2>3. state' = Idle
        BY <1>4 DEF GeneralWorkPositive
    <2>4. QED
        BY <2>1, <2>2, <2>3 DEF PInv, NoPeakYet, FirstStrongest,
                                 Idle, Dwell, Positive
<1>5. CASE GeneralWorkNegative
    <2>1. channel_queue = <<>>
        BY <1>5 DEF GeneralWorkNegative, IInv, Idle, Negative
    <2>2. channel_queue' = <<AcqFail>> /\ state' = Idle
        BY <1>5, <2>1 DEF GeneralWorkNegative
    <2>3. QED
        BY <2>2 DEF PInv, SuccessQueued, AcqSuccess, AcqFail, Idle, Dwell,
                    Positive
<1>6. CASE UNCHANGED vars
    BY <1>6 DEF vars, PInv, SuccessQueued, NoPeakYet, FirstStrongest
<1>7. CASE GeneralWorkDwell
    <2>1. PICK g \in Grids, p \in Powers :
              LET out == DwellOutcome(g, p, test_statistics, acq)
              IN /\ well_count' = well_count + 1
                 /\ test_statistics' = out.ts
                 /\ acq' = out.acq
                 /\ state' = DwellDecision(well_count + 1, out.found, out.ts)
                 /\ dwells' = Append(dwells,
                                     [ratio |-> Ratio(DwellMax(g), p),
                                      cell  |-> CellParams(FirstMaxCell(g))])
                 /\ higher' = HigherPeaks(g, p)
        BY <1>7 DEF GeneralWorkDwell
    <2> DEFINE M   == DwellMax(g)
               r   == Ratio(M, p)
               nd  == [ratio |-> r, cell |-> CellParams(FirstMaxCell(g))]
               upd == SearchUpdates(g, p, test_statistics)
               out == DwellOutcome(g, p, test_statistics, acq)
    <2>2. /\ out.found = FALSE
          /\ out.ts = IF upd THEN r ELSE test_statistics
          /\ out.acq = IF upd THEN CellParams(FirstMaxCell(g)) ELSE acq
        BY DEF DwellOutcome, AuxFound
    <2>3. /\ test_statistics' = IF upd THEN r ELSE test_statistics
          /\ acq' = IF upd THEN CellParams(FirstMaxCell(g)) ELSE acq
          /\ state' = DwellDecision(well_count + 1, FALSE, out.ts)
          /\ dwells' = Append(dwells, nd)
        BY <2>1, <2>2
    <2>4. state = Dwell /\ channel_queue' = <<>>
        BY <1>7 DEF GeneralWorkDwell, IInv, Idle, Dwell
    <2>5. /\ M \in 0 .. MaxMag
          /\ r \in RatioSet /\ r.num = M
          /\ nd \in DwellEntry
          /\ dwells \in Seq(DwellEntry)
          /\ test_statistics \in RatioSet
        BY GridFacts, CellFacts DEF Ratio, RatioSet, DwellEntry, IInv, TypeOK
    <2>6. upd <=> M > 0 /\ (RatioLess(test_statistics, r) \/ ~BitTransitionFlag)
        BY DEF SearchUpdates
    <2>7. CASE ~BitTransitionFlag
        <3>1. state' = Dwell => ~AboveThreshold(test_statistics')
            BY <2>2, <2>3, <2>7, DecisionSingle
        <3>2. state' = Positive =>
                 /\ Len(dwells') >= 1
                 /\ acq' = dwells'[Len(dwells')].cell
                 /\ test_statistics' = dwells'[Len(dwells')].ratio
            <4>1. SUFFICES ASSUME state' = Positive
                           PROVE  /\ Len(dwells') >= 1
                                  /\ acq' = dwells'[Len(dwells')].cell
                                  /\ test_statistics' = dwells'[Len(dwells')].ratio
                OBVIOUS
            <4>2. AboveThreshold(out.ts)
                BY <2>3, <2>7, <4>1, DecisionSingle
            <4>3. ~AboveThreshold(test_statistics)
                BY <2>4, <2>7 DEF PInv
            <4>4. upd
                BY <2>2, <4>2, <4>3
            <4>5. QED
                BY <2>3, <2>5, <4>4
        <3>3. QED
            BY <2>4, <2>7, <3>1, <3>2 DEF PInv, SuccessQueued
    <2>8. CASE BitTransitionFlag
        <3>1. NoPeakYet \/ \E k \in 1 .. Len(dwells) :
                              /\ FirstStrongest(k)
                              /\ acq = dwells[k].cell
                              /\ test_statistics = dwells[k].ratio
            BY <2>4, <2>8 DEF PInv, Idle, Dwell
        <3>2. SUFFICES \/ NoPeakYet'
                       \/ \E k \in 1 .. Len(dwells') :
                             /\ FirstStrongest(k)'
                             /\ acq' = dwells'[k].cell
                             /\ test_statistics' = dwells'[k].ratio
            BY <2>4, <2>8 DEF PInv, SuccessQueued
        <3>3. \A j \in 1 .. Len(dwells) : dwells[j] \in DwellEntry
            BY <2>5
        <3>4. CASE NoPeakYet /\ M = 0
            <4>1. ~upd
                BY <2>6, <3>4
            <4>2. QED
                BY <2>3, <2>5, <3>4, <4>1 DEF NoPeakYet
        <3>5. CASE NoPeakYet /\ M > 0
            <4>1. \A j \in 1 .. Len(dwells) : RatioLess(dwells[j].ratio, r)
                BY <2>5, <3>3, <3>5, ZeroRatio DEF NoPeakYet, DwellEntry
            <4>2. upd
                <5>1. Ratio(0, 1) \in RatioSet /\ Ratio(0, 1).num = 0
                    BY DEF Ratio, RatioSet
                <5>2. RatioLess(Ratio(0, 1), r)
                    BY <2>5, <3>5, <5>1, ZeroRatio
                <5>3. QED
                    BY <2>6, <3>5, <5>2 DEF NoPeakYet
            <4>3. FirstStrongestIn(dwells', Len(dwells) + 1)
                BY <2>3, <2>5, <4>1, NewFirstStrongest
            <4>4. QED
                <5>3. FirstStrongestIn(dwells', Len(dwells) + 1)
                    BY <4>3
                <5>4. QED
                    <6>1. /\ Len(dwells') = Len(dwells) + 1
                          /\ dwells'[Len(dwells) + 1] = nd
                        BY <2>3, <2>5
                    <6>2. /\ acq' = dwells'[Len(dwells) + 1].cell
                          /\ test_statistics' = dwells'[Len(dwells) + 1].ratio
                        BY <2>3, <4>2, <6>1
                    <6>3. Len(dwells) + 1 \in 1 .. Len(dwells')
                        BY <2>5, <6>1
                    <6>4. QED
                        BY <5>3, <6>2, <6>3 DEF FirstStrongest
        <3>6. CASE ~NoPeakYet
            <4>1. PICK k \in 1 .. Len(dwells) :
                      /\ FirstStrongest(k)
                      /\ acq = dwells[k].cell
                      /\ test_statistics = dwells[k].ratio
                BY <3>1, <3>6
            <4>2. CASE upd
                <5>1. RatioLess(test_statistics, r)
                    BY <2>6, <2>8, <4>2
                <5>2. \A j \in 1 .. Len(dwells) : RatioLess(dwells[j].ratio, r)
                    <6>1. SUFFICES ASSUME NEW j \in 1 .. Len(dwells)
                                   PROVE  RatioLess(dwells[j].ratio, r)
                        OBVIOUS
                    <6>2. ~RatioLess(dwells[k].ratio, dwells[j].ratio)
                        BY <4>1 DEF FirstStrongest, FirstStrongestIn
                    <6>3. dwells[j].ratio \in RatioSet /\ dwells[k].ratio \in RatioSet
                        BY <3>3 DEF DwellEntry
                    <6>4. QED
                        BY <2>5, <4>1, <5>1, <6>2, <6>3, RatioTrans
                <5>3. FirstStrongestIn(dwells', Len(dwells) + 1)
                    BY <2>3, <2>5, <5>2, NewFirstStrongest
                <5>4. QED
                    <6>1. /\ Len(dwells') = Len(dwells) + 1
                          /\ dwells'[Len(dwells) + 1] = nd
                        BY <2>3, <2>5
                    <6>2. /\ acq' = dwells'[Len(dwells) + 1].cell
                          /\ test_statistics' = dwells'[Len(dwells) + 1].ratio
                        BY <2>3, <4>2, <6>1
                    <6>3. Len(dwells) + 1 \in 1 .. Len(dwells')
                        BY <2>5, <6>1
                    <6>4. QED
                        BY <5>3, <6>2, <6>3 DEF FirstStrongest
            <4>3. CASE ~upd
                <5>1. ~RatioLess(test_statistics, r)
                    <6>1. CASE M = 0
                        BY <2>5, <6>1, ZeroRatio
                    <6>2. CASE M > 0
                        BY <2>6, <2>8, <4>3, <6>2
                    <6>3. QED
                        BY <2>5, <6>1, <6>2
                <5>2. FirstStrongestIn(dwells', k)
                    BY <2>3, <2>5, <4>1, <5>1, KeepFirstStrongest
                       DEF FirstStrongest
                <5>3. dwells'[k] = dwells[k] /\ k \in 1 .. Len(dwells')
                    BY <2>3, <2>5
                <5>4. QED
                    BY <2>3, <4>1, <4>3, <5>2, <5>3 DEF FirstStrongest
            <4>4. QED
                BY <4>2, <4>3
        <3>7. QED
            BY <3>4, <3>5, <3>6, <2>5
    <2>9. QED
        BY <2>7, <2>8
<1>8. QED
    BY <1>1, <1>2, <1>3, <1>4, <1>5, <1>6, <1>7 DEF Next, GeneralWork

LEMMA SpecRInv == Spec => []RInv
<1>1. Init => RInv
    BY InitIInv, InitPInv DEF RInv
<1>2. RInv /\ [Next]_vars => RInv'
    BY NextIInv, NextPInv DEF RInv
<1>3. QED
    BY <1>1, <1>2, PTL DEF Spec

LEMMA AtMostOne ==
    ASSUME NEW n \in Nat, n <= 1, NEW i \in 1 .. n
    PROVE  i = 1 /\ n = 1
OBVIOUS

(* A success waiting in a queue of at most one message is its head.        *)
LEMMA QueuedSuccessIsHead ==
    ASSUME NEW q \in Seq({AcqSuccess, AcqFail}), Len(q) <= 1,
           \E i \in 1 .. Len(q) : q[i] = AcqSuccess
    PROVE  q # <<>> /\ Head(q) = AcqSuccess
<1>1. PICK i \in 1 .. Len(q) : q[i] = AcqSuccess
    OBVIOUS
<1>2. Len(q) \in Nat
    BY LenProperties
<1>3. i = 1 /\ Len(q) = 1
    BY <1>1, <1>2, AtMostOne
<1>4. q # <<>>
    BY <1>3
<1>5. QED
    BY <1>1, <1>3, <1>4

LEMMA RInvPeak == RInv => ReportedPeakIsStrongest
<1> SUFFICES ASSUME RInv, ~AuxMode,
                    state = Positive \/ \E i \in 1 .. Len(channel_queue) :
                                           channel_queue[i] = AcqSuccess
             PROVE  /\ acq = ReferenceDwell.cell
                    /\ test_statistics = ReferenceDwell.ratio
    BY DEF ReportedPeakIsStrongest
<1>1. state = Positive \/ SuccessQueued
    BY QueuedSuccessIsHead DEF RInv, IInv, TypeOK, SuccessQueued
<1>2. AboveThreshold(test_statistics)
    BY <1>1 DEF RInv, IInv, SuccessQueued
<1>3. CASE ~BitTransitionFlag
    BY <1>1, <1>3 DEF RInv, PInv, ReferenceDwell
<1>4. CASE BitTransitionFlag
    <2>1. state # Idle \/ SuccessQueued
        BY <1>1 DEF Idle, Positive
    <2>2. ~NoPeakYet
        <3>1. ~AboveThreshold(Ratio(0, 1))
            BY SearchAssumption DEF AboveThreshold, Ratio
        <3>2. QED
            BY <1>2, <3>1 DEF NoPeakYet
    <2>3. PICK k \in 1 .. Len(dwells) :
              /\ FirstStrongest(k)
              /\ acq = dwells[k].cell
              /\ test_statistics = dwells[k].ratio
        BY <1>4, <2>1, <2>2 DEF RInv, PInv
    <2>4. StrongestDwell = dwells[k]
        BY <2>3, StrongestIsFirst DEF RInv, IInv
    <2>5. QED
        BY <1>4, <2>3, <2>4 DEF ReferenceDwell
<1>5. QED
    BY <1>3, <1>4

(* For every value of the constants, a positive acquisition, and the       *)
(* success it leaves on the channel queue, report the code phase, Doppler *)
(* and statistic of the reference dwell: the last dwell in single-dwell   *)
(* mode, and the first strongest dwell of the attempt with                 *)
(* bit_transition_flag, where general_work keeps d_test_statistics and the *)
(* Acq_* fields across the dwells of an attempt.                           *)
THEOREM PeakCorrect == Spec => []ReportedPeakIsStrongest
BY SpecRInv, RInvPeak, PTL

=============================================================================
