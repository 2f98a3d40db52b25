----------------------------- MODULE MCAcqScan -----------------------------
(***************************************************************************)
(* The dwell of general_work case 1 written as the code's loops, statement *)
(* by statement, checked against the closed form DwellOutcome of          *)
(* AcqSearch for every grid, input power and incoming statistics of a     *)
(* small instance.  TLC only: the loops are RECURSIVE operators.           *)
(***************************************************************************)
EXTENDS AcqSearch, Sequences

Cell(k, i) == k * FftSize + i

(* Fault: the index search keeps the last index of the maximum.          *)
RECURSIVE IndexMaxFromGe(_, _, _, _)
IndexMaxFromGe(g, k, i, best) ==
    IF i = FftSize THEN best
    ELSE IndexMaxFromGe(g, k, i + 1,
                        IF g[Cell(k, i)] >= g[Cell(k, best)] THEN i ELSE best)

(* volk_32f_index_max_16u: the first index of the largest value.           *)
RECURSIVE IndexMaxFrom(_, _, _, _)
IndexMaxFrom(g, k, i, best) ==
    IF i = FftSize THEN best
    ELSE IndexMaxFrom(g, k, i + 1,
                      IF g[Cell(k, i)] > g[Cell(k, best)] THEN i ELSE best)

(* Fault: the Doppler loop ignores bit_transition_flag.                   *)
RECURSIVE DopplerLoopNoBit(_, _, _, _, _)
DopplerLoopNoBit(g, p, k, st, bit) ==
    IF k = NumDopplerBins THEN st
    ELSE LET indext == IndexMaxFrom(g, k, 1, 0)
             magt   == g[Cell(k, indext)]
             better == st.mag < magt
         IN DopplerLoopNoBit(g, p, k + 1,
              [mag |-> IF better THEN magt ELSE st.mag,
               ts  |-> IF better THEN Ratio(magt, p) ELSE st.ts,
               acq |-> IF better THEN CellParams(Cell(k, indext)) ELSE st.acq],
              bit)

(* The Doppler loop: st holds d_mag, d_test_statistics and the Acq_*       *)
(* fields after the bins before k; bit is d_bit_transition_flag.           *)
RECURSIVE DopplerLoop(_, _, _, _, _)
DopplerLoop(g, p, k, st, bit) ==
    IF k = NumDopplerBins THEN st
    ELSE LET indext == IndexMaxFrom(g, k, 1, 0)
             magt   == g[Cell(k, indext)]
             better == st.mag < magt
             rec    == better /\ (RatioLess(st.ts, Ratio(magt, p))
                                  \/ ~bit)
         IN DopplerLoop(g, p, k + 1,
              [mag |-> IF better THEN magt ELSE st.mag,
               ts  |-> IF rec THEN Ratio(magt, p) ELSE st.ts,
               acq |-> IF rec THEN CellParams(Cell(k, indext)) ELSE st.acq],
              bit)

(* peaks[tmp] = mtmp for every cell above threshold_spoofing, in the       *)
(* order the cells are visited.                                            *)
RECURSIVE PeaksLoop(_, _, _, _)
PeaksLoop(g, p, c, m) ==
    IF c = NumDopplerBins * FftSize THEN m
    ELSE PeaksLoop(g, p, c + 1,
           IF g[c] > Threshold * p
           THEN [v \in DOMAIN m \cup {g[c]} |-> IF v = g[c] THEN c ELSE m[v]]
           ELSE m)

(* The reverse walk over peaks: the first d_peak entries fill              *)
(* higher_peaks, the first later entry that passes use_this_peak is taken. *)
RECURSIVE ReverseWalk(_, _, _, _)
ReverseWalk(m, keys, i, hp) ==
    IF keys = {} THEN [found |-> FALSE, key |-> 0]
    ELSE LET v    == Greatest(keys)
             cp   == CodePhaseOf(m[v])
             dop  == DopplerOf(m[v])
             rest == keys \ {v}
         IN IF i < Peak
            THEN ReverseWalk(m, rest, i + 1, hp \cup {<<cp, dop>>})
            ELSE IF \A h \in hp : ~(AbsDiff(h[1], cp) < 2 * SamplesPerCode
                                    /\ h[1] = dop)
                 THEN [found |-> TRUE, key |-> v]
                 ELSE ReverseWalk(m, rest, i, hp)

ScanOutcome(g, p, ts, a, bit) ==
    LET st    == DopplerLoop(g, p, 0, [mag |-> 0, ts |-> ts, acq |-> a], bit)
        m     == PeaksLoop(g, p, 0, [v \in {} |-> 0])
        walk  == IF AuxMode /\ DOMAIN m # {}
                 THEN ReverseWalk(m, DOMAIN m, 0, {})
                 ELSE [found |-> FALSE, key |-> 0]
    IN [ts    |-> IF walk.found THEN Ratio(walk.key, p) ELSE st.ts,
        acq   |-> IF walk.found THEN CellParams(m[walk.key]) ELSE st.acq,
        found |-> walk.found]

-----------------------------------------------------------------------------
(* The closed form for either value of d_bit_transition_flag.             *)
Closed(b) == INSTANCE AcqSearch WITH BitTransitionFlag <- b

VARIABLES grid, power, stats, record, bit

vars == <<grid, power, stats, record, bit>>

Init ==
    /\ bit \in BOOLEAN
    /\ grid \in Grids
    /\ power \in Powers
    /\ stats \in {Ratio(n, d) : n \in 0 .. MaxMag, d \in Powers \cup {1}}
    /\ record \in {CellParams(c) : c \in {0, NumDopplerBins * FftSize - 1}}

Next == UNCHANGED vars

Spec == Init /\ [][Next]_vars

(* The closed form the acquisition model uses computes what the code's    *)
(* loops compute: the same d_test_statistics, the same Acq_* fields and   *)
(* the same found_peak, for every dwell input and either value of         *)
(* d_bit_transition_flag.                                                  *)
ScanMatchesClosedForm ==
    ScanOutcome(grid, power, stats, record, bit)
      = Closed(bit)!DwellOutcome(grid, power, stats, record)

=============================================================================
