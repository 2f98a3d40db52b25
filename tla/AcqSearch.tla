----------------------------- MODULE AcqSearch -----------------------------
(***************************************************************************)
(* The search kernel of one acquisition dwell of pcps_sd_acquisition_cc    *)
(* (general_work, case 1), in closed form.                                 *)
(*                                                                         *)
(* A dwell correlates the input block against every Doppler bin; for each  *)
(* bin the code computes |IFFT|^2 over fft_size samples.  The model keeps  *)
(* the result of that signal processing as a grid: one normalised          *)
(* magnitude (a natural in 0..MaxMag) per cell, a cell being a (Doppler    *)
(* bin, sample index) pair numbered in the order the code visits them      *)
(* (bin-major, then index).  The FFTs themselves are not modelled; what    *)
(* the code does with their output is: the running maximum over bins, the *)
(* update of the synchronisation record and of d_test_statistics, the map *)
(* of peaks above the spoofing threshold and the auxiliary-peak choice.    *)
(*                                                                         *)
(* Test statistics are ratios mag / input_power, kept as records           *)
(* [num, den] and compared by cross-multiplication.                        *)
(***************************************************************************)
EXTENDS Integers, FiniteSets

CONSTANTS
    DopplerMax,        \* d_doppler_max (Hz, in units of the model)
    DopplerStep,       \* d_doppler_step
    FftSize,           \* d_fft_size = sampled_ms * samples_per_ms
    SamplesPerCode,    \* d_samples_per_code
    MaxMag,            \* largest normalised correlation magnitude considered
    Powers,            \* the input power estimates d_input_power a block may have
    Threshold,         \* d_threshold
    Peak,              \* d_peak: number of peaks to resolve (1 = no auxiliary peaks)
    BitTransitionFlag, \* d_bit_transition_flag
    MaxDwells          \* d_max_dwells

ASSUME SearchAssumption ==
    /\ DopplerMax \in Nat
    /\ DopplerStep \in Nat \ {0}
    /\ FftSize \in Nat \ {0}
    /\ SamplesPerCode \in Nat \ {0}
    /\ MaxMag \in Nat
    /\ Powers \subseteq Nat \ {0}
    /\ Powers # {}
    /\ Threshold \in Nat
    /\ Peak \in Nat \ {0}
    /\ BitTransitionFlag \in BOOLEAN
    /\ MaxDwells \in Nat \ {0}

-----------------------------------------------------------------------------
(* Least and greatest element of a set of naturals.                        *)
Least(T) == CHOOSE x \in T : \A y \in T : x <= y
Greatest(T) == CHOOSE x \in T : \A y \in T : y <= x

AbsDiff(a, b) == IF a >= b THEN a - b ELSE b - a

(* init(): one bin per doppler in -doppler_max, -doppler_max + step, ...,  *)
(* up to doppler_max.                                                      *)
NumDopplerBins == (2 * DopplerMax) \div DopplerStep + 1

Cells == 0 .. NumDopplerBins * FftSize - 1
BinOf(c) == c \div FftSize
IndexOf(c) == c % FftSize
DopplerOf(c) == -DopplerMax + DopplerStep * BinOf(c)
CodePhaseOf(c) == IndexOf(c) % SamplesPerCode

(* The Acq_delay_samples / Acq_doppler_hz pair a cell reports.             *)
CellParams(c) == [delay |-> CodePhaseOf(c), doppler |-> DopplerOf(c)]

Grids == [Cells -> 0 .. MaxMag]

Ratio(n, d) == [num |-> n, den |-> d]
RatioLess(a, b) == a.num * b.den < b.num * a.den
AboveThreshold(r) == r.num > Threshold * r.den

-----------------------------------------------------------------------------
(* Steps 2-4: volk_32f_index_max_16u keeps the first maximum of a bin and *)
(* "if (d_mag < magt)" keeps the first bin reaching the running maximum,   *)
(* so the peak retained is the first cell, in visiting order, carrying the *)
(* largest magnitude of the dwell.                                         *)
DwellMax(g) == Greatest({g[c] : c \in Cells})
FirstMaxCell(g) == Least({c \in Cells : g[c] = DwellMax(g)})

(* Whether the dwell overwrites the synchronisation record and            *)
(* d_test_statistics.  The running maximum d_mag starts at 0 in every      *)
(* dwell, so nothing is written when every magnitude is 0 (a zero or NaN   *)
(* block).  With bit_transition_flag the maximum must also beat the        *)
(* statistics kept from the earlier dwells.                                *)
(* Fault: the bit_transition_flag comparison with the kept statistics is *)
(* dropped, so a weaker later dwell overwrites a stronger earlier one.     *)
SearchUpdatesNoBit(g, p, ts) == DwellMax(g) > 0

SearchUpdates(g, p, ts) ==
    /\ DwellMax(g) > 0
    /\ RatioLess(ts, Ratio(DwellMax(g), p)) \/ ~BitTransitionFlag

-----------------------------------------------------------------------------
(* The auxiliary peaks.  "peaks" is a std::map keyed by the normalised     *)
(* magnitude: a cell above threshold_spoofing overwrites the entry of an   *)
(* earlier cell of equal magnitude, so each key holds the last cell that   *)
(* carries it.                                                             *)
AuxMode == Peak > 1

PeakKeys(g, p) == {g[c] : c \in {x \in Cells : g[x] > Threshold * p}}
PeakCell(g, v) == Greatest({c \in Cells : g[c] = v})

(* Position of key v when the map is walked from its largest key down.     *)
Rank(g, p, v) == Cardinality({w \in PeakKeys(g, p) : w > v})

(* higher_peaks: the (code phase, doppler) pairs of the first d_peak keys. *)
HigherPeaks(g, p) ==
    { <<CodePhaseOf(PeakCell(g, v)), DopplerOf(PeakCell(g, v))>> :
        v \in {w \in PeakKeys(g, p) : Rank(g, p, w) < Peak} }

(* use_this_peak, as written: next_doppler is read from it->first, the     *)
(* code phase of the higher peak, not from it->second.                     *)
UsablePeak(g, p, v) ==
    \A h \in HigherPeaks(g, p) :
        ~ ( /\ AbsDiff(h[1], CodePhaseOf(PeakCell(g, v))) < 2 * SamplesPerCode
            /\ h[1] = DopplerOf(PeakCell(g, v)) )

AuxCandidates(g, p) ==
    {v \in PeakKeys(g, p) : Rank(g, p, v) >= Peak /\ UsablePeak(g, p, v)}

(* found_peak, and the peak the reverse walk stops at.                     *)
AuxFound(g, p) == AuxMode /\ AuxCandidates(g, p) # {}
AuxPeak(g, p) == Greatest(AuxCandidates(g, p))

-----------------------------------------------------------------------------
(* Fault: the index search keeps the last index of the maximum (>= in    *)
(* place of >), so a tie reports the later cell.                          *)
DwellOutcomeLastMax(g, p, ts, a) ==
    LET upd   == SearchUpdates(g, p, ts)
        found == AuxFound(g, p)
    IN [ts    |-> IF found THEN Ratio(AuxPeak(g, p), p)
                  ELSE IF upd THEN Ratio(DwellMax(g), p) ELSE ts,
        acq   |-> IF found THEN CellParams(PeakCell(g, AuxPeak(g, p)))
                  ELSE IF upd THEN CellParams(PeakCell(g, DwellMax(g))) ELSE a,
        found |-> found]

(* What a dwell leaves in d_test_statistics and the Acq_* fields, given    *)
(* those it started from, and whether an auxiliary peak was found.         *)
DwellOutcome(g, p, ts, a) ==
    LET upd   == SearchUpdates(g, p, ts)
        ts1   == IF upd THEN Ratio(DwellMax(g), p) ELSE ts
        a1    == IF upd THEN CellParams(FirstMaxCell(g)) ELSE a
        found == AuxFound(g, p)
    IN [ts    |-> IF found THEN Ratio(AuxPeak(g, p), p) ELSE ts1,
        acq   |-> IF found THEN CellParams(PeakCell(g, AuxPeak(g, p))) ELSE a1,
        found |-> found]

=============================================================================
