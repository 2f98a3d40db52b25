# Verification models of the GNSS-SDR acquisition and CADLL tracking blocks

This directory holds the TLA+ models and the TLC configurations for two blocks of the receiver channel and for their composition over one sample stream. It also holds TLAPS proofs about the acquisition block, the tracking control and the composition. The two blocks are:

* `pcps_sd_acquisition_cc` (`src/src/algorithms/acquisition/gnuradio_blocks/pcps_sd_acquisition_cc.cc`). This is parallel code-phase search acquisition with spoofing detection through auxiliary peaks.
* `Gps_L1_Ca_Dll_Pll_CADLL_Tracking_cc` (`src/unnamed/part_000`). This is DLL/PLL tracking with a second code DLL that follows a secondary (spoofing) signal.

`PROJECT.json` lists every component, run, mutant, source mapping, finding, hazard and theorem.

## 1. The system and how its parts interact

A channel works as follows:

1. The channel controller (not in `src/`) arms acquisition with `set_active(true)`.
2. The acquisition `general_work` runs in the GNU Radio scheduler thread through four states: IDLE 0, DWELL 1, POSITIVE 2 and NEGATIVE 3.
3. In DWELL it correlates each input block against every Doppler bin. It keeps the strongest cell in `d_test_statistics` and in the `Acq_*` fields of the shared `Gnss_Synchro` record. With `d_peak > 1` it walks the map of peaks above `threshold_spoofing` to report an *auxiliary* peak instead.
4. It decides positive or negative, as the single-dwell or two-dwell (`bit_transition_flag`) rules say.
5. It clears `d_active` and pushes 1 (success) or 2 (failure) on the channel's internal queue.
6. On success the controller calls tracking's `start_tracking`, which reads the `Acq_*` fields.

Tracking's `general_work` does the rest:

* It first pulls in: it drops samples to align with the code start.
* It then processes one PRN period per call.
* It estimates CN0 every `CN0_ESTIMATION_SAMPLES` periods.
* It counts failed lock tests. Above `MAXIMUM_LOCK_FAIL_COUNTER` it posts `(channel, 2)` and disables itself.
* `stop_tracking` also posts `(channel, 2)`.
* After one second of stream time, with `CADLL_init` set, it seeds the secondary DLL from the primary and then runs it freely.

## 2. Modules

| Module | Models | Kind |
|---|---|---|
| `AcqSearch` | one dwell of acquisition case 1, in closed form | operators, `ASSUME SearchAssumption` |
| `MCAcqScan` | the same dwell written as the code's loops (RECURSIVE), checked equal to `AcqSearch` | TLC only |
| `Acquisition` | acquisition state machine (all of `general_work`) + the channel's `set_active` and queue pop | specification |
| `AcqService` | what acquisition promises the controller: armed, at most `MaxTries` dwells, one justified answer | abstract specification |
| `AcquisitionProofs` | TLAPS: type correctness, decision soundness and the refinement of `AcqService` for all constants | proofs |
| `AcqPeakProofs` | TLAPS: `ReportedPeakIsStrongest` for all constants | proofs |
| `MCAcquisition` | instantiation for TLC | MC |
| `Tracking` | tracking control: `start_tracking`, `stop_tracking`, every path of `general_work` | specification |
| `TrackingProofs` | TLAPS: type correctness and `NoFalseLossOfLock` for all constants | proofs |
| `MCTracking` | instantiation for TLC | MC |
| `ChannelStream` | acquisition and tracking as two readers of one sample stream, each with its own sample counter, joined by the controller's queues | specification, `ASSUME StreamAssumption` |
| `ChannelStreamProofs` | TLAPS: one stage at a time, and the pull-in alignment for all constants | proofs |
| `ChannelStreamBounds` | TLAPS: the channel's types and the bound on tracking's overrun, for all constants | proofs |
| `MCChannelStream` | instantiation for TLC | MC |

### AcqSearch: the dwell kernel

The FFT output of a dwell is abstracted as a *grid*. This is a function from cells to a normalised magnitude in `0..MaxMag`, with an input power taken from `Powers`.

* Cells are numbered in the code's visiting order: bin-major, then sample index.
* Statistics are ratios `[num, den]`, compared by cross-multiplication (`RatioLess`).
* `FirstMaxCell` is the first cell with the maximum magnitude. `max_index` takes the first index per bin (line 315), and the strict `>` at 356 keeps the first bin.
* `SearchUpdates` says whether the dwell overwrites `d_test_statistics` and `Acq_*`. With `bit_transition_flag` this depends on the incoming statistic (lines 349-366).
* `PeakKeys` and `PeakCell` model `std::map<float, pair>` keyed by magnitude. Each key keeps the last cell that wrote it (328-330).
* `Rank`, `HigherPeaks`, `UsablePeak`, `AuxCandidates` and `AuxPeak` model the reverse walk at 397-450:
  * the first `d_peak` entries are only recorded;
  * a later entry is usable when it is more than two code lengths away from, or at another Doppler than, every higher peak;
  * the last usable one, meaning the smallest magnitude, overwrites the record.
* `UsablePeak` keeps the code's bug at line 424: the "Doppler" of a higher peak is its code phase.

`MCAcqScan` writes the same dwell as the loops themselves (`DopplerLoop`, `IndexMaxFrom`, `PeaksLoop`, `ReverseWalk`). Its runs check that the loops equal the closed form for **every** grid of the instance. The state machine and the proofs therefore use the closed form, which has no recursion.

### Acquisition: the state machine

| Variable | Code |
|---|---|
| `active` | `d_active` |
| `state` | `d_state` |
| `well_count` | `d_well_count` |
| `test_statistics` | `d_test_statistics` |
| `acq` | `Acq_delay_samples`, `Acq_doppler_hz` |
| `channel_queue` | `d_channel_internal_queue` |
| `dwells`, `higher` | history for the properties |

The actions are:

* `GeneralWorkIdle` is case 0.
* `GeneralWorkDwell` is case 1. It picks a grid and a power, applies `DwellOutcome`, and decides with `DwellDecision`. `DwellDecision` is the code's if/else-if ladder at 451-483, written as nested IF.
* `GeneralWorkPositive` and `GeneralWorkNegative` are cases 2 and 3.
* `SetActive` and `ChannelPop` are the channel's side. They are modelled from the spec, because the header and the controller are not in `src/`.

### Tracking: the control of the CADLL block

A prompt is `Good` or `Bad`. The lock and CN0 test of a buffer (`LockTestFails`) behaves as follows:

| Buffer | Test result |
|---|---|
| all `Bad` | fails |
| all `Good` | passes |
| mixed | either |

The environment may make the signal noisy (`NoiseStarts`). From then on every prompt is `Bad`.

The actions are:

* `Init` is the constructor. `cadll_init` starts as either Boolean, because the code never initialises it.
* `StartTracking` is lines 203-290. It resets the fail counter, but neither the CN0 counter nor the buffer.
* `StopTracking` is lines 189-200. It posts unconditionally.
* `GeneralWorkPullIn` is lines 423-444.
* `GeneralWorkNaN` is the early return at lines 513-534.
* `GeneralWorkTrack` is one PRN period (446-770): store or evaluate the CN0 buffer, count failures, declare loss of lock and post, and seed the secondary DLL.
* `GeneralWorkDisabled` is lines 839-864.

Stream time saturates past `PromoteAt`. Only the comparison `Tracking_timestamp_secs > 1` reads it.

### AcqService and the refinement

`AcqService` says what the controller may rely on, with the search left abstract. `Arm` is `set_active(true)` on an empty queue. `Search` is one dwell that leaves some statistic. `Answer(r)` pushes the one answer of the attempt, justified by `Justified(r)`. `Consume` is the controller's pop. `Acquisition` defines `Service == INSTANCE AcqService WITH ...`:

| Abstract | Concrete |
|---|---|
| `armed` | `active` |
| `tries` | `well_count` outside IDLE, else 0 |
| `stat` | `test_statistics` outside IDLE, else 0 |
| `answer` | `channel_queue` |
| `Strong` | the ratios above `d_threshold` |
| `FailEarly`, `DecideLast` | auxiliary mode, `bit_transition_flag` |

Case 0 with `d_active` set and the pushes of cases 2 and 3 map to stutters or to `Answer`, and each dwell maps to `Search`. `ServiceRefined == Service!Spec`, fairness included, is a property of the four passing acquisition runs.

### ChannelStream: acquisition, tracking and the controller on one stream

GNU Radio fans one source out to both blocks, and each block keeps its own `d_sample_counter`. The composition keeps those counters in samples:

| Variable | Code |
|---|---|
| `written` | samples the source has produced |
| `boundary` | offset of the first PRN start in the stream (zero Doppler: starts at `boundary + k*PrnLength`) |
| `acq_counter`, `acq_state`, `active`, `well_count` | acquisition's `d_sample_counter`, `d_state`, `d_active`, `d_well_count` |
| `record` | `Acq_delay_samples` and `Acq_samplestamp_samples` of the shared `Gnss_Synchro` |
| `trk_counter`, `prn_len` | tracking's `d_sample_counter`, `d_current_prn_length_samples` |
| `enable`, `pull_in`, `trk_phase`, `trk_stamp` | `d_enable_tracking`, `d_pull_in`, `d_acq_code_phase_samples`, `d_acq_sample_stamp` |
| `channel_queue`, `control_queue` | the channel's internal queue and the controller's message queue |

The actions are:

* `Source` writes one sample. The blocks' buffers are bounded by `BufSize`: the source waits for the slower reader.
* `AcqIdle`, `AcqDwell` and `AcqDecide` are cases 0, 1 and 2/3, with their `consume_each`. A strong dwell records the code phase of the stream's PRN start and the stamp; a weak one any phase.
* `TrkDisabled` is the disabled path (839-864). It consumes `d_current_prn_length_samples`, which keeps the last tracked length.
* `TrkPullIn` is 426-443. `PullInOffset` computes `d_acq_code_phase_samples + d_current_prn_length_samples - fmod(delay, d_current_prn_length_samples)`; `FMod` is C's `fmod`, with the sign of the dividend (`TruncDiv`).
* `TrkTrack` is one tracked PRN. The next `d_current_prn_length_samples` comes from the code NCO (596-632) and may differ from `PrnLength` by up to `LengthJitter`. Loss of lock posts `(channel, 2)` and clears `d_enable_tracking` (704-737).
* `ControllerSuccess`, `ControllerFail` and `ControllerLost` are the channel state machine of spec 4.H. On success it calls `start_tracking` (203-247), which copies the record and resets the PRN length.

## 3. Runs

| Run | What it shows |
|---|---|
| `acq_single` | In single-dwell mode: the reported peak is the first maximum of the last dwell (`ReportedPeakIsStrongest`); every pushed result is justified and the engine is idle and disarmed (`DecisionSound`); every arming is answered (`ActivationAnswered`). |
| `acq_bit` | The same in two-dwell mode, where `d_test_statistics` is carried from dwell 1 to dwell 2. The reported peak is that of the *strongest* dwell. |
| `acq_aux` | Auxiliary peaks (`d_peak = 2`) with several higher peaks. |
| `acq_bit_aux` | Two-dwell mode with auxiliary peaks. The auxiliary overwrite of dwell 1 lowers the statistic that dwell 2 compares against. |
| `acq_scan` | `ScanMatchesClosedForm`: the code's loops compute `DwellOutcome` for every grid of magnitudes, every power and every incoming statistic of the instance, with `bit_transition_flag` both false and true (the variable `bit`; the closed form is `Closed(bit) == INSTANCE AcqSearch WITH BitTransitionFlag <- bit`). |
| `chan_stream` | Composition. `OneStageAtATime`: exactly one of acquisition armed, an answer queued, tracking enabled and a loss of lock queued. `PullInAligned`: every pull-in puts tracking's counter on a PRN start, whether tracking's counter is ahead of or behind acquisition's stamp. `OverrunBelowPrn`: tracking's counter never gets more than `PrnLength - 2` samples past the samples written. |
| `trk_control` | Three sessions with stale CN0 buffers, a NaN block and promotion. `NoFalseLossOfLock`: loss of lock is declared only in a session that saw a bad prompt. `LockLossEventuallyDeclared`: persistent noise always ends tracking. |
| `acq_aux_doppler` (violation) | `AuxPeakDisjoint` fails: the code bug at line 424. |
| `trk_latency` (violation) | `LockLossWithinSpecBound` fails: declaring loss of lock takes longer than the spec's bound. |
| `trk_duplicate_stop` (violation) | `LockLossReportedOnce` fails: `stop_tracking` posts a second `(channel, 2)`. |
| `trk_cadll_seed` (violation) | `SecondarySeeded` fails: the secondary DLL runs unseeded. |
| `chan_pullin_input` (violation) | `PullInWithinInput` fails: the pull-in consumes more samples than tracking was given. |

The four acquisition runs also check `ServiceRefined`.

**Finding of `chan_pullin_input`.** Acquisition may read further into the stream than tracking before the controller starts tracking. Then `acq_to_trk_delay_samples` is negative, `fmod` returns a negative remainder and the correction exceeds one PRN. In TLC's trace the PRN length is 3, tracking has 6 samples, the delay is -2 and the code phase 2, so `samples_offset` is 7. `forecast` guarantees only `2*d_vector_length` samples, so `consume_each(7)` goes past the input. The alignment itself is right; it is proved below. The overrun is bounded: `OverrunBelowPrn` (checked on `chan_stream`, proved in `ChannelStreamBounds`) says it is at most `PrnLength - 2` samples. It can only come from the pull-in, and every later call of tracking starts inside the stream again.

Each property of a passing run has a mutant in `PROJECT.json`, and TLC finds the property violated under it. The mutants are:

* an off-by-one dwell limit;
* the decision without the threshold;
* the last maximum instead of the first;
* the update that ignores the incoming statistic;
* `d_active` left set;
* the wrong result code;
* a silent return to IDLE;
* the fail counter without its floor;
* a `start_tracking` that keeps the fail counter;
* an inverted lock test;
* acquisition IDLE that does not reset `d_well_count`;
* loss of lock that leaves tracking enabled;
* the delay computed with its sign swapped;
* a disabled tracking call without the `forecast` guarantee (`TrkDisabledNoForecast`).

### Bounds

The acquisition instances use the following bounds:

* **Doppler bins:** three (`DopplerMax = 1`, `Step = 1`), or two in auxiliary mode.
* **Samples:** `FftSize = SamplesPerCode = 2`.
* **Magnitudes:** up to 2 or 4.
* **Powers:** 1 and 2.
* **Dwells:** `MaxDwells = 2`.

These bounds are enough for the following cases:

* ties between bins and within a bin, which the first-maximum rule decides;
* a dwell weaker than, equal to and stronger than the carried statistic;
* magnitude collisions in the peaks map;
* higher peaks close in code phase at the same and at another Doppler;
* the single-dwell exit at `MaxDwells` and the two-dwell exit at dwell 2.

The composition uses `PrnLength = FftSize = 3`, `MaxDwells = 2`, `BufSize = 9`, `LengthJitter = 1` and 24 samples. With these, either reader can run up to three PRNs ahead of the other, so the delay at pull-in takes both signs. The jittered PRN length carries into the disabled path, so tracking's counter leaves the PRN grid before a pull-in. The run stops when the source ends (`CHECK_DEADLOCK FALSE`: the file source is finite).

The tracking instances use `CN0Samples = 3`, `MaxLockFail = 2` and three sessions. With these, the fail counter can reach its limit, decay, and be reset. The CN0 buffer can be stale across sessions, and promotion can happen within one session and not in the next.

### Fairness

Both specifications assume weak fairness of `GeneralWork`. This is justified because the GNU Radio scheduler keeps calling `general_work` while the block has input. The input is a continuous sample stream, and `forecast` asks for a bounded number of items. The channel's steps, the calls of `start_tracking` and `stop_tracking`, and the noise are not fair: the properties hold whatever the environment does. `ChannelStream` assumes no fairness: its properties are safety properties.

## 4. Proofs (TLAPS)

### AcquisitionProofs

The proofs hold for every value of the constants that satisfies `SearchAssumption`: naturals, non-empty positive `Powers`, `Peak >= 1` and `MaxDwells >= 1`.

* **`TypeCorrect`:** `Spec => []TypeOK`.
* **`DecisionSoundness`:** `Spec => []DecisionSound`.

Neither property is inductive by itself. For example, a DWELL step that reaches `MaxDwells` would break the `well_count` bound unless DWELL implied `well_count < MaxDwells`. Both theorems therefore go through `IInv`, which TLC also checks on the acquisition instances. `IInv` adds the following:

* DWELL implies `well_count < MaxDwells`;
* outside IDLE the engine is armed and the queue is empty;
* the queue holds at most one result, and only while the engine is idle and disarmed;
* POSITIVE implies the statistic is above the threshold;
* NEGATIVE without auxiliary peaks implies `well_count = MaxDwells` and a statistic below the threshold;
* the same two implications hold for the result at the head of the queue.

`InitIInv` and `NextIInv` prove it inductive. `NextIInv` has one case per action. The DWELL case rests on lemmas about the kernel:

* `LeastProp` and `GreatestProp`: the least and greatest elements of finite sets of naturals, via well-founded induction;
* `CellFacts`, `GridFacts`, `PeakFacts` and `OutcomeType`: `DwellOutcome` is well typed for every grid;
* `DecisionFacts`: what each branch of the decision ladder implies.

**`Refinement`:** `Spec => Service!Safety`. `StepRefines` shows that every step allowed by `IInv` is a step of `AcqService` under the mapping, or a stutter: a dwell is `Search` because `IInv` bounds `well_count`, and the push of case 2 or 3 is `Answer` because `IInv` makes the result justified (the same facts as `DecisionSound`).

### TrackingProofs

`TrackingTypeCorrect` and `NoFalseLossOfLockHolds` hold for every `CN0Samples`, `MaxLockFail` and bound. `NoFalseLossOfLock` is not inductive: a good session may start with a stale buffer. `TInv` adds that an enabled session has posted nothing, and that in a good session the fail counter is at most 1, and is 1 only while the buffer filled so far is all good. That is, at most the first evaluation of a session can fail, and then the next must pass (`GoodBufferPasses`).

### ChannelStreamProofs

These hold for every value of the constants that satisfies `StreamAssumption`.

* **`OneStageInvariant`:** `Spec => []OneStageAtATime`. This goes through `CInv`: weak types, `OneStageAtATime`, and DWELL/decided states only while armed.
* **`PullInAlignedHolds`:** `Spec => PullInAligned`. `CInv` also carries that a strong record, the queued success and the pulled-in pair `(trk_stamp, trk_phase)` are *aligned*: stamp plus phase is a PRN start.

`PullInArith` is the arithmetic core. If `stamp + phase - boundary = i*L` and `fmod(d, L) = d - L*k` with `d = counter - stamp`, then `counter + phase + L - fmod(d, L) - boundary = (i + 1 + k)*L`, whatever the sign of `d`.

### AcqPeakProofs

**`PeakCorrect`:** `Spec => []ReportedPeakIsStrongest`, for every value of the constants. `ReportedPeakIsStrongest` is not inductive. It speaks only of POSITIVE and of a queued success. Meanwhile `d_test_statistics` and the `Acq_*` fields are kept from one call of `general_work` to the next, and the dwells that lead to the decision update them. `PInv` says what they hold throughout an attempt without auxiliary peaks:

* in single-dwell mode, while dwelling, the kept statistic is below the threshold. So a dwell that writes nothing cannot turn positive, and at POSITIVE (or with a success queued) the fields are those of the last dwell;
* in two-dwell mode, either no dwell had a non-zero peak (`NoPeakYet`: the fields still hold what case 0 wrote), or the fields hold the ratio and cell of the first dwell that no other dwell beats (`FirstStrongest(k)`).

The proof uses `RInv == IInv /\ PInv`, which TLC also checks on `acq_single` and `acq_bit`. Its supporting lemmas are:

* the ratio order: `RatioLess` compares by cross-multiplication. `RatioAsym` and `RatioTrans` show that it is a strict weak order;
* `StrongestIsFirst`: `FirstStrongest(k)` picks out `StrongestDwell` (through `LeastProp`);
* `KeepFirstStrongest` / `NewFirstStrongest`: a new dwell either keeps the first strongest or becomes it, exactly when the code's `d_mag > d_test_statistics` update fires;
* `QueuedSuccessIsHead`: a success anywhere in the one-element queue is its head.

### ChannelStreamBounds

**`StreamTypeCorrect`:** `Spec => []TypeOK`. **`OverrunBounded`:** `Spec => []OverrunBelowPrn`. Both hold for every value of the constants that satisfies `StreamAssumption`. `TypeOK` is not inductive: a dwell increments `d_well_count`. `SInv` adds that DWELL implies `d_well_count < d_max_dwells`, and carries `OverrunBelowPrn`. The arithmetic lemmas are:

* `FModRange`: C `fmod` by `L` lies in `-(L-1)..L-1`. Hence `OffsetRange`: the pull-in offset lies in `1..3L-2`;
* `VectorsAdvance`: consuming `n` of the `(written - counter) / d_fft_size` whole vectors stays within the samples written.

With the `2*d_vector_length` of `forecast`, a tracked PRN (at most `L + LengthJitter <= 2L - 1` samples) stays inside the input, and a pull-in overruns it by at most `L - 2`.

### What stays with TLC

The following are checked only with TLC, on the small instances above:

* the liveness properties, because the prover does not handle liveness under fairness or ENABLED;
* the equivalence of loops and closed form, because it is recursive, and `MCAcqScan` declares RECURSIVE operators;
* `LockLossEventuallyDeclared` and the fairness part of `ServiceRefined`;
* the violations, which are about particular traces.

## 5. Not modelled

* **Floating-point signal processing:** the FFTs, the discriminators, the loop filters, the NCO recurrences (`K_blk`, `rem_code_phase_samples`) and the amplitude loops. The hazards they carry are listed in `PROJECT.json` with notes, including the secondary code phase drifting past the replica buffers and the pull-in offset exceeding the forecast.
* **Sample-resolution counters beyond the composition:** the `int` overflow of `acq_to_trk_delay_samples`, and non-zero Doppler (PRN starts that drift).
* **The complex carrier test and the generated `BSICAndCarrier.h`:** they have no control state.
* **Concurrency between `set_active` / `stop_tracking` and `general_work`:** these calls are modelled as atomic steps.

## 6. Plan for later work

1. Non-atomic `general_work`, with `stop_tracking` interleaved between the post and the clearing of `d_enable_tracking`.
2. The Doppler drift of PRN starts in `ChannelStream`, to check `start_tracking`'s `corrected_acq_phase_samples`.
