------------------------------ MODULE AcqService ------------------------------
(***************************************************************************)
(* What the acquisition engine promises the channel controller (spec 4.F  *)
(* and 4.H), with the search itself left abstract.  Once armed, the        *)
(* engine performs at most MaxTries dwells, each leaving some statistic,  *)
(* and then answers exactly once on the channel queue:                     *)
(*   - success only if the statistic it reports is strong (above the       *)
(*     threshold);                                                         *)
(*   - failure only after the last dwell with a weak statistic, unless     *)
(*     auxiliary peaks are resolved (FailEarly), where a dwell without     *)
(*     enough disjoint peaks fails at once;                                *)
(*   - with DecideLast (bit_transition_flag) only after the last dwell.    *)
(* It is disarmed when it answers and is armed again only once the         *)
(* controller consumed the answer.                                         *)
(***************************************************************************)
EXTENDS Naturals, Sequences

CONSTANTS
    Stats,       \* the statistics a dwell may leave
    Strong,      \* the statistics above the detection threshold
    MaxTries,    \* dwells allowed per arming
    FailEarly,   \* a dwell may fail the attempt before the last one
    DecideLast,  \* the answer is given only after the last dwell
    Zero,        \* the statistic of an engine not searching
    Success,     \* result code of a detection
    Fail         \* result code of a failed attempt

VARIABLES
    armed,       \* the controller armed the engine and no answer came yet
    tries,       \* dwells performed in this attempt
    stat,        \* statistic the engine would report
    answer       \* the controller's queue: at most one pending answer

svars == <<armed, tries, stat, answer>>

Init ==
    /\ armed = FALSE
    /\ tries = 0
    /\ stat = Zero
    /\ answer = <<>>

(* The controller arms the engine once it has consumed the last answer.   *)
Arm ==
    /\ ~armed
    /\ answer = <<>>
    /\ armed' = TRUE
    /\ UNCHANGED <<tries, stat, answer>>

(* One dwell: any statistic may come out of it.                            *)
Search ==
    /\ armed
    /\ answer = <<>>
    /\ tries < MaxTries
    /\ tries' = tries + 1
    /\ stat' \in Stats
    /\ UNCHANGED <<armed, answer>>

(* The answers the engine may give in the current state.                   *)
Justified(r) ==
    /\ tries >= 1
    /\ DecideLast => tries = MaxTries
    /\ \/ r = Success /\ stat \in Strong
       \/ r = Fail /\ (FailEarly \/ (tries = MaxTries /\ stat \notin Strong))

Answer(r) ==
    /\ armed
    /\ answer = <<>>
    /\ Justified(r)
    /\ answer' = <<r>>
    /\ armed' = FALSE
    /\ tries' = 0
    /\ stat' = Zero

(* The controller takes the answer.                                        *)
Consume ==
    /\ answer # <<>>
    /\ answer' = <<>>
    /\ UNCHANGED <<armed, tries, stat>>

Progress == Search \/ \E r \in {Success, Fail} : Answer(r)

Next == Arm \/ Progress \/ Consume

Safety == Init /\ [][Next]_svars

(* An armed engine keeps searching until it answers; the controller keeps  *)
(* draining its queue.                                                     *)
Spec == Safety /\ WF_svars(Progress) /\ WF_svars(Consume)

=============================================================================
