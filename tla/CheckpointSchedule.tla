------------------------- MODULE CheckpointSchedule -------------------------
(***************************************************************************)
(* crates/journal/src/schedule.rs: when a checkpoint of the workspace is   *)
(* due, as operators on the scheduler's state.                             *)
(*                                                                         *)
(* A checkpoint is captured at one moment and becomes durable at another.  *)
(* The schedule counts the edits recorded meanwhile apart from those the   *)
(* snapshot holds, and moves its baseline only when the receipt of that    *)
(* very attempt says the snapshot is durable.                              *)
(***************************************************************************)
EXTENDS Naturals

CONSTANTS
    Interval,       \* CheckpointPolicy: longest time without a checkpoint
    Threshold,      \* CheckpointPolicy: edits that make a checkpoint due
    MaxCount,       \* u64::MAX, where the edit counts saturate
    NoPending       \* no checkpoint under way

(* CheckpointPolicy::new refuses a zero threshold and an interval outside  *)
(* 30..60 s; the threshold is itself a u64.                                *)
ASSUME ScheduleAssumption ==
    /\ Interval \in Nat \ {0}
    /\ Threshold \in 1 .. MaxCount
    /\ MaxCount \in Nat

(* Addition and subtraction on counts of edits and on durations. *)
Saturating(n) == IF n > MaxCount THEN MaxCount ELSE n
SaturatingSub(m, n) == IF m > n THEN m - n ELSE 0
Larger(m, n) == IF m > n THEN m ELSE n

Fresh(baseline) ==
    [baseline |-> baseline, edits |-> 0, pending |-> NoPending, retryDue |-> FALSE]

RecordEdits(s, count) ==
    [baseline |-> s.baseline,
     edits |-> Saturating(s.edits + count),
     pending |-> IF s.pending = NoPending THEN NoPending
                 ELSE [s.pending EXCEPT !.post = Saturating(@ + count)],
     retryDue |-> s.retryDue]

IsDue(s, now, trigger) ==
    \/ s.retryDue
    \/ trigger # "Activity"
    \/ SaturatingSub(now, s.baseline) >= Interval
    \/ s.edits >= Threshold

ShouldSubmit(s, now, trigger) == s.pending = NoPending /\ IsDue(s, now, trigger)

(* checkpoint_queued; defined where nothing is pending, refused elsewhere. *)
Queued(s, at, attempt) ==
    [s EXCEPT !.pending =
        [attempt |-> attempt, at |-> at, captured |-> s.edits, post |-> 0]]

(***************************************************************************)
(* apply_receipt_result: an answer of another kind or to another attempt   *)
(* is an error and changes nothing.  Only a completion has a kind; a       *)
(* receipt whose worker stopped names its attempt alone.                   *)
(***************************************************************************)
MatchesKind(s, answer) ==                                           \* mutant
    /\ s.pending # NoPending
    /\ answer.outcome = "stopped" \/ answer.kind = "checkpoint"

Matches(s, answer) ==
    /\ s.pending # NoPending
    /\ answer.outcome = "stopped" \/ answer.kind = "checkpoint"
    /\ answer.attempt = s.pending.attempt

CapturedOnly(s) == SaturatingSub(s.edits, s.pending.captured)       \* mutant
Remaining(s) ==
    Larger(SaturatingSub(s.edits, s.pending.captured), s.pending.post)

Applied(s, answer) ==
    IF ~Matches(s, answer) THEN s
    ELSE IF answer.outcome = "persisted"
    THEN [baseline |-> s.pending.at, edits |-> Remaining(s),
          pending |-> NoPending, retryDue |-> FALSE]
    ELSE [s EXCEPT !.pending = NoPending, !.retryDue = TRUE]
=============================================================================
