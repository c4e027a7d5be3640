------------------------ MODULE CheckpointAccounting ------------------------
(***************************************************************************)
(* The checkpoint schedule driven in every order its interface admits:     *)
(* edits recorded before, during and after a capture, time passing,        *)
(* captures at any moment, and answers that are late, of another attempt,  *)
(* of another kind, or failures.                                           *)
(*                                                                         *)
(* Next to the schedule the module keeps what really happened, in exact    *)
(* numbers: how many edits were recorded in all, and what the newest       *)
(* durable snapshot covers.  The schedule saturates and only ever sees     *)
(* differences; the properties say that it nevertheless decides as if it   *)
(* had kept the exact history.                                             *)
(***************************************************************************)
EXTENDS CheckpointSchedule

CONSTANTS
    Identity,       \* identities of journal write attempts
    MaxBatch,       \* edits recorded by one call, at most (a bound)
    MaxRecorded,    \* edits recorded in all (a bound)
    MaxTime         \* the clock's last value (a bound)

ASSUME AccountingAssumption == NoPending \notin
    [attempt : Identity, at : Nat, captured : Nat, post : Nat]

VARIABLES
    schedule,       \* CheckpointScheduleState
    clock,          \* the caller's monotonic time
    recorded,       \* edits recorded so far
    captureOf,      \* [attempt queued -> what its snapshot holds, and when]
    covered,        \* the capture of the newest acknowledged durable snapshot
    missed          \* the last answered attempt left nothing durable

vars == <<schedule, clock, recorded, captureOf, covered, missed>>

Kind == {"checkpoint", "event"}
Outcome == {"persisted", "failed", "stopped"}

Init ==
    /\ schedule = Fresh(0)
    /\ clock = 0
    /\ recorded = 0
    /\ captureOf = [a \in {} |-> 0]
    /\ covered = [total |-> 0, at |-> 0]
    /\ missed = FALSE

Edit(count) ==
    /\ recorded + count <= MaxRecorded
    /\ schedule' = RecordEdits(schedule, count)
    /\ recorded' = recorded + count
    /\ UNCHANGED <<clock, captureOf, covered, missed>>

Pass ==
    /\ clock < MaxTime
    /\ clock' = clock + 1
    /\ UNCHANGED <<schedule, recorded, captureOf, covered, missed>>

(* The caller queued attempt a with a snapshot taken now, whether or not   *)
(* the schedule asked for one: boundary checkpoints do not.                *)
Capture(a) ==
    /\ a \notin DOMAIN captureOf
    /\ schedule.pending = NoPending
    /\ schedule' = Queued(schedule, clock, a)
    /\ captureOf' = [b \in DOMAIN captureOf \cup {a} |->
                        IF b = a THEN [total |-> recorded, at |-> clock]
                        ELSE captureOf[b]]
    /\ UNCHANGED <<clock, recorded, covered, missed>>

(* Some answer reaches the schedule.  It says something about the pending  *)
(* snapshot only if it is the answer to that attempt.                      *)
ApplyReceipt(a, kind, outcome) ==
    /\ schedule' = Applied(schedule, [attempt |-> a, kind |-> kind, outcome |-> outcome])
    /\ IF /\ schedule.pending # NoPending
          /\ schedule.pending.attempt = a
          /\ kind = "checkpoint" \/ outcome = "stopped"
       THEN /\ missed' = (outcome # "persisted")
            /\ covered' = IF outcome = "persisted" THEN captureOf[a] ELSE covered
       ELSE UNCHANGED <<covered, missed>>
    /\ UNCHANGED <<clock, recorded, captureOf>>

Next ==
    \/ \E count \in 1 .. MaxBatch : Edit(count)
    \/ Pass
    \/ \E a \in Identity : Capture(a)
    \/ \E a \in Identity, kind \in Kind, outcome \in Outcome :
        ApplyReceipt(a, kind, outcome)

Spec == Init /\ [][Next]_vars

-----------------------------------------------------------------------------
(* The count is the true number of edits since the capture of the newest   *)
(* durable checkpoint, as far as a u64 can hold it: edits made while a     *)
(* checkpoint was under way are neither lost nor counted twice, also when  *)
(* counters saturated on the way.                                          *)
CountExact == schedule.edits = Saturating(recorded - covered.total)

(* Activity makes a checkpoint due exactly when one is: after an attempt   *)
(* that left nothing durable, when Interval has passed since the capture   *)
(* (not the acknowledgement) of the newest durable snapshot, or when       *)
(* Threshold edits are in no durable snapshot.                             *)
DueExactly ==
    IsDue(schedule, clock, "Activity") <=>
        \/ missed
        \/ clock - covered.at >= Interval
        \/ recorded - covered.total >= Threshold
=============================================================================
