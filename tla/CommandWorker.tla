---------------------------- MODULE CommandWorker ----------------------------
(***************************************************************************)
(* What the session relies on when it has a worker thread run a command:   *)
(* the contract between src/session/command.rs, which starts workers and   *)
(* polls them, and src/command_process.rs, which does the work.            *)
(* ControlledCommand.tla is built on this contract, CommandProcess.tla     *)
(* implements it.                                                          *)
(*                                                                         *)
(* A worker ends sooner or later with a result.  Unless the result says    *)
(* that cleanup is pending, no process of the command's group is left; if  *)
(* it is pending, a reaper thread will say when none is.  Processes that   *)
(* left the group are nobody's business, but they hold the writer lock.    *)
(***************************************************************************)
EXTENDS CommandReplay

VARIABLES
    worker,     \* where the worker thread is
    result,     \* what it returned, or None
    reaper,     \* PendingProcessCleanup's thread: "none", "working", "done"
    alive,      \* some process of the group is alive
    strays,     \* some process that left a group is alive
    cancel,     \* the cancellation flag: 0, 1 cancelled, 2 quit
    command     \* the command under way, with its action and limit, or None

workerVars == <<worker, result, reaper, alive, strays>>

-----------------------------------------------------------------------------
(* Every process a command starts inherits the workspace's writer lock.    *)
Inheritors == alive \/ strays

Result(outcome, captures, confirmed) ==
    [outcome |-> outcome, captures |-> captures, confirmed |-> confirmed]

Captures(action, limit) ==
    {c \in [Stream -> [bytes : 0 .. limit, completeness : Completeness]] :
        /\ Total(c) <= limit
        /\ \A s \in Stream :
            IF s \in Captured(action) THEN c[s].completeness # "Unavailable"
            ELSE c[s] = NoCapture[s]
        /\ (Total(c) = limit) = (\E s \in Stream : c[s].completeness = "Truncated")}

(***************************************************************************)
(* What a worker may return: an exit only with all there was to read, a    *)
(* full capture only at the limit and then truncated, a quit or a          *)
(* cancellation only when asked for, pending cleanup only as a failure.    *)
(***************************************************************************)
AllComplete(captures, action) ==
    \A s \in Captured(action) : captures[s].completeness = "Complete"

ProcessOutcome(captures, action, limit) ==
    {"Deadline", "CleanupFailure"}
      \cup (IF AllComplete(captures, action) THEN {"success", "failure", "Signal"} ELSE {})
      \cup (IF Total(captures) = limit THEN {"OutputLimit"} ELSE {})
      \cup (IF \E s \in Stream : captures[s].completeness = "ReadFailed"
            THEN {"CaptureFailure"} ELSE {})

Stop == (IF cancel = 2 THEN {"Quit"} ELSE {}) \cup (IF cancel # 0 THEN {"Cancelled"} ELSE {})

Finish ==
    /\ worker' = "returned"
    /\ \E captures \in Captures(command.action, command.limit) :
        \E outcome \in ProcessOutcome(captures, command.action, command.limit) \cup Stop :
            \E confirmed \in BOOLEAN :
                /\ confirmed => ~alive
                /\ ~confirmed => outcome = "CleanupFailure"
                /\ result' = Result(outcome, captures, confirmed)
                /\ reaper' = IF confirmed THEN "none" ELSE "working"

GiveUp ==
    /\ ~alive
    /\ \E outcome \in {"LaunchFailed"} \cup Stop : result' = Result(outcome, NoCapture, TRUE)
    /\ worker' = "returned" /\ UNCHANGED reaper

Unwind ==
    /\ ~alive
    /\ result' = Result("CleanupFailure", NoCapture, TRUE)
    /\ worker' = "panicked" /\ UNCHANGED reaper

Work ==
    /\ worker = "working"
    /\ Finish \/ GiveUp \/ Unwind
    /\ UNCHANGED <<alive, strays>>

Reap ==
    /\ reaper = "working" /\ ~alive
    /\ reaper' = "done"
    /\ UNCHANGED <<worker, result, alive, strays>>

Launch ==
    /\ worker = "working" /\ ~alive
    /\ alive' = TRUE
    /\ UNCHANGED <<worker, result, reaper, strays>>

(* Processes end, leave the group, and end outside it. *)
Die ==
    /\ alive /\ alive' = FALSE
    /\ UNCHANGED <<worker, result, reaper, strays>>

Escape ==
    /\ alive
    /\ alive' \in BOOLEAN /\ strays' = TRUE
    /\ UNCHANGED <<worker, result, reaper>>

StraysEnd ==
    /\ strays /\ strays' = FALSE
    /\ UNCHANGED <<worker, result, reaper, alive>>

(* A process that is still looked after does not live forever. *)
Owned == worker # "none"
OwnedDie == Owned /\ Die

-----------------------------------------------------------------------------
(* The contract as a specification: one command, from its launch.          *)
Environment ==
    /\ cancel' \in 1 .. 2 /\ cancel' > cancel
    /\ UNCHANGED <<workerVars, command>>

ContractVars == <<workerVars, cancel, command>>

ContractInit ==
    /\ worker = "working" /\ result = None /\ reaper = "none"
    /\ ~alive /\ ~strays
    /\ cancel = 0

ContractNext ==
    \/ Environment
    \/ (Work \/ Reap \/ Launch \/ Die \/ Escape \/ StraysEnd) /\ UNCHANGED <<cancel, command>>

ContractSafety == ContractInit /\ [][ContractNext]_ContractVars

Contract ==
    /\ ContractSafety
    /\ WF_workerVars(Work) /\ WF_workerVars(Reap) /\ WF_workerVars(OwnedDie)
=============================================================================
