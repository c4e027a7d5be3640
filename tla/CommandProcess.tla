---------------------------- MODULE CommandProcess ----------------------------
(***************************************************************************)
(* src/command_process.rs: one worker thread runs one program in a process *)
(* group of its own, captures its output through nonblocking pipes, and    *)
(* ends it on success, cancellation, its deadline or a full capture.       *)
(*                                                                         *)
(* The thread polls: a turn drains both pipes, waits for the group leader, *)
(* decides whether to stop, kills the group and asks whether it is gone.   *)
(* Meanwhile the program writes, closes its end of a pipe, forks, lets a   *)
(* descendant leave the group, or exits, between any two of these steps.   *)
(* A group that does not die in time is handed to a reaper thread with the *)
(* leader's handle; a panic of the thread kills and waits for the group    *)
(* while it unwinds.                                                       *)
(*                                                                         *)
(* Left out, as the code cannot reach them on Unix: a result that is       *)
(* neither confirmed nor accompanied by its pending cleanup, and a panic   *)
(* that loses track of the group.                                          *)
(***************************************************************************)
EXTENDS CommandReplay

CONSTANTS
    OutputLimit,        \* ProcessLimits.output_bytes
    MaxProduced         \* bound on the bytes the program writes

ASSUME ProcessAssumption ==
    {OutputLimit, MaxProduced} \subseteq Nat \ {0} /\ None \notin Outcome

VARIABLES
    worker,     \* where the worker thread is
    exec,       \* the locals of execute_with_io_and_handoff, or None
    result,     \* what the worker returned, or None
    reaper,     \* PendingProcessCleanup's thread: "none", "working", "done"
    group,      \* members of the process group still alive
    reaped,     \* the leader's exit status has been collected
    killed,     \* SIGKILL has reached the members alive
    escaped,    \* a descendant left the group, its descriptors still open
    pipe,       \* [Stream -> bytes written and not read]
    produced,   \* [Stream -> bytes ever written]
    late,       \* the limit in force, deadline or cleanup time, has passed
    cancel,     \* the cancellation flag: 0, 1 cancelled, 2 quit
    command     \* what is run, with which limit

threads == <<worker, exec, result, reaper>>
system == <<group, reaped, killed, escaped, pipe, produced>>
request == <<cancel, command>>
vars == <<threads, system, late, request>>

-----------------------------------------------------------------------------
Looping == {"reading", "watching", "signalling"}

LeaderReaped == reaped                                              \* mutant
GroupAbsent == group = {} /\ reaped
Writers == group # {} \/ escaped

Silent == [s \in Stream |-> 0]

(* The result of a worker: outcome, captures, and whether the group is     *)
(* known to be gone.                                                       *)
Result(outcome, captures, confirmed) ==
    [outcome |-> outcome, captures |-> captures, confirmed |-> confirmed]

Fresh(action, limit) ==
    [action |-> action, limit |-> limit,
     captures |-> [s \in Stream |->
        Capture(0, IF s \in Captured(action) THEN "Complete" ELSE "Unavailable")],
     open |-> Captured(action), reason |-> None, exit |-> None,
     cleaning |-> FALSE, absent |-> FALSE]

Remaining == exec.limit - Total(exec.captures)

Init ==
    /\ \E action \in {"run", "redirected"} :
        /\ command = [action |-> action, limit |-> OutputLimit]
        /\ exec = Fresh(action, OutputLimit)
    /\ worker = "entered" /\ result = None /\ reaper = "none"
    /\ group = {} /\ reaped = TRUE /\ killed = FALSE /\ escaped = FALSE
    /\ pipe = Silent /\ produced = Silent
    /\ late = FALSE /\ cancel = 0

-----------------------------------------------------------------------------
(* The operating system. *)

(* The end of a pipe has been read: whoever had it open has closed it.     *)
EndOfFile(s) == s \notin exec.open /\ exec.captures[s].completeness = "Complete"

Write(s) ==
    /\ worker \in Looping
    /\ Writers /\ ~EndOfFile(s)
    /\ s \in Captured(exec.action)
    /\ produced["out"] + produced["err"] < MaxProduced
    /\ pipe' = [pipe EXCEPT ![s] = @ + 1]
    /\ produced' = [produced EXCEPT ![s] = @ + 1]
    /\ UNCHANGED <<threads, group, reaped, killed, escaped, late>>

Fork ==
    /\ "leader" \in group /\ ~killed
    /\ group' = group \cup {"child"}
    /\ UNCHANGED <<threads, reaped, killed, escaped, pipe, produced, late>>

Escape ==
    /\ "child" \in group /\ ~killed
    /\ group' = group \ {"child"}
    /\ escaped' = TRUE
    /\ UNCHANGED <<threads, reaped, killed, pipe, produced, late>>

Die(p) ==
    /\ p \in group
    /\ group' = group \ {p}
    /\ killed' = (killed /\ group' # {})
    /\ UNCHANGED <<threads, reaped, escaped, pipe, produced, late>>

EscapedExits ==
    /\ escaped /\ escaped' = FALSE
    /\ UNCHANGED <<threads, group, reaped, killed, pipe, produced, late>>

(* The deadline counts while the program runs and nothing else has stopped *)
(* it, the time for cleaning up from the moment the group is killed.       *)
TimePasses ==
    /\ worker \in Looping /\ ~late
    /\ exec.cleaning \/ (exec.reason = None /\ exec.exit = None)
    /\ late' = TRUE
    /\ UNCHANGED <<threads, system>>

-----------------------------------------------------------------------------
(* execute_with_io_and_handoff *)

(* The worker's locals and pipe ends are gone once it has returned. *)
Return(state, outcome) ==
    /\ worker' = state /\ exec' = None /\ result' = outcome
    /\ pipe' = Silent /\ produced' = Silent /\ late' = FALSE

EnterCancelled ==
    /\ worker = "entered" /\ cancel # 0
    /\ Return("returned",
              Result(IF cancel = 2 THEN "Quit" ELSE "Cancelled", NoCapture, TRUE))
    /\ UNCHANGED <<reaper, group, reaped, killed, escaped>>

LaunchFails ==
    /\ worker = "entered" /\ cancel = 0
    /\ Return("returned", Result("LaunchFailed", NoCapture, TRUE))
    /\ UNCHANGED <<reaper, group, reaped, killed, escaped>>

Launch ==
    /\ worker = "entered" /\ cancel = 0
    /\ worker' = "reading"
    /\ group' = {"leader"} /\ reaped' = FALSE
    /\ UNCHANGED <<exec, result, reaper, killed, escaped, pipe, produced, late>>

(***************************************************************************)
(* Pipe::drain_with_live: nothing of a pipe that is done; what there is, up*)
(* to what the limit leaves; end of file once the pipe is empty and nobody *)
(* has it open, as all writers are gone or those left have closed it; an   *)
(* error.  x holds the locals and what is in the pipes.  Both pipes drain  *)
(* in one step: what happens between the two might have come before it.    *)
(***************************************************************************)
Kept(x, s, n) ==
    LET left == x.exec.limit - Total(x.exec.captures)
        before == x.exec.captures[s]
        full == n >= left
        how == IF full THEN "Truncated" ELSE before.completeness
    IN  [exec |-> [x.exec EXCEPT
            !.captures[s] = Capture(before.bytes + (IF full THEN left ELSE n), how),
            !.open = IF full THEN @ \ {s} ELSE @],
         pipe |-> [x.pipe EXCEPT ![s] = @ - n]]

Drained(x, s) ==
    LET closed == [x EXCEPT !.exec.open = @ \ {s}]
        broken == [closed EXCEPT !.exec.captures[s].completeness = "ReadFailed"]
    IN  IF s \notin x.exec.open THEN {x}
        ELSE {broken} \cup
             (IF x.pipe[s] > 0 THEN {Kept(x, s, n) : n \in 1 .. x.pipe[s]}
              ELSE {closed} \cup (IF Writers THEN {x} ELSE {}))

Drain ==
    /\ worker = "reading" /\ worker' = "watching"
    /\ \E x \in Drained([exec |-> exec, pipe |-> pipe], "out") :
        \E y \in Drained(x, "err") : exec' = y.exec /\ pipe' = y.pipe
    /\ UNCHANGED <<result, reaper, group, reaped, killed, escaped, produced, late>>

(***************************************************************************)
(* try_wait, which may fail until it has succeeded, then the first reason  *)
(* to stop the command, if there is none yet.                              *)
(***************************************************************************)
ReadFailed == \E s \in Stream : exec.captures[s].completeness = "ReadFailed"

StopReason(exited) ==
    IF exec.reason # None THEN exec.reason
    ELSE IF cancel = 2 THEN "Quit"
    ELSE IF cancel = 1 THEN "Cancelled"
    ELSE IF Remaining = 0 THEN "OutputLimit"
    ELSE IF ReadFailed THEN "CaptureFailure"
    ELSE IF ~exited /\ late THEN "Deadline"
    ELSE None

Watch ==
    /\ worker = "watching"
    /\ worker' = "signalling"
    /\ \/ LET exits == "leader" \notin group /\ ~reaped
          IN  \E status \in IF exits THEN {"success", "failure", "Signal"} ELSE {exec.exit} :
                /\ reaped' = (reaped \/ exits)
                /\ exec' = [exec EXCEPT !.exit = status, !.reason = StopReason(reaped')]
       \/ /\ ~reaped /\ UNCHANGED reaped
          /\ exec' = [exec EXCEPT !.reason = IF @ = None THEN "CleanupFailure" ELSE @]
    /\ UNCHANGED <<result, reaper, group, killed, escaped, pipe, produced, late>>

(***************************************************************************)
(* The group is killed once, also after its leader has exited, and probed  *)
(* until it is gone; either call may fail.  The loop ends when everything  *)
(* is done, or when the time for cleaning up is over.                      *)
(***************************************************************************)
Done(absent) == exec.exit # None /\ absent /\ exec.open = {}

Ended(reason) == IF reason # None THEN reason ELSE exec.exit

Overdue(reason, confirmed) ==
    IF ~confirmed THEN "CleanupFailure"
    ELSE IF reason = None THEN "CaptureFailure" ELSE reason

KeepOpenCapture(s) == exec.captures[s]                                   \* mutant
FinalCapture(s) ==
    IF s \in exec.open THEN [exec.captures[s] EXCEPT !.completeness = "ReadFailed"]
    ELSE exec.captures[s]

Signal ==
    /\ worker = "signalling"
    /\ \E killFails, probeFails \in BOOLEAN :
        LET cleaning == exec.cleaning \/ exec.reason # None \/ exec.exit # None
            kill == cleaning /\ ~exec.cleaning
            probe == cleaning /\ ~exec.absent
            absent == exec.absent \/ (probe /\ ~probeFails /\ GroupAbsent)
            reason == IF killFails \/ probeFails THEN "CleanupFailure" ELSE exec.reason
            confirmed == exec.exit # None /\ absent
            overdue == exec.cleaning /\ late
        IN  /\ killFails => kill /\ ~GroupAbsent
            /\ probeFails => probe
            /\ killed' = (killed \/ (kill /\ ~killFails /\ group # {}))
            /\ \/ /\ Done(absent)
                  /\ Return("returned", Result(Ended(reason), exec.captures, TRUE))
                  /\ UNCHANGED reaper
               \/ /\ ~Done(absent) /\ overdue
                  /\ Return("returned",
                            Result(Overdue(reason, confirmed),
                                   [s \in Stream |-> FinalCapture(s)], confirmed))
                  /\ reaper' = IF confirmed THEN "none" ELSE "working"
               \/ /\ ~Done(absent) /\ ~overdue
                  /\ exec' = [exec EXCEPT !.cleaning = cleaning, !.absent = absent,
                                          !.reason = reason]
                  /\ worker' = "reading"
                  /\ late' = (late /\ exec.cleaning = cleaning)
                  /\ UNCHANGED <<result, reaper, pipe, produced>>
    /\ UNCHANGED <<group, reaped, escaped>>

-----------------------------------------------------------------------------
(* OwnedProcessCleanup: kill, collect the leader, until the group is gone; *)
(* in the reaper thread, or in a worker that panicked and is unwinding.    *)
Cleaning == reaper = "working" \/ worker = "unwinding"

CleanUp ==
    /\ Cleaning /\ ~GroupAbsent
    /\ killed' = (killed \/ group # {})
    /\ reaped' = (reaped \/ "leader" \notin group)
    /\ <<killed, reaped>>' # <<killed, reaped>>
    /\ UNCHANGED <<threads, group, escaped, pipe, produced, late>>

Unwound == Result("CleanupFailure", NoCapture, TRUE)

ConfirmCleanup ==
    /\ Cleaning /\ GroupAbsent
    /\ IF reaper = "working"
       THEN reaper' = "done" /\ UNCHANGED <<worker, exec, result, pipe, produced, late>>
       ELSE Return("panicked", Unwound) /\ UNCHANGED reaper
    /\ UNCHANGED <<group, reaped, killed, escaped>>

Panic ==
    \/ /\ worker = "entered"
       /\ Return("panicked", Unwound)
       /\ UNCHANGED <<reaper, group, reaped, killed, escaped>>
    \/ /\ worker \in Looping
       /\ worker' = "unwinding"
       /\ UNCHANGED <<exec, result, reaper, system, late>>

-----------------------------------------------------------------------------
WorkerStep ==
    \/ EnterCancelled \/ LaunchFails \/ Launch
    \/ Drain \/ Watch \/ Signal
    \/ CleanUp \/ ConfirmCleanup

ProgramStep ==
    \/ \E s \in Stream : Write(s)
    \/ Fork \/ Escape \/ EscapedExits
    \/ \E p \in group : Die(p)

KilledDie == \E p \in group : killed /\ Die(p)

(* The user cancels, or quits, at any moment. *)
Ask ==
    /\ \/ cancel = 0 /\ cancel' = 1
       \/ cancel # 2 /\ cancel' = 2
    /\ UNCHANGED <<threads, system, late, command>>

Unasked(step) == step /\ UNCHANGED request

Next ==
    \/ Unasked(WorkerStep \/ ProgramStep \/ TimePasses \/ Panic)
    \/ Ask

(* Threads run, time passes, and what was sent SIGKILL dies in the end. *)
Spec ==
    /\ Init /\ [][Next]_vars
    /\ WF_vars(Unasked(WorkerStep)) /\ WF_vars(Unasked(TimePasses))
    /\ WF_vars(Unasked(KilledDie))

-----------------------------------------------------------------------------
W == INSTANCE CommandWorker WITH
        worker <- IF worker \in {"returned", "panicked"} THEN worker ELSE "working",
        alive <- group # {},
        strays <- escaped

(***************************************************************************)
(* The whole module implements the contract the session is written         *)
(* against: execute_with_io_and_handoff, whatever the program, the signals *)
(* and the user do, ends with a result that is truthful about the group    *)
(* and that the replay rules can take; and it ends.                        *)
(***************************************************************************)
Contract == W!Contract

Honest(r) ==
    /\ \A s \in Captured(command.action) :
        r.captures[s].completeness = "Complete" => r.captures[s].bytes = produced[s]
    /\ r.outcome \in {"success", "failure"} =>
        \A s \in Captured(command.action) : r.captures[s].completeness = "Complete"

(* A capture that claims to be complete holds every byte the program wrote,*)
(* and a command is only reported as exited when all its output was read:  *)
(* the loop of execute_with_io_and_handoff against a program that writes,  *)
(* forks and dies between any two of its steps.                            *)
CaptureHonest == [][result = None /\ result' # None => Honest(result')]_vars
=============================================================================
