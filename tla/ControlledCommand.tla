--------------------------- MODULE ControlledCommand ---------------------------
(***************************************************************************)
(* src/session/command.rs: the session around one command at a time, from  *)
(* the marker that claims the workspace to the finish in the journal, with *)
(* cancellation, quitting, failures at every step, crashes and resumption. *)
(*                                                                         *)
(* The user-interface thread runs one call at a time; `pc' is where it is  *)
(* inside that call, and each durable step of a call (an event, an         *)
(* artifact, the activity marker) is a step here, which may fail or be cut *)
(* by a crash.  Between calls `job' says what the next poll finds.         *)
(*                                                                         *)
(* Durable are the events, here as what replay makes of them (`replay'),   *)
(* and the marker.  A crash takes the threads with it but not the          *)
(* processes: each of those holds the writer lock it inherited, and resume *)
(* takes a free lock as proof that none is left.                           *)
(*                                                                         *)
(* Job::CleanupBlocked is left out: it is for a result that neither        *)
(* confirms the cleanup nor hands it over, and for a panic that loses      *)
(* track of the processes.  The worker and the probes, which run the same  *)
(* way, return no such result (command_process.rs, 1030) and no such panic *)
(* is possible on Unix; CommandProcess leaves them out too.                *)
(***************************************************************************)
EXTENDS CommandWorker

CONSTANTS
    Pid,            \* process identities of successive Rustrace processes
    OutputLimit,    \* output_per_command
    ChunkBytes,     \* MAX_COMMAND_CHUNK_BYTES
    Slack,          \* events reserved beyond the output: 16 in begin_command
    MaxFiles,       \* MAX_WORKSPACE_FILES, reserved too for a tool that edits files
    EventBudget,    \* budgets.events
    MaxTurns        \* bound on what user, outside world and crashes do

ASSUME CommandAssumption ==
    /\ Pid # {} /\ None \notin Pid \cup [active : BOOLEAN, pid : Pid]
    /\ {OutputLimit, ChunkBytes, EventBudget} \subseteq Nat \ {0}
    /\ {Slack, MaxFiles, MaxTurns, SessionOutput} \subseteq Nat

VARIABLES
    replay,         \* what ReplayEngine makes of the durable events
    refused,        \* replay has refused an event of this session
    marker,         \* command-activity.json: [active, pid], or None
    released,       \* the lock was explicitly unlocked
    pid,            \* the process with the session open, or None
    active,         \* Authority.command_active
    poisoned,       \* Authority.poison
    job,            \* CommandState.job
    pc,             \* where the call under way is; "idle" between calls
    quitting,       \* quit pending: input is disabled, the command polled
    opening,        \* resume is under way
    periodic,       \* a periodic checkpoint is with the writer thread
    chunks,         \* Job::Recording.chunks
    turns           \* see MaxTurns

durableVars == <<replay, refused, marker, released>>
authorityVars == <<active, poisoned, periodic>>
callVars == <<job, pc, command, chunks>>
userVars == <<cancel, quitting>>
vars == <<durableVars, pid, opening, authorityVars, callVars, userVars, workerVars,
          turns>>

-----------------------------------------------------------------------------
Marked == marker # None /\ marker.active

(* The lock is one open file description: it is free once its owner has    *)
(* unlocked it, or once every process that holds a descriptor is gone.     *)
LockFree == released \/ (pid = None /\ ~Inheritors)

(* The session between two calls, and then still open for input.           *)
Between == pid # None /\ pc = "idle" /\ ~opening
Interactive == Between /\ ~quitting
CommandIdle == Interactive /\ ~active /\ ~poisoned

(* No worker: its threads are joined and what they returned is dropped. *)
Reset == worker' = "none" /\ result' = None /\ reaper' = "none"

Turn == turns < MaxTurns /\ turns' = turns + 1

Init ==
    /\ replay = Genesis /\ refused = FALSE /\ marker = None /\ released = FALSE
    /\ pid = CHOOSE p \in Pid : TRUE
    /\ active = FALSE /\ poisoned = FALSE /\ periodic = FALSE
    /\ job = "none" /\ pc = "idle" /\ command = None /\ chunks = <<>>
    /\ cancel = 0 /\ quitting = FALSE /\ opening = FALSE
    /\ worker = "none" /\ result = None /\ reaper = "none"
    /\ alive = FALSE /\ strays = FALSE
    /\ turns = 0

-----------------------------------------------------------------------------
(***************************************************************************)
(* Authority::append and its relatives settle the periodic checkpoint,     *)
(* check the event budget, make the events durable and replay them.  At    *)
(* most two go together, a finish and the comparison behind it.            *)
(***************************************************************************)
Settled == IF periodic THEN Applied(replay, Checkpoint) ELSE replay

Play(played, e) ==
    IF played.ok /\ Accepts(played.state, e)
    THEN [ok |-> TRUE, state |-> Applied(played.state, e)]
    ELSE [played EXCEPT !.ok = FALSE]

HasBudget(n) == Settled.tail + n + 1 < EventBudget

Record(events) ==
    /\ HasBudget(Len(events))
    /\ LET first == Play([ok |-> TRUE, state |-> Settled], Head(events))
           played == IF Len(events) = 1 THEN first ELSE Play(first, events[2])
       IN  replay' = played.state /\ refused' = (refused \/ ~played.ok)
    /\ periodic' = FALSE
    /\ UNCHANGED <<marker, released>>

PeriodicLands ==
    /\ periodic
    /\ replay' = Settled /\ periodic' = FALSE
    /\ UNCHANGED <<refused, marker, released, pid, opening, active, poisoned, callVars,
                   userVars, workerVars, turns>>

PublishMarker(on) ==
    /\ marker' = [active |-> on, pid |-> pid]
    /\ UNCHANGED <<replay, refused, released>>

Goto(label) == pc' = label /\ UNCHANGED job
Rest(next) == pc' = "idle" /\ job' = next

(***************************************************************************)
(* Any step of a call may fail.  The job has been taken out of its place,  *)
(* and with a command active the session is poisoned: nothing more is      *)
(* recorded and the command stays unfinished for a resume to deal with.    *)
(***************************************************************************)
StepFails ==
    /\ pc # "idle"
    /\ Rest("none") /\ command' = None /\ chunks' = <<>>
    /\ poisoned' \in IF active \/ opening THEN {TRUE} ELSE BOOLEAN
    /\ Reset
    /\ cancel' = 0
    /\ UNCHANGED <<durableVars, pid, opening, active, periodic, quitting, alive, strays,
                   turns>>

-----------------------------------------------------------------------------
(* The user and the rest of the session. *)

Edit ==
    /\ CommandIdle /\ Turn
    /\ Record(<<Plain>>)
    /\ UNCHANGED <<pid, opening, active, poisoned, callVars, userVars, workerVars>>

StartPeriodic ==
    /\ CommandIdle /\ Turn /\ ~periodic /\ HasBudget(1)
    /\ periodic' = TRUE
    /\ UNCHANGED <<durableVars, pid, opening, active, poisoned, callVars, userVars,
                   workerVars>>

(* The flag matters while somebody is left to read it, and here counts as  *)
(* 0 from then on; preparing clears it.                                    *)
Heeded == job = "preparing" \/ worker = "working"

Cancel ==
    /\ Interactive /\ Heeded
    /\ cancel = 0 /\ cancel' = 1
    /\ UNCHANGED <<durableVars, pid, opening, authorityVars, callVars, quitting,
                   workerVars, turns>>

Quit ==
    /\ Between
    /\ quitting' = TRUE
    /\ cancel' = IF Heeded THEN 2 ELSE 0
    /\ UNCHANGED <<durableVars, pid, opening, authorityVars, callVars, workerVars, turns>>

(***************************************************************************)
(* begin_command.  The reserve covers every chunk the output may need, a   *)
(* fixed number of other events and, for format and dependency actions,    *)
(* an edit of every file.                                                  *)
(***************************************************************************)
Lower(m, n) == IF m < n THEN m ELSE n
Chunks(bytes) == (bytes + ChunkBytes - 1) \div ChunkBytes

HasReserve(action, limit) ==
    LET edits == IF action = "tool" THEN MaxFiles ELSE 0
    IN  replay.tail + Chunks(limit) + edits + Slack <= EventBudget

Begin(action) ==
    /\ CommandIdle /\ Turn
    /\ LET limit == Lower(SessionOutput - replay.output, OutputLimit)
       IN  /\ limit > 0
           /\ HasReserve(action, limit)
           /\ command' = [action |-> action, limit |-> limit, id |-> 0, before |-> 0]
    /\ Goto("beginning")
    /\ UNCHANGED <<durableVars, pid, opening, authorityVars, chunks, userVars,
                   workerVars>>

(* recheck_external records what other programs did to the files, before a *)
(* command begins, around the edits of a tool, and before it finishes.     *)
Reconcile ==
    /\ pc \in {"beginning", "applying", "finishing"} /\ Turn
    /\ Record(<<Reconciled>>)
    /\ UNCHANGED <<pid, opening, active, poisoned, callVars, userVars, workerVars>>

Claim ==
    /\ pc = "beginning"
    /\ active' = TRUE
    /\ \/ PublishMarker(TRUE) /\ Goto("spawning") /\ UNCHANGED <<poisoned, command>>
       \/ UNCHANGED durableVars /\ Rest("none") /\ poisoned' = TRUE /\ command' = None
    /\ UNCHANGED <<pid, opening, periodic, chunks, userVars, workerVars, turns>>

SpawnResolver ==
    /\ pc = "spawning"
    /\ worker' = "resolving" /\ Rest("preparing")
    /\ cancel' = 0
    /\ UNCHANGED <<durableVars, pid, opening, authorityVars, command, chunks,
                   quitting, result, reaper, alive, strays, turns>>

(* A probe that outlives its SIGKILL: the resolver waits for it, and stores*)
(* 1 in the flag whatever the user had asked.                              *)
ProbeLingers ==
    /\ worker = "probing" /\ alive
    /\ cancel' = 1
    /\ UNCHANGED <<durableVars, pid, opening, authorityVars, callVars, quitting, workerVars,
                   turns>>

(* The resolver runs its probes like any command, of which one here stands *)
(* for all, and returns when their processes are gone.                     *)
Probe ==
    /\ worker = "resolving"
    /\ worker' = "probing" /\ alive' = TRUE
    /\ UNCHANGED <<result, reaper, strays>>

Resolve ==
    /\ worker \in {"resolving", "probing"} /\ ~alive
    /\ worker' = "resolved"
    /\ UNCHANGED <<result, reaper, alive, strays>>

-----------------------------------------------------------------------------
(* poll_command: Preparing. *)

PollPreparing ==
    /\ Between /\ job = "preparing" /\ worker = "resolved"
    /\ worker' = "none" /\ pc' = "resolved" /\ job' = "none"
    /\ UNCHANGED <<durableVars, pid, opening, authorityVars, command, chunks,
                   userVars, result, reaper, alive, strays, turns>>

(* The resolution is published and the files are saved; then the command  *)
(* is given up behind its checkpoint, or launched.                         *)
Boundary(from, to) ==
    /\ pc = from
    /\ Record(<<Checkpoint>>)
    /\ Goto(to)
    /\ UNCHANGED <<pid, opening, active, poisoned, command, chunks, userVars, workerVars,
                   turns>>

Abandon == Boundary("resolved", "clearing")
Save == cancel = 0 /\ Boundary("resolved", "launching")

PrepareFails ==
    /\ pc = "launching"
    /\ Goto("clearing")
    /\ UNCHANGED <<durableVars, pid, opening, authorityVars, command, chunks,
                   userVars, workerVars, turns>>

RecordStarted ==
    /\ pc = "launching"
    /\ LET id == replay.tail + 1
       IN  /\ command' = [command EXCEPT !.id = id, !.before = replay.link]
           /\ Record(<<Started(id, command.action, replay.link, command.limit)>>)
    /\ Goto("launched")
    /\ UNCHANGED <<pid, opening, active, poisoned, chunks, userVars, workerVars,
                   turns>>

SpawnWorker ==
    /\ pc = "launched"
    /\ worker' = "working"
    /\ Rest("running")
    /\ UNCHANGED <<durableVars, pid, opening, authorityVars, command, chunks, userVars,
                   result, reaper, alive, strays, turns>>

(* clear_command_ownership *)
Unclaim(from, to) ==
    /\ pc = from
    /\ PublishMarker(FALSE)
    /\ active' = FALSE
    /\ pc' = to /\ job' = "none" /\ command' = None
    /\ Reset
    /\ UNCHANGED <<pid, opening, poisoned, periodic, chunks, userVars, alive, strays, turns>>

Clear == Unclaim("clearing", "idle")

-----------------------------------------------------------------------------
(* poll_command: Running, Reaping, Recording. *)

IgnorePanic == worker = "returned"                                  \* mutant
WorkerEnded == worker \in {"returned", "panicked"}

IgnorePending == TRUE                                               \* mutant
CleanupConfirmed == result.confirmed

PollRunning ==
    /\ Between /\ job = "running" /\ WorkerEnded
    /\ IF CleanupConfirmed THEN pc' = "capturing" /\ job' = "none" ELSE Rest("reaping")
    /\ cancel' = 0
    /\ UNCHANGED <<durableVars, pid, opening, authorityVars, command, chunks, quitting,
                   workerVars, turns>>

PollReaping ==
    /\ Between /\ job = "reaping" /\ reaper = "done"
    /\ pc' = "capturing" /\ job' = "none"
    /\ UNCHANGED <<durableVars, pid, opening, authorityVars, command, chunks,
                   userVars, workerVars, turns>>

ChunksOf(s) ==
    LET n == result.captures[s].bytes
    IN  [i \in 1 .. Chunks(n) |->
            LET offset == (i - 1) * ChunkBytes
            IN  Output(command.id, s, offset, Lower(ChunkBytes, n - offset))]

(* preserve_capture *)
PreserveCapture ==
    /\ pc = "capturing"
    /\ chunks' = ChunksOf("out") \o ChunksOf("err")
    /\ Rest("recording")
    /\ UNCHANGED <<durableVars, pid, opening, authorityVars, command, userVars,
                   workerVars, turns>>

PollRecording ==
    /\ Between /\ job = "recording"
    /\ pc' = "recording" /\ job' = "none"
    /\ UNCHANGED <<durableVars, pid, opening, authorityVars, command, chunks, userVars,
                   workerVars, turns>>

(* A poll records up to two chunks before it leaves the rest to the next:  *)
(* here any number of them, one at a time.                                 *)
RecordChunk ==
    /\ pc = "recording" /\ chunks # <<>>
    /\ Record(<<Head(chunks)>>)
    /\ chunks' = Tail(chunks)
    /\ Goto("recording") \/ (chunks' # <<>> /\ Rest("recording"))
    /\ UNCHANGED <<pid, opening, active, poisoned, command, userVars, workerVars, turns>>

OutputRecorded ==
    /\ pc = "recording" /\ chunks = <<>>
    /\ Goto(IF command.action = "tool" THEN "applying" ELSE "finishing")
    /\ UNCHANGED <<durableVars, pid, opening, authorityVars, command, chunks, userVars,
                   workerVars, turns>>

(* finalize_format, finalize_dependency: nothing is applied unless the     *)
(* tool succeeded with complete output.                                    *)
Successful ==
    /\ result.outcome = "success"
    /\ \A s \in Stream : result.captures[s].completeness = "Complete"

ApplyEdit ==
    /\ pc = "applying" /\ Successful /\ Turn
    /\ Record(<<ToolEdit>>)
    /\ UNCHANGED <<pid, opening, active, poisoned, callVars, userVars, workerVars>>

EditsApplied ==
    /\ pc = "applying"
    /\ Goto("finishing")
    /\ UNCHANGED <<durableVars, pid, opening, authorityVars, command, chunks,
                   userVars, workerVars, turns>>

-----------------------------------------------------------------------------
(***************************************************************************)
(* finish_command: a boundary checkpoint, the finish, alone or with the    *)
(* comparison of a test case, and last the marker.  A resumed session      *)
(* finishes an interrupted command with what the journal holds of it.      *)
(***************************************************************************)
FinishBoundary == Boundary("finishing", "finished")

NoLink == command.before                                            \* mutant
AfterLink == replay.link

Interrupted ==
    [outcome |-> "Quit",
     captures |-> [s \in Stream |->
        LET n == replay.active.bytes[s]
        IN  Capture(n, IF n = 0 THEN "Unavailable" ELSE "Truncated")]]

Conclusion == IF opening THEN Interrupted ELSE result

Verdicts ==
    LET required == RequiredError(Conclusion.outcome, Conclusion.captures["out"].completeness)
    IN  IF required = None THEN {"pass", "mismatch"} ELSE {required}

RecordFinish ==
    /\ pc = "finished"
    /\ LET finish == Finished(command.id, command.action, AfterLink, Conclusion.outcome,
                              Conclusion.captures)
       IN  IF command.action = "case" /\ ~opening
           THEN \E v \in Verdicts : Record(<<finish, Compared(command.id, v)>>)
           ELSE Record(<<finish>>)
    /\ Goto("unmarking")
    /\ UNCHANGED <<pid, opening, active, poisoned, command, chunks, userVars,
                   workerVars, turns>>

Unmark == Unclaim("unmarking", IF opening THEN "resuming" ELSE "idle")

-----------------------------------------------------------------------------
(* The end of a process: quit, a crash, a resume that fails. *)

Close ==
    /\ active' = FALSE /\ poisoned' = FALSE /\ periodic' = FALSE
    /\ job' = "none" /\ pc' = "idle" /\ command' = None /\ chunks' = <<>>
    /\ cancel' = 0 /\ quitting' = FALSE /\ opening' = FALSE

Vanish ==
    /\ pid' = None
    /\ Close
    /\ Reset
    /\ UNCHANGED <<refused, marker, alive, strays>>

(* shutdown_command gives a recording up when its time is over. *)
AbandonRecording ==
    /\ Between /\ quitting /\ job = "recording"
    /\ Rest("none")
    /\ UNCHANGED <<durableVars, pid, opening, authorityVars, command, chunks,
                   userVars, workerVars, turns>>

(* quit polls the command to its end first, whatever the front end found   *)
(* when it gave the terminal back; then it unlocks explicitly, unless      *)
(* something is left unfinished.                                           *)
Leave ==
    /\ Between /\ quitting
    /\ job = "none"
    /\ replay' = Settled
    /\ released' \in IF active THEN BOOLEAN ELSE {TRUE}
    /\ Vanish
    /\ UNCHANGED turns

Crash ==
    /\ pid # None
    /\ Vanish
    /\ UNCHANGED <<replay, released, turns>>

ResumeFails ==
    /\ opening /\ pc = "idle" /\ poisoned
    /\ Vanish
    /\ UNCHANGED <<replay, released, turns>>

(***************************************************************************)
(* Resume holds the lock.  A marker of its own process identity is taken   *)
(* for a command of this very process and refused, as is an unfinished     *)
(* command nobody marked.                                                  *)
(***************************************************************************)
Resume(p) ==
    /\ pid = None /\ LockFree /\ Turn
    /\ Marked => marker.pid # p
    /\ replay.active # None => Marked
    /\ pid' = p /\ released' = FALSE /\ opening' = TRUE
    /\ active' = (replay.active # None)
    /\ IF replay.active # None
       THEN /\ command' = [action |-> replay.active.action, limit |-> replay.active.limit,
                           id |-> replay.active.id, before |-> replay.active.before]
            /\ pc' = "finishing"
       ELSE /\ pc' = IF Marked THEN "unclaiming" ELSE "resuming"
            /\ UNCHANGED command
    /\ UNCHANGED <<replay, refused, marker, poisoned, periodic, job, chunks,
                   userVars, workerVars>>

(* Killed while preparing tools: no command started. *)
Disown == Unclaim("unclaiming", "resuming")

RecordResumed ==
    /\ pc = "resuming"
    /\ Record(<<Plain>>)
    /\ Goto("idle")
    /\ opening' = FALSE
    /\ UNCHANGED <<pid, active, poisoned, command, chunks, userVars, workerVars,
                   turns>>

-----------------------------------------------------------------------------
Poll == PollPreparing \/ PollRunning \/ PollReaping \/ PollRecording

CallStep ==
    \/ Claim \/ SpawnResolver
    \/ Abandon \/ Save \/ PrepareFails \/ RecordStarted \/ SpawnWorker \/ Clear
    \/ PreserveCapture
    \/ RecordChunk \/ OutputRecorded \/ ApplyEdit \/ EditsApplied
    \/ FinishBoundary \/ RecordFinish \/ Unmark
    \/ Disown \/ RecordResumed
    \/ StepFails \/ ResumeFails

WorkerStep(step) == step /\ UNCHANGED <<durableVars, pid, opening, authorityVars, callVars,
                                          userVars, turns>>

Worker == WorkerStep(Work \/ Reap \/ Resolve)

Next ==
    \/ PeriodicLands \/ Edit \/ StartPeriodic \/ Cancel \/ Quit
    \/ \E a \in Action : Begin(a)
    \/ Reconcile \/ CallStep \/ Poll
    \/ ProbeLingers
    \/ AbandonRecording \/ Leave \/ Crash
    \/ \E p \in Pid : Resume(p)
    \/ Worker
    \/ WorkerStep(Launch \/ Probe \/ Die \/ Escape \/ StraysEnd)

(***************************************************************************)
(* Fairness: the user interface polls and finishes its calls, a pending    *)
(* quit is carried out, and workers keep their contract.                   *)
(***************************************************************************)
Spec ==
    /\ Init /\ [][Next]_vars
    /\ WF_vars(CallStep \/ Poll \/ Leave)
    /\ WF_vars(Worker) /\ WF_vars(WorkerStep(OwnedDie))

-----------------------------------------------------------------------------
(* Replay accepts every event the recording side appends: a command's      *)
(* start, chunks, finish and comparison, whatever interleaves with them,   *)
(* whatever fails, and also when a later process finishes the command.     *)
ReplayAccepts == ~refused

(* While a process of a command is alive the durable marker says so, an    *)
(* unfinished command is always marked, and before a command is recorded   *)
(* or the workspace is given back every process of its group is gone.      *)
NoOrphans ==
    /\ alive => Marked
    /\ replay.active # None => Marked
    /\ pid # None /\ (~active \/ (pc = "idle" /\ job \in {"none", "recording"})) => ~alive

Busy == (active /\ ~poisoned) \/ quitting

(* A command under way comes to its end or poisons the session, and a quit *)
(* that was asked for is carried out: a panic, a group that will not die,  *)
(* a failed step or an unreadable pipe leave nobody waiting.               *)
CommandEnds == Busy ~> ~Busy
=============================================================================
