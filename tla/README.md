# Verification of Rustrace

Rustrace is a terminal editor that records how a student's program came to be.
Every edit becomes an event in an append-only, hash-chained journal; a session
can be killed at any moment and resumed; what it shows is never ahead of what
it has recorded; and files are written by it alone, so that a change made by any
other program is noticed, kept as evidence and undone. Programs are run from
inside it and recorded too, and in the end the session is frozen into a bundle
that is submitted.

This directory models that core in TLA+, model-checks it with TLC on small
instances and proves most of its safety with TLAPS for every value of the
constants.

* [Reading guide](#reading-guide)
* [Inventory](#inventory)
* [The modules and the code](#the-modules-and-the-code)
* [What the runs check](#what-the-runs-check)
* [Two disagreements with the guide](#two-disagreements-with-the-guide)
* [Fairness](#fairness)
* [What is proved](#what-is-proved)
* [What is only model-checked, and what is not modelled](#what-is-only-model-checked-and-what-is-not-modelled)
* [Plan](#plan)

## Reading guide

| module | what it is |
| --- | --- |
| `EventLog.tla` | abstract: what a journal promises, an append-only log per session |
| `Journal.tla` | the SQLite store of `crates/journal/src/lib.rs`, statement by statement |
| `JournalWriter.tla` | the worker thread and queue of `crates/journal/src/worker.rs` |
| `CheckpointSchedule.tla` | `crates/journal/src/schedule.rs` as operators on its state record |
| `CheckpointAccounting.tla` | the schedule driven in every order, beside an exact history |
| `JournalProofs.tla` | of the crate `journal`, proved: the store's safety and that it implements `EventLog`; receipts tell the truth and the log is in acceptance order; the schedule decides as the exact history would |
| `SessionAuthority.tla` | `Authority` in `src/session.rs`, on instances of the writer and schedule |
| `AuthorityProofs.tla` | what is live is durable, and the rest of its safety, proved |
| `SessionRecovery.tla` | saving, external changes, evidence, restoration, resume |
| `RecoveryProofs.tla` | proved: any end of a session can be resumed, no foreign version is lost, where checkpoint and replay may disagree, own work is recognised, rest is clean |
| `WorkspaceMutation.tla` | `crates/workspace/src/mutation.rs`: one file operation, call by call, against other programs |
| `WorkspaceMutationProofs.tla` | it is atomic and unlinks nobody's work, proved |
| `CommandReplay.tla` | the rules of `crates/replay/src/command.rs` for the events of commands |
| `CommandWorker.tla` | abstract: what the session relies on when a worker runs a command |
| `CommandProcess.tla` | `src/command_process.rs`, which implements that contract |
| `CommandProcessProofs.tla` | it keeps the contract's safety half and its captures are honest, proved |
| `ControlledCommand.tla` | `src/session/command.rs`, built on the contract and on the replay rules |
| `CommandProofs.tla` | replay accepts what a command leaves, and no process is orphaned, proved |
| `Finalization.tla` | `src/session/finalization.rs`: submission, its interruption and its repetition |
| `FinalizationProofs.tla` | what a submission freezes is what the journal says, proved |
| `LanguageService.tla` | `src/language_service.rs`, its server, and what the session shows of it |
| `LanguageServiceProofs.tla` | nothing stale is shown, no server beside a command, nobody waits in vain, proved |
| `MC*.tla`, `MC*.cfg` | the instances TLC checks |

`PROJECT.json` maps each definition to the lines it stands for and lists runs,
the mutation that breaks each property, hazards and theorems.

## Inventory

The components, what each keeps, what it does, with whom, and what would make
it wrong. "Hard" names the behaviour that tests reach badly.

**Journal store** (`crates/journal/src/lib.rs`, `schema.rs`). State: the tables
`sessions` (next_sequence, ended), `events` (sequence, previous hash, hash,
body), `checkpoints` (sequence, snapshot). Operations: open, create_or_resume,
append_event, append of submitted single and paired events, append_checkpoint,
end_session, inspect, verify_session_chain. Several connections, in one or
several processes, share the file. Hard: a kill between any two statements,
stale reads before the write lock, readers beside writers, the last storable
sequence. Correct when committed rows are one contiguous chained prefix,
checkpoints and pairs are whole, at most one session is unfinished, and an
intact file is never reported corrupt.

**Journal writer** (`worker.rs`). State: a bounded queue, a thread, the sending
half, one receipt per job, a process-wide attempt counter. Operations: submit,
receive, persist, answer, fail, panic, close, join, drop. Used by the session
through receipts. Hard: failure with jobs queued behind it, shutdown and drop
races, several submitting threads, counter exhaustion. Correct when durable
order is acceptance order, receipts and shutdown never lie, and nobody waits
for ever.

**Checkpoint schedule** (`schedule.rs`). State: baseline, edits since capture,
a pending attempt with its capture, a retry flag; saturating counters.
Operations: record edits, note a queued attempt, apply an answer, should_submit.
Hard: edits while an attempt is under way, late or mismatched answers,
saturation. Correct when it counts what no durable snapshot holds, exactly.

**Session authority** (`session.rs`, `Authority`). State: the writer, a live
replay of the durable events, sequence and hash, poison, changed flag, schedule,
pending checkpoint, ownership lock. Operations: append, append_compared_finish,
checkpoint, drain, quit, drop, start, resume. Calls the writer, blocks on
receipts; the writer's thread runs beside it. Hard: a checkpoint in flight
across calls, failure after durability, dropped Authority with jobs queued,
another process taking the lock. Correct when what the session shows is what is
durable, poison is final, the event budget keeps its reserve and the books equal
those a resume would compute.

**Saving and external reconciliation** (`session.rs`, `tui/workspace.rs`).
State: S (persisted contents), L (recorded text), D (the disk); baseline, save
intent, evidence and outcome artifacts; pending evidence. Operations: edit, save
all, create, rename, delete, recheck, preserve, restore, checkpoint boundary,
resume. Shares the disk with every other program. Hard: changes at any moment,
saves and restorations cut short, restorations of restorations. Correct when
nothing foreign is overwritten unseen, own work is not taken for foreign, and
whatever is left behind can be resumed.

**Workspace mutation** (`crates/workspace/src/mutation.rs`). State: directory
entries, temporary files. Operations: create, write, remove, rename by one
atomic call that clobbers nothing, then inspection and repair. Used by saving,
restoration and the tools. Hard: entries replaced between any two of its calls.
Correct when an operation that nobody disturbs again is all or nothing, and
nobody's file is unlinked.

**Canonical scan** (`hash.rs`, `path.rs`): reads a pinned root within limits and
hashes it. Hard: changes during the scan, which end in an error.

**Replay engine** (`crates/replay`): applies events to workspace state and
command state, refusing those that do not fit. Every resume and every submission
replays the journal. Hard: what a legal prefix leaves possible. Correct when it
accepts whatever the session records, and live and replayed state are the same.

**Editor buffer** (`crates/editor`): text, selections, undo and redo, save
points; each edit is announced to the effects before it shows. Hard: undo across
saves and a refused effect. Correct when undo returns the exact earlier text and
a refused edit leaves nothing.

**Event model, checkpoint codec, assignment packages, provenance archive**
(`crates/model`, `checkpoint.rs`, `assignment_package.rs`, `fixture_tree.rs`,
`rprov.rs`, `rprov_import.rs`): immutable data, validation and byte formats;
sequential.

**Controlled commands** (`session/command.rs`, `command_process.rs`,
`cargo_policy.rs`, the command half of `crates/replay`). State: the permit in the
Authority, the job being polled, the activity marker on disk, the worker thread
with its process group, pipes and capture, the cancellation flag, the inherited
writer lock. Operations: begin, resolve, launch, poll, cancel, time out, reap,
record, finish, shut down, finish after a resume. Hard: exit, deadline and
cancellation racing; descendants that outlive their leader; a crash with
processes alive; a step failing while a command is active. Correct when no
process outlives its marker, what is recorded replays, the capture is honest, and
a command comes to an end.

**Finalization and bundles** (`session/finalization.rs`, `session/bundle.rs`).
State: the artifacts in the state directory, the journal's last event and end
bit. Operations: capture, prepare, append the terminal event, end the session,
publish the receipt; recover, resume or retire what an earlier attempt left.
Hard: a kill or a failed call between any two, several submitters and an editor
taking turns. Correct when the frozen evidence agrees with the journal and
repeating the submission settles it.

**Privacy, retention, set-aside, usage** (`session/privacy.rs`, `retention.rs`,
`set_aside.rs`, `usage.rs`): provenance of pasted text; which artifacts may be
reclaimed; viewing and measuring them. Hard: reclaiming beside a live session.

**Language service** (`language_service.rs`, `diagnostics.rs`,
`session/diagnostics.rs`). State: a child process, document versions, requests
in flight. Hard: answers for versions that are gone, restarts, shutdown. Correct
when nothing stale is shown or applied, no server runs beside a command, and no
request is waited for in vain.

**Front ends** (`tui/`, `editor/`, `work_editor.rs`, `work.rs`, `console.rs`,
`replay_tui/`): keys, layout, drawing, messages, command line.

**Verification and review** (`verify.rs`, `review_flags.rs`, `scan.rs`):
sequential reports over finished archives.

**Update, toolchain, environment, doctor, settings** (`update.rs`,
`toolchain.rs`, `environment.rs`, `doctor.rs`, `config.rs`, `preferences.rs`,
`version.rs`): discovery and files read once; the update state file is shared by
processes.

**Prototypes** (`milestone_a.rs`, `rust_analyzer_spike.rs`): not on the
product's path.

## The modules and the code

### EventLog and Journal

`EventLog` is the promise: per session a sequence of bodies and a status;
`Create`, `AppendBatch` (one event, a pair or a checkpoint, whole) and `End`.

`Journal` is the store. `db` holds the committed tables, `holder` the connection
inside an IMMEDIATE transaction, `work` the tables as that transaction sees
them, `op` what it is doing. `Begin...` actions take the lock and perform the
checks at the head of the Rust functions; `InsertRow`, `StorePayload` and
`Advance` are the INSERTs and the UPDATE, one step each; `Commit` publishes,
`Rollback` and `Crash` discard. `Inspect` is the autocommit read that
`process_job` makes before its transaction, `BeginVerify`/`FinishVerify` the
DEFERRED transaction of the verifier. A hash is modelled by what it identifies,
the sequence of bodies it covers; collisions are assumed away. `Envelopes` are
those a caller may present, sealed on any hash ever seen: stale, another
session's or never stored. A refused operation is the absence of a step, since
it rolls back before its first statement. `ImplementsEventLog` is the refinement:
`log` is the committed rows in order. The store's specification is `StoreSpec`, from
`StoreInit` and `StoreNext`, so that one module can reason about store, writer and schedule.

### JournalWriter

One request moves from `submitting` (it has an attempt identity) through
`queue` and `current` to a `receipt`. A commit is one step and leaves its events
in `log`; that a commit is whole is `Journal`'s subject. `DropReceiver` is what
the thread's end does to the jobs still queued: their receipts answer
WorkerStopped. Failure may strike before the commit (`Refuse`) and panic on
either side of it. `Close` drops the sender, `Join` waits for the thread.

### CheckpointSchedule and CheckpointAccounting

The first is the schedule's code as operators on a record, used again by
`SessionAuthority`. The second drives it in every order and keeps the history
that the schedule does not: `recorded` edits in all, and what the newest durable
snapshot `covered`.

### SessionAuthority

The calling thread executes one `call` at a time through the phases of the code
(settle a finished checkpoint, check headroom and soundness, submit, send, wait,
adopt), while the worker of an instance `W` of `JournalWriter` runs beside it.
An element of `Writer` is one incarnation of the session: `start` uses the
first, each `resume` the next; `Crash` removes the process with its worker and
lock. Closing is in the code's order: the sender, the join, and last the lock.
The replay is modelled by what it decides: each event carries whether the
replay accepts it. An append that a dead or full queue refuses cannot be reached
in a healthy Authority (the failed job poisons it first), and a poisoned
Authority may still adopt a checkpoint that became durable. Session end is not
appended by the live Authority and belongs to finalization.

### SessionRecovery

`disk` is D, `saved` is S, `log` holds the recorded events, each with the L and the
active document replay reaches with it, and checkpoints with the active document
they show. Replay has no active document between the deletion of one and the focus
of its successor, which are two events; the editor always has one (`Active`).
Every read of the whole workspace, write of one file, recorded event
and published artifact is a step, labelled by `pc`; `goal` is the call on whose
behalf. `OtherProgram` changes any file between any two steps, `Crash` ends the
process anywhere, `Resume` validates the durable state as `validate_prefix` does
and decides between an interrupted save of its own (finish it) and a foreign
change (reconcile). An error stops the session; what is left is what a crash
would leave. Three ghosts state the properties: `foreign` (files last changed by
another program), `fresh` (those changed since the session last read the disk)
and `meddled` (anything foreign since the last baseline).

Abstractions: reading the workspace is one instant (the scan detects most
changes during itself and errs); a document is named by its path, and the
successor of a deleted one is any of the others; selection and cursor events are left
out, they keep every file and the active document; discarding unsaved text at the
end is not modelled; file policy and text refusals are a stop; Format and
the dependency tool, which publish files on the user's behalf, are not modelled;
file contents come from a small set in which one value is produced by both the
editor and other programs, so that foreign contents may equal the session's own.

A create, rename or delete cut short between its event and its baseline leaves
the set of files different from the baseline's; the code deliberately does not
attribute changes of presence to its own writer (`session.rs:1220`), so it is
reconciled as an external observation. `OwnWorkNotForeign` names that exception.

### WorkspaceMutation

`SessionRecovery` writes a file in one step; this module is that step. A node is
an inode, `dir` the three names an operation deals with: the target, the
destination of a rename and the temporary name, which is private (it carries the
process identity and a nonce). `pc` is the next system call: look at the entry
(`Discover`), stage the replacement, change the directory in one call
(`Publish...`), look at what that call really moved (`Inspect`, `Verify`), then
unlink the old node (`Commit`) or run the same call backwards (`Restore...`).
`OtherProgram` renames a file over an entry or deletes one between any two of
these, as often as it likes; `Fail` is a failed call anywhere. `shadow` is what
the directory would be had the operation never run, so that "all" and "nothing"
can be said exactly, and `disturbed` records that another program acted again
after the call that changed the directory.

What the code does at the edges is part of `Atomic` and `ForeignKept`: a
substitute that is no regular file is refused where it was moved to and not put
back (the tests at `mutation.rs:1848`, `1873` and `1897` substitute regular files
only); a write whose repair meets a third file unlinks that one silently; a
failure after the commit is an error although the operation took effect, which
is why `failed` promises nothing.

### CommandReplay, CommandWorker, CommandProcess, ControlledCommand

A command is written in four modules so that each can be checked against its
neighbours.

`CommandReplay` is the reading side: the events a command leaves, and `Accepts`,
which says of one more event whether `ReplayEngine` takes it in a given state. It
refuses, for example, a start while another command is active, output that is
not contiguous, a finish that does not name the checkpoint right before it or
whose totals differ from the recorded chunks, a comparison that does not follow
its finish.

`CommandWorker` is the contract in the middle: a worker that runs a command ends
with a result of a certain form, and unless that result says that cleanup is
pending no process of its group is alive; if pending, a reaper will say when.

`CommandProcess` is one worker in detail, turn by turn of the polling loop of
`execute_with_io_and_handoff`: drain, watch, signal. Between any two steps the
program writes, closes its end of one pipe or of both, forks, lets a descendant
leave the group, or dies; a read, a wait, a kill or a probe fails; the deadline or the cleanup time passes; the user cancels
or quits; the thread panics. `Contract` is the refinement to `CommandWorker`,
`CaptureHonest` compares a capture with all that the program ever wrote.

`ControlledCommand` is the session around it. `pc` is where the call under way
is, `job` what the next poll finds; the marker, each event and each checkpoint
are steps of their own, any of which may fail (`StepFails`) or be cut by `Crash`.
The processes of a command survive a crash and hold the writer lock that they
inherited; `Resume` needs the lock, so that a free lock with a marker of another
process is proof that no process is left, and the interrupted command is
finished from what the journal holds. A marker of the own process identity, and
an unfinished command without a marker, are refused. Every appended event is put
to `CommandReplay`, and `refused` remembers if one was ever turned down: such a
journal could never be resumed or submitted again.

The cancellation flag is shared: a resolver whose probe lingers stores 1 over a
quit's 2 (`session/command.rs:3001`, `ProbeLingers`). Nothing here depends on which
of the two it is: either abandons the preparation, and the front end asks for the
quit again as long as it is pending (`Quit`). The flag counts as 0 when nobody is
left to read it. One probe stands for all of the resolver's, and a poll records any
number of chunks where the code records up to two. The event reserve is that of
`begin_command` (sequence, chunks of the limit, 16 and, for format and dependency
actions, one for every file, within the budget); more than 16 external
reconciliations during one command could use it up, and then the append fails and
the session is poisoned, which is `StepFails`.

Left out: `Job::CleanupBlocked`, for a result that neither confirms the cleanup nor
hands it over, which `execute_with_io_and_handoff` never builds
(`command_process.rs:1030`), and for a panic that loses track of the processes, which
cannot happen on Unix. In `CommandReplay` the command
events of format 1 (`legacy_active`) are left out, which no session records any more.

### Finalization

`log` is the journal, `files` the artifacts, each the prefix of the journal that
it describes; manifests, digests and sizes are functions of that prefix and left
out. Several submitters (`rustrace submit`) and editors (`rustrace work`) take
turns under the writer lock, which each gives back between asking whether a
submission has started and resuming the session. A process captures the prefix,
writes the components and the prepared marker, appends the terminal event, ends
the journal session and publishes the receipt, one step each; `Crash` strikes
between any two, a failed publication may have taken effect or not
(`hash.rs` publishes by renaming and syncs afterwards), and `Refuse` stands for
every refusal that depends on data left out: limits, an unconfirmed submission,
files that differ from what is saved and recorded. `Certify` and `Recover` decide
what an earlier attempt left behind: a receipt that agrees with its files and the
journal is the answer, a prepared marker is finished, and anything else is
incomplete. So is, this once, what cannot be read: a fault at `Recover` leads to an
incomplete recovery even beside a receipt. That includes `require_inactive_marker`:
a submission refuses to prepare while a command is active and no session opens the
workspace after the capture, so that the marker of a command can only be unreadable
there, never active. Publishing the failure marker and giving up the lock are two
steps (`MarkIncomplete`, `Release`), as are the receipt and the lock. The name of a retired marker carries the prefix
length; it cannot collide because every resume appends an event first.

Left out: the enrichment of a linked revision's capture is not a step of its own
(it rewrites the file with the same prefix), and a refusal by gaps or ancestry
after the capture is `Ancestry` leading to failure.

### LanguageService

The optional rust-analyzer beside the editor: `LanguageService` and `Protocol` of
`language_service.rs`, and what `session.rs` does with its answers.

| variable | in the code |
| --- | --- |
| `service` | `LanguageService`: `state`, `generation`, `retries`, `cleanup_uncertain`; `protocol` while running: requests pending, `outbox`, the document the server was sent |
| `ui` | `pending_completion_request`, `completion`, `automatic_completion_requests`, `live_diagnostics` and their generation |
| `wire`, `alive` | what the reader thread has queued, the server's own text and requests; server processes that exist |
| `document`, `created`, `modal`, `command`, `sequence` | the active file at one path, dialogs, a command's ownership, events of requests |

`PollRunning`, `PollResolved` and `PollQuiet` are whole polls of
`poll_language_service`: flush, receive, reconcile documents, expire, flush again,
publish the resolution and launch, then hints, completions, deferred automatic
requests and retirement. The user edits or gives any other command
(`Execute`, which forgets the completion first), deletes, creates, asks, accepts,
opens dialogs, begins and ends commands and reloads between them; foreign changes stop
the server for good until a command has ended or the user reloads. The server
answers in any order from the text it had when it read the request or has now,
refuses, publishes hints, dies, or survives the cleanup that was meant to end it.

`NothingStale` compares what is shown with the text the server computed it from,
which the code cannot see: it has the path, the version number and its own
identities. One case is not excluded by the code and is named in the property: a
file is deleted and another created at its path, and a hint that was under way for
the first arrives when the second has the same version number. Completions are
matched by request and not exposed to this. `ServerConfined` is about
`cleanup_uncertain`: a cleanup or a resolver that was not confirmed keeps commands
from starting and any further server from being launched. `NeverStranded` says
that what the editor waits for has an answer or a deadline before it. That a poll
does come is the event loop's doing; liveness is not checked here, since deciding
in every state whether a whole poll is enabled is beyond TLC's reach at this size.

## What the runs check

| run | instance | bounds | states | what it shows |
| --- | --- | --- | --- | --- |
| `journal` | 2 connections, 2 sessions | 3 sequences | 667,478 | refinement of `EventLog`; prefix, chain, checkpoints, pairs, verification, one unfinished session, up to the sequence limit |
| `writer` | 2 threads, 2 writers, queue of 1 | 4 attempts | 173,521 | order, receipts, shutdown; every receipt is answered |
| `checkpoint_accounting` | 3 attempts, threshold 2, interval 2 | 8 edits, time 4, counters saturate at 3 | 1.36 million | the schedule is exact |
| `authority` | 2 incarnations, queue of 2 | 5 attempts, budget 6 | 1.03 million | the Authority's safety; every call returns |
| `recovery` | 2 files, or 1 | 6 events, 1 foreign change, or 2 | 9.9 million | foreign versions kept, own work recognised, rest is clean, always resumable, one case only in which a checkpoint is not certified |
| `recovery_race` | 1 file | 4 events, 1 foreign change | stops at the violation | see below |
| `recovery_active` | 2 files | 6 events | stops at the violation | see below |
| `mutation` | 3 foreign nodes, one no regular file | none | 3,520 | one operation is all or nothing, nobody's file is unlinked |
| `process` | 2 streams, leader, child and escaped descendant | 3 bytes written, limit 2 | 782,334 | capture honest, contract kept |
| `command` | 2 process identities, 4 kinds of command | 3 turns, output 2, budget 26 | 697,156 | everything recorded replays, no orphans, commands end |
| `finalization` | 2 submitters, 1 editor | 4 edited events, 2 faults | 886,656 | evidence agrees with the journal, repetition settles it |
| `language` | 1 path, 2 identities, 2 servers, 1 retry | 2 requests, 2 edits | 394,986 | nothing stale is shown, no server beside a command, nobody waits in vain |

The bounds are named constants: `MaxSequence`, `MaxAttempt`, `MaxBatch`,
`MaxRecorded`, `MaxTime`, `Budget`, `MaxEvents`, `MaxExtent`, `MaxProduced`,
`MaxTurns`, `MaxFaults`, `MaxEdits`, `MaxGeneration` (and `MaxSequence` of
`LanguageService`, which counts its requests). `MaxSequence`, `MaxAttempt`, `Budget`, `EventBudget`,
`OutputLimit`, `SessionOutput` and `ChunkBytes` are limits of the code itself,
made small so that runs reach them. Why the sizes are enough: races in the store
need two parties, a pair needs two rows before the limit, and three sequences are
a checkpoint or single event and then a pair; a failed job needs
one before and one behind it; saturation needs more edits than the largest
count; a checkpoint in flight needs an append behind it and, for a resume, a
second incarnation. In `recovery` six events are the initial checkpoint, an edit,
an observation, a decision and the sealing checkpoint with one to spare for a
second edit or a resume, or a deletion cut short, the resume and all that follows
it up to the sealing checkpoint; two files make a save cut in the middle possible. `MaxExtent` bounds files and foreign changes together:
a session of one file sees a second foreign change, which is what reaches
the repeated observation and the reuse of evidence. In `mutation` three foreign
nodes replace the target before and after the publishing call and fill the other
name. In `process` the program can write one byte more than its limit keeps, on
either stream. In `command` three turns are a command, a crash with its resume
and one more command, edit, reconciliation or crash; the output is two chunks, so
that a recording can be cut between them, and a budget of 26 events lets two
commands begin and refuses a third. In `finalization` two faults are
what it takes to cut an attempt and then the attempt that repairs it; the budget
of 12 is one more than any attempt reaches, so that a full journal is not among
the obstacles. In `language`
two edits are one more version of the first document or, beside the first server,
a second document at its path; two requests are one that is put off behind another;
two of either fill `MAX_PENDING_REQUESTS`; and two servers are the least that a
stale answer, an unconfirmed cleanup and a reload need. A poll finds at most one
deadline passed. That a second document meets a second server is left to the proof.

Deadlock checking is off where the system may stop: a closed writer, an ended
session, an exhausted budget, a finished operation, a worker that has returned.
In `finalization` it is on.

Symmetry is used only for connections, in the runs of the store, and no property
names one of them. The refinement run too is a safety property.

Each property has a mutation of a mapped definition that breaks it (a dropped
guard, a swapped order, a missing reset), recorded under "mutants". An operator
with the comment "mutant" is such a mutated form, written out where it needs a
definition of its own.

## Two disagreements with the guide

### A deletion cut short

`WorkspaceSession::delete` records the deletion of the active document
(`FileDeleted`) and the focus of its successor (`FileFocused`) as two separate
durable events (`workspace.rs:1740-1742`). If the process is killed between them,
replay has no active document. On resume `from_recovered` activates the first
document without recording it. The file is still on disk, so the session
reconciles and seals the restoration with a checkpoint that names this document.
Nothing complains: appending and resuming check only hashes. But submission and
verification certify every checkpoint against replay, and certification compares
the active document (`crates/replay/src/lib.rs:355`). They refuse the attempt from
then on, although `docs/student-guide.md:1262` says that after a crash "nothing
recorded is lost". `recovery_active` shows the shortest such behaviour.
`OnlyCutDeletesMiss`, which holds, says that it is the only way to such a
checkpoint. Recording a focus on resume where replay has none would repair it.

### A file changed at the last moment

`docs/student-guide.md:1338-1351` says that the outside version of a file is
kept as recovery evidence and that "Nothing is deleted." The session reads the
whole workspace, compares, and then writes a file; the write itself
(`write_workspace_file_in`) discovers the file anew and afterwards compares
inode identity, not contents. If another program rewrites the file in place
between the comparison and the exchange, its version is replaced and kept
nowhere. `recovery_race` shows the shortest such behaviour. `ForeignVersionsKept`,
which holds, says that this window is the only one: a version the session could
have read is never lost. The same window exists in `restore_disk`.

## Fairness

A step is assumed to be taken eventually only where the code itself, or the
operating system under it, keeps trying.

* `writer`: a worker thread with something to do is scheduled and a journal
  operation ends (SQLite stops waiting for a lock after `BUSY_TIMEOUT`). Nothing
  is assumed of the threads that submit.
* `authority` adds that the thread inside a call is scheduled. Nothing is assumed
  about which calls are made, or about closing.
* `process`: the worker's loop runs (it sleeps for a bounded time between turns),
  time passes, and a process that has received SIGKILL dies. Nothing is assumed
  of the program otherwise: it may write, fork or sleep for ever.
* `command`: the user interface, which polls a command in its event loop and in
  `shutdown_command`, goes on with the call under way, with the next poll or with
  the departure the user asked for; a worker returns and its reaper answers, which
  is what `Contract` shows of `CommandProcess`; the resolver's own probes die of
  their SIGKILL. Not assumed: that strays end, that the user quits, that a crash
  is followed by a resume.
* `finalization`: a submission that stopped is run again, as its message tells the
  user to do, and an editor that holds the workspace finishes resuming and is
  closed one day. The claim is about a submission repeated by each of its
  submitters; faults are bounded by `MaxFaults`, so that it reads: once things
  stop failing, it settles.

All other runs are safety and assume nothing.

## What is proved

`JournalProofs` (3008 obligations) is about the three parts of the crate `journal` in turn.
Of the store it proves, for every set of connections, sessions
and payloads and every `MaxSequence` in Nat \ {0}: `TypeOK`, `ContiguousPrefix`,
`ChainIntact`, `CheckpointsOwned`, `PairsWhole`, `SingleUnfinished`,
`NoFalseAlarm`, and the action property `AppendOnly`. The only assumption is
`JournalAssumption`.

None of these is inductive alone. Between lock and commit the tables of the
transaction are deliberately wrong (a row without its successor, a checkpoint
event without its payload, a cursor not yet advanced), so the invariant `IInv`
relates three things: the committed tables are right (`TableGood`: prefix,
chain, checkpoints, pairs; an absent session is empty), every reader's snapshot
was right when it was taken, and the running transaction's private tables are
the committed ones plus a subset of a well-formed batch (`WorkGood`). Each kind
of transaction gets one lemma for its beginning, each statement one lemma, and
`CommitTable` shows that what COMMIT publishes, when every row is in and the
cursor advanced, is right again. `SingleUnfinished` needs that a create found no
unfinished session under the lock it still holds. `AppendOnly` follows from
`WorkGood` at COMMIT and is trivial elsewhere.

It then proves `ImplementsEventLog` from the same assumption: read through `LogOf`, the
committed tables of the store behave as the append-only log of `EventLog`. Every step but COMMIT leaves them alone. What COMMIT
publishes is known from `WorkGood`: the transaction is complete, so its rows are
the old ones and exactly the batch, numbered from the old cursor on, and
`LogOfAppend` turns that into the old log followed by the bodies of the batch. A
creation maps to `Create`, an append that ends the session to `End`, any other to
`AppendBatch`.

Of the writer it proves `ReceiptsTruthful`,
`InAcceptanceOrder` and `ShutdownReports` for any submitting threads, writers, jobs
and queue, from `WriterAssumption` alone (a job is a non-empty sequence of events;
there is room for one request). A receipt that says "persisted at n" is about a
commit that its writer made earlier and may have forgotten, between commits of
others. So the invariant says of each writer (`Lane`) that for some number n exactly
its first n accepted jobs are in the log, whole and in order (`Split`), that every
receipt says what that n entails (`Answers`), and how n relates to the queue, to the
job in hand and to the thread's step (`Stage`): the queue holds the jobs after the
one in hand, and after a failure n never grows again. `Identities` keeps the jobs
apart: no identity of an attempt is used twice, or with two writers. Each action of
a thread becomes a lemma about one lane; that the lanes of other writers do not
notice an append to the common log is `OtherLanes`.

Of the schedule it proves `CountExact` and `DueExactly` for every threshold,
interval and counter width. The invariant adds what the pending attempt knows:
the edits at its capture plus those recorded after it are the edits now, each
saturated. Saturation is harmless because the subtraction the code performs at
an acknowledgement is only of the saturated later part (`SaturatingFacts`).

`AuthorityProofs` (2967 obligations) proves every safety property of `SessionAuthority`,
`LiveIsDurable`, `AcknowledgedInOrder`, `BudgetReserve`, `FinishesReplayable`,
`BooksMatchReplay`, `LockCoversWorker` and `PoisonFinal`, for any number of
incarnations, any budget, threshold and queue, from `AuthorityAssumption` alone.
The composition is what makes it hard: an event is durable when the worker of one
module commits it, and replayed when the Authority of the other hears of it. All
rests on one fact: of the requests an Authority sends at most one is under way, since
every append first settles the checkpoint in flight. `Place` says where that one is
(in the queue, with the worker before or after its commit, or answered), and that
without one the worker is idle; `Durably`, that the journal is what was replayed,
with the request's job behind it once it is written and not otherwise. `Owned` says
that the workers of earlier incarnations have ended with empty queues before the
lock is given on, `Called` and `Admission` which calls can be at which step and that
their jobs are within the budget and acceptable to replay, `Fresh` that identities of
attempts are new. `Books` says that `changed` and the schedule's count are what
replay of the journal computes. Those are searches for the last checkpoint and
counts of a filter, which are given their meaning once (`LastFound`, `EditsAre`) and
then followed event by event (`EventCounts`, `JobCounts`).

`RecoveryProofs` (2286 obligations) proves everything the run `recovery` checks of
`SessionRecovery`, for any finite or infinite sets of contents, any finite set of
paths, any event budget and any number of foreign changes, crashes and resumes,
from `RecoveryAssumption` alone. It has four parts, each of which strengthens the
invariant of the one before.

* `AlwaysResumable`. It is not inductive: what the next durable
  step may name depends on what the session in memory holds. `Durable` says that
  evidence is older than the events and outcomes that name it and that no decision
  about it follows its outcome; `Working` that the evidence in hand at each point
  of a reconciliation exists, is about the present text and has no outcome yet.
* `ForeignVersionsKept`. `Traced` follows where the
  contents come from that the session expects on disk: recorded texts, or an
  observation published as evidence. `Current` says that where it writes, only a
  file in `fresh`, changed since its last read, can hold anything else.
* `OnlyCutDeletesMiss`. `WithoutActive` says when replay has
  no active document: from the deletion of it until the focus event that follows,
  a stretch in which nothing is captured, and for good when a resumption comes
  between them.
* `RestIsClean` and `OwnWorkNotForeign`. `Undisturbed` says
  what an undisturbed disk holds at each point: the baseline's files, or, from a
  save's intent to its baseline, a mixture of them and the text which that very
  intent explains, also through crashes and while the next process finishes it.
  Such a disk never leads to a reconciliation; and since a file operation
  changes the set of files (`ChangesMatter`), the second excuse of
  `OwnWorkNotForeign` covers exactly its stretch.

`WorkspaceMutationProofs` (547 obligations) proves `Atomic` and `ForeignKept` for
any set of nodes that other programs may bring, from `MutationAssumption` alone
(the constants are different things). Neither is inductive: whether an answer is
truthful depends on what the call that changed the directory really did.
`Phase` says which operation can be at which call and what it has found, `Held`
that the temporary name belongs to the operation alone, and `Layout`, the heart
of it, compares `dir` with `shadow`: before the publishing call they are the
same; after it, as long as nobody acted again, they differ by exactly that call,
whatever it moved (`Changed`); and after the call backwards they are the same
again. A foreign step before the call changes both alike; one after it sets
`disturbed` and the claim is off, except that unlinking stays confined to the
node that was seen and the operation's own.

`CommandProofs` (1557 obligations) proves `ReplayAccepts` and `NoOrphans` of
`ControlledCommand` for any process identities, limits of output and budgets, any
number of commands, failed steps, crashes and resumptions, from `CommandAssumption`
and `ReplayAssumption` (both only keep `None` apart and numbers numbers). The two hold
together or not at all: a finish that replay refused would leave the command active in
the journal and yet unmarked, and what replay demands of a finish is what the steps
before it recorded. `Stage` is the step of a call, or the job of a poll between
calls. `Known` says at which stages replay knows a command, and that it is the one
in hand; `Living` where worker and reaper are and which processes may be alive, so that
whatever is alive is marked; `Honest` is the contract of `CommandWorker` as far as it
matters here; `Chained` says that the chunks still to be recorded continue what is
recorded, standard output before standard error, up to the captured totals, and
`Counted` that those are what the finish will name. The interrupted command of a crash
is finished from the journal, and `Owner` says which stages that can be.

`CommandProcessProofs` (1221 obligations) proves `CaptureHonest`, and that the worker
keeps the safety half of `Contract` (`ContractSafety`, the abstract `CommandWorker`
without its fairness), for any limits, any programs and process trees and any order of
exits, writes, forks, cancellations and deadlines, from `ProcessAssumption` (limits
are positive, `None` is no outcome). A capture is believed when it ends, and what it
says then depends on everything since the start: so the invariant is a loop invariant
(`Sound`), stated of the values the loop is about to use. `Accounted` says that a
capture which still claims to be complete accounts for every byte written, as read or
still in the pipe, and is closed only when the pipe is empty and nothing more is written to
it; `Limited`, that the two captures together stay within the limit and reach it
exactly when something was cut; `Stands`, that a reason to stop remains one. `Decided`
and `Watched` say what holds of a worker that has left the loop, or has not entered it.
Each step of the worker then maps to a step of the contract or to a stutter
(`WorkerKeepsContract`, `StepKeepsContract`). The fairness half stays with TLC.

`FinalizationProofs` (550 obligations) proves `EvidenceAgrees` for any number of
submitting and editing processes, any budget and any number of faults, from
`FinalizationAssumption` alone. It is the mutual exclusion argument that the code
relies on: `Exclusive`, a process past the writer lock is alone there; `Grounded`,
what it found when it took the lock and published since is still so at each of its
steps. The delicate case is a process cut off after its capture: the next one must
find a capture of exactly the journal as it is, which no editor can have changed
meanwhile because it asks again, under the lock, whether anything is captured.

`LanguageServiceProofs` (2907 obligations) proves `NothingStale`, `ServerConfined` and
`NeverStranded` for any capacities and limits and any number of edits, messages, requests
and restarts, from `ServiceAssumption` alone. A poll handles a whole queue of messages,
and what it does with one depends on those before. So the invariant is about streams:

* `Sent`: the texts on their way to the server end with the synchronised document, and
  whatever the server says, now or later, is about a text that it was once sent
  (`Known`). `Followed` adds that, from a request on, the stream never goes back behind
  the text of that request (`NotBefore`), so that an answer is about this text or a
  later one. A text that has been replaced does not come back (`Past`). An answer is
  shown only while the request's text is still in the editor, and is then about
  exactly that.
* `Counted`: requests on their way have been numbered already, so a new number is new.
  `Waits`: what the editor waits for is among the requests of the protocol, each of
  which has a deadline, or among the answers the poll has in hand.
* `Confined`: which servers can be alive in which state of the service, and that none is
  beside a command.

Each call of the code has one lemma (`...Keeps`), and a poll is their composition. A
queue is handled by a recursive function; what that computes (`HandleAllRuns`) is proved
by taking the least number of messages at which the claim fails (`LeastNatural`,
`Induct`), which is stated over sets of numbers and needs no operator as a parameter.

## What is only model-checked, and what is not modelled

Only model-checked, because they are beyond this proof system: liveness
(`EveryReceiptAnswered`, `CallsReturn`, `CommandEnds`, `SubmissionSettles`, and the
fairness half of `Contract`). Every other property of a passing run is proved.

Inside modelled components these are left out: column decoding and corruption
reports of damaged files, byte formats, sizes and storage headroom, path rules,
wording, and the durability of the file system below SQLite and below an
atomically published artifact, which is taken as done when the call returns
(`Finalization` lets a failed publication take effect all the same). Of commands:
which program and arguments are chosen, the resolution report, console input, the
contents of tool edits, diagnostics, and a resolver's probes but one. Of the
language service: the polite shutdown before the last cleanup, requests of the
server, positions, navigation among diagnostics. Of finalization: the contents and
limits of manifests, `start_revision` and the ancestry of linked revisions, read-only inspection, the recovery manifest, the
writing of the bundle file. Of the mutation of files: parent directories, which
are pinned by descriptor, and files outside the workspace.

Not modelled at all, and why the share of the source that is mapped stays small:

* Drawing, layout, keys and the command line (`tui/`, `replay_tui/`, `editor/`,
  `work_editor.rs`, `console.rs`, `process_indicators.rs`) are most of the code by
  lines. Their state is what is on the screen, and what they promise is how it
  looks.
* Codecs and archives (`crates/model`, `checkpoint.rs`, `rprov*.rs`,
  `assignment_package.rs`, `fixture_tree.rs`) are functions from bytes to values.
  What could be said of them is that decoding inverts encoding, byte by byte.
* Verification and review (`verify.rs`, `review_flags.rs`, `scan.rs`) read finished
  archives in one pass.
* Update, toolchain, environment, settings: discovery of installed tools and files
  read once.
* The canonical scan is one instant in `SessionRecovery`; its own protocol is to
  fail if anything changes meanwhile.
* Editor buffer, retention, privacy and the rest of replay have
  state and protocols worth modelling and are in the plan.

## Plan

Done, in this order: `EventLog`, `Journal`, its proofs and its refinement; `JournalWriter`
and its proofs; `CheckpointSchedule`, `CheckpointAccounting` and their proofs; `SessionAuthority`,
which composes writer and schedule, and its proofs; `SessionRecovery` and its proofs;
`WorkspaceMutation` and its proofs; `CommandReplay`, `CommandWorker`, `CommandProcess` and
`ControlledCommand`, which composes the contract and the replay rules, and the proofs
of the last two; `Finalization` and its proofs; `LanguageService` and its proofs.

Left, most important first:

1. `EditorBuffer`: edits, undo and redo with save points; durable before visible.
2. `Retention`: what may be reclaimed while a linked session refers to it.
3. The rest of the replay engine: documents, focus and files, against the live
   workspace.
