---------------------------- MODULE Finalization ----------------------------
(***************************************************************************)
(* src/session/finalization.rs, with the callers that decide between       *)
(* resuming a session and finishing its submission: `submit_workspace` of  *)
(* session/bundle.rs and `resume_inner` of session.rs.                     *)
(*                                                                         *)
(* A submission freezes the journal's prefix in files of the state         *)
(* directory, then ends the journal with exactly one event and publishes a *)
(* receipt.  It may stop between any two of these: the process dies, or a  *)
(* call fails, and a failed call may have taken effect.  Whatever files    *)
(* are left are all that the next process has.                             *)
(*                                                                         *)
(* A file is the journal prefix it describes: manifests, digests and       *)
(* payload lists are functions of it.  The checkpoint and starter files    *)
(* are one file, "checkpoints"; COMPLETE_EVENTS holds the terminal event   *)
(* too.  Enriching the capture of a linked revision rewrites it with the   *)
(* same prefix and is not a step of its own.                               *)
(***************************************************************************)
EXTENDS Naturals, Sequences

CONSTANTS
    Submitter,      \* processes running `rustrace submit`
    Editor,         \* processes running `rustrace work`
    None,           \* no file; nobody
    MaxEvents,      \* bound: editing stops at this length of the journal
    Budget,         \* SessionBudgets.events: nothing is appended beyond it
    MaxFaults       \* bound: crashes, failed calls and refused attempts

Process == Submitter \cup Editor
Event == {"started", "resumed", "edited", "checkpointed", "submitted"}

ASSUME FinalizationAssumption ==
    /\ Submitter \cap Editor = {} /\ None \notin Process \cup Seq(Event)
    /\ MaxEvents \in Nat \ {0} /\ Budget \in Nat /\ MaxFaults \in Nat

Artifact == {"events", "checkpoints", "capture", "complete", "prefix",
             "manifest", "sources", "prepared", "receipt", "incomplete"}
CAPTURE_ARTIFACTS == {"receipt", "prepared", "capture", "prefix", "complete"}

VARIABLES
    log,        \* the session's events in the journal
    ended,      \* the journal's end-of-session bit
    files,      \* [Artifact -> what the file holds, or None]
    retired,    \* prefix lengths that name a retired failure marker
    lock,       \* who holds writer.lock
    pc,         \* the next step of each process
    mine,       \* the prefix a process captured, or is finishing
    partial,    \* replacing_partial: an earlier attempt left components
    rescue,     \* the step that handles an error of this process
    again,      \* a submission looks at what its own failure left
    told,       \* some submission was told that it is finalized
    faults

vars == <<log, ended, files, retired, lock, pc, mine, partial, rescue, again, told, faults>>
journal == <<log, ended>>
memory == <<mine, partial, rescue, again>>

-----------------------------------------------------------------------------
Init ==
    /\ log = <<"started">> /\ ended = FALSE
    /\ files = [name \in Artifact |-> None] /\ retired = {}
    /\ lock = None /\ pc = [p \in Process |-> "idle"]
    /\ mine = [p \in Process |-> <<>>] /\ partial = [p \in Process |-> FALSE]
    /\ rescue = [p \in Process |-> "failed"] /\ again = [p \in Process |-> FALSE]
    /\ told = FALSE /\ faults = 0

Exists(name) == files[name] # None
Captured == \E name \in CAPTURE_ARTIFACTS : Exists(name)
Terminal(prefix) == Append(prefix, "submitted")
Last == log[Len(log)]

At(p, label) == pc[p] = label
Goto(p, label) == pc' = [pc EXCEPT ![p] = label]
Fail(p) == Goto(p, rescue[p])
Fault == faults < MaxFaults /\ faults' = faults + 1

(* A call that changes something durable: it succeeds, or it fails having  *)
(* taken effect or not.                                                    *)
Attempt(p, done, undone, next) ==
    \/ done /\ Goto(p, next) /\ UNCHANGED faults
    \/ Fault /\ (done \/ undone) /\ Fail(p)

(* PinnedStateDirectory::publish_artifact: a synced temporary is renamed   *)
(* onto the name, over another file only when asked to replace it.         *)
Publish(p, name, content, replace, next) ==
    IF Exists(name) /\ ~replace
    THEN Fail(p) /\ UNCHANGED <<files, faults>>
    ELSE Attempt(p, files' = [files EXCEPT ![name] = content], UNCHANGED files, next)

-----------------------------------------------------------------------------
(* submit_workspace first asks whether a submission has started; the lock  *)
(* is taken and given back, and others may act before its next step.       *)
Submit(p) ==
    /\ p \in Submitter /\ At(p, "idle") /\ Goto(p, "probe")
    /\ again' = [again EXCEPT ![p] = FALSE]
    /\ UNCHANGED <<journal, files, retired, lock, mine, partial, rescue, told, faults>>

Probe(p) ==
    /\ At(p, "probe")
    /\ Goto(p, IF lock # None THEN "idle"
               ELSE IF Captured THEN "recover"
               ELSE IF again[p] THEN "idle" ELSE "resume")
    /\ UNCHANGED <<journal, files, retired, lock, memory, told, faults>>

Work(p) ==
    /\ p \in Editor /\ At(p, "idle") /\ Len(log) < MaxEvents /\ Goto(p, "resume")
    /\ UNCHANGED <<journal, files, retired, lock, memory, told, faults>>

(* resume_inner never writes to a journal that has been captured or has    *)
(* ended, and appends an event of its own before anything else happens.    *)
JournalOnly == ~ended /\ Last # "submitted"                             \* mutant
Resumable == ~Captured /\ ~ended /\ Last # "submitted"

Resume(p) ==
    /\ At(p, "resume")
    /\ IF lock = None /\ Resumable /\ Len(log) < Budget
       THEN \/ /\ log' = Append(log, "resumed") /\ Goto(p, "open") /\ lock' = p
               /\ rescue' = [rescue EXCEPT ![p] = "failed"] /\ UNCHANGED faults
            \/ /\ Fault /\ log' \in {log, Append(log, "resumed")}
               /\ Goto(p, "idle") /\ UNCHANGED <<lock, rescue>>
       ELSE Goto(p, "idle") /\ UNCHANGED <<log, lock, rescue, faults>>
    /\ UNCHANGED <<ended, files, retired, mine, partial, again, told>>

Edit(p) ==
    /\ p \in Editor /\ At(p, "open") /\ Len(log) < MaxEvents
    /\ log' = Append(log, "edited")
    /\ UNCHANGED <<ended, files, retired, lock, pc, memory, told, faults>>

Quit(p) ==
    /\ p \in Editor /\ At(p, "open") /\ Goto(p, "idle") /\ lock' = None
    /\ UNCHANGED <<journal, files, retired, memory, told, faults>>

-----------------------------------------------------------------------------
(* prepare_finalization.  What stops it before the capture (a command, a   *)
(* pending confirmation, a limit, a workspace that differs) is a fault: it *)
(* is expected to be put right before the next attempt.                    *)
Refuse(p) ==
    /\ p \in Submitter /\ At(p, "open") /\ Fault /\ Fail(p)
    /\ UNCHANGED <<journal, files, retired, lock, memory, told>>

Boundary(p) ==
    /\ p \in Submitter /\ At(p, "open")
    /\ Attempt(p, log' = Append(log, "checkpointed"), UNCHANGED log, "inspect")
    /\ UNCHANGED <<ended, files, retired, lock, memory, told>>

ReplacingPartial == Exists("events")

Inspect(p) ==
    /\ At(p, "inspect") /\ ~ended /\ Goto(p, "events")
    /\ mine' = [mine EXCEPT ![p] = log]
    /\ partial' = [partial EXCEPT ![p] = ReplacingPartial]
    /\ UNCHANGED <<journal, files, retired, lock, rescue, again, told, faults>>

(* The components of the capture are published before the file that makes  *)
(* them one, and replace what an earlier attempt left of them.             *)
Capture(p) ==
    /\ \/ At(p, "events") /\ Publish(p, "events", mine[p], partial[p], "checkpoints")
       \/ At(p, "checkpoints") /\ Publish(p, "checkpoints", mine[p], partial[p], "retire")
       \/ At(p, "capture") /\ Publish(p, "capture", mine[p], FALSE, "ancestry")
    /\ UNCHANGED <<journal, retired, lock, memory, told>>

OneName(p) == 0                                                         \* mutant
RetiredName(p) == Len(mine[p])

Retire(p) ==
    /\ At(p, "retire")
    /\ IF ~Exists("incomplete")
       THEN Goto(p, "capture") /\ UNCHANGED <<files, retired, faults>>
       ELSE IF RetiredName(p) \in retired
       THEN Fail(p) /\ UNCHANGED <<files, retired, faults>>
       ELSE Attempt(p, /\ files' = [files EXCEPT !["incomplete"] = None]
                       /\ retired' = retired \cup {RetiredName(p)},
                    UNCHANGED <<files, retired>>, "capture")
    /\ UNCHANGED <<journal, lock, memory, told>>

(* After the capture: seeds, gaps, ancestry and the aggregate limit.       *)
Ancestry(p) ==
    /\ At(p, "ancestry") /\ (Goto(p, "complete") \/ Fail(p))
    /\ UNCHANGED <<journal, files, retired, lock, memory, told, faults>>

Prepare(p) ==
    /\ \/ At(p, "complete") /\ Publish(p, "complete", Terminal(mine[p]), FALSE, "prefix")
       \/ At(p, "prefix") /\ Publish(p, "prefix", mine[p], FALSE, "manifest")
       \/ At(p, "manifest") /\ Publish(p, "manifest", mine[p], FALSE, "sources")
       \/ At(p, "sources") /\ Publish(p, "sources", mine[p], FALSE, "prepared")
       \/ At(p, "prepared") /\ Publish(p, "prepared", mine[p], FALSE, "finish")
    /\ UNCHANGED <<journal, retired, lock, memory, told>>

-----------------------------------------------------------------------------
(* load_candidate: every file the receipt binds is there and describes the *)
(* same prefix, or its one terminal successor.                             *)
Candidate(prefix) ==
    /\ \A name \in {"checkpoints", "prefix", "manifest", "sources"} : files[name] = prefix
    /\ files["complete"] = Terminal(prefix)

(* finish_prepared: the journal must be the prefix, which it extends, or   *)
(* what an earlier attempt made of it.                                     *)

Finish(p) ==
    /\ At(p, "finish")
    /\ IF Candidate(mine[p]) /\ ~ended /\ log = mine[p]
       THEN Attempt(p, log' = Append(log, "submitted"), UNCHANGED log, "end")
       ELSE /\ UNCHANGED <<log, faults>>
            /\ IF Candidate(mine[p]) /\ log = Terminal(mine[p]) THEN Goto(p, "end") ELSE Fail(p)
    /\ UNCHANGED <<ended, files, retired, lock, memory, told>>

EndSession(p) ==
    /\ At(p, "end") /\ log = Terminal(mine[p])
    /\ Attempt(p, ended' = TRUE, UNCHANGED ended, "receipt")
    /\ UNCHANGED <<log, files, retired, lock, memory, told>>

(* A receipt that cannot be published is accepted when the one that is     *)
(* there already is the same: a failed call may have taken effect.         *)
PublishReceipt(p) ==
    /\ At(p, "receipt")
    /\ \/ /\ files["receipt"] \in {None, mine[p]}
          /\ files' = [files EXCEPT !["receipt"] = mine[p]]
          /\ Goto(p, "finalized") /\ UNCHANGED faults
       \/ /\ files["receipt"] # mine[p] /\ Fail(p) /\ UNCHANGED files
          /\ IF Exists("receipt") THEN UNCHANGED faults ELSE Fault
    /\ UNCHANGED <<journal, retired, lock, memory, told>>

(* publish_incomplete_marker, in finalize_with_limits on an error and in   *)
(* build_incomplete, which answers whatever a recovery cannot certify.     *)
MarkIncomplete(p) ==
    /\ pc[p] \in {"failed", "incomplete"} /\ Goto(p, "unfinished")
    /\ \/ files' = [files EXCEPT !["incomplete"] = <<>>] /\ UNCHANGED faults
       \/ Fault /\ UNCHANGED files
    /\ UNCHANGED <<journal, retired, lock, memory, told>>

(* The lock is given up last.  After an error of its own finalization      *)
(* submit_workspace looks once more at what is left.                       *)
Release(p) ==
    /\ pc[p] \in {"finalized", "unfinished"} /\ lock' = None
    /\ LET look == At(p, "unfinished") /\ rescue[p] = "failed"
       IN  Goto(p, IF look THEN "probe" ELSE "idle") /\ again' = [again EXCEPT ![p] = look]
    /\ told' = (told \/ (At(p, "finalized") /\ ~again[p]))
    /\ UNCHANGED <<journal, files, retired, mine, partial, rescue, faults>>

-----------------------------------------------------------------------------
(* recover_finalization reads the published files and the journal, never   *)
(* the workspace.  A receipt, its files and the ended journal are an       *)
(* answer; a prepared marker is finished; the rest is incomplete, and so   *)
(* is anything that cannot be read this time, the marker of a command      *)
(* among it (require_inactive_marker).                                     *)
Certified ==
    /\ Exists("receipt") /\ files["receipt"] = files["prepared"]
    /\ Candidate(files["receipt"]) /\ ended /\ log = Terminal(files["receipt"])

Finishable == ~Exists("receipt") /\ Exists("prepared") /\ files["prefix"] = files["prepared"]

Certify(p) ==
    /\ At(p, "recover") /\ lock = None /\ Certified
    /\ Goto(p, "idle") /\ told' = (told \/ ~again[p])
    /\ UNCHANGED <<journal, files, retired, lock, memory, faults>>

Recover(p) ==
    /\ At(p, "recover") /\ lock = None /\ lock' = p
    /\ rescue' = [rescue EXCEPT ![p] = "incomplete"]
    /\ \/ /\ Finishable /\ Goto(p, "finish") /\ UNCHANGED faults
          /\ mine' = [mine EXCEPT ![p] = files["prepared"]]
       \/ /\ IF Certified \/ Finishable THEN Fault ELSE UNCHANGED faults
          /\ Goto(p, "incomplete") /\ UNCHANGED mine
    /\ UNCHANGED <<journal, files, retired, partial, again, told>>

Busy(p) ==
    /\ At(p, "recover") /\ lock # None /\ Goto(p, "idle")
    /\ UNCHANGED <<journal, files, retired, lock, memory, told, faults>>

(* A process dies between any two steps; its lock goes with it.            *)
Crash(p) ==
    /\ ~At(p, "idle") /\ Fault /\ Goto(p, "idle")
    /\ lock' = IF lock = p THEN None ELSE lock
    /\ UNCHANGED <<journal, files, retired, memory, told>>

-----------------------------------------------------------------------------
Submission(p) ==
    \/ Submit(p) \/ Probe(p) \/ Resume(p) \/ Boundary(p) \/ Inspect(p) \/ Capture(p)
    \/ Retire(p) \/ Ancestry(p) \/ Prepare(p) \/ Finish(p) \/ EndSession(p)
    \/ PublishReceipt(p) \/ MarkIncomplete(p) \/ Release(p)
    \/ Certify(p) \/ Recover(p) \/ Busy(p)

Next == \E p \in Process :
    Submission(p) \/ Work(p) \/ Edit(p) \/ Quit(p) \/ Refuse(p) \/ Crash(p)

(* Whoever submits runs the command again until it settles, and an editor  *)
(* is closed some day.                                                     *)
Spec ==
    /\ Init /\ [][Next]_vars
    /\ \A p \in Submitter : WF_vars(Submission(p))
    /\ \A p \in Editor : WF_vars(Resume(p)) /\ WF_vars(Quit(p))

-----------------------------------------------------------------------------
(* What is frozen stays what the journal says: from the capture on, the    *)
(* journal is the captured prefix or that prefix and its one terminal      *)
(* event, whoever opens the workspace and wherever an attempt stopped; a   *)
(* capture comes with its components and a prepared marker with everything *)
(* it binds; a terminal event or an ended journal has a prepared marker to *)
(* finish it from; and nobody is told "finalized" before the receipt, the  *)
(* terminal event and the end of the session are all durable (finalize,    *)
(* resume_inner, recover_finalization).                                    *)
EvidenceAgrees ==
    /\ Exists("capture") =>
           /\ log \in {files["capture"], Terminal(files["capture"])}
           /\ files["events"] = files["capture"] /\ files["checkpoints"] = files["capture"]
    /\ Exists("prepared") => files["prepared"] = files["capture"] /\ Candidate(files["prepared"])
    /\ Last = "submitted" => Exists("prepared") /\ log = Terminal(files["prepared"])
    /\ ended => Last = "submitted"
    /\ Exists("receipt") => ended /\ files["receipt"] = files["prepared"]
    /\ told => Exists("receipt")

(* Running the same submit command again settles the attempt, whatever the *)
(* attempts before left behind: it ends with a receipt, or with a capture  *)
(* that was never prepared and stays an incomplete recovery.  No leftover  *)
(* component, failure marker, half-finished terminal or lost receipt keeps *)
(* it from either for ever (submit_workspace, prepare_finalization,        *)
(* finish_prepared).                                                       *)
Settled == Exists("receipt") \/ (Exists("capture") /\ ~Exists("prepared"))
SubmissionSettles == <>[]Settled
=============================================================================
