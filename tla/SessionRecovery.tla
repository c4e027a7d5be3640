--------------------------- MODULE SessionRecovery ---------------------------
(***************************************************************************)
(* src/session.rs and src/tui/workspace.rs: how a session keeps the files  *)
(* on disk equal to its recorded text, across saves, file operations,      *)
(* changes made by other programs, crashes and resumptions, and what its   *)
(* checkpoints say of the active document.                                 *)
(*                                                                         *)
(* Three views of the workspace exist.  S is what the session last knew to *)
(* be on disk, L is the text its recorded events spell out, D is what is   *)
(* on disk, where any other program may write at any moment.  The session  *)
(* only ever reads D to compare it.  When D is not S it keeps all three as *)
(* evidence, records what it saw and what it will do, and then writes L    *)
(* back; when it saves, it first leaves a durable intent, so that after a  *)
(* crash a half-written save is told from another program's work.          *)
(*                                                                         *)
(* Every read of the whole workspace, write of one file, durable event and *)
(* published artifact is a step of its own.  An error stops the session    *)
(* (it is poisoned); like a crash, that leaves the durable state as it is. *)
(* The journal itself is SessionAuthority.tla and Journal.tla; the text of *)
(* the buffers is always that of the recorded events (LiveIsDurable).      *)
(***************************************************************************)
EXTENDS Naturals, Sequences, FiniteSets

CONSTANTS
    File,           \* paths, numbered in path order
    Assigned,       \* sets of paths a session may start with
    Text,           \* contents the editor produces
    Outside,        \* contents other programs write
    Empty,          \* the contents of a file just created
    Absent,         \* no file at that path
    None,
    MaxEvents,      \* event budget of the session
    MaxExtent       \* bound on files and changes by other programs, together

Contents == Text \cup Outside \cup {Absent}
Versions == [File -> Contents]

ASSUME RecoveryAssumption ==
    /\ File \subseteq Nat /\ IsFiniteSet(File)
    /\ Assigned \subseteq (SUBSET File) \ {{}}
    /\ Empty \in Text
    /\ Absent \notin Text \cup Outside
    /\ None \notin File
    /\ None \notin [saved : Versions, logical : Versions, disk : Versions]
    /\ MaxEvents \in Nat \ {0}
    /\ MaxExtent \in Nat

VARIABLES
    disk,           \* D
    log,            \* recorded events, each with the L and the active
                    \* document replay reaches with it
    baseline,       \* baseline.json: a sequence and the S of that moment
    intent,         \* save-intent.json, or None
    evidence,       \* evidence-HASH.bin artifacts
    restored,       \* restored-HASH.json artifacts
    pc,             \* what the session does next; "down" without a process
    goal,           \* the call under way
    saved,          \* S, the workspace's persisted_contents
    view,           \* ProductionSession.external: the three views, or None
    pending,        \* ProductionSession.pending_evidence
    held,           \* the evidence of the reconciliation under way
    unrecorded,     \* files whose observation is still to be recorded
    observed,       \* the D a reconciliation or a restoration started from
    expected,       \* the D a sequence of writes must find
    attempt,        \* observations made by the reconciliation under way
    foreign,        \* files another program was the last to change
    fresh,          \* those of them changed since the session's last read
    outside,        \* changes other programs made
    meddled         \* another program changed something since the baseline

durable == <<log, baseline, intent, evidence, restored>>
control == <<pc, goal>>
locals == <<saved, view, pending, held, unrecorded, observed, expected, attempt>>
outer == <<disk, foreign, fresh, outside, meddled>>
vars == <<durable, control, locals, outer>>

-----------------------------------------------------------------------------
NoFiles == [p \in File |-> Absent]
Present(files) == {p \in File : files[p] # Absent}
First(paths) == CHOOSE p \in paths : \A q \in paths : p <= q

(* shown: the active document in a checkpoint's payload. *)
Event(kind, files, active, shown, artifact) ==
    [kind |-> kind, files |-> files, active |-> active, shown |-> shown,
     evidence |-> artifact]

(* The three views of RecoveryEvidence; an artifact is named by the digest *)
(* of the views and of the sequence they were captured at.                 *)
Views(s, l, d) == [saved |-> s, logical |-> l, disk |-> d]
Artifact(n, views) == [sequence |-> n, views |-> views]

Logical == log[Len(log)].files
Replayed == log[Len(log)].active

(* The active document of the editor, named by its path.  from_recovered   *)
(* falls back to the first one where replay has none, and records nothing. *)
Active == IF Replayed # None THEN Replayed ELSE First(Present(Logical))

(* The paths that come and go. *)
Paths == Present(log[1].files)

Receipt == [sequence |-> Len(log), files |-> Logical]

HasOutcome(artifact) == \E o \in restored : o.evidence = artifact

-----------------------------------------------------------------------------
(* Kinds of step: reading the whole workspace, writing one file, neither.  *)
Look == fresh' = {} /\ UNCHANGED <<disk, foreign, outside, meddled>>

Put(p, contents) ==
    /\ disk' = [disk EXCEPT ![p] = contents]
    /\ foreign' = foreign \ {p}
    /\ fresh' = fresh \ {p}
    /\ UNCHANGED <<outside, meddled>>

Start(label, call) == pc' = label /\ goal' = call
Goto(label) == Start(label, IF label \in {"idle", "stopped"} THEN "none" ELSE goal)

(* A read that must find `files'; anything else is an error. *)
Require(files, label) ==
    /\ Look
    /\ Goto(IF disk = files THEN label ELSE "stopped")

Recorded(event) ==
    /\ Len(log) < MaxEvents
    /\ log' = Append(log, event)
    /\ UNCHANGED <<baseline, intent, evidence, restored>>

Record(kind, files, artifact) ==
    Recorded(Event(kind, files, Replayed, None, artifact))

RecordCheckpoint ==
    Recorded(Event("checkpoint", Logical, Replayed, Active, None))

(* persist_baseline requires D = S = L. *)
PersistBaseline(label) ==
    /\ IF disk = saved /\ saved = Logical
       THEN /\ baseline' = Receipt
            /\ meddled' = (foreign # {})
            /\ Goto(label)
       ELSE /\ UNCHANGED <<baseline, meddled>>
            /\ Goto("stopped")
    /\ fresh' = {}
    /\ UNCHANGED <<disk, foreign, outside, log, intent, evidence, restored>>

(* What a sequence of writes was based on goes out of scope after it. *)
Return ==
    /\ observed' = NoFiles
    /\ expected' = NoFiles
    /\ attempt' = 0

Forget ==
    /\ saved' = NoFiles
    /\ view' = None
    /\ pending' = None
    /\ held' = None
    /\ unrecorded' = {}
    /\ Return

(* A session just started: genesis checkpoint and first baseline durable. *)
Init ==
    /\ \E paths \in Assigned :
        /\ disk = [p \in File |-> IF p \in paths THEN Empty ELSE Absent]
        /\ log = <<Event("checkpoint", disk, First(paths), First(paths), None)>>
    /\ baseline = [sequence |-> 1, files |-> disk]
    /\ intent = None
    /\ evidence = {}
    /\ restored = {}
    /\ pc = "idle"
    /\ goal = "none"
    /\ saved = disk
    /\ view = None
    /\ pending = None
    /\ held = None
    /\ unrecorded = {}
    /\ observed = NoFiles
    /\ expected = NoFiles
    /\ attempt = 0
    /\ foreign = {}
    /\ fresh = {}
    /\ outside = 0
    /\ meddled = FALSE

-----------------------------------------------------------------------------
(* Calls.  An edit is durable before it shows, a change of the active      *)
(* document before it happens; every other call first rechecks the disk    *)
(* (recheck_external, save_all).                                           *)
Edit ==
    /\ pc = "idle"
    /\ \E text \in Text :
        /\ text # Logical[Active]
        /\ Record("edit", [Logical EXCEPT ![Active] = text], None)
    /\ UNCHANGED <<control, locals, outer>>

RecordFocus(p) == Recorded(Event("focus", Logical, p, None, None))

Activate ==
    /\ pc = "idle"
    /\ \E p \in Present(Logical) \ {Active} : RecordFocus(p)
    /\ UNCHANGED <<control, locals, outer>>

Call ==
    /\ pc = "idle"
    /\ \E call \in {"poll", "save", "capture", "boundary", "create", "rename", "delete"} :
        Start("recheck", call)
    /\ UNCHANGED <<durable, saved, view, pending, held, unrecorded, observed, expected,
                   attempt, outer>>

AfterRecheck ==
    CASE goal \in {"poll", "open"} -> "idle"
      [] goal \in {"save", "boundary"} -> "intent"
      [] OTHER -> goal

(* A periodic or boundary checkpoint; checkpoint_input verifies the disk.  *)
Capture ==
    /\ pc = "capture"
    /\ IF disk = saved THEN RecordCheckpoint ELSE UNCHANGED durable
    /\ Look
    /\ Goto("idle")
    /\ UNCHANGED locals

(***************************************************************************)
(* create_file, rename_selected, confirm_delete: verify the disk, record   *)
(* the event, change the disk, and save.  A file is only created where     *)
(* there is none, and renamed to a path where there is none.               *)
(***************************************************************************)
Changes ==
    CASE goal = "create" ->
            {[Logical EXCEPT ![p] = Empty] : p \in Paths \ Present(Logical)}
      [] goal = "delete" ->
            {[Logical EXCEPT ![p] = Absent] :
                p \in IF Cardinality(Present(Logical)) > 1 THEN Present(Logical) ELSE {}}
      [] OTHER ->
            {[Logical EXCEPT ![q] = Logical[p], ![p] = Absent] :
                p \in Present(Logical), q \in Paths \ Present(Logical)}

(* What replay makes of it: the active document keeps its identity when    *)
(* renamed, and there is none when it is deleted.                          *)
ActiveAfter(files) ==
    IF Replayed = None \/ files[Replayed] # Absent THEN Replayed
    ELSE IF goal = "rename" THEN First(Present(files) \ Present(Logical))
    ELSE None

NoFallback(files) == goal = "create"                                \* mutant
Refocuses(files) ==
    \/ goal = "create"
    \/ goal = "delete" /\ files[Active] = Absent

RecordChange ==
    /\ pc \in {"create", "rename", "delete"}
    /\ Look
    /\ \/ /\ disk = saved
          /\ \E files \in Changes :
                /\ Recorded(Event(goal, files, ActiveAfter(files), None, None))
                /\ Goto(IF Refocuses(files) THEN "focus" ELSE "mutate")
       \/ /\ disk # saved \/ Changes = {}
          /\ UNCHANGED durable
          /\ Goto("idle")
    /\ UNCHANGED locals

(* The document just created, or a fallback for the one just deleted.     *)
FocusChange ==
    /\ pc = "focus"
    /\ \E p \in Present(Logical) :
        /\ goal = "create" => p \notin Present(saved)
        /\ RecordFocus(p)
    /\ Goto("mutate")
    /\ UNCHANGED <<locals, outer>>

Moved(paths, p, q) == (paths \ {p, q}) \cup (IF p \in paths THEN {q} ELSE {})

Mutate ==
    /\ pc = "mutate"
    /\ LET old == Present(saved) \ Present(Logical)
           new == Present(Logical) \ Present(saved)
       IN  IF ~(old \subseteq Present(disk)) \/ new \cap Present(disk) # {}
           THEN /\ Goto("stopped")
                /\ UNCHANGED <<saved, outer>>
           ELSE /\ Start("recheck", "save")
                /\ IF old # {} /\ new # {}
                   THEN LET p == First(old)
                            q == First(new)
                        IN  /\ disk' = [disk EXCEPT ![q] = disk[p], ![p] = Absent]
                            /\ saved' = [saved EXCEPT ![q] = saved[p], ![p] = Absent]
                            /\ foreign' = Moved(foreign, p, q)
                            /\ fresh' = Moved(fresh, p, q)
                            /\ UNCHANGED <<outside, meddled>>
                   ELSE LET p == First(old \cup new)
                            contents == IF old # {} THEN Absent ELSE Empty
                        IN  /\ Put(p, contents)
                            /\ saved' = [saved EXCEPT ![p] = contents]
    /\ UNCHANGED <<durable, view, pending, held, unrecorded, observed, expected, attempt>>

-----------------------------------------------------------------------------
(***************************************************************************)
(* save_all: a durable intent naming the recorded prefix, then every file  *)
(* whose text is not yet on disk, in path order, each after a whole read   *)
(* that must find nothing but the session's own writes, then the baseline. *)
(***************************************************************************)
SaveIntent ==
    /\ pc = "intent"
    /\ Require(saved, "save")
    /\ intent' = IF disk = saved THEN Receipt ELSE intent
    /\ UNCHANGED <<log, baseline, evidence, restored, locals>>

SaveBegin ==
    /\ pc = "save"
    /\ Require(saved, "check")
    /\ expected' = disk
    /\ UNCHANGED <<durable, saved, view, pending, held, unrecorded, observed,
                   attempt>>

Unsaved == {p \in Present(Logical) : Logical[p] # saved[p]}

SkipCheck == Look /\ Goto("write")                                  \* mutant
CheckBeforeWrite == Require(expected, "write")

SaveCheck ==
    /\ pc = "check"
    /\ IF Unsaved = {} THEN Require(Logical, "baseline") ELSE CheckBeforeWrite
    /\ UNCHANGED <<durable, locals>>

SaveWrite ==
    /\ pc = "write"
    /\ LET p == First(Unsaved)
       IN  IF disk[p] = Absent
           THEN Goto("stopped") /\ UNCHANGED <<saved, expected, outer>>
           ELSE /\ Put(p, Logical[p])
                /\ saved' = [saved EXCEPT ![p] = Logical[p]]
                /\ expected' = [expected EXCEPT ![p] = Logical[p]]
                /\ Goto("check")
    /\ UNCHANGED <<durable, view, pending, held, unrecorded, observed, attempt>>

SaveBaseline ==
    /\ pc = "baseline"
    /\ PersistBaseline(CASE goal = "own" -> "resumed"
                         [] goal = "boundary" -> "capture"
                         [] OTHER -> "idle")
    /\ Return
    /\ UNCHANGED <<saved, view, pending, held, unrecorded>>

-----------------------------------------------------------------------------
(* recheck_external and reconcile_canonical. *)
Recheck ==
    /\ pc = "recheck"
    /\ Look
    /\ Goto(IF disk = saved /\ view = None THEN AfterRecheck ELSE "observe")
    /\ UNCHANGED <<durable, locals>>

(* The second read, after background services are stopped.  With the       *)
(* restoration of the pending evidence already complete only its baseline  *)
(* is missing.                                                             *)
Observe ==
    /\ pc = "observe"
    /\ Look
    /\ observed' = disk
    /\ attempt' = 0
    /\ Goto(IF disk = Logical /\ pending # None /\ HasOutcome(pending)
            THEN "readopt" ELSE "preserve")
    /\ UNCHANGED <<durable, saved, view, pending, held, unrecorded, expected>>

Readopt ==
    /\ pc = "readopt"
    /\ Require(Logical, "settle")
    /\ saved' = Logical
    /\ Return
    /\ UNCHANGED <<durable, view, pending, held, unrecorded>>

(* Pending evidence serves again while its restoration has no outcome and  *)
(* the disk shows what it holds, or the restoration's result.              *)
ReusableAlways == pending # None                                    \* mutant
Reusable ==
    /\ pending # None
    /\ ~HasOutcome(pending)
    /\ view # None
    /\ view.logical = Logical
    /\ view.disk = observed \/ observed = Logical

Differing(views) ==
    {p \in File :
        \/ views.saved[p] # views.disk[p]
        \/ (views.logical[p] = Absent) # (views.disk[p] = Absent)}

(* preserve_observation publishes the evidence before it records anything. *)
WithEvidence(artifact) == evidence \cup {artifact}

Preserve ==
    /\ pc = "preserve"
    /\ LET views == Views(IF view = None THEN saved ELSE view.saved, Logical, observed)
           artifact == Artifact(Len(log), views)
       IN  /\ view' = views
           /\ IF Reusable
              THEN /\ held' = pending
                   /\ unrecorded' = {}
                   /\ UNCHANGED evidence
              ELSE /\ held' = artifact
                   /\ unrecorded' = Differing(views)
                   /\ evidence' = WithEvidence(artifact)
    /\ pending' = None
    /\ Goto("record")
    /\ UNCHANGED <<log, baseline, intent, restored, saved, observed, expected,
                   attempt, outer>>

RecordObservation ==
    /\ pc = "record"
    /\ unrecorded # {}
    /\ Record("observation", Logical, held)
    /\ unrecorded' = unrecorded \ {First(unrecorded)}
    /\ UNCHANGED <<control, saved, view, pending, held, observed, expected, attempt,
                   outer>>

RecordDecision ==
    /\ pc = "record"
    /\ unrecorded = {}
    /\ Record("recovery", Logical, held)
    /\ Goto("confirm")
    /\ UNCHANGED <<locals, outer>>

(* The decision was about `observed': if the disk has changed again it is  *)
(* observed once more, and the second time the session stops.              *)
Confirm ==
    /\ pc = "confirm"
    /\ Look
    /\ IF disk = observed
       THEN Goto("restore") /\ UNCHANGED <<observed, attempt>>
       ELSE IF attempt = 1
       THEN Goto("stopped") /\ UNCHANGED <<observed, attempt>>
       ELSE /\ observed' = disk
            /\ attempt' = 1
            /\ Goto("preserve")
    /\ UNCHANGED <<durable, saved, view, pending, held, unrecorded, expected>>

(* restore_disk: remove what L lacks, then write what differs, each change *)
(* after a whole read that must find nothing but the session's own.        *)
Restore ==
    /\ pc = "restore"
    /\ Require(observed, "restoring")
    /\ expected' = observed
    /\ UNCHANGED <<durable, saved, view, pending, held, unrecorded, observed,
                   attempt>>

ToRemove == Present(expected) \ Present(Logical)
ToWrite == {p \in Present(Logical) : expected[p] # Logical[p]}

RestoreCheck ==
    /\ pc = "restoring"
    /\ IF ToRemove \cup ToWrite = {} THEN Require(Logical, "adopt")
       ELSE Require(expected, "restoreFile")
    /\ UNCHANGED <<durable, locals>>

RestoreFile ==
    /\ pc = "restoreFile"
    /\ LET p == First(IF ToRemove # {} THEN ToRemove ELSE ToWrite)
           contents == IF ToRemove # {} THEN Absent
                       ELSE IF expected[p] = Absent THEN Empty
                       ELSE Logical[p]
       IN  IF (disk[p] = Absent) # (expected[p] = Absent)
           THEN Goto("stopped") /\ UNCHANGED <<expected, outer>>
           ELSE /\ Put(p, contents)
                /\ expected' = [expected EXCEPT ![p] = contents]
                /\ Goto("restoring")
    /\ UNCHANGED <<durable, saved, view, pending, held, unrecorded, observed,
                   attempt>>

Adopt ==
    /\ pc = "adopt"
    /\ Require(Logical, IF goal = "own" THEN "baseline" ELSE "seal")
    /\ saved' = Logical
    /\ Return
    /\ UNCHANGED <<durable, view, pending, held, unrecorded>>

(* The checkpoint that seals a restoration, its outcome, its baseline.     *)
Seal ==
    /\ pc = "seal"
    /\ IF disk = saved THEN RecordCheckpoint ELSE UNCHANGED durable
    /\ Require(saved, "outcome")
    /\ UNCHANGED locals

Outcome ==
    /\ pc = "outcome"
    /\ restored' = restored \cup {[evidence |-> held, sequence |-> Len(log)]}
    /\ Goto("settle")
    /\ UNCHANGED <<log, baseline, intent, evidence, locals, outer>>

Settle ==
    /\ pc = "settle"
    /\ PersistBaseline(AfterRecheck)
    /\ view' = None
    /\ pending' = None
    /\ held' = None
    /\ UNCHANGED <<saved, unrecorded, observed, expected, attempt>>

-----------------------------------------------------------------------------
(***************************************************************************)
(* The process is killed, or a stopped session is quit; and resume_inner.  *)
(***************************************************************************)
Crash ==
    /\ pc # "down"
    /\ Start("down", "none")
    /\ Forget
    /\ UNCHANGED <<durable, outer>>

(* validate_prefix: what resume demands of the durable state. *)
BaselineValid ==
    /\ baseline.sequence <= Len(log)
    /\ log[baseline.sequence].files = baseline.files

EvidenceValid ==
    \A i \in DOMAIN log : log[i].kind \in {"observation", "recovery"} =>
        log[i].evidence \in evidence

OutcomesValid ==
    \A i \in DOMAIN log : log[i].kind = "recovery" =>
        \A o \in restored : o.evidence = log[i].evidence =>
            /\ i < o.sequence /\ o.sequence <= Len(log)
            /\ log[o.sequence].kind = "checkpoint"
            /\ log[o.sequence].files = o.evidence.views.logical

Resumable == BaselineValid /\ EvidenceValid /\ OutcomesValid

(* The newest observation after the baseline, if there is one. *)
PendingExternal ==
    LET after == {i \in DOMAIN log : i > baseline.sequence /\ log[i].kind = "observation"}
    IN  IF after = {} THEN None
        ELSE log[CHOOSE i \in after : \A j \in after : j <= i].evidence

(* An interrupted save of this very prefix: a mixture of its S and L.      *)
IgnoreIntent == FALSE                                               \* mutant
IntentMatches == intent = Receipt

OwnSavePending ==
    /\ PendingExternal = None
    /\ Present(disk) = Present(baseline.files)
    /\ Present(disk) = Present(Logical)
    /\ \A p \in File : disk[p] \in {baseline.files[p], Logical[p]}
    /\ IntentMatches

PresenceDiverged == Present(disk) # Present(Logical)                \* mutant
Diverged == disk # baseline.files \/ Present(disk) # Present(Logical)

(* from_recovered: a file the baseline lacks counts as saved empty.        *)
RecoveredSaved ==
    [p \in File |-> IF Logical[p] = Absent THEN Absent
                    ELSE IF baseline.files[p] = Absent THEN Empty
                    ELSE baseline.files[p]]

Resume ==
    /\ pc = "down"
    /\ Resumable
    /\ Look
    /\ saved' = RecoveredSaved
    /\ IF OwnSavePending
       THEN /\ Start("restore", "own")
            /\ observed' = disk
            /\ UNCHANGED <<view, pending>>
       ELSE /\ Start("resumed", "open")
            /\ UNCHANGED observed
            /\ pending' = PendingExternal
            /\ view' = IF PendingExternal # None THEN PendingExternal.views
                       ELSE IF Diverged THEN Views(baseline.files, Logical, disk)
                       ELSE None
    /\ UNCHANGED <<durable, held, unrecorded, expected, attempt>>

RecordResumed ==
    /\ pc = "resumed"
    /\ Record("resumed", Logical, None)
    /\ Goto(IF view = None THEN "idle" ELSE "recheck")
    /\ UNCHANGED <<locals, outer>>

-----------------------------------------------------------------------------
(* Any other program changes, removes or creates a file, at any moment.    *)
OtherProgram ==
    /\ outside + Cardinality(Paths) < MaxExtent
    /\ outside' = outside + 1
    /\ \E p \in Paths, contents \in Outside \cup {Absent} :
        /\ contents # disk[p]
        /\ disk' = [disk EXCEPT ![p] = contents]
        /\ foreign' = foreign \cup {p}
        /\ fresh' = fresh \cup {p}
    /\ meddled' = TRUE
    /\ UNCHANGED <<durable, control, locals>>

Next ==
    \/ Edit
    \/ Activate
    \/ Call
    \/ Capture
    \/ RecordChange
    \/ FocusChange
    \/ Mutate
    \/ SaveIntent
    \/ SaveBegin
    \/ SaveCheck
    \/ SaveWrite
    \/ SaveBaseline
    \/ Recheck
    \/ Observe
    \/ Readopt
    \/ Preserve
    \/ RecordObservation
    \/ RecordDecision
    \/ Confirm
    \/ Restore
    \/ RestoreCheck
    \/ RestoreFile
    \/ Adopt
    \/ Seal
    \/ Outcome
    \/ Settle
    \/ Crash
    \/ Resume
    \/ RecordResumed
    \/ OtherProgram

Spec == Init /\ [][Next]_vars

-----------------------------------------------------------------------------
(* Wherever the session is killed, what it leaves behind passes every test *)
(* a later resume puts to it: the baseline names a recorded prefix, every  *)
(* observation's evidence exists, and no restoration outcome contradicts   *)
(* the decision it belongs to.                                             *)
AlwaysResumable == Resumable

(* Contents that survive outside the file itself. *)
Kept(p) ==
    \/ \E artifact \in evidence : artifact.views.disk[p] = disk[p]
    \/ \E i \in DOMAIN log, q \in File : log[i].files[q] = disk[p]
    \/ \E q \in File : disk'[q] = disk[p] /\ q \in foreign'

Overwrites(p) == p \in foreign /\ disk'[p] # disk[p] /\ p \notin foreign'

(* The session never overwrites or removes another program's version of a  *)
(* file it could have read without having kept it as evidence: only a      *)
(* change that slipped in after its last read of the workspace escapes.    *)
ForeignVersionsKept ==
    [][\A p \in File : Overwrites(p) => Kept(p) \/ p \in fresh]_vars

(* docs/student-guide.md, "View a set-aside version": the outside version  *)
(* is kept as recovery evidence, and nothing is deleted.                   *)
NothingDeleted == [][\A p \in File : Overwrites(p) => Kept(p)]_vars

(* The session never takes its own work for another program's: without an  *)
(* outside change since the last baseline no observation is recorded, also *)
(* when saves and resumptions are cut short again and again -- unless a    *)
(* file operation was cut short, which leaves the set of files itself      *)
(* different from the baseline's.                                          *)
OwnWorkNotForeign ==
    [][\A i \in DOMAIN log' \ DOMAIN log : log'[i].kind = "observation" =>
            meddled \/ Present(baseline.files) # Present(Logical)]_vars

(* When no other program has written since the last baseline, a session at *)
(* rest knows exactly what is on disk and its files are the recorded ones, *)
(* also after saves, file operations and restorations that were cut short  *)
(* anywhere and resumed any number of times.                               *)
RestIsClean ==
    pc = "idle" /\ ~meddled => disk = saved /\ Present(saved) = Present(Logical)

Misses(i) == log[i].kind = "checkpoint" /\ log[i].shown # log[i].active

(* A checkpoint and replay disagree about the active document in one case  *)
(* only: replay has none, since the process was killed after the deletion  *)
(* of the active document was recorded and before its successor was.       *)
OnlyCutDeletesMiss ==
    \A i \in DOMAIN log : Misses(i) =>
        /\ log[i].active = None
        /\ \E j \in 1 .. i - 1 :
            /\ log[j].kind = "delete" /\ log[j].active = None
            /\ log[j + 1].kind = "resumed"

(* crates/replay/src/lib.rs, certify_checkpoint: the active document in a  *)
(* checkpoint is the one replay has reached at its event; submission and   *)
(* verification refuse the whole attempt otherwise.                        *)
CheckpointsCertified == \A i \in DOMAIN log : ~Misses(i)
=============================================================================
