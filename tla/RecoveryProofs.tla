--------------------------- MODULE RecoveryProofs ---------------------------
(***************************************************************************)
(* Theorems about SessionRecovery.tla, in four parts: what can be resumed, *)
(* which foreign versions survive, where a checkpoint and replay disagree, *)
(* and what a session at rest knows.  Each part strengthens the invariant  *)
(* of the one before it.                                                   *)
(***************************************************************************)
EXTENDS SessionRecovery, WellFoundedInduction, FiniteSetTheorems, TLAPS

(***************************************************************************)
(* What a session leaves behind can always be resumed, for any set of      *)
(* paths and contents, any budget of events and any number of changes by   *)
(* other programs, crashes and resumptions.                                *)
(*                                                                         *)
(* The durable half of the invariant adds to AlwaysResumable that evidence *)
(* is older than the events and outcomes that name it; the other half says *)
(* what the session in memory must know of the evidence it holds, at every *)
(* point of a reconciliation, for the next durable step to keep it.        *)
(***************************************************************************)
External == {"observation", "recovery"}

(* Every event that rests on evidence is younger than the evidence. *)
Grounded ==
    \A i \in 1 .. Len(log) : log[i].kind \in External =>
        /\ log[i].evidence \in evidence
        /\ log[i].evidence.sequence \in Nat
        /\ log[i].evidence.sequence < i

(* An outcome names a checkpoint with the text its evidence asked for. *)
Sealed(o) ==
    /\ o.sequence \in 1 .. Len(log)
    /\ o.evidence.sequence \in Nat
    /\ o.evidence.sequence < o.sequence
    /\ log[o.sequence].kind = "checkpoint"
    /\ log[o.sequence].files = o.evidence.views.logical

(* No decision about evidence follows the outcome that settles it. *)
DecidedBefore(o) ==
    \A i \in 1 .. Len(log) :
        log[i].kind = "recovery" /\ log[i].evidence = o.evidence => i < o.sequence

(* There is a newest observation, if there is any. *)
Newest ==
    (\E i \in 1 .. Len(log) : log[i].kind = "observation") =>
        \E i \in 1 .. Len(log) :
            /\ log[i].kind = "observation"
            /\ \A j \in 1 .. Len(log) : log[j].kind = "observation" => j <= i

Durable ==
    /\ Len(log) \in Nat \ {0}
    /\ baseline.sequence \in 1 .. Len(log)
    /\ log[baseline.sequence].files = baseline.files
    /\ Grounded
    /\ \A o \in restored : Sealed(o) /\ DecidedBefore(o)
    /\ Newest

Known(artifact) ==
    /\ artifact \in evidence
    /\ artifact.sequence \in Nat
    /\ artifact.sequence <= Len(log)
    /\ artifact.views.logical = Logical

Holding == {"record", "confirm", "restore", "restoring", "restoreFile",
            "adopt", "seal", "outcome"}

(* The evidence in hand is about the text the session now has. *)
InHand ==
    /\ pc \in Holding /\ goal # "own" => Known(held)
    /\ pc = "record" => ~HasOutcome(held)
    /\ pc = "outcome" => log[Len(log)].kind = "checkpoint" /\ held.sequence < Len(log)

(* Evidence found on resuming is what the session shows as diverged. *)
Resumed ==
    pending # None =>
        /\ pending \in evidence
        /\ pending.sequence \in Nat
        /\ pending.sequence <= Len(log)
        /\ view = pending.views

(* Finishing an interrupted save needs no evidence and never reconciles. *)
OwnSave ==
    /\ goal = "own" =>
        /\ pc \in {"restore", "restoring", "restoreFile", "adopt", "baseline", "resumed"}
        /\ view = None
    /\ pc = "down" => view = None /\ pending = None
    /\ goal \notin Holding \cup External \cup {"down"}

Working == InHand /\ Resumed /\ OwnSave

IsLog == \E S : log \in Seq(S)

Inv == IsLog /\ Durable /\ Working

-----------------------------------------------------------------------------
(* Appending to a sequence of anything. *)
LEMMA Appended ==
    ASSUME NEW S, NEW s \in Seq(S), NEW e
    PROVE  /\ Len(Append(s, e)) = Len(s) + 1
           /\ \A i \in 1 .. Len(s) : Append(s, e)[i] = s[i]
           /\ Append(s, e)[Len(s) + 1] = e
           /\ \E T : Append(s, e) \in Seq(T)
<1>1. s \in Seq(S \cup {e})
  OBVIOUS
<1>2. Append(s, e) \in Seq(S \cup {e})
  BY <1>1
<1> QED
  BY <1>1, <1>2

(* A durable state grows by one event that rests on evidence at hand. *)
LEMMA Grows ==
    ASSUME IsLog, Durable, NEW e, log' = Append(log, e),
           UNCHANGED <<baseline, evidence, restored>>,
           e.kind \in External =>
               /\ e.evidence \in evidence
               /\ e.evidence.sequence \in Nat
               /\ e.evidence.sequence <= Len(log),
           e.kind = "recovery" => ~HasOutcome(e.evidence)
    PROVE  /\ IsLog' /\ Durable'
           /\ Len(log') = Len(log) + 1
           /\ log'[Len(log')] = e
<1>0. PICK S : log \in Seq(S)
  BY DEF IsLog
<1>1. /\ Len(log') = Len(log) + 1
      /\ \A i \in 1 .. Len(log) : log'[i] = log[i]
      /\ log'[Len(log) + 1] = e
      /\ IsLog'
  BY <1>0, Appended, ZenonT(30) DEF IsLog
<1>2. Len(log) \in Nat \ {0} /\ 1 .. Len(log') = 1 .. Len(log) \cup {Len(log')}
  BY <1>1 DEF Durable
<1>3. Grounded'
  BY <1>1, <1>2 DEF Durable, Grounded
<1>4. ASSUME NEW o \in restored PROVE Sealed(o)' /\ DecidedBefore(o)'
  <2>1. Sealed(o) /\ DecidedBefore(o)
    BY DEF Durable
  <2>2. Sealed(o)'
    BY <1>1, <1>2, <2>1 DEF Sealed
  <2>3. e.kind = "recovery" => e.evidence # o.evidence
    BY DEF HasOutcome
  <2> QED
    BY <1>1, <1>2, <2>1, <2>2, <2>3 DEF DecidedBefore
<1>5. Newest'
  <2>1. CASE e.kind = "observation"
    BY <1>1, <1>2, <2>1 DEF Newest
  <2>2. CASE e.kind # "observation"
    BY <1>1, <1>2, <2>2 DEF Durable, Newest
  <2> QED
    BY <2>1, <2>2
<1>6. baseline'.sequence \in 1 .. Len(log') /\ log'[baseline'.sequence].files = baseline'.files
  BY <1>1, <1>2 DEF Durable
<1> QED
  BY <1>1, <1>2, <1>3, <1>4, <1>5, <1>6 DEF Durable

LEMMA Rests ==
    ASSUME IsLog, Durable, UNCHANGED <<log, baseline, evidence, restored>>
    PROVE  IsLog' /\ Durable'
BY DEF IsLog, Durable, Grounded, Sealed, DecidedBefore, Newest

LEMMA Domain == IsLog => DOMAIN log = 1 .. Len(log)
BY DEF IsLog

(* The invariant implies what resume demands. *)
LEMMA Demands == IsLog /\ Durable => AlwaysResumable
<1> SUFFICES ASSUME IsLog, Durable PROVE AlwaysResumable
  OBVIOUS
<1>1. BaselineValid
  BY DEF Durable, BaselineValid
<1>2. EvidenceValid
  BY Domain DEF Durable, Grounded, External, EvidenceValid
<1>3. OutcomesValid
  BY Domain DEF Durable, Sealed, DecidedBefore, OutcomesValid
<1> QED
  BY <1>1, <1>2, <1>3 DEF AlwaysResumable, Resumable

(* The evidence of the newest observation after the baseline, if any.      *)
LEMMA Found ==
    ASSUME IsLog, Durable, PendingExternal # None
    PROVE  /\ PendingExternal \in evidence
           /\ PendingExternal.sequence \in Nat
           /\ PendingExternal.sequence <= Len(log)
<1> DEFINE after == {i \in DOMAIN log : i > baseline.sequence /\ log[i].kind = "observation"}
           last == CHOOSE i \in after : \A j \in after : j <= i
<1>1. after # {} /\ PendingExternal = log[last].evidence
  BY DEF PendingExternal
<1>2. PICK n \in 1 .. Len(log) :
        log[n].kind = "observation" /\ \A j \in 1 .. Len(log) : log[j].kind = "observation" => j <= n
  BY <1>1, Domain DEF Durable, Newest
<1>3. n \in after /\ \A j \in after : j <= n
  BY <1>1, <1>2, Domain DEF Durable
<1>4. last \in after
  BY <1>3
<1> HIDE DEF last
<1>5. last \in 1 .. Len(log) /\ log[last].kind \in External
  BY <1>4, Domain DEF External
<1> QED
  BY <1>1, <1>5 DEF Durable, Grounded

LEMMA InitHolds == Init => Inv
<1> SUFFICES ASSUME Init PROVE Inv
  OBVIOUS
<1>0. PICK paths \in Assigned :
        log = <<Event("checkpoint", disk, First(paths), First(paths), None)>>
  BY DEF Init
<1> DEFINE e == Event("checkpoint", disk, First(paths), First(paths), None)
<1>1. log = <<e>> /\ e.kind = "checkpoint" /\ e.files = disk
  BY <1>0 DEF Event
<1> HIDE DEF e
<1>2. IsLog /\ Len(log) = 1 /\ log[1] = e
  <2>1. <<e>> \in Seq({e})
    OBVIOUS
  <2> QED
    BY <1>1, <2>1 DEF IsLog
<1>3. Durable
  BY <1>1, <1>2 DEF Init, Durable, Grounded, Newest, External
<1>4. Working
  BY DEF Init, Working, InHand, Resumed, OwnSave, Holding, External
<1> QED
  BY <1>2, <1>3, <1>4 DEF Inv

-----------------------------------------------------------------------------
(* An event of a given kind is recorded. *)
LEMMA Recording ==
    ASSUME IsLog, Durable, NEW kind, NEW files, NEW active, NEW shown, NEW a,
           Recorded(Event(kind, files, active, shown, a)),
           kind \in External =>
               a \in evidence /\ a.sequence \in Nat /\ a.sequence <= Len(log),
           kind = "recovery" => ~HasOutcome(a)
    PROVE  /\ IsLog' /\ Durable'
           /\ Len(log) \in Nat /\ Len(log') = Len(log) + 1
           /\ Logical' = files
           /\ log'[Len(log')].kind = kind
           /\ UNCHANGED <<evidence, restored>>
<1> DEFINE e == Event(kind, files, active, shown, a)
<1>1. e.kind = kind /\ e.files = files /\ e.evidence = a
  BY DEF Event
<1>2. log' = Append(log, e) /\ UNCHANGED <<baseline, evidence, restored>>
  BY DEF Recorded
<1> HIDE DEF e
<1>3. /\ IsLog' /\ Durable'
      /\ Len(log') = Len(log) + 1
      /\ log'[Len(log')] = e
  BY <1>1, <1>2, Grows
<1> QED
  BY <1>1, <1>2, <1>3 DEF Durable, Logical

(* A step to a point where the session holds no evidence. *)
LEMMA Steady ==
    ASSUME Durable, Durable', Working, Len(log) <= Len(log'),
           UNCHANGED <<evidence, pending, view>>,
           pc' \notin Holding \cup {"down"},
           goal' \notin Holding \cup External \cup {"down", "own"}
    PROVE  Working'
BY DEF Durable, Working, InHand, Resumed, OwnSave, Holding, External

(* A new baseline is the newest recorded prefix. *)
LEMMA Persisted ==
    ASSUME IsLog, Durable, baseline' \in {baseline, Receipt},
           UNCHANGED <<log, evidence, restored>>
    PROVE  IsLog' /\ Durable'
BY DEF IsLog, Durable, Grounded, Sealed, DecidedBefore, Newest, Receipt, Logical

-----------------------------------------------------------------------------
LEMMA CallsHold ==
    ASSUME Inv, Edit \/ Activate \/ Call \/ Capture \/ RecordChange \/ FocusChange \/ Mutate
    PROVE  Inv'
<1> USE DEF Inv
<1>0. /\ goal \notin Holding \cup External \cup {"down"}
      /\ goal = "own" => pc \notin {"idle", "focus", "create", "rename", "delete"}
  BY DEF Working, OwnSave
<1> SUFFICES IsLog' /\ Durable' /\ Working'
  OBVIOUS
<1> USE DEF Holding, External
<1>1. CASE Edit
  <2>1. PICK text \in Text : Record("edit", [Logical EXCEPT ![Active] = text], None)
    BY <1>1 DEF Edit
  <2>2. IsLog' /\ Durable' /\ Len(log) <= Len(log') /\ evidence' = evidence
    BY <2>1, Recording DEF Record
  <2> QED
    BY <1>0, <1>1, <2>2, Steady DEF Edit, control, locals
<1>2. CASE Activate
  <2>1. PICK p : RecordFocus(p)
    BY <1>2 DEF Activate
  <2>2. IsLog' /\ Durable' /\ Len(log) <= Len(log') /\ evidence' = evidence
    BY <2>1, Recording DEF RecordFocus
  <2> QED
    BY <1>0, <1>2, <2>2, Steady DEF Activate, control, locals
<1>3. CASE Call
  <2>1. IsLog' /\ Durable' /\ Len(log) <= Len(log')
    BY <1>3, Rests DEF Call, durable, Durable
  <2> QED
    BY <1>3, <2>1, Steady DEF Call, durable, Start
<1>4. CASE Capture
  <2>1. IsLog' /\ Durable' /\ Len(log) <= Len(log') /\ evidence' = evidence
    <3>1. CASE disk = saved
      BY <1>4, <3>1, Recording DEF Capture, RecordCheckpoint
    <3>2. CASE disk # saved
      BY <1>4, <3>2, Rests DEF Capture, durable, Durable
    <3> QED
      BY <3>1, <3>2
  <2> QED
    BY <1>4, <2>1, Steady DEF Capture, Goto, Start, locals
<1>5. CASE RecordChange
  <2>1. CASE UNCHANGED durable /\ Goto("idle")
    <3>1. IsLog' /\ Durable' /\ Len(log) <= Len(log')
      BY <2>1, Rests DEF durable, Durable
    <3> QED
      BY <1>5, <2>1, <3>1, Steady DEF RecordChange, Goto, Start, durable, locals
  <2>2. ASSUME NEW files,
               Recorded(Event(goal, files, ActiveAfter(files), None, None)),
               Goto(IF Refocuses(files) THEN "focus" ELSE "mutate")
        PROVE  IsLog' /\ Durable' /\ Working'
    <3>1. IsLog' /\ Durable' /\ Len(log) <= Len(log') /\ evidence' = evidence
      BY <1>0, <2>2, Recording
    <3>2. pc' \in {"focus", "mutate"} /\ goal' = goal
      BY <2>2 DEF Goto, Start
    <3> QED
      BY <1>0, <1>5, <3>1, <3>2, Steady DEF RecordChange, locals
  <2> QED
    BY <1>5, <2>1, <2>2 DEF RecordChange
<1>6. CASE FocusChange
  <2>1. PICK p : RecordFocus(p)
    BY <1>6 DEF FocusChange
  <2>2. IsLog' /\ Durable' /\ Len(log) <= Len(log') /\ evidence' = evidence
    BY <2>1, Recording DEF RecordFocus
  <2> QED
    BY <1>0, <1>6, <2>2, Steady DEF FocusChange, Goto, Start, locals
<1>7. CASE Mutate
  <2>1. IsLog' /\ Durable' /\ Len(log) <= Len(log')
    BY <1>7, Rests DEF Mutate, durable, Durable
  <2>2. \/ pc' = "stopped" /\ goal' = "none"
        \/ pc' = "recheck" /\ goal' = "save"
    <3>1. Goto("stopped") \/ Start("recheck", "save")
      BY <1>7, Zenon DEF Mutate
    <3> QED
      BY <3>1 DEF Goto, Start
  <2> QED
    BY <1>7, <2>1, <2>2, Steady DEF Mutate, durable
<1> QED
  BY <1>1, <1>2, <1>3, <1>4, <1>5, <1>6, <1>7

LEMMA SavesHold ==
    ASSUME Inv, SaveIntent \/ SaveBegin \/ SaveCheck \/ SaveWrite \/ SaveBaseline
    PROVE  Inv'
<1> USE DEF Inv, Holding, External
<1>0. /\ goal \notin Holding \cup External \cup {"down"}
      /\ goal = "own" => pc \notin {"intent", "save", "check", "write"}
  BY DEF Working, OwnSave
<1> SUFFICES IsLog' /\ Durable' /\ Working'
  OBVIOUS
<1>1. CASE ~SaveBaseline
  <2>1. /\ UNCHANGED <<log, baseline, evidence, restored, view, pending>>
        /\ pc \in {"intent", "save", "check", "write"}
    BY <1>1 DEF SaveIntent, SaveBegin, SaveCheck, SaveWrite, durable, locals
  <2>2. IsLog' /\ Durable' /\ Len(log) <= Len(log')
    BY <2>1, Rests DEF Durable
  <2>3. /\ pc' \in {"stopped", "save", "check", "baseline", "write"}
        /\ goal' \in {goal, "none"}
    BY <1>1 DEF SaveIntent, SaveBegin, SaveCheck, CheckBeforeWrite, SaveWrite,
                Require, Goto, Start
  <2> QED
    BY <1>0, <2>1, <2>2, <2>3, Steady
<1>2. CASE SaveBaseline
  <2>1. /\ baseline' \in {baseline, Receipt}
        /\ UNCHANGED <<log, evidence, restored, view, pending>>
    BY <1>2 DEF SaveBaseline, PersistBaseline
  <2>2. IsLog' /\ Durable'
    BY <2>1, Persisted
  <2>3. \/ pc' \in {"stopped", "idle"} /\ goal' = "none"
        \/ pc' = "capture" /\ goal' = "boundary"
        \/ pc' = "resumed" /\ goal' = "own" /\ goal = "own"
    BY <1>2 DEF SaveBaseline, PersistBaseline, Goto, Start
  <2> QED
    BY <2>1, <2>2, <2>3 DEF Durable, Working, InHand, Resumed, OwnSave
<1> QED
  BY <1>1, <1>2

(* Observing the disk, up to the point where evidence is at hand. *)
LEMMA ObservationsHold ==
    ASSUME Inv, Recheck \/ Observe \/ Readopt \/ Preserve
    PROVE  Inv'
<1> USE DEF Inv, Holding, External
<1>0. /\ goal \notin Holding \cup External \cup {"down"}
      /\ pc \in {"recheck", "observe", "readopt", "preserve"} /\ goal # "own"
  BY DEF Working, OwnSave, Recheck, Observe, Readopt, Preserve
<1> SUFFICES IsLog' /\ Durable' /\ Working'
  OBVIOUS
<1>1. CASE ~Preserve
  <2>1. UNCHANGED <<log, baseline, evidence, restored, view, pending>>
    BY <1>1 DEF Recheck, Observe, Readopt, durable, locals
  <2>2. IsLog' /\ Durable' /\ Len(log) <= Len(log')
    BY <2>1, Rests DEF Durable
  <2>3. AfterRecheck \in {"idle", "intent", goal}
    BY DEF AfterRecheck
  <2>4. /\ pc' \in {"idle", "intent", "observe", "readopt", "preserve", "settle",
                    "stopped", goal}
        /\ goal' \in {goal, "none"}
    <3>1. CASE Recheck
      BY <2>3, <3>1 DEF Recheck, Goto, Start
    <3>2. CASE Observe
      BY <3>2 DEF Observe, Goto, Start
    <3>3. CASE Readopt
      BY <3>3 DEF Readopt, Require, Goto, Start
    <3> QED
      BY <1>1, <3>1, <3>2, <3>3
  <2> QED
    BY <1>0, <2>1, <2>2, <2>4, Steady
<1>2. CASE Preserve
  <2> DEFINE views == Views(IF view = None THEN saved ELSE view.saved, Logical, observed)
             artifact == Artifact(Len(log), views)
  <2>1. /\ UNCHANGED <<log, baseline, restored, goal>>
        /\ pc' = "record" /\ pending' = None
        /\ Logical' = Logical
    BY <1>2 DEF Preserve, Goto, Start, Logical
  <2>2. /\ evidence \subseteq evidence'
        /\ \/ Reusable /\ held' = pending /\ evidence' = evidence
           \/ held' = artifact /\ artifact \in evidence'
    BY <1>2 DEF Preserve, WithEvidence
  <2>3. IsLog' /\ Durable'
    BY <2>1, <2>2 DEF IsLog, Durable, Grounded, Sealed, DecidedBefore, Newest
  <2>4. Known(held)' /\ ~HasOutcome(held)'
    <3>1. CASE Reusable /\ held' = pending
      BY <2>1, <2>2, <3>1 DEF Working, Resumed, Reusable, Known, HasOutcome
    <3>2. CASE held' = artifact /\ artifact \in evidence'
      <4>1. artifact.sequence = Len(log) /\ artifact.views.logical = Logical
        BY DEF Artifact, Views
      <4> HIDE DEF artifact
      <4>2. ~HasOutcome(artifact)
        BY <4>1 DEF Durable, Sealed, HasOutcome
      <4> QED
        BY <2>1, <3>2, <4>1, <4>2 DEF Durable, Known, HasOutcome
    <3> QED
      BY <2>2, <3>1, <3>2
  <2> QED
    BY <1>0, <2>1, <2>3, <2>4 DEF Working, InHand, Resumed, OwnSave
<1> QED
  BY <1>0, <1>1, <1>2

(* Recording what was observed and decided. *)
LEMMA DecisionsHold ==
    ASSUME Inv, RecordObservation \/ RecordDecision
    PROVE  Inv'
<1> USE DEF Inv, Holding, External
<1>1. /\ pc = "record" /\ goal # "own" /\ Known(held) /\ ~HasOutcome(held)
      /\ goal \notin Holding \cup External \cup {"down"}
  BY DEF RecordObservation, RecordDecision, Working, InHand, OwnSave
<1>2. PICK kind \in External : Record(kind, Logical, held)
  BY DEF RecordObservation, RecordDecision
<1>3. /\ IsLog' /\ Durable'
      /\ Len(log) \in Nat /\ Len(log') = Len(log) + 1
      /\ Logical' = Logical
      /\ UNCHANGED <<evidence, restored>>
  BY <1>1, <1>2, Recording DEF Record, Known
<1>4. UNCHANGED <<view, pending, held, goal>> /\ pc' \in {"record", "confirm"}
  BY <1>1 DEF RecordObservation, RecordDecision, Goto, Start, control, locals
<1>5. Known(held)' /\ ~HasOutcome(held)'
  BY <1>1, <1>3, <1>4 DEF Known, HasOutcome
<1>6. Resumed'
  BY <1>3, <1>4 DEF Working, Resumed
<1> QED
  BY <1>1, <1>3, <1>4, <1>5, <1>6 DEF Working, InHand, OwnSave

(* Writing the decided text back. *)
LEMMA RestorationsHold ==
    ASSUME Inv, Confirm \/ Restore \/ RestoreCheck \/ RestoreFile \/ Adopt
    PROVE  Inv'
<1> USE DEF Inv, Holding, External
<1> SUFFICES IsLog' /\ Durable' /\ Working'
  OBVIOUS
<1>1. /\ UNCHANGED <<log, baseline, evidence, restored, view, pending, held>>
      /\ pc \in {"confirm", "restore", "restoring", "restoreFile", "adopt"}
  BY DEF Confirm, Restore, RestoreCheck, RestoreFile, Adopt, durable, locals
<1>2. IsLog' /\ Durable'
  BY <1>1, Rests
<1>3. \/ pc' = "stopped" /\ goal' = "none"
      \/ pc' = "preserve" /\ goal' = goal /\ goal # "own"
      \/ pc' \in {"restore", "restoring", "restoreFile", "adopt"} /\ goal' = goal
      \/ pc' = "baseline" /\ goal' = goal /\ goal = "own"
      \/ pc' = "seal" /\ goal' = goal /\ goal # "own"
  <2>1. CASE Confirm
    BY <2>1 DEF Confirm, Goto, Start, Working, OwnSave
  <2>2. CASE Restore
    BY <2>2 DEF Restore, Require, Goto, Start
  <2>3. CASE RestoreCheck
    BY <2>3 DEF RestoreCheck, Require, Goto, Start
  <2>4. CASE RestoreFile
    <3>1. Goto("stopped") \/ Goto("restoring")
      BY <2>4, Zenon DEF RestoreFile
    <3> QED
      BY <3>1 DEF Goto, Start
  <2>5. CASE Adopt
    BY <2>5 DEF Adopt, Require, Goto, Start
  <2> QED
    BY <2>1, <2>2, <2>3, <2>4, <2>5
<1> QED
  BY <1>1, <1>2, <1>3 DEF Working, InHand, Resumed, OwnSave, Known, Logical

(* Sealing a restoration and recording its outcome. *)
LEMMA OutcomesHold ==
    ASSUME Inv, Seal \/ Outcome \/ Settle
    PROVE  Inv'
<1> USE DEF Inv, Holding, External
<1> SUFFICES IsLog' /\ Durable' /\ Working'
  OBVIOUS
<1>0. /\ goal \notin Holding \cup External \cup {"down", "own"}
      /\ pc \in {"seal", "outcome", "settle"}
  BY DEF Working, OwnSave, Seal, Outcome, Settle
<1>1. CASE Seal
  <2>1. UNCHANGED <<view, pending, held>>
    BY <1>1 DEF Seal, locals
  <2>2. CASE disk = saved
    <3>1. /\ IsLog' /\ Durable'
          /\ Len(log) \in Nat /\ Len(log') = Len(log) + 1
          /\ Logical' = Logical
          /\ log'[Len(log')].kind = "checkpoint"
          /\ UNCHANGED <<evidence, restored>>
      BY <1>1, <2>2, Recording DEF Seal, RecordCheckpoint
    <3>2. pc' = "outcome" /\ goal' = goal
      BY <1>1, <2>2 DEF Seal, Require, Goto, Start
    <3>3. Known(held)
      BY <1>0, <1>1 DEF Seal, Working, InHand
    <3> QED
      BY <1>0, <2>1, <3>1, <3>2, <3>3 DEF Working, InHand, Resumed, OwnSave, Known
  <2>3. CASE disk # saved
    <3>1. UNCHANGED <<log, baseline, evidence, restored>> /\ pc' = "stopped" /\ goal' = "none"
      BY <1>1, <2>3 DEF Seal, Require, Goto, Start, durable
    <3>2. IsLog' /\ Durable' /\ Len(log) <= Len(log')
      BY <3>1, Rests DEF Durable
    <3> QED
      BY <2>1, <3>1, <3>2, Steady
  <2> QED
    BY <2>2, <2>3
<1>2. CASE Outcome
  <2> DEFINE new == [evidence |-> held, sequence |-> Len(log)]
  <2>1. /\ UNCHANGED <<log, baseline, evidence, view, pending, held>>
        /\ restored' = restored \cup {new}
        /\ pc' = "settle" /\ goal' = goal
    BY <1>2 DEF Outcome, Goto, Start, locals
  <2>2. /\ Known(held) /\ held.sequence < Len(log)
        /\ log[Len(log)].kind = "checkpoint"
    BY <1>0, <1>2 DEF Outcome, Working, InHand
  <2>3. new.evidence = held /\ new.sequence = Len(log)
    OBVIOUS
  <2> HIDE DEF new
  <2>4. Sealed(new)
    BY <2>2, <2>3 DEF Sealed, Known, Durable, Logical
  <2>5. DecidedBefore(new)
    BY <2>2, <2>3 DEF DecidedBefore, Durable
  <2>6. IsLog' /\ Durable' /\ Len(log) <= Len(log')
    <3>1. \A o \in restored' : Sealed(o)' /\ DecidedBefore(o)'
      BY <2>1, <2>4, <2>5 DEF Durable, Sealed, DecidedBefore
    <3> QED
      BY <2>1, <3>1 DEF IsLog, Durable, Grounded, Newest
  <2> QED
    BY <1>0, <2>1, <2>6, Steady
<1>3. CASE Settle
  <2>1. /\ baseline' \in {baseline, Receipt}
        /\ UNCHANGED <<log, evidence, restored>>
        /\ view' = None /\ pending' = None
    BY <1>3 DEF Settle, PersistBaseline
  <2>2. IsLog' /\ Durable'
    BY <2>1, Persisted
  <2>3. AfterRecheck \in {"idle", "intent", goal}
    BY DEF AfterRecheck
  <2>4. pc' \in {"idle", "intent", "stopped", goal} /\ goal' \in {goal, "none"}
    BY <1>3, <2>3 DEF Settle, PersistBaseline, Goto, Start
  <2> QED
    BY <1>0, <2>1, <2>2, <2>4 DEF Working, InHand, Resumed, OwnSave
<1> QED
  BY <1>1, <1>2, <1>3

(* The process dies, and another one resumes what it left. *)
LEMMA RestartsHold ==
    ASSUME Inv, Crash \/ Resume \/ RecordResumed
    PROVE  Inv'
<1> USE DEF Inv, Holding, External
<1> SUFFICES IsLog' /\ Durable' /\ Working'
  OBVIOUS
<1>1. CASE Crash
  <2>1. IsLog' /\ Durable'
    BY <1>1, Rests DEF Crash, durable
  <2> QED
    BY <1>1, <2>1 DEF Crash, Forget, Start, Working, InHand, Resumed, OwnSave
<1>2. CASE Resume
  <2>1. UNCHANGED <<log, baseline, evidence, restored>>
    BY <1>2 DEF Resume, durable
  <2>2. IsLog' /\ Durable'
    BY <2>1, Rests
  <2>3. view = None /\ pending = None
    BY <1>2 DEF Resume, Working, OwnSave
  <2>4. CASE OwnSavePending
    BY <1>2, <2>2, <2>3, <2>4 DEF Resume, Start, Working, InHand, Resumed, OwnSave
  <2>5. CASE ~OwnSavePending
    <3>1. /\ pc' = "resumed" /\ goal' = "open"
          /\ pending' = PendingExternal
          /\ PendingExternal # None => view' = PendingExternal.views
      BY <1>2, <2>5 DEF Resume, Start
    <3>2. Resumed'
      BY <2>1, <3>1, Found DEF Resumed
    <3> QED
      BY <2>2, <3>1, <3>2 DEF Working, InHand, OwnSave
  <2> QED
    BY <2>4, <2>5
<1>3. CASE RecordResumed
  <2>1. IsLog' /\ Durable' /\ Len(log) <= Len(log') /\ evidence' = evidence
    BY <1>3, Recording DEF RecordResumed, Record
  <2>2. \/ pc' = "idle" /\ goal' = "none"
        \/ pc' = "recheck" /\ goal' = goal /\ view # None
    BY <1>3 DEF RecordResumed, Goto, Start
  <2>3. goal \notin Holding \cup External \cup {"down"} /\ (view # None => goal # "own")
    BY DEF Working, OwnSave
  <2> QED
    BY <1>3, <2>1, <2>2, <2>3, Steady DEF RecordResumed, locals
<1> QED
  BY <1>1, <1>2, <1>3

LEMMA OthersHold ==
    ASSUME Inv, OtherProgram \/ UNCHANGED vars
    PROVE  Inv'
<1>1. UNCHANGED <<log, baseline, evidence, restored, pc, goal, view, pending, held>>
  BY DEF OtherProgram, vars, durable, control, locals
<1>2. IsLog' /\ Durable'
  BY <1>1, Rests DEF Inv
<1>3. Working'
  BY <1>1 DEF Inv, Working, InHand, Resumed, OwnSave, Known, HasOutcome, Logical
<1> QED
  BY <1>2, <1>3 DEF Inv

LEMMA StepHolds == Inv /\ [Next]_vars => Inv'
BY CallsHold, SavesHold, ObservationsHold, DecisionsHold, RestorationsHold,
   OutcomesHold, RestartsHold, OthersHold DEF Next

(* SessionRecovery!AlwaysResumable: wherever a session is killed, whatever *)
(* other programs did and however often it was resumed before, the next    *)
(* resume accepts its baseline, its evidence and its outcomes.             *)
THEOREM Resumability == Spec => []AlwaysResumable
<1>1. Inv => AlwaysResumable
  BY Demands DEF Inv
<1> QED
  BY InitHolds, StepHolds, <1>1, PTL DEF Spec

-----------------------------------------------------------------------------
(***************************************************************************)
(* A session never overwrites another program's version that it could have *)
(* read and has not kept, for any set of paths and contents and any number *)
(* of events, changes by other programs, crashes and resumes.              *)
(*                                                                         *)
(* The invariant follows where the contents that the session expects on    *)
(* disk come from.  They are texts it recorded itself, or an observation   *)
(* it published as evidence; and between its last read and its write, only *)
(* a file changed since (in fresh) can hold anything else.                 *)
(***************************************************************************)

Goals == {"none", "poll", "save", "capture", "boundary", "create", "rename",
          "delete", "own", "open"}

Typed ==
    /\ disk \in Versions /\ saved \in Versions /\ observed \in Versions /\ expected \in Versions
    /\ \A i \in 1 .. Len(log) : log[i].files \in Versions
    /\ goal \in Goals
    /\ pc \in {"create", "rename", "delete"} => goal = pc

(* Contents some recorded event spells out. *)
Spelt == {log[i].files[q] : i \in 1 .. Len(log), q \in File}

(* Contents of p that are not lost with the file. *)
Backup(p) == Spelt \cup {artifact.views.disk[p] : artifact \in evidence}

(* What the session last read is what is there, unless it changed since.   *)
Current(files) == \A p \in File \ fresh : disk[p] = files[p]

Traced ==
    /\ Empty \in Spelt
    /\ pc # "down" => \A p \in File : saved[p] \in Spelt
    /\ pc \in {"check", "write"} => \A p \in File : expected[p] \in Spelt
    /\ pc \in {"record", "confirm", "restore"} =>
        \A p \in File : observed[p] \in Backup(p)
    /\ pc \in {"restoring", "restoreFile"} =>
        \A p \in File : expected[p] \in Backup(p)
    /\ pc \in {"write", "restoreFile"} => Current(expected)
    /\ pc \in {"focus", "mutate"} => Current(saved)

-----------------------------------------------------------------------------
(* Paths are numbered, so that a set of them has a first one. *)
LEMMA FirstIsIn ==
    ASSUME NEW paths, paths \subseteq File, paths # {}
    PROVE  First(paths) \in paths
<1>1. paths \subseteq Nat
  BY RecoveryAssumption
<1>2. PICK p \in paths : \A q \in paths : <<q, p>> \notin OpToRel(<, Nat)
  BY <1>1, WFMin, NatLessThanWellFounded, Zenon
<1>3. \A q \in paths : ~(q < p)
  BY <1>1, <1>2, Zenon DEF OpToRel
<1>4. \A q \in paths : p <= q
  BY <1>1, <1>3
<1> QED
  BY <1>4 DEF First

(* One file is given other contents. *)
LEMMA Update ==
    ASSUME NEW f \in Versions, NEW p, NEW c, p \in File => c \in Contents
    PROVE  /\ [f EXCEPT ![p] = c] \in Versions
           /\ \A q \in File : [f EXCEPT ![p] = c][q] = IF q = p THEN c ELSE f[q]
BY DEF Versions

LEMMA Constants == Empty \in Contents /\ Absent \in Contents /\ Empty # Absent
BY RecoveryAssumption DEF Contents

(* The recorded text itself. *)
LEMMA Spelled ==
    ASSUME Durable, Typed
    PROVE  /\ Logical \in Versions
           /\ \A p \in File : Logical[p] \in Spelt
           /\ baseline.files \in Versions
           /\ \A p \in File : baseline.files[p] \in Spelt
BY DEF Durable, Typed, Logical, Spelt

(* What a step forgets of all this: nothing. *)
Remembers ==
    /\ Spelt \subseteq Spelt'
    /\ \A p \in File : Backup(p) \subseteq Backup(p)'

LEMMA Resting ==
    ASSUME log' = log, evidence \subseteq evidence', Typed
    PROVE  /\ Remembers /\ Logical' = Logical
           /\ \A i \in 1 .. Len(log') : log'[i].files \in Versions
<1>1. Spelt \subseteq Spelt'
  BY DEF Spelt
<1> QED
  BY <1>1 DEF Remembers, Backup, Logical, Typed

LEMMA Grown ==
    ASSUME IsLog, Durable, Typed, NEW kind, NEW files \in Versions, NEW active, NEW shown, NEW a,
           Recorded(Event(kind, files, active, shown, a))
    PROVE  /\ Remembers /\ Logical' = files /\ evidence' = evidence
           /\ \A i \in 1 .. Len(log') : log'[i].files \in Versions
<1> DEFINE e == Event(kind, files, active, shown, a)
<1>1. e.files = files
  BY DEF Event
<1>2. log' = Append(log, e) /\ evidence' = evidence
  BY DEF Recorded
<1> HIDE DEF e
<1>3. PICK S : log \in Seq(S)
  BY DEF IsLog
<1>4. /\ Len(log') = Len(log) + 1 /\ Len(log) \in Nat
      /\ \A i \in 1 .. Len(log) : log'[i] = log[i]
      /\ log'[Len(log) + 1] = e
  BY <1>2, <1>3, Appended DEF Durable
<1>5. \A i \in 1 .. Len(log') : log'[i].files \in Versions
  BY <1>1, <1>4 DEF Typed
<1>6. Spelt \subseteq Spelt'
  <2> SUFFICES ASSUME NEW i \in 1 .. Len(log), NEW q \in File
               PROVE  log[i].files[q] \in Spelt'
    BY DEF Spelt
  <2>1. i \in 1 .. Len(log') /\ log'[i] = log[i]
    BY <1>4
  <2> QED
    BY <2>1 DEF Spelt
<1>7. Remembers
  BY <1>2, <1>6 DEF Remembers, Backup
<1> QED
  BY <1>1, <1>2, <1>4, <1>5, <1>7 DEF Logical

EInv == Inv /\ Typed /\ Traced

LEMMA EInitHolds == Init => EInv
<1> SUFFICES ASSUME Init PROVE EInv
  OBVIOUS
<1>1. Inv
  BY InitHolds
<1>2. PICK paths \in Assigned :
        /\ disk = [p \in File |-> IF p \in paths THEN Empty ELSE Absent]
        /\ log = <<Event("checkpoint", disk, First(paths), First(paths), None)>>
  BY DEF Init
<1>3. paths \subseteq File /\ paths # {}
  BY <1>2, RecoveryAssumption
<1>4. disk \in Versions
  BY <1>2, Constants DEF Versions
<1>5. Len(log) = 1 /\ log[1].files = disk
  BY <1>2 DEF Event
<1>6. \A p \in File : disk[p] \in Spelt
  BY <1>5 DEF Spelt
<1>7. Empty \in Spelt
  BY <1>2, <1>3, <1>6
<1>8. Typed
  BY <1>4, <1>5, Constants DEF Init, Typed, NoFiles, Versions, Goals
<1>9. Traced
  BY <1>6, <1>7 DEF Init, Traced
<1> QED
  BY <1>1, <1>8, <1>9 DEF EInv

-----------------------------------------------------------------------------
LEMMA ChangesTyped == Typed /\ Durable /\ IsLog => Changes \subseteq Versions
<1> SUFFICES ASSUME Typed, Durable, IsLog, NEW files \in Changes PROVE files \in Versions
  OBVIOUS
<1>1. Logical \in Versions
  BY Spelled
<1>2. Paths \subseteq File /\ Present(Logical) \subseteq File
  BY DEF Paths, Present
<1>3. \/ \E p \in File : files = [Logical EXCEPT ![p] = Empty]
      \/ \E p \in File : files = [Logical EXCEPT ![p] = Absent]
      \/ \E p, q \in File : files = [Logical EXCEPT ![q] = Logical[p], ![p] = Absent]
  <2>1. CASE goal = "create"
    BY <1>2, <2>1 DEF Changes
  <2>2. CASE goal = "delete"
    BY <1>2, <2>2 DEF Changes
  <2>3. CASE goal \notin {"create", "delete"}
    BY <1>2, <2>3 DEF Changes
  <2> QED
    BY <2>1, <2>2, <2>3
<1> QED
  BY <1>1, <1>3, Constants DEF Versions

(* Nothing that was recorded or kept is lost, and every event spells out   *)
(* contents.                                                               *)
LEMMA Remembering ==
    ASSUME EInv, [Next]_vars
    PROVE  /\ Remembers
           /\ \A i \in 1 .. Len(log') : log'[i].files \in Versions
<1> USE DEF EInv, Inv
<1>0. Logical \in Versions
  BY Spelled
<1>1. CASE UNCHANGED log /\ evidence \subseteq evidence'
  BY <1>1, Resting
<1>2. ASSUME NEW kind, NEW files \in Versions, NEW active, NEW shown, NEW a,
             Recorded(Event(kind, files, active, shown, a))
      PROVE  /\ Remembers
             /\ \A i \in 1 .. Len(log') : log'[i].files \in Versions
  BY <1>2, Grown
<1>3. CASE Edit
  <2>1. PICK text \in Text : Record("edit", [Logical EXCEPT ![Active] = text], None)
    BY <1>3 DEF Edit
  <2>2. [Logical EXCEPT ![Active] = text] \in Versions
    BY <1>0 DEF Versions, Contents
  <2> QED
    BY <1>2, <2>1, <2>2 DEF Record
<1>4. CASE Activate \/ FocusChange
  <2>1. PICK p : RecordFocus(p)
    BY <1>4 DEF Activate, FocusChange
  <2> QED
    BY <1>0, <1>2, <2>1 DEF RecordFocus
<1>5. CASE Capture \/ Seal
  <2>1. RecordCheckpoint \/ UNCHANGED durable
    BY <1>5 DEF Capture, Seal
  <2> QED
    BY <1>0, <1>1, <1>2, <2>1 DEF RecordCheckpoint, durable
<1>6. CASE RecordChange
  <2>1. \/ UNCHANGED durable
        \/ \E files \in Changes :
              Recorded(Event(goal, files, ActiveAfter(files), None, None))
    BY <1>6 DEF RecordChange
  <2> QED
    BY <1>1, <1>2, <2>1, ChangesTyped DEF durable
<1>7. CASE RecordObservation \/ RecordDecision \/ RecordResumed
  BY <1>0, <1>2, <1>7 DEF RecordObservation, RecordDecision, RecordResumed, Record
<1>8. CASE Preserve
  <2>1. UNCHANGED log /\ evidence \subseteq evidence'
    BY <1>8 DEF Preserve, WithEvidence
  <2> QED
    BY <1>1, <2>1
<1>9. CASE \/ Call \/ Mutate \/ SaveIntent \/ SaveBegin \/ SaveCheck \/ SaveWrite
           \/ SaveBaseline \/ Recheck \/ Observe \/ Readopt \/ Confirm \/ Restore
           \/ RestoreCheck \/ RestoreFile \/ Adopt \/ Outcome \/ Settle \/ Crash
           \/ Resume \/ OtherProgram \/ UNCHANGED vars
  <2>1. UNCHANGED log /\ evidence \subseteq evidence'
    BY <1>9 DEF Call, Mutate, SaveIntent, SaveBegin, SaveCheck, SaveWrite,
                SaveBaseline, PersistBaseline, Recheck, Observe, Readopt, Confirm,
                Restore, RestoreCheck, RestoreFile, Adopt, Outcome, Settle, Crash,
                Resume, OtherProgram, durable, vars
  <2> QED
    BY <1>1, <2>1
<1> QED
  BY <1>3, <1>4, <1>5, <1>6, <1>7, <1>8, <1>9, Zenon DEF Next

(* One file at a time changes on disk, and what a session expects there is *)
(* copied or updated likewise.                                             *)
LEMMA FilesHold ==
    ASSUME EInv, [Next]_vars
    PROVE  disk' \in Versions /\ saved' \in Versions /\ observed' \in Versions /\ expected' \in Versions
<1> USE DEF EInv, Inv
<1>0. /\ Logical \in Versions /\ baseline.files \in Versions /\ NoFiles \in Versions
      /\ disk \in Versions /\ saved \in Versions /\ observed \in Versions /\ expected \in Versions
      /\ Absent \in Contents /\ Empty \in Contents
  BY Spelled, Constants DEF Typed, NoFiles, Versions
<1>1. ASSUME NEW f \in Versions, NEW p, NEW c, p \in File => c \in Contents
      PROVE  [f EXCEPT ![p] = c] \in Versions
  BY <1>1, Update
<1>1b. ASSUME NEW f \in Versions, NEW p \in File, NEW q \in File
      PROVE  [f EXCEPT ![q] = f[p], ![p] = Absent] \in Versions
  BY <1>0 DEF Versions
<1>2. \A p \in File : Logical[p] \in Contents /\ disk[p] \in Contents /\ saved[p] \in Contents
  BY <1>0 DEF Versions
<1>3. CASE Mutate
  <2> DEFINE old == Present(saved) \ Present(Logical)
             new == Present(Logical) \ Present(saved)
  <2>1. UNCHANGED <<observed, expected>>
    BY <1>3 DEF Mutate
  <2>2. \/ UNCHANGED <<disk, saved>>
        \/ /\ old # {} /\ new # {}
           /\ disk' = [disk EXCEPT ![First(new)] = disk[First(old)], ![First(old)] = Absent]
           /\ saved' = [saved EXCEPT ![First(new)] = saved[First(old)], ![First(old)] = Absent]
        \/ \E p, c : /\ c \in {Absent, Empty}
                     /\ disk' = [disk EXCEPT ![p] = c]
                     /\ saved' = [saved EXCEPT ![p] = c]
    BY <1>3 DEF Mutate, Put, outer
  <2>3. CASE old # {} /\ new # {}
    <3>1. old \subseteq File /\ new \subseteq File
      BY DEF Present
    <3>2. First(old) \in File /\ First(new) \in File
      BY <2>3, <3>1, FirstIsIn
    <3> DEFINE p == First(old)
               q == First(new)
    <3>3. CASE UNCHANGED <<disk, saved>>
      BY <1>0, <2>1, <3>3
    <3>4. CASE /\ disk' = [disk EXCEPT ![q] = disk[p], ![p] = Absent]
               /\ saved' = [saved EXCEPT ![q] = saved[p], ![p] = Absent]
      <4> HIDE DEF p, q
      <4>1. disk' \in Versions /\ saved' \in Versions
        BY <1>0, <1>1b, <3>2, <3>4 DEF p, q
      <4> QED
        BY <1>0, <2>1, <4>1
    <3>5. CASE \E r, c : /\ c \in {Absent, Empty}
                         /\ disk' = [disk EXCEPT ![r] = c]
                         /\ saved' = [saved EXCEPT ![r] = c]
      <4>1. PICK r, c : /\ c \in {Absent, Empty}
                        /\ disk' = [disk EXCEPT ![r] = c]
                        /\ saved' = [saved EXCEPT ![r] = c]
        BY <3>5
      <4>2. disk' \in Versions /\ saved' \in Versions
        BY <1>0, <1>1, <4>1
      <4> QED
        BY <1>0, <2>1, <4>2
    <3> QED
      BY <2>2, <3>3, <3>4, <3>5
  <2>4. CASE ~(old # {} /\ new # {})
    <3>1. CASE UNCHANGED <<disk, saved>>
      BY <1>0, <2>1, <3>1
    <3>2. ASSUME NEW r, NEW c \in {Absent, Empty},
                 disk' = [disk EXCEPT ![r] = c], saved' = [saved EXCEPT ![r] = c]
          PROVE  disk' \in Versions /\ saved' \in Versions
      BY <1>0, <1>1, <3>2
    <3> QED
      BY <1>0, <2>1, <2>2, <2>4, <3>1, <3>2
  <2> QED
    BY <2>3, <2>4
<1>4. CASE SaveWrite
  <2>1. UNCHANGED observed
    BY <1>4 DEF SaveWrite
  <2>2. \/ UNCHANGED <<disk, saved, expected>>
        \/ \E p : /\ disk' = [disk EXCEPT ![p] = Logical[p]]
                  /\ saved' = [saved EXCEPT ![p] = Logical[p]]
                  /\ expected' = [expected EXCEPT ![p] = Logical[p]]
    BY <1>4 DEF SaveWrite, Put, outer
  <2>3. ASSUME NEW p, disk' = [disk EXCEPT ![p] = Logical[p]],
               saved' = [saved EXCEPT ![p] = Logical[p]],
               expected' = [expected EXCEPT ![p] = Logical[p]]
        PROVE  disk' \in Versions /\ saved' \in Versions /\ expected' \in Versions
    BY <1>0, <1>1, <1>2, <2>3
  <2> QED
    BY <1>0, <2>1, <2>2, <2>3
<1>5. CASE RestoreFile
  <2>1. UNCHANGED <<saved, observed>>
    BY <1>5 DEF RestoreFile
  <2>2. \/ UNCHANGED <<disk, expected>>
        \/ \E p, c : /\ c \in {Absent, Empty, Logical[p]}
                     /\ disk' = [disk EXCEPT ![p] = c]
                     /\ expected' = [expected EXCEPT ![p] = c]
    BY <1>5 DEF RestoreFile, Put, outer
  <2>3. ASSUME NEW p, NEW c \in {Absent, Empty, Logical[p]},
               disk' = [disk EXCEPT ![p] = c], expected' = [expected EXCEPT ![p] = c]
        PROVE  disk' \in Versions /\ expected' \in Versions
    <3>1. p \in File => c \in Contents
      BY <1>0, <1>2
    <3> QED
      BY <1>0, <1>1, <2>3, <3>1
  <2> QED
    BY <1>0, <2>1, <2>2, <2>3
<1>6. CASE Resume
  <2>1. RecoveredSaved \in Versions
    BY <1>0 DEF RecoveredSaved, Versions
  <2>2. disk' = disk /\ saved' = RecoveredSaved /\ observed' \in {disk, observed} /\ expected' = expected
    BY <1>6 DEF Resume, Look
  <2> QED
    BY <1>0, <2>1, <2>2
<1>7. CASE OtherProgram
  <2>1. PICK p \in Paths, c \in Outside \cup {Absent} : disk' = [disk EXCEPT ![p] = c]
    BY <1>7 DEF OtherProgram
  <2>2. c \in Contents
    BY DEF Contents
  <2>3. disk' \in Versions
    BY <1>0, <1>1, <2>1, <2>2
  <2>4. UNCHANGED <<saved, observed, expected>>
    BY <1>7 DEF OtherProgram, locals
  <2> QED
    BY <1>0, <2>3, <2>4
<1>8. CASE \/ Edit \/ Activate \/ Call \/ Capture \/ RecordChange \/ FocusChange
           \/ SaveIntent \/ SaveBegin \/ SaveCheck \/ SaveBaseline \/ Recheck
           \/ Observe \/ Readopt \/ Preserve \/ RecordObservation \/ RecordDecision
           \/ Confirm \/ Restore \/ RestoreCheck \/ Adopt \/ Seal \/ Outcome
           \/ Settle \/ Crash \/ RecordResumed \/ UNCHANGED vars
  <2>1. disk' = disk
    BY <1>8 DEF Edit, Activate, Call, Capture, RecordChange, FocusChange,
                SaveIntent, SaveBegin, SaveCheck, CheckBeforeWrite, SaveBaseline,
                PersistBaseline, Recheck, Observe, Readopt, Preserve,
                RecordObservation, RecordDecision, Confirm, Restore, RestoreCheck,
                Adopt, Seal, Outcome, Settle, Crash, RecordResumed, Require, Look,
                outer, vars
  <2>2. /\ saved' \in {saved, Logical, NoFiles}
        /\ observed' \in {observed, disk, NoFiles}
        /\ expected' \in {expected, disk, observed, NoFiles}
    BY <1>8 DEF Edit, Activate, Call, Capture, RecordChange, FocusChange,
                SaveIntent, SaveBegin, SaveCheck, SaveBaseline,
                Recheck, Observe, Readopt, Preserve,
                RecordObservation, RecordDecision, Confirm, Restore, RestoreCheck,
                Adopt, Seal, Outcome, Settle, Crash, RecordResumed, Return, Forget,
                locals, vars
  <2> QED
    BY <1>0, <2>1, <2>2
<1> QED
  BY <1>3, <1>4, <1>5, <1>6, <1>7, <1>8, Zenon DEF Next

LEMMA GoalsHold ==
    ASSUME EInv, [Next]_vars
    PROVE  /\ goal' \in Goals
           /\ pc' \in {"create", "rename", "delete"} => goal' = pc'
<1> USE DEF EInv, Typed, Goals
<1>1. AfterRecheck \in {"idle", "intent", goal}
  BY DEF AfterRecheck
<1>2. CASE Recheck
  BY <1>1, <1>2 DEF Recheck, Goto, Start
<1>3. CASE Settle
  BY <1>1, <1>3 DEF Settle, PersistBaseline, Goto, Start
<1>4. CASE Mutate
  <2>1. Goto("stopped") \/ Start("recheck", "save")
    BY <1>4, Zenon DEF Mutate
  <2> QED
    BY <2>1 DEF Goto, Start
<1>5. CASE SaveWrite
  <2>1. Goto("stopped") \/ Goto("check")
    BY <1>5, Zenon DEF SaveWrite
  <2> QED
    BY <2>1 DEF Goto, Start
<1>6. CASE RestoreFile
  <2>1. Goto("stopped") \/ Goto("restoring")
    BY <1>6, Zenon DEF RestoreFile
  <2> QED
    BY <2>1 DEF Goto, Start
<1>7. CASE Edit \/ Activate \/ RecordObservation \/ OtherProgram \/ UNCHANGED vars
  BY <1>7 DEF Edit, Activate, RecordObservation, OtherProgram, control, vars
<1>8. CASE Call \/ Crash \/ Resume
  BY <1>8 DEF Call, Crash, Resume, Start
<1>9. CASE \/ Capture \/ RecordChange \/ FocusChange \/ SaveIntent \/ SaveBegin
           \/ SaveCheck \/ Observe \/ Readopt \/ Preserve \/ RecordDecision
           \/ Confirm \/ Restore \/ RestoreCheck \/ Adopt \/ Seal \/ Outcome
           \/ RecordResumed
  <2>1. \E label \in {"idle", "stopped", "focus", "mutate", "save", "check", "baseline",
                      "write", "readopt", "preserve", "settle", "record", "confirm",
                      "restore", "restoring", "adopt", "restoreFile", "seal",
                      "outcome", "recheck"} : Goto(label)
    BY <1>9 DEF Capture, RecordChange, FocusChange, SaveIntent, SaveBegin,
                SaveCheck, CheckBeforeWrite, Observe, Readopt, Preserve,
                RecordDecision, Confirm, Restore, RestoreCheck, Adopt, Seal,
                Outcome, RecordResumed, Require
  <2> QED
    BY <2>1 DEF Goto, Start
<1>10. CASE SaveBaseline
  <2>1. \E label \in {"resumed", "capture", "idle", "stopped"} : Goto(label)
    BY <1>10 DEF SaveBaseline, PersistBaseline
  <2> QED
    BY <2>1 DEF Goto, Start
<1> QED
  BY <1>2, <1>3, <1>4, <1>5, <1>6, <1>7, <1>8, <1>9, <1>10, Zenon DEF Next

LEMMA TypedHolds == EInv /\ [Next]_vars => Typed'
BY Remembering, FilesHold, GoalsHold DEF Typed

-----------------------------------------------------------------------------
(* Where what the session read, or is about to write over, matters. *)
Careful == {"check", "write", "record", "confirm", "restore", "restoring",
            "restoreFile", "focus", "mutate"}

LEMMA Careless ==
    ASSUME Traced, Remembers, pc' \notin Careful,
           pc' # "down" =>
              \/ pc # "down" /\ saved' = saved
              \/ \A p \in File : saved'[p] \in Spelt'
    PROVE  Traced'
<1>1. Empty \in Spelt'
  BY DEF Traced, Remembers
<1>2. pc' # "down" => \A p \in File : saved'[p] \in Spelt'
  BY DEF Traced, Remembers
<1> QED
  BY <1>1, <1>2 DEF Traced, Careful

(* Calls, and the change of a file that one of them makes. *)
LEMMA TracedByCalls ==
    ASSUME EInv, Remembers,
           Edit \/ Activate \/ Call \/ Capture \/ RecordChange \/ FocusChange \/ Mutate
    PROVE  Traced'
<1> USE DEF EInv, Careful
<1>1. CASE Edit \/ Activate \/ Call \/ Capture
  <2>1. pc' \in {"idle", "recheck", "stopped"} /\ pc # "down" /\ saved' = saved
    BY <1>1 DEF Edit, Activate, Call, Capture, Goto, Start, control, locals
  <2> QED
    BY <2>1, Careless
<1>2. CASE RecordChange
  <2>1. saved' = saved /\ pc # "down" /\ disk' = disk
    BY <1>2 DEF RecordChange, Look, locals
  <2>2. \/ pc' = "idle"
        \/ disk = saved /\ pc' \in {"focus", "mutate"}
    BY <1>2 DEF RecordChange, Goto, Start
  <2>3. CASE pc' = "idle"
    BY <2>1, <2>3, Careless
  <2>4. CASE disk = saved /\ pc' \in {"focus", "mutate"}
    BY <2>1, <2>4 DEF Traced, Remembers, Current
  <2> QED
    BY <2>2, <2>3, <2>4
<1>3. CASE FocusChange
  <2>1. pc = "focus" /\ pc' = "mutate" /\ UNCHANGED <<disk, saved, fresh>>
    BY <1>3 DEF FocusChange, Goto, Start, locals, outer
  <2> QED
    BY <2>1 DEF Traced, Remembers, Current
<1>4. CASE Mutate
  <2> DEFINE old == Present(saved) \ Present(Logical)
             new == Present(Logical) \ Present(saved)
  <2>1. pc = "mutate" /\ pc' \in {"stopped", "recheck"}
    <3>1. Goto("stopped") \/ Start("recheck", "save")
      BY <1>4, Zenon DEF Mutate
    <3> QED
      BY <1>4, <3>1 DEF Goto, Start, Mutate
  <2>2. /\ \A p \in File : saved[p] \in Spelt /\ Logical[p] \in Spelt
        /\ Empty \in Spelt
    BY <2>1, Spelled DEF Traced, Inv
  <2>3. \A p \in old : p \in File /\ Logical[p] = Absent
    BY DEF Present
  <2>4. old \subseteq File /\ new \subseteq File
    BY DEF Present
  <2>5. \/ saved' = saved
        \/ /\ old # {} /\ new # {}
           /\ saved' = [saved EXCEPT ![First(new)] = saved[First(old)], ![First(old)] = Absent]
        \/ old # {} /\ saved' = [saved EXCEPT ![First(old \cup new)] = Absent]
        \/ saved' = [saved EXCEPT ![First(old \cup new)] = Empty]
    BY <1>4 DEF Mutate
  <2> HIDE DEF old, new
  <2>6. old # {} => First(old) \in old /\ Absent \in Spelt
    BY <2>2, <2>3, <2>4, FirstIsIn
  <2>7. saved \in Versions
    BY DEF Typed
  <2>8. \A p \in File : saved'[p] \in Spelt
    BY <2>2, <2>4, <2>5, <2>6, <2>7 DEF Versions
  <2> QED
    BY <2>1, <2>8, Careless DEF Remembers
<1> QED
  BY <1>1, <1>2, <1>3, <1>4

LEMMA TracedBySaves ==
    ASSUME EInv, Remembers, SaveIntent \/ SaveBegin \/ SaveCheck \/ SaveWrite \/ SaveBaseline
    PROVE  Traced'
<1> USE DEF EInv, Careful
<1>1. CASE SaveIntent
  <2>1. pc' \in {"save", "stopped"} /\ pc # "down" /\ saved' = saved
    BY <1>1 DEF SaveIntent, Require, Goto, Start, locals
  <2> QED
    BY <2>1, Careless
<1>2. CASE SaveBegin
  <2>1. pc # "down" /\ saved' = saved /\ expected' = disk
    BY <1>2 DEF SaveBegin
  <2>2. (disk = saved /\ pc' = "check") \/ pc' = "stopped"
    BY <1>2 DEF SaveBegin, Require, Goto, Start
  <2> QED
    BY <2>1, <2>2 DEF Traced, Remembers
<1>3. CASE SaveCheck
  <2>1. pc = "check" /\ UNCHANGED <<disk, saved, expected>>
    BY <1>3 DEF SaveCheck, CheckBeforeWrite, Require, Look, locals
  <2>2. (disk = expected /\ pc' = "write") \/ pc' \in {"baseline", "stopped"}
    BY <1>3 DEF SaveCheck, CheckBeforeWrite, Require, Goto, Start
  <2> QED
    BY <2>1, <2>2 DEF Traced, Remembers, Current
<1>4. CASE SaveWrite
  <2>1. pc = "write" /\ pc' \in {"check", "stopped"}
    <3>1. Goto("stopped") \/ Goto("check")
      BY <1>4, Zenon DEF SaveWrite
    <3> QED
      BY <1>4, <3>1 DEF Goto, Start, SaveWrite
  <2>2. \/ UNCHANGED <<saved, expected>>
        \/ \E p : /\ saved' = [saved EXCEPT ![p] = Logical[p]]
                  /\ expected' = [expected EXCEPT ![p] = Logical[p]]
    BY <1>4 DEF SaveWrite
  <2>3. \A p \in File : saved[p] \in Spelt /\ expected[p] \in Spelt /\ Logical[p] \in Spelt
    BY <2>1, Spelled DEF Traced, Inv
  <2>4. saved \in Versions /\ expected \in Versions
    BY DEF Typed
  <2>5. \A p \in File : saved'[p] \in Spelt /\ expected'[p] \in Spelt
    BY <2>2, <2>3, <2>4 DEF Versions
  <2> QED
    BY <2>1, <2>5 DEF Traced, Remembers
<1>5. CASE SaveBaseline
  <2>1. pc' \in {"resumed", "capture", "idle", "stopped"} /\ pc # "down" /\ saved' = saved
    BY <1>5 DEF SaveBaseline, PersistBaseline, Goto, Start
  <2> QED
    BY <2>1, Careless
<1> QED
  BY <1>1, <1>2, <1>3, <1>4, <1>5

(* Evidence holds what was observed, unless that was the text itself. *)
LEMMA TracedByObservations ==
    ASSUME EInv, Remembers,
           \/ Recheck \/ Observe \/ Readopt \/ Preserve
           \/ RecordObservation \/ RecordDecision
    PROVE  Traced'
<1> USE DEF EInv, Careful
<1>1. CASE Recheck
  <2>1. AfterRecheck \in {"idle", "intent", goal}
    BY DEF AfterRecheck
  <2>2. pc' \in {"idle", "intent", "observe", goal} /\ pc # "down" /\ saved' = saved
    BY <1>1, <2>1 DEF Recheck, Goto, Start, locals
  <2>3. goal \notin Careful \cup {"down"}
    BY DEF Typed, Goals
  <2> QED
    BY <2>2, <2>3, Careless
<1>2. CASE Observe
  <2>1. pc' \in {"readopt", "preserve"} /\ pc # "down" /\ saved' = saved
    BY <1>2 DEF Observe, Goto, Start
  <2> QED
    BY <2>1, Careless
<1>3. CASE Readopt
  <2>1. pc' \in {"settle", "stopped"} /\ saved' = Logical
    BY <1>3 DEF Readopt, Require, Goto, Start
  <2>2. \A p \in File : saved'[p] \in Spelt'
    BY <2>1, Spelled DEF Inv, Remembers
  <2> QED
    BY <2>1, <2>2, Careless
<1>4. CASE Preserve
  <2> DEFINE views == Views(IF view = None THEN saved ELSE view.saved, Logical, observed)
             artifact == Artifact(Len(log), views)
  <2>1. pc # "down" /\ pc' = "record" /\ UNCHANGED <<log, saved, observed>>
    BY <1>4 DEF Preserve, Goto, Start
  <2>2. \/ Reusable
        \/ artifact \in evidence'
    BY <1>4 DEF Preserve, WithEvidence
  <2>3. \A p \in File : observed[p] \in Backup(p)'
    <3>1. CASE Reusable
      <4>1. \/ pending \in evidence /\ pending.views.disk = observed
            \/ observed = Logical
        BY <3>1 DEF Reusable, Inv, Working, Resumed
      <4>2. \A p \in File : observed[p] \in Backup(p)
        BY <4>1, Spelled DEF Inv, Backup
      <4> QED
        BY <4>2 DEF Remembers
    <3>2. CASE artifact \in evidence'
      <4>1. artifact.views.disk = observed
        BY DEF Artifact, Views
      <4> HIDE DEF artifact
      <4> QED
        BY <3>2, <4>1 DEF Backup
    <3> QED
      BY <2>2, <3>1, <3>2
  <2> QED
    BY <2>1, <2>3 DEF Traced, Remembers
<1>5. CASE RecordObservation \/ RecordDecision
  <2>1. pc = "record" /\ pc' \in {"record", "confirm"} /\ UNCHANGED <<saved, observed>>
    BY <1>5 DEF RecordObservation, RecordDecision, Goto, Start, control, locals
  <2> QED
    BY <2>1 DEF Traced, Remembers
<1> QED
  BY <1>1, <1>2, <1>3, <1>4, <1>5

LEMMA TracedByRestorations ==
    ASSUME EInv, Remembers,
           \/ Confirm \/ Restore \/ RestoreCheck \/ RestoreFile \/ Adopt
           \/ Seal \/ Outcome \/ Settle
    PROVE  Traced'
<1> USE DEF EInv, Careful
<1>1. CASE Confirm
  <2>1. pc = "confirm" /\ saved' = saved
    BY <1>1 DEF Confirm
  <2>2. \/ pc' = "restore" /\ observed' = observed
        \/ pc' \in {"stopped", "preserve"}
    BY <1>1 DEF Confirm, Goto, Start
  <2> QED
    BY <2>1, <2>2 DEF Traced, Remembers
<1>2. CASE Restore
  <2>1. pc = "restore" /\ saved' = saved /\ expected' = observed
    BY <1>2 DEF Restore
  <2>2. pc' \in {"restoring", "stopped"}
    BY <1>2 DEF Restore, Require, Goto, Start
  <2> QED
    BY <2>1, <2>2 DEF Traced, Remembers
<1>3. CASE RestoreCheck
  <2>1. pc = "restoring" /\ UNCHANGED <<disk, saved, expected>>
    BY <1>3 DEF RestoreCheck, Require, Look, locals
  <2>2. \/ disk = expected /\ pc' = "restoreFile"
        \/ pc' \in {"adopt", "stopped"}
    BY <1>3 DEF RestoreCheck, Require, Goto, Start
  <2> QED
    BY <2>1, <2>2 DEF Traced, Remembers, Current
<1>4. CASE RestoreFile
  <2> DEFINE p == First(IF ToRemove # {} THEN ToRemove ELSE ToWrite)
  <2>1. pc = "restoreFile" /\ pc' \in {"restoring", "stopped"} /\ saved' = saved
    <3>1. Goto("stopped") \/ Goto("restoring")
      BY <1>4, Zenon DEF RestoreFile
    <3> QED
      BY <1>4, <3>1 DEF Goto, Start, RestoreFile
  <2>2. /\ \A q \in File : Logical[q] \in Spelt
        /\ \A q \in File : Logical[q] \in Backup(q) /\ expected[q] \in Backup(q)
        /\ \A q \in File : Empty \in Backup(q)
    BY <2>1, Spelled DEF Traced, Inv, Backup
  <2>3. \/ expected' = expected
        \/ /\ ToRemove # {}
           /\ expected' = [expected EXCEPT ![p] = Absent]
        \/ expected' = [expected EXCEPT ![p] = Empty]
        \/ expected' = [expected EXCEPT ![p] = Logical[p]]
    BY <1>4 DEF RestoreFile
  <2>4. ToRemove # {} => p \in ToRemove
    <3>1. ToRemove \subseteq File
      BY DEF ToRemove, Present
    <3> QED
      BY <3>1, FirstIsIn
  <2>5. ToRemove # {} => p \in File /\ Logical[p] = Absent
    BY <2>4 DEF ToRemove, Present
  <2> HIDE DEF p
  <2>6. expected \in Versions
    BY DEF Typed
  <2>7. \A q \in File : expected'[q] \in Backup(q)
    BY <2>2, <2>3, <2>5, <2>6 DEF Versions
  <2> QED
    BY <2>1, <2>7 DEF Traced, Remembers
<1>5. CASE Adopt
  <2>1. pc' \in {"baseline", "seal", "stopped"} /\ saved' = Logical
    BY <1>5 DEF Adopt, Require, Goto, Start
  <2>2. \A p \in File : saved'[p] \in Spelt'
    BY <2>1, Spelled DEF Inv, Remembers
  <2> QED
    BY <2>1, <2>2, Careless
<1>6. CASE Seal \/ Outcome
  <2>1. pc' \in {"outcome", "settle", "stopped"} /\ pc # "down" /\ saved' = saved
    BY <1>6 DEF Seal, Outcome, Require, Goto, Start, locals
  <2> QED
    BY <2>1, Careless
<1>7. CASE Settle
  <2>1. AfterRecheck \in {"idle", "intent", goal}
    BY DEF AfterRecheck
  <2>2. pc' \in {"idle", "intent", "stopped", goal} /\ pc # "down" /\ saved' = saved
    BY <1>7, <2>1 DEF Settle, PersistBaseline, Goto, Start
  <2>3. goal \notin Careful \cup {"down"}
    BY DEF Typed, Goals
  <2> QED
    BY <2>2, <2>3, Careless
<1> QED
  BY <1>1, <1>2, <1>3, <1>4, <1>5, <1>6, <1>7

(* A process that dies forgets; the next one starts from the baseline, and *)
(* an interrupted save left nothing but contents of it and of the text.    *)
LEMMA TracedByOthers ==
    ASSUME EInv, Remembers,
           Crash \/ Resume \/ RecordResumed \/ OtherProgram \/ UNCHANGED vars
    PROVE  Traced'
<1> USE DEF EInv, Careful
<1>1. CASE Crash
  <2>1. pc' = "down"
    BY <1>1 DEF Crash, Start
  <2> QED
    BY <2>1, Careless
<1>2. CASE Resume
  <2>1. \A p \in File : RecoveredSaved[p] \in Spelt
    BY Spelled DEF RecoveredSaved, Inv, Traced
  <2>2. saved' = RecoveredSaved
    BY <1>2 DEF Resume
  <2>3. CASE OwnSavePending
    <3>1. pc' = "restore" /\ observed' = disk
      BY <1>2, <2>3 DEF Resume, Start
    <3>2. \A p \in File : disk[p] \in Spelt
      BY <2>3, Spelled DEF OwnSavePending, Inv
    <3> QED
      BY <2>1, <2>2, <3>1, <3>2 DEF Traced, Remembers, Backup
  <2>4. CASE ~OwnSavePending
    <3>1. pc' = "resumed"
      BY <1>2, <2>4 DEF Resume, Start
    <3> QED
      BY <2>1, <2>2, <3>1, Careless DEF Remembers
  <2> QED
    BY <2>3, <2>4
<1>3. CASE RecordResumed
  <2>1. pc' \in {"idle", "recheck"} /\ pc # "down" /\ saved' = saved
    BY <1>3 DEF RecordResumed, Goto, Start, locals
  <2> QED
    BY <2>1, Careless
<1>4. CASE OtherProgram
  <2>1. UNCHANGED <<pc, saved, observed, expected>>
    BY <1>4 DEF OtherProgram, control, locals
  <2>2. PICK p \in File : /\ \E c : disk' = [disk EXCEPT ![p] = c]
                         /\ fresh' = fresh \cup {p}
    BY <1>4 DEF OtherProgram, Paths, Present
  <2>3. \A q \in File \ fresh' : disk'[q] = disk[q]
    BY <2>2
  <2> QED
    BY <2>1, <2>2, <2>3 DEF Traced, Remembers, Current
<1>5. CASE UNCHANGED vars
  BY <1>5 DEF vars, control, locals, outer, Traced, Remembers, Current
<1> QED
  BY <1>1, <1>2, <1>3, <1>4, <1>5

LEMMA EStepHolds == EInv /\ [Next]_vars => EInv'
<1> SUFFICES ASSUME EInv, [Next]_vars PROVE EInv'
  OBVIOUS
<1>1. Inv' /\ Typed'
  BY StepHolds, TypedHolds DEF EInv
<1>2. Traced'
  BY Remembering, TracedByCalls, TracedBySaves, TracedByObservations,
     TracedByRestorations, TracedByOthers, Zenon DEF Next
<1> QED
  BY <1>1, <1>2 DEF EInv

-----------------------------------------------------------------------------
(* Where the session writes, everything it could have read is kept. *)
LEMMA ReadIsKept ==
    ASSUME EInv, pc \in {"mutate", "write", "restoreFile"}, NEW p \in File, p \notin fresh
    PROVE  Kept(p)
<1>1. disk[p] \in Backup(p)
  BY DEF EInv, Traced, Current, Backup
<1>2. CASE disk[p] \in Spelt
  <2>1. \E i \in DOMAIN log, q \in File : log[i].files[q] = disk[p]
    BY <1>2, Domain DEF Spelt, EInv, Inv
  <2> QED
    BY <2>1 DEF Kept
<1>3. CASE \E artifact \in evidence : artifact.views.disk[p] = disk[p]
  BY <1>3 DEF Kept
<1> QED
  BY <1>1, <1>2, <1>3 DEF Backup

LEMMA OverwritesKept ==
    ASSUME EInv, [Next]_vars, NEW p \in File, Overwrites(p)
    PROVE  Kept(p) \/ p \in fresh
<1>1. disk' # disk /\ ~(foreign \subseteq foreign')
  BY DEF Overwrites
<1>2. Mutate \/ SaveWrite \/ RestoreFile
  BY <1>1 DEF Next, Edit, Activate, Call, Capture, RecordChange, FocusChange,
              SaveIntent, SaveBegin, SaveCheck, CheckBeforeWrite, SaveBaseline,
              PersistBaseline, Recheck, Observe, Readopt, Preserve,
              RecordObservation, RecordDecision, Confirm, Restore, RestoreCheck,
              Adopt, Seal, Outcome, Settle, Crash, Resume, RecordResumed,
              OtherProgram, Require, Look, outer, vars
<1>3. pc \in {"mutate", "write", "restoreFile"}
  BY <1>2 DEF Mutate, SaveWrite, RestoreFile
<1> QED
  BY <1>3, ReadIsKept

(* SessionRecovery!ForeignVersionsKept: whatever the interleaving of       *)
(* saves, file operations and restorations with other programs, a version  *)
(* of a file that the session overwrites was there when it last read the   *)
(* workspace, and then it is recorded or kept as evidence, or slipped in   *)
(* since.                                                                  *)
THEOREM EvidenceBeforeOverwriting == Spec => ForeignVersionsKept
<1>1. EInv /\ [Next]_vars =>
        [\A p \in File : Overwrites(p) => Kept(p) \/ p \in fresh]_vars
  BY OverwritesKept
<1> QED
  BY EInitHolds, EStepHolds, <1>1, PTL DEF Spec, ForeignVersionsKept

-----------------------------------------------------------------------------
(***************************************************************************)
(* A checkpoint and replay disagree about the active document only after a *)
(* deletion that was cut short, for any set of paths and contents and any  *)
(* number of events, changes by other programs, crashes and resumes.       *)
(*                                                                         *)
(* The invariant says when replay has no active document: right after the  *)
(* deletion of it, until its successor is recorded, and for good when the  *)
(* process dies in between.                                                *)
(***************************************************************************)

(* A deletion of the active document that a resumption follows, among the  *)
(* first n events.                                                         *)
CutBefore(n) ==
    \E j \in 1 .. n - 1 :
        /\ log[j].kind = "delete" /\ log[j].active = None
        /\ log[j + 1].kind = "resumed"

Explained ==
    \A i \in 1 .. Len(log) : Misses(i) => log[i].active = None /\ CutBefore(i)

(* The active document is one of the session's files. *)
ActiveExists == Replayed # None => Replayed \in File /\ Logical[Replayed] # Absent

(* Nothing is captured between a deletion and what follows it. *)
Unsettled == pc \in {"focus", "stopped", "down", "resumed"} \/ goal = "own"

WithoutActive ==
    Replayed = None =>
        CutBefore(Len(log)) \/ (log[Len(log)].kind = "delete" /\ Unsettled)

Focused == Explained /\ ActiveExists /\ WithoutActive

FInv == EInv /\ Focused

-----------------------------------------------------------------------------
LEMMA AppendedEvent ==
    ASSUME IsLog, Durable, NEW kind, NEW files, NEW active, NEW shown, NEW a,
           Recorded(Event(kind, files, active, shown, a)), Explained,
           kind = "checkpoint" /\ shown # active =>
               active = None /\ CutBefore(Len(log))
    PROVE  /\ Explained' /\ Replayed' = active /\ Logical' = files
           /\ CutBefore(Len(log)) => CutBefore(Len(log))'
           /\ log'[Len(log')].kind = kind
           /\ kind = "resumed" /\ log[Len(log)].kind = "delete" /\ Replayed = None =>
                  CutBefore(Len(log))'
<1> DEFINE e == Event(kind, files, active, shown, a)
<1>1. e.kind = kind /\ e.files = files /\ e.active = active /\ e.shown = shown
  BY DEF Event
<1>2. log' = Append(log, e)
  BY DEF Recorded
<1> HIDE DEF e
<1>3. PICK S : log \in Seq(S)
  BY DEF IsLog
<1>4. /\ Len(log') = Len(log) + 1 /\ Len(log) \in Nat \ {0}
      /\ \A i \in 1 .. Len(log) : log'[i] = log[i]
      /\ log'[Len(log) + 1] = e
  BY <1>2, <1>3, Appended DEF Durable
<1>5. ASSUME NEW n \in 1 .. Len(log), CutBefore(n)
      PROVE  CutBefore(n)' /\ CutBefore(n + 1)'
  <2>1. PICK j \in 1 .. n - 1 :
          log[j].kind = "delete" /\ log[j].active = None /\ log[j + 1].kind = "resumed"
    BY <1>5 DEF CutBefore
  <2>2. log'[j] = log[j] /\ log'[j + 1] = log[j + 1] /\ j \in 1 .. (n + 1) - 1
    BY <1>4, <2>1
  <2> QED
    BY <2>1, <2>2 DEF CutBefore
<1>6. \A i \in 1 .. Len(log) : Misses(i)' => log'[i].active = None /\ CutBefore(i)'
  BY <1>4, <1>5 DEF Explained, Misses
<1>7. PICK n \in 1 .. Len(log) : n = Len(log)
  BY <1>4
<1>8. Explained'
  <2>1. Misses(n + 1)' => e.active = None /\ CutBefore(n + 1)'
    BY <1>1, <1>4, <1>5, <1>7 DEF Misses
  <2>2. 1 .. Len(log') = 1 .. Len(log) \cup {n + 1} /\ log'[n + 1] = e
    BY <1>4, <1>7
  <2> QED
    BY <1>6, <2>1, <2>2 DEF Explained
<1>9. CutBefore(Len(log)) => CutBefore(Len(log))'
  BY <1>4 DEF CutBefore
<1>10. kind = "resumed" /\ log[Len(log)].kind = "delete" /\ Replayed = None =>
         CutBefore(Len(log))'
  BY <1>1, <1>4 DEF CutBefore, Replayed
<1> QED
  BY <1>1, <1>4, <1>8, <1>9, <1>10 DEF Replayed, Logical

LEMMA SameLog ==
    ASSUME UNCHANGED log, Focused, Unsettled => Unsettled'
    PROVE  Focused'
BY DEF Focused, Explained, Misses, CutBefore, ActiveExists, WithoutActive, Replayed, Logical

LEMMA FInitHolds == Init => FInv
<1> SUFFICES ASSUME Init PROVE Focused
  BY EInitHolds DEF FInv
<1>1. PICK paths \in Assigned :
        /\ disk = [p \in File |-> IF p \in paths THEN Empty ELSE Absent]
        /\ log = <<Event("checkpoint", disk, First(paths), First(paths), None)>>
  BY DEF Init
<1>2. paths \subseteq File /\ paths # {}
  BY <1>1, RecoveryAssumption
<1>3. First(paths) \in paths
  BY <1>2, FirstIsIn
<1>4. /\ Len(log) = 1 /\ log[1].files = disk
      /\ log[1].active = First(paths) /\ log[1].shown = First(paths)
  BY <1>1 DEF Event
<1>5. First(paths) \in File /\ disk[First(paths)] = Empty
  BY <1>1, <1>2, <1>3
<1> QED
  BY <1>4, <1>5, Constants, RecoveryAssumption
     DEF Focused, Explained, Misses, ActiveExists, WithoutActive, Replayed, Logical

-----------------------------------------------------------------------------
(* An event that leaves the active document as it was. *)
LEMMA KeepsActive ==
    ASSUME FInv, NEW kind, NEW files, NEW shown, NEW a,
           Recorded(Event(kind, files, Replayed, shown, a)),
           kind = "checkpoint" => shown = Active,
           Replayed # None => files[Replayed] # Absent,
           ~Unsettled
    PROVE  Focused'
<1>1. Replayed = None => CutBefore(Len(log))
  BY DEF FInv, Focused, WithoutActive
<1>2. kind = "checkpoint" /\ shown # Replayed => Replayed = None /\ CutBefore(Len(log))
  BY <1>1 DEF Active
<1>3. /\ Explained' /\ Replayed' = Replayed /\ Logical' = files
      /\ CutBefore(Len(log)) => CutBefore(Len(log))'
  BY <1>2, AppendedEvent DEF FInv, Focused, EInv, Inv
<1> QED
  BY <1>1, <1>3 DEF FInv, Focused, ActiveExists, WithoutActive

(* An event that makes an existing document active. *)
LEMMA SetsActive ==
    ASSUME FInv, NEW kind, kind # "checkpoint", NEW files, NEW p \in File, files[p] # Absent,
           NEW shown, NEW a, Recorded(Event(kind, files, p, shown, a))
    PROVE  Focused'
<1>1. Explained' /\ Replayed' = p /\ Logical' = files
  BY AppendedEvent DEF FInv, Focused, EInv, Inv
<1> QED
  BY <1>1, RecoveryAssumption DEF Focused, ActiveExists, WithoutActive

LEMMA FocusedByChange ==
    ASSUME FInv, RecordChange
    PROVE  Focused'
<1> USE DEF FInv, EInv, Inv
<1>0. /\ pc \in {"create", "rename", "delete"} /\ goal = pc /\ ~Unsettled
      /\ Logical \in Versions
  BY Spelled DEF RecordChange, Typed, Unsettled
<1>1. CASE UNCHANGED durable
  BY <1>0, <1>1, SameLog DEF durable
<1>2. ASSUME NEW files \in Changes,
             Recorded(Event(goal, files, ActiveAfter(files), None, None)),
             Goto(IF Refocuses(files) THEN "focus" ELSE "mutate")
      PROVE  Focused'
  <2>1. CASE Replayed = None
    <3>1. ActiveAfter(files) = Replayed
      BY <2>1 DEF ActiveAfter
    <3> QED
      BY <1>0, <1>2, <2>1, <3>1, KeepsActive
  <2>2. CASE Replayed # None /\ files[Replayed] # Absent
    <3>1. ActiveAfter(files) = Replayed
      BY <2>2 DEF ActiveAfter
    <3> QED
      BY <1>0, <1>2, <2>2, <3>1, KeepsActive
  <2>3. CASE Replayed # None /\ files[Replayed] = Absent
    <3>1. Replayed \in File /\ Logical[Replayed] # Absent
      BY <2>3 DEF Focused, ActiveExists
    <3>2. CASE goal = "create"
      <4>1. PICK p : files = [Logical EXCEPT ![p] = Empty]
        BY <1>2, <3>2 DEF Changes
      <4> QED
        BY <1>0, <2>3, <3>1, <4>1, Constants DEF Versions
    <3>3. CASE goal = "delete"
      <4>1. Active = Replayed /\ ActiveAfter(files) = None
        BY <2>3, <3>3 DEF Active, ActiveAfter
      <4>2. pc' = "focus"
        BY <1>2, <2>3, <3>3, <4>1 DEF Refocuses, Goto, Start
      <4>3. /\ Explained' /\ Replayed' = None
            /\ log'[Len(log')].kind = "delete"
        BY <1>2, <3>3, <4>1, AppendedEvent DEF Focused
      <4> QED
        BY <4>2, <4>3 DEF Focused, ActiveExists, WithoutActive, Unsettled
    <3>4. CASE goal = "rename"
      <4>1. PICK p \in Present(Logical), q \in Paths \ Present(Logical) :
              files = [Logical EXCEPT ![q] = Logical[p], ![p] = Absent]
        BY <1>2, <3>4 DEF Changes
      <4>2. p \in File /\ q \in File /\ Logical[p] # Absent /\ p # q
        BY DEF Present, Paths
      <4>3. q \in Present(files) \ Present(Logical)
        BY <1>0, <4>1, <4>2 DEF Versions, Present
      <4> DEFINE new == Present(files) \ Present(Logical)
      <4>4. new \subseteq File /\ \A r \in new : files[r] # Absent
        BY DEF Present
      <4> HIDE DEF new
      <4>5. First(new) \in new
        BY <4>3, <4>4, FirstIsIn DEF new
      <4>6. ActiveAfter(files) = First(new)
        BY <2>3, <3>4 DEF ActiveAfter, new
      <4> QED
        BY <1>2, <3>4, <4>4, <4>5, <4>6, SetsActive
    <3> QED
      BY <1>0, <3>2, <3>3, <3>4
  <2> QED
    BY <2>1, <2>2, <2>3
<1> QED
  BY <1>1, <1>2 DEF RecordChange

LEMMA FocusedByEvents ==
    ASSUME FInv,
           \/ Edit \/ Activate \/ FocusChange \/ Capture \/ Seal
           \/ RecordObservation \/ RecordDecision \/ RecordResumed
    PROVE  Focused'
<1> USE DEF FInv, EInv, Inv
<1>0. /\ Logical \in Versions
      /\ ActiveExists
      /\ goal = "own" => pc \notin {"idle", "capture", "seal", "record"}
  BY Spelled DEF Working, OwnSave, Focused
<1>1. CASE Edit
  <2>1. PICK text \in Text : Record("edit", [Logical EXCEPT ![Active] = text], None)
    BY <1>1 DEF Edit
  <2>2. Replayed # None => [Logical EXCEPT ![Active] = text][Replayed] # Absent
    BY <1>0, RecoveryAssumption DEF ActiveExists, Active, Versions
  <2> QED
    BY <1>0, <1>1, <2>1, <2>2, KeepsActive DEF Edit, Record, Unsettled
<1>2. CASE Activate \/ FocusChange
  <2>1. PICK p \in Present(Logical) : RecordFocus(p)
    BY <1>2 DEF Activate, FocusChange
  <2> QED
    BY <2>1, SetsActive DEF RecordFocus, Present
<1>3. CASE Capture \/ Seal
  <2>1. RecordCheckpoint \/ UNCHANGED durable
    BY <1>3 DEF Capture, Seal
  <2>2. ~Unsettled
    BY <1>0, <1>3 DEF Capture, Seal, Unsettled
  <2>3. CASE RecordCheckpoint
    BY <1>0, <2>2, <2>3, KeepsActive DEF RecordCheckpoint, ActiveExists
  <2>4. CASE UNCHANGED durable
    BY <2>2, <2>4, SameLog DEF durable
  <2> QED
    BY <2>1, <2>3, <2>4
<1>4. CASE RecordObservation \/ RecordDecision
  <2>1. PICK kind \in External : Record(kind, Logical, held)
    BY <1>4 DEF RecordObservation, RecordDecision, External
  <2> QED
    BY <1>0, <1>4, <2>1, KeepsActive
       DEF RecordObservation, RecordDecision, Record, External, ActiveExists, Unsettled
<1>5. CASE RecordResumed
  <2>1. Recorded(Event("resumed", Logical, Replayed, None, None))
    BY <1>5 DEF RecordResumed, Record
  <2>2. /\ Explained' /\ Replayed' = Replayed /\ Logical' = Logical
        /\ CutBefore(Len(log)) => CutBefore(Len(log))'
        /\ log[Len(log)].kind = "delete" /\ Replayed = None => CutBefore(Len(log))'
    BY <2>1, AppendedEvent DEF Focused
  <2> QED
    BY <1>0, <2>2 DEF Focused, ActiveExists, WithoutActive
<1> QED
  BY <1>1, <1>2, <1>3, <1>4, <1>5

LEMMA FocusedByOthers ==
    ASSUME FInv,
           \/ Call \/ Mutate \/ SaveIntent \/ SaveBegin \/ SaveCheck \/ SaveWrite
           \/ SaveBaseline \/ Recheck \/ Observe \/ Readopt \/ Preserve \/ Confirm
           \/ Restore \/ RestoreCheck \/ RestoreFile \/ Adopt \/ Outcome \/ Settle
           \/ Crash \/ Resume \/ OtherProgram \/ UNCHANGED vars
    PROVE  Focused'
<1> USE DEF FInv, EInv, Inv
<1>0. goal = "own" =>
        pc \in {"restore", "restoring", "restoreFile", "adopt", "baseline", "resumed"}
  BY DEF Working, OwnSave
<1>1. UNCHANGED log
  BY DEF Call, Mutate, SaveIntent, SaveBegin, SaveCheck, SaveWrite, SaveBaseline,
         PersistBaseline, Recheck, Observe, Readopt, Preserve, Confirm, Restore,
         RestoreCheck, RestoreFile, Adopt, Outcome, Settle, Crash, Resume,
         OtherProgram, durable, vars
<1>2. ASSUME Unsettled PROVE Unsettled'
  <2>1. CASE \/ Call \/ Mutate \/ SaveIntent \/ SaveBegin \/ SaveCheck \/ SaveWrite
             \/ Recheck \/ Observe \/ Readopt \/ Preserve \/ Confirm \/ Outcome \/ Settle
    BY <1>0, <1>2, <2>1
       DEF Unsettled, Call, Mutate, SaveIntent, SaveBegin, SaveCheck, SaveWrite,
           Recheck, Observe, Readopt, Preserve, Confirm, Outcome, Settle
  <2>2. CASE Restore \/ RestoreCheck \/ Adopt
    BY <1>0, <1>2, <2>2
       DEF Unsettled, Restore, RestoreCheck, Adopt, Require, Goto, Start
  <2>3. CASE RestoreFile
    <3>1. Goto("stopped") \/ Goto("restoring")
      BY <2>3, Zenon DEF RestoreFile
    <3> QED
      BY <1>0, <1>2, <2>3, <3>1 DEF RestoreFile, Unsettled, Goto, Start
  <2>4. CASE SaveBaseline
    <3>1. goal = "own"
      BY <1>2, <2>4 DEF SaveBaseline, Unsettled
    <3> QED
      BY <2>4, <3>1 DEF SaveBaseline, PersistBaseline, Unsettled, Goto, Start
  <2>5. CASE Crash \/ Resume
    BY <2>5 DEF Crash, Resume, Unsettled, Start
  <2>6. CASE OtherProgram \/ UNCHANGED vars
    BY <1>2, <2>6 DEF OtherProgram, Unsettled, control, vars
  <2> QED
    BY <2>1, <2>2, <2>3, <2>4, <2>5, <2>6
<1> QED
  BY <1>1, <1>2, SameLog

LEMMA FStepHolds == FInv /\ [Next]_vars => FInv'
<1> SUFFICES ASSUME FInv, [Next]_vars PROVE Focused'
  BY EStepHolds DEF FInv
<1> QED
  BY FocusedByChange, FocusedByEvents, FocusedByOthers, Zenon DEF Next

(* SessionRecovery!OnlyCutDeletesMiss: whatever files are created, renamed *)
(* and deleted and wherever the process is killed, only a deletion of the  *)
(* active document that a resumption follows at once leaves a checkpoint   *)
(* that shows another active document than replay reaches.                 *)
THEOREM MissedFocus == Spec => []OnlyCutDeletesMiss
<1>1. FInv => OnlyCutDeletesMiss
  BY Domain DEF FInv, Focused, EInv, Inv, Explained, CutBefore, OnlyCutDeletesMiss
<1> QED
  BY FInitHolds, FStepHolds, <1>1, PTL DEF Spec

-----------------------------------------------------------------------------
(***************************************************************************)
(* A session takes none of its own work for another program's, and at rest *)
(* knows what is on disk, for any set of paths and contents and any number *)
(* of events, changes by other programs, crashes and resumes.              *)
(*                                                                         *)
(* The invariant says what an undisturbed disk holds at every point of the *)
(* session: the baseline's files, or, between the intent and the baseline  *)
(* of a save, a mixture of them and the recorded text.                     *)
(***************************************************************************)

(* Another program, or a file operation under way, may explain whatever is *)
(* on disk.                                                                *)
Excused == meddled \/ Present(baseline.files) # Present(Logical)

(* Something was observed that no baseline has settled. *)
Observed == \E i \in 1 .. Len(log) : i > baseline.sequence /\ log[i].kind = "observation"

(* Where the files are those of the baseline. *)
AtEase == {"idle", "recheck", "intent", "capture", "create", "rename", "delete", "resumed"}

(* Where a save may have written some of them. *)
Saving == {"save", "check", "write", "baseline"}

Mixture == \A p \in File : disk[p] \in {baseline.files[p], Logical[p]}

(* Where the session is, and what it knows there. *)
Placed ==
    /\ pc \in AtEase \cup Saving \cup {"stopped", "down"} \/ goal = "own"
    /\ pc \in AtEase => disk = saved /\ saved = baseline.files /\ view = None
    /\ pc \in Saving /\ goal # "own" => disk = saved /\ IntentMatches
    /\ pc \in {"stopped", "down"} => disk = baseline.files \/ IntentMatches
    /\ goal = "own" /\ pc # "resumed" => IntentMatches
    /\ pc = "restore" => disk = observed
    /\ pc \in {"restoring", "restoreFile"} => disk = expected
    /\ pc = "restoreFile" => ToRemove \cup ToWrite # {}

Undisturbed == ~Observed /\ Mixture /\ Placed

(* Between calls the baseline has the files that the text has. *)
Balanced ==
    \/ pc \in {"idle", "capture", "create", "rename", "delete"}
    \/ pc = "resumed" /\ view = None
    \/ pc = "recheck" /\ view = None /\ goal # "save"

ViewsOf == [saved : Versions, logical : Versions, disk : Versions]

Viewed ==
    /\ view \in ViewsOf \cup {None}
    /\ \A artifact \in evidence : artifact.views \in ViewsOf

(* A call goes on with the evidence settled. *)
Clear ==
    /\ pc \in {"idle", "capture", "create", "rename", "delete", "focus", "mutate",
              "intent", "save", "check", "write", "baseline"} => view = None
    /\ goal = "none" => pc \in {"idle", "stopped", "down"}

Calm ==
    /\ ~Excused => Undisturbed
    /\ Balanced => Present(baseline.files) = Present(Logical)

Settled == Viewed /\ Clear /\ Present(Logical) # {} /\ Calm

RInv == FInv /\ Settled

-----------------------------------------------------------------------------
LEMMA RInitHolds == Init => RInv
<1> SUFFICES ASSUME Init PROVE Settled
  BY FInitHolds DEF RInv
<1>1. PICK paths \in Assigned :
        /\ disk = [p \in File |-> IF p \in paths THEN Empty ELSE Absent]
        /\ log = <<Event("checkpoint", disk, First(paths), First(paths), None)>>
  BY DEF Init
<1>2. paths \subseteq File /\ paths # {}
  BY <1>1, RecoveryAssumption
<1>3. Len(log) = 1 /\ log[1].files = disk /\ log[1].kind = "checkpoint"
  BY <1>1 DEF Event
<1>4. Logical = disk /\ Present(Logical) # {}
  BY <1>1, <1>2, <1>3, Constants DEF Logical, Present
<1>5. baseline.files = disk /\ baseline.sequence = 1
  BY DEF Init
<1>6. ~Observed
  BY <1>3 DEF Observed
<1>7. Undisturbed
  BY <1>4, <1>5, <1>6 DEF Init, Undisturbed, Placed, Mixture, AtEase, Saving
<1> QED
  BY <1>4, <1>5, <1>7 DEF Init, Settled, Viewed, Clear, Calm

LEMMA ViewedHolds ==
    ASSUME RInv, [Next]_vars
    PROVE  Viewed'
<1> USE DEF RInv, FInv, EInv, Inv, Settled, Viewed
<1>1. /\ Logical \in Versions /\ baseline.files \in Versions
      /\ disk \in Versions /\ saved \in Versions /\ observed \in Versions
  BY Spelled DEF Typed
<1>2. \A s, l, d \in Versions : Views(s, l, d) \in ViewsOf
  BY DEF Views, ViewsOf
<1>3. CASE Preserve
  <2> DEFINE views == Views(IF view = None THEN saved ELSE view.saved, Logical, observed)
             artifact == Artifact(Len(log), views)
  <2>1. view' = views /\ evidence' \in {evidence, evidence \cup {artifact}}
    BY <1>3 DEF Preserve, WithEvidence
  <2>2. views \in ViewsOf
    BY <1>1, <1>2 DEF ViewsOf
  <2>3. artifact.views = views
    BY DEF Artifact
  <2> QED
    BY <2>1, <2>2, <2>3
<1>4. CASE Resume
  <2>1. evidence' = evidence
    BY <1>4 DEF Resume, durable
  <2>2. view' = view \/ view' = None \/ (PendingExternal # None /\ view' = PendingExternal.views)
           \/ view' = Views(baseline.files, Logical, disk)
    BY <1>4 DEF Resume
  <2> QED
    BY <1>1, <1>2, <2>1, <2>2, Found
<1>5. CASE ~(Preserve \/ Resume)
  <2>1. evidence' = evidence /\ view' \in {view, None}
    BY <1>5 DEF Next, Edit, Activate, Call, Capture, RecordChange, FocusChange, Mutate,
                SaveIntent, SaveBegin, SaveCheck, SaveWrite, SaveBaseline,
                PersistBaseline, Recheck, Observe, Readopt, RecordObservation,
                RecordDecision, Confirm, Restore, RestoreCheck, RestoreFile, Adopt,
                Seal, Outcome, Settle, Crash, Forget, RecordResumed, OtherProgram,
                Record, RecordFocus, RecordCheckpoint, Recorded, durable, locals, vars
  <2> QED
    BY <2>1
<1> QED
  BY <1>3, <1>4, <1>5

LEMMA ClearHolds ==
    ASSUME RInv, [Next]_vars
    PROVE  Clear'
<1> USE DEF RInv, FInv, EInv, Inv, Settled, Clear
<1>1. goal \in Goals /\ (goal = "own" => view = None) /\ (pc = "down" => view = None)
  BY DEF Typed, Working, OwnSave
<1>2. AfterRecheck \in {"idle", "intent", goal}
  BY DEF AfterRecheck
<1>3. CASE Recheck
  BY <1>2, <1>3 DEF Recheck, Goto, Start, locals
<1>4. CASE Settle
  BY <1>2, <1>4 DEF Settle, PersistBaseline, Goto, Start
<1>5. CASE Mutate
  <2>1. Goto("stopped") \/ Start("recheck", "save")
    BY <1>5, Zenon DEF Mutate
  <2> QED
    BY <2>1 DEF Goto, Start
<1>6. CASE SaveWrite
  <2>1. Goto("stopped") \/ Goto("check")
    BY <1>6, Zenon DEF SaveWrite
  <2> QED
    BY <1>6, <2>1 DEF SaveWrite, Goto, Start
<1>7. CASE RestoreFile
  <2>1. Goto("stopped") \/ Goto("restoring")
    BY <1>7, Zenon DEF RestoreFile
  <2> QED
    BY <1>7, <2>1 DEF RestoreFile, Goto, Start
<1>8. CASE Edit \/ Activate \/ RecordObservation \/ OtherProgram \/ UNCHANGED vars
  BY <1>8 DEF Edit, Activate, RecordObservation, OtherProgram, control, locals, vars
<1>9. CASE Call \/ Capture \/ RecordChange \/ FocusChange \/ SaveIntent \/ SaveBegin \/ SaveCheck
  BY <1>9 DEF Call, Capture, RecordChange, FocusChange, SaveIntent, SaveBegin,
              SaveCheck, CheckBeforeWrite, Require, Goto, Start, locals
<1>10. CASE SaveBaseline
  BY <1>10 DEF SaveBaseline, PersistBaseline, Goto, Start
<1>11. CASE \/ Observe \/ Readopt \/ Preserve \/ RecordDecision \/ Confirm \/ Restore
            \/ RestoreCheck \/ Seal \/ Outcome
  BY <1>11 DEF Observe, Readopt, Preserve, RecordDecision, Confirm, Restore,
               RestoreCheck, Seal, Outcome, Require, Goto, Start
<1>12. CASE Adopt
  BY <1>1, <1>12 DEF Adopt, Require, Goto, Start
<1>13. CASE Crash \/ Resume \/ RecordResumed
  BY <1>1, <1>13 DEF Crash, Resume, RecordResumed, Goto, Start, locals
<1> QED
  BY <1>3, <1>4, <1>5, <1>6, <1>7, <1>8, <1>9, <1>10, <1>11, <1>12, <1>13, Zenon DEF Next

-----------------------------------------------------------------------------
(* One file's contents change: which files there are. *)
LEMMA Updated ==
    ASSUME NEW f \in Versions, NEW p \in File, NEW c
    PROVE  Present([f EXCEPT ![p] = c]) =
             IF c = Absent THEN Present(f) \ {p} ELSE Present(f) \cup {p}
BY DEF Versions, Present

(* The active document is one of the files. *)
LEMMA ActiveIsPresent ==
    ASSUME RInv
    PROVE  Active \in Present(Logical)
<1>1. Present(Logical) \subseteq File /\ Present(Logical) # {}
  BY DEF RInv, Settled, Present
<1>2. First(Present(Logical)) \in Present(Logical)
  BY <1>1, FirstIsIn
<1> QED
  BY <1>2 DEF RInv, FInv, Focused, ActiveExists, Active, Present

(* A file operation changes which files there are, and leaves one. *)
LEMMA ChangesMatter ==
    ASSUME RInv, pc \in {"create", "rename", "delete"}, NEW files \in Changes
    PROVE  Present(files) # Present(Logical) /\ Present(files) # {}
<1>1. Logical \in Versions /\ goal = pc
  BY Spelled DEF RInv, FInv, EInv, Inv, Typed
<1>2. Present(Logical) \subseteq File /\ Paths \subseteq File
  BY DEF Present, Paths
<1>3. CASE goal = "create"
  <2>1. PICK p \in Paths \ Present(Logical) : files = [Logical EXCEPT ![p] = Empty]
    BY <1>3 DEF Changes
  <2>2. Present(files) = Present(Logical) \cup {p}
    BY <1>1, <1>2, <2>1, Updated, Constants
  <2> QED
    BY <2>1, <2>2
<1>4. CASE goal = "delete"
  <2>1. PICK p \in Present(Logical) :
          Cardinality(Present(Logical)) > 1 /\ files = [Logical EXCEPT ![p] = Absent]
    BY <1>4 DEF Changes
  <2>2. Present(files) = Present(Logical) \ {p}
    BY <1>1, <1>2, <2>1, Updated
  <2>3. Present(Logical) # {p}
    <3>1. Cardinality({p}) = 1
      BY FS_Singleton
    <3> QED
      BY <2>1, <3>1
  <2> QED
    BY <2>1, <2>2, <2>3
<1>5. CASE goal = "rename"
  <2>1. PICK p \in Present(Logical), q \in Paths \ Present(Logical) :
          files = [Logical EXCEPT ![q] = Logical[p], ![p] = Absent]
    BY <1>5 DEF Changes
  <2>2. q \in Present(files)
    BY <1>1, <1>2, <2>1 DEF Versions, Present
  <2> QED
    BY <2>1, <2>2
<1> QED
  BY <1>1, <1>3, <1>4, <1>5

LEMMA FilesRemain ==
    ASSUME RInv, [Next]_vars
    PROVE  Present(Logical)' # {}
<1> USE DEF RInv, FInv, EInv, Inv, Settled
<1>1. CASE Edit
  <2>1. PICK text \in Text : Record("edit", [Logical EXCEPT ![Active] = text], None)
    BY <1>1 DEF Edit
  <2>2. Logical' = [Logical EXCEPT ![Active] = text]
    <3> DEFINE files == [Logical EXCEPT ![Active] = text]
    <3>1. Recorded(Event("edit", files, Replayed, None, None))
      BY <2>1 DEF Record
    <3> HIDE DEF files
    <3>2. Logical' = files
      BY <3>1, Recording DEF External
    <3> QED
      BY <3>2 DEF files
  <2>3. Active \in File /\ Logical \in Versions /\ text # Absent
    BY ActiveIsPresent, Spelled, RecoveryAssumption DEF Present
  <2>4. Active \in Present(Logical')
    BY <2>2, <2>3 DEF Versions, Present
  <2> QED
    BY <2>4 DEF Present
<1>2. CASE RecordChange /\ ~UNCHANGED durable
  <2>1. PICK files \in Changes : Recorded(Event(goal, files, ActiveAfter(files), None, None))
    BY <1>2 DEF RecordChange
  <2>2. pc \in {"create", "rename", "delete"} /\ goal = pc
    BY <1>2 DEF RecordChange, Typed
  <2>3. goal \notin External
    BY <2>2 DEF External
  <2>4. Logical' = files
    BY <2>1, <2>3, Recording, Zenon DEF External
  <2>5. Present(files) # {}
    BY <2>2, ChangesMatter
  <2> QED
    BY <2>4, <2>5 DEF Present
<1>3. CASE ~Edit /\ ~(RecordChange /\ ~UNCHANGED durable)
  <2>1. Logical' = Logical
    <3>1. CASE UNCHANGED log
      BY <3>1 DEF Logical
    <3>2. ASSUME NEW kind, NEW active, NEW shown, NEW a,
                 Recorded(Event(kind, Logical, active, shown, a))
          PROVE  Logical' = Logical
      <4>1. Logical \in Versions
        BY Spelled
      <4> QED
        BY <3>2, <4>1, Grown
    <3>3. \/ UNCHANGED log
          \/ \E kind, active, shown, a : Recorded(Event(kind, Logical, active, shown, a))
      BY <1>3 DEF Next, Activate, Call, Capture, RecordChange, FocusChange, Mutate,
                  SaveIntent, SaveBegin, SaveCheck, SaveWrite, SaveBaseline,
                  PersistBaseline, Recheck, Observe, Readopt, Preserve,
                  RecordObservation, RecordDecision, Confirm, Restore, RestoreCheck,
                  RestoreFile, Adopt, Seal, Outcome, Settle, Crash, Resume,
                  RecordResumed, OtherProgram, Record, RecordFocus, RecordCheckpoint,
                  durable, vars
    <3> QED
      BY <3>1, <3>2, <3>3
  <2> QED
    BY <2>1 DEF Present
<1> QED
  BY <1>1, <1>2, <1>3

-----------------------------------------------------------------------------
(* A step that changes neither durable state nor files. *)
LEMMA Unmoved ==
    ASSUME UNCHANGED <<log, baseline, intent, disk, meddled>>
    PROVE  /\ Logical' = Logical
           /\ Excused' <=> Excused
           /\ Observed' <=> Observed
           /\ Mixture' <=> Mixture
           /\ IntentMatches' <=> IntentMatches
BY DEF Excused, Observed, Mixture, IntentMatches, Receipt, Logical, Present

LEMMA CalmStill ==
    ASSUME RInv, UNCHANGED <<log, baseline, intent, disk, meddled>>,
           ~Excused /\ Placed => Placed',
           Balanced' => Balanced
    PROVE  Calm'
<1>1. Present(baseline.files)' = Present(baseline.files) /\ Present(Logical)' = Present(Logical)
  BY Unmoved DEF Present
<1> QED
  BY <1>1, Unmoved DEF RInv, Settled, Calm, Undisturbed

(* An event other than an observation. *)
LEMMA Unobserved ==
    ASSUME RInv, NEW kind, kind \notin External, NEW files, NEW active, NEW shown, NEW a,
           Recorded(Event(kind, files, active, shown, a))
    PROVE  /\ Logical' = files /\ baseline' = baseline
           /\ Observed' => Observed
<1> DEFINE e == Event(kind, files, active, shown, a)
<1>1. e.kind = kind /\ e.files = files
  BY DEF Event
<1>2. log' = Append(log, e) /\ baseline' = baseline
  BY DEF Recorded
<1> HIDE DEF e
<1>3. PICK S : log \in Seq(S)
  BY DEF RInv, FInv, EInv, Inv, IsLog
<1>4. /\ Len(log') = Len(log) + 1 /\ Len(log) \in Nat
      /\ \A i \in 1 .. Len(log) : log'[i] = log[i]
      /\ log'[Len(log) + 1] = e
  BY <1>2, <1>3, Appended DEF RInv, FInv, EInv, Inv, Durable
<1>5. Observed' => Observed
  BY <1>1, <1>2, <1>4 DEF Observed, External
<1> QED
  BY <1>1, <1>2, <1>4, <1>5 DEF Logical

(* An event of the session at rest that leaves its files the same ones. *)
LEMMA CalmAtRest ==
    ASSUME RInv, pc \in {"idle", "capture", "resumed"}, NEW kind, kind \notin External,
           NEW files \in Versions, Present(files) = Present(Logical),
           NEW active, NEW shown, NEW a, Recorded(Event(kind, files, active, shown, a)),
           UNCHANGED <<disk, meddled, saved, view>>,
           \/ pc' = "idle" /\ goal' # "own" /\ view = None
           \/ pc' = "recheck" /\ view # None
    PROVE  Calm'
<1> USE DEF RInv, FInv, Settled, Calm
<1>1. /\ Logical' = files /\ baseline' = baseline
      /\ Observed' => Observed
  BY Unobserved
<1>2. Present(Logical)' = Present(Logical)
  BY <1>1 DEF Present
<1>3. Present(baseline.files)' = Present(baseline.files)
  BY <1>1 DEF Present
<1>4. Excused' <=> Excused
  BY <1>2, <1>3 DEF Excused
<1>5. ~Excused => pc' = "idle" /\ disk = baseline.files /\ saved = baseline.files /\ view = None /\ ~Observed
  BY DEF Undisturbed, Placed, AtEase
<1>6. ~Excused' => Undisturbed'
  BY <1>1, <1>4, <1>5 DEF Undisturbed, Placed, Mixture, AtEase, Saving
<1>7. Balanced' => Balanced
  BY DEF Balanced
<1> QED
  BY <1>2, <1>3, <1>6, <1>7

LEMMA CalmByCalls ==
    ASSUME RInv,
           Edit \/ Activate \/ Call \/ Capture \/ RecordChange \/ FocusChange \/ Mutate \/ RecordResumed
    PROVE  Calm'
<1> USE DEF RInv, FInv, EInv, Inv, Settled
<1>0. Logical \in Versions /\ (goal = "own" => pc # "idle")
  BY Spelled DEF Working, OwnSave
<1>1. CASE Edit
  <2>1. PICK text \in Text : Record("edit", [Logical EXCEPT ![Active] = text], None)
    BY <1>1 DEF Edit
  <2> DEFINE files == [Logical EXCEPT ![Active] = text]
  <2>2. files \in Versions /\ Present(files) = Present(Logical)
    <3>1. Active \in Present(Logical) /\ Active \in File /\ text # Absent /\ text \in Contents
      BY ActiveIsPresent, RecoveryAssumption DEF Present, Contents
    <3>2. files \in Versions
      BY <1>0, <3>1, Update
    <3>3. Present(files) = Present(Logical) \cup {Active}
      BY <1>0, <3>1, Updated
    <3> QED
      BY <3>1, <3>2, <3>3
  <2>3. Recorded(Event("edit", files, Replayed, None, None))
    BY <2>1 DEF Record
  <2>4. /\ pc = "idle" /\ pc' = "idle" /\ goal' = goal /\ view = None
        /\ UNCHANGED <<disk, meddled, saved, view>>
    BY <1>1 DEF Edit, control, locals, outer, Clear
  <2> HIDE DEF files
  <2> QED
    BY <1>0, <2>2, <2>3, <2>4, CalmAtRest DEF External
<1>2. CASE Activate
  <2>1. PICK p : RecordFocus(p)
    BY <1>2 DEF Activate
  <2>2. /\ pc = "idle" /\ pc' = "idle" /\ goal' = goal /\ view = None
        /\ UNCHANGED <<disk, meddled, saved, view>>
    BY <1>2 DEF Activate, control, locals, outer, Clear
  <2> QED
    BY <1>0, <2>1, <2>2, CalmAtRest DEF RecordFocus, External
<1>3. CASE Capture
  <2>1. /\ pc = "capture" /\ pc' = "idle" /\ goal' = "none" /\ view = None
        /\ UNCHANGED <<disk, meddled, saved, view>>
    BY <1>3 DEF Capture, Goto, Start, Look, locals, Clear
  <2>2. RecordCheckpoint \/ UNCHANGED durable
    BY <1>3 DEF Capture
  <2>3. CASE RecordCheckpoint
    BY <1>0, <2>1, <2>3, CalmAtRest DEF RecordCheckpoint, External
  <2>4. CASE UNCHANGED durable
    BY <2>1, <2>4, CalmStill DEF durable, Placed, AtEase, Saving, Balanced
  <2> QED
    BY <2>2, <2>3, <2>4
<1>4. CASE RecordResumed
  <2>1. /\ pc = "resumed" /\ UNCHANGED <<disk, meddled, saved, view>>
        /\ \/ pc' = "idle" /\ goal' = "none" /\ view = None
           \/ pc' = "recheck" /\ view # None
    BY <1>4 DEF RecordResumed, Goto, Start, locals, outer
  <2> QED
    BY <1>0, <1>4, <2>1, CalmAtRest DEF RecordResumed, Record, External
<1>5. CASE Call
  <2>1. /\ pc = "idle" /\ pc' = "recheck" /\ goal' # "own"
        /\ UNCHANGED <<log, baseline, intent, disk, meddled, saved, view>>
    BY <1>5 DEF Call, Start, durable, outer
  <2> QED
    BY <2>1, CalmStill DEF Placed, AtEase, Saving, Balanced
<1>6. CASE RecordChange
  <2>1. /\ pc \in {"create", "rename", "delete"} /\ goal = pc
        /\ UNCHANGED <<disk, meddled, saved, view>>
    BY <1>6 DEF RecordChange, Look, locals, Typed
  <2>2. CASE UNCHANGED durable /\ Goto("idle")
    BY <2>1, <2>2, CalmStill DEF durable, Placed, AtEase, Saving, Balanced, Goto, Start
  <2>3. ASSUME NEW files \in Changes,
               Recorded(Event(goal, files, ActiveAfter(files), None, None)),
               Goto(IF Refocuses(files) THEN "focus" ELSE "mutate")
        PROVE  Calm'
    <3>1. Logical' = files /\ baseline' = baseline
      BY <2>1, <2>3, Unobserved DEF External
    <3>2. Present(files) # Present(Logical)
      BY <2>1, ChangesMatter
    <3>3. Present(baseline.files) = Present(Logical)
      BY <2>1 DEF Calm, Balanced
    <3>4. Excused'
      BY <3>1, <3>2, <3>3 DEF Excused, Present
    <3>5. ~Balanced'
      BY <2>3 DEF Goto, Start, Balanced
    <3> QED
      BY <3>4, <3>5 DEF Calm
  <2> QED
    BY <1>6, <2>2, <2>3 DEF RecordChange
<1>7. CASE FocusChange
  <2>1. PICK p : RecordFocus(p)
    BY <1>7 DEF FocusChange
  <2>2. Logical' = Logical /\ baseline' = baseline /\ meddled' = meddled
    BY <1>0, <1>7, <2>1, Unobserved DEF RecordFocus, FocusChange, outer, External
  <2>3. pc = "focus" /\ pc' = "mutate" /\ goal # "own"
    BY <1>7 DEF FocusChange, Goto, Start, Working, OwnSave
  <2>4. Excused /\ Excused'
    BY <2>2, <2>3 DEF Calm, Undisturbed, Placed, AtEase, Saving, Excused, Present
  <2> QED
    BY <2>3, <2>4 DEF Calm, Balanced
<1>8. CASE Mutate
  <2>1. UNCHANGED <<log, baseline, meddled>>
    BY <1>8 DEF Mutate, durable, outer, Put
  <2>2. \/ pc' = "stopped"
        \/ pc' = "recheck" /\ goal' = "save"
    <3>1. Goto("stopped") \/ Start("recheck", "save")
      BY <1>8, Zenon DEF Mutate
    <3> QED
      BY <3>1 DEF Goto, Start
  <2>3. pc = "mutate" /\ goal # "own"
    BY <1>8 DEF Mutate, Working, OwnSave
  <2>4. Excused'
    BY <2>1, <2>3 DEF Calm, Undisturbed, Placed, AtEase, Saving, Excused, Present, Logical
  <2> QED
    BY <2>2, <2>4 DEF Calm, Balanced
<1> QED
  BY <1>1, <1>2, <1>3, <1>4, <1>5, <1>6, <1>7, <1>8

(* Saving, whose mixture the intent explains. *)
LEMMA CalmBySaves ==
    ASSUME RInv, SaveIntent \/ SaveBegin \/ SaveCheck \/ SaveWrite \/ SaveBaseline
    PROVE  Calm'
<1> USE DEF RInv, FInv, EInv, Inv, Settled
<1>0. goal = "own" => pc \notin {"intent", "save", "check", "write"}
  BY DEF Working, OwnSave
<1>1. CASE SaveIntent
  <2>1. /\ UNCHANGED <<log, baseline, disk, meddled, saved>> /\ pc = "intent"
        /\ \/ disk = saved /\ intent' = Receipt /\ pc' = "save" /\ goal' = goal
           \/ pc' = "stopped" /\ goal' = "none"
    BY <1>1 DEF SaveIntent, Require, Look, Goto, Start, locals
  <2>2. /\ Excused' <=> Excused
        /\ Observed' <=> Observed
        /\ Mixture' <=> Mixture
        /\ ~Balanced'
    BY <2>1 DEF Excused, Observed, Mixture, Logical, Present, Balanced
  <2>3. intent' = Receipt => IntentMatches'
    BY <2>1 DEF IntentMatches, Receipt, Logical
  <2>4. ~Excused /\ Placed => Placed'
    BY <1>0, <2>1, <2>3 DEF Placed, AtEase, Saving
  <2> QED
    BY <2>2, <2>4 DEF Calm, Undisturbed
<1>2. CASE SaveBegin \/ SaveCheck
  <2>1. /\ UNCHANGED <<log, baseline, intent, disk, meddled, saved>>
        /\ pc \in {"save", "check"}
        /\ \/ pc' \in Saving /\ goal' = goal
           \/ pc' = "stopped" /\ goal' = "none"
    BY <1>2 DEF SaveBegin, SaveCheck, CheckBeforeWrite, Require, Look, Goto, Start,
                durable, locals, Saving
  <2>2. IntentMatches' <=> IntentMatches
    BY <2>1, Unmoved
  <2> QED
    BY <1>0, <2>1, <2>2, CalmStill DEF Placed, AtEase, Saving, Balanced
<1>3. CASE SaveWrite
  <2>1. /\ UNCHANGED <<log, baseline, intent, meddled>> /\ pc = "write" /\ ~Balanced'
        /\ \/ UNCHANGED <<disk, saved>> /\ pc' = "stopped" /\ goal' = "none"
           \/ /\ \E p : /\ disk' = [disk EXCEPT ![p] = Logical[p]]
                        /\ saved' = [saved EXCEPT ![p] = Logical[p]]
              /\ pc' = "check" /\ goal' = goal
    BY <1>3 DEF SaveWrite, Put, Goto, Start, outer, durable, Balanced
  <2>2. /\ Excused' <=> Excused
        /\ Observed' <=> Observed
        /\ IntentMatches' <=> IntentMatches
        /\ Logical' = Logical
    BY <2>1 DEF Excused, Observed, IntentMatches, Receipt, Logical, Present
  <2>3. disk \in Versions
    BY DEF Typed
  <2>4. Mixture => Mixture'
    BY <2>1, <2>2, <2>3 DEF Mixture, Versions
  <2>5. ~Excused /\ Placed => Placed'
    BY <1>0, <2>1, <2>2 DEF Placed, AtEase, Saving
  <2> QED
    BY <2>1, <2>2, <2>4, <2>5 DEF Calm, Undisturbed
<1>4. CASE SaveBaseline
  <2>1. pc = "baseline" /\ view = None /\ UNCHANGED <<log, intent, disk, saved, view>>
    BY <1>4 DEF SaveBaseline, PersistBaseline, Clear
  <2>2. CASE disk = saved /\ saved = Logical
    <3>1. /\ baseline' = Receipt
          /\ \/ pc' \in {"idle", "capture"} /\ goal' # "own"
             \/ pc' = "resumed"
      BY <1>4, <2>2 DEF SaveBaseline, PersistBaseline, Goto, Start
    <3>2. /\ ~Observed' /\ Mixture'
          /\ baseline'.files = Logical' /\ disk' = saved' /\ saved' = baseline'.files
      BY <2>1, <2>2, <3>1 DEF Receipt, Observed, Mixture, Logical, Durable
    <3>3. Placed'
      BY <2>1, <3>1, <3>2 DEF Placed, AtEase, Saving
    <3> QED
      BY <3>2, <3>3 DEF Calm, Undisturbed, Present
  <2>3. CASE ~(disk = saved /\ saved = Logical)
    <3>1. UNCHANGED <<baseline, meddled>> /\ pc' = "stopped" /\ goal' = "none"
      BY <1>4, <2>3 DEF SaveBaseline, PersistBaseline, Goto, Start
    <3>2. IntentMatches' <=> IntentMatches
      BY <2>1, <3>1, Unmoved
    <3> QED
      BY <2>1, <3>1, <3>2, CalmStill DEF Placed, AtEase, Saving, Balanced
  <2> QED
    BY <2>2, <2>3
<1> QED
  BY <1>1, <1>2, <1>3, <1>4

(* An undisturbed session never comes to observe anything. *)
LEMMA CalmByObservations ==
    ASSUME RInv,
           \/ Observe \/ Readopt \/ Preserve \/ RecordObservation \/ RecordDecision
           \/ Confirm \/ Seal \/ Outcome \/ Settle
    PROVE  Calm'
<1> USE DEF RInv, FInv, EInv, Inv, Settled
<1>1. /\ pc \in {"observe", "readopt", "preserve", "record", "confirm", "seal", "outcome",
                 "settle"}
      /\ goal \notin {"own", "none"}
  BY DEF Observe, Readopt, Preserve, RecordObservation, RecordDecision, Confirm,
         Seal, Outcome, Settle, Working, OwnSave, Clear
<1>2. Excused
  BY <1>1 DEF Calm, Undisturbed, Placed, AtEase, Saving
<1>3. CASE ~Settle
  <2>1. /\ baseline' = baseline /\ meddled' = meddled
        /\ pc' \in {"readopt", "preserve", "settle", "stopped", "record", "confirm",
                    "restore", "outcome"}
    BY <1>1, <1>3 DEF Observe, Readopt, Preserve, RecordObservation, RecordDecision,
         Confirm, Seal, Outcome, Require, Look, Goto, Start, control, outer, durable,
         Record, RecordCheckpoint, Recorded
  <2>2. Logical' = Logical
    <3>1. CASE UNCHANGED log
      BY <3>1 DEF Logical
    <3>2. CASE RecordObservation \/ RecordDecision \/ (Seal /\ ~UNCHANGED log)
      <4>1. PICK kind, active, shown, a : Recorded(Event(kind, Logical, active, shown, a))
        BY <3>2 DEF RecordObservation, RecordDecision, Seal, Record, RecordCheckpoint, durable
      <4>2. Logical \in Versions
        BY Spelled
      <4> QED
        BY <4>1, <4>2, Grown
    <3> QED
      BY <1>3, <3>1, <3>2 DEF Observe, Readopt, Preserve, Confirm, Outcome, durable
  <2> QED
    BY <1>2, <2>1, <2>2 DEF Calm, Excused, Present, Balanced
<1>4. CASE Settle
  <2>1. pc = "settle" /\ view' = None /\ UNCHANGED <<log, disk, saved>>
    BY <1>4 DEF Settle, PersistBaseline
  <2>2. CASE disk = saved /\ saved = Logical
    <3>1. AfterRecheck \in {"idle", "intent", "capture", "create", "rename", "delete"}
      BY <1>1 DEF AfterRecheck, Typed, Goals
    <3>2. baseline' = Receipt /\ pc' = AfterRecheck /\ goal' \in {goal, "none"}
      BY <1>4, <2>2, <3>1 DEF Settle, PersistBaseline, Goto, Start
    <3>3. /\ ~Observed' /\ Mixture'
          /\ baseline'.files = Logical' /\ disk' = saved' /\ saved' = baseline'.files
      BY <2>1, <2>2, <3>2 DEF Receipt, Observed, Mixture, Logical, Durable
    <3>4. Placed'
      BY <1>1, <2>1, <3>1, <3>2, <3>3 DEF Placed, AtEase, Saving
    <3> QED
      BY <3>3, <3>4 DEF Calm, Undisturbed, Present
  <2>3. CASE ~(disk = saved /\ saved = Logical)
    <3>1. UNCHANGED <<baseline, meddled>> /\ pc' = "stopped"
      BY <1>4, <2>3 DEF Settle, PersistBaseline, Goto, Start
    <3> QED
      BY <1>2, <2>1, <3>1 DEF Calm, Excused, Present, Logical, Balanced
  <2> QED
    BY <2>2, <2>3
<1> QED
  BY <1>3, <1>4

(* The files of an undisturbed disk are those of the text. *)
LEMMA SamePresence ==
    ASSUME ~Excused, Mixture
    PROVE  Present(disk) = Present(Logical)
BY DEF Excused, Mixture, Present

(* Finishing an interrupted save. *)
LEMMA CalmByRestorations ==
    ASSUME RInv, Recheck \/ Restore \/ RestoreCheck \/ RestoreFile \/ Adopt
    PROVE  Calm'
<1> USE DEF RInv, FInv, EInv, Inv, Settled
<1>1. CASE Recheck
  <2>1. goal \notin {"none", "own"}
    BY <1>1 DEF Recheck, Clear, Working, OwnSave
  <2>2. AfterRecheck \in {"idle", "intent", "capture", "create", "rename", "delete"}
    BY <2>1 DEF AfterRecheck, Typed, Goals
  <2>3. /\ UNCHANGED <<log, baseline, intent, disk, meddled, saved, view>>
        /\ pc = "recheck"
        /\ \/ disk = saved /\ view = None /\ pc' = AfterRecheck /\ goal' \in {goal, "none"}
           \/ ~(disk = saved /\ view = None) /\ pc' = "observe"
    BY <1>1, <2>2 DEF Recheck, Look, Goto, Start, durable, locals
  <2>4. ~Excused /\ Placed => Placed'
    BY <2>1, <2>2, <2>3 DEF Placed, AtEase, Saving
  <2>5. goal = "save" => AfterRecheck = "intent"
    BY DEF AfterRecheck
  <2>6. Balanced' => Balanced
    BY <2>3, <2>5 DEF Balanced
  <2> QED
    BY <2>3, <2>4, <2>6, CalmStill
<1>2. CASE Restore \/ RestoreCheck \/ Adopt
  <2>1. /\ UNCHANGED <<log, baseline, intent, disk, meddled>>
        /\ pc \in {"restore", "restoring", "adopt"}
        /\ \/ pc' = "stopped" /\ goal' = "none"
           \/ pc' = "restoring" /\ goal' = goal /\ expected' = disk
           \/ /\ pc' = "restoreFile" /\ goal' = goal /\ expected' = expected /\ disk = expected
              /\ ToRemove \cup ToWrite # {}
           \/ pc' = "adopt" /\ goal' = goal
           \/ pc' = "baseline" /\ goal' = goal /\ goal = "own"
           \/ pc' = "seal" /\ goal' = goal /\ goal # "own"
    <3>1. CASE Restore
      BY <3>1 DEF Restore, Require, Look, Goto, Start, durable
    <3>2. CASE RestoreCheck
      BY <3>2 DEF RestoreCheck, Require, Look, Goto, Start, durable, locals
    <3>3. CASE Adopt
      BY <3>3 DEF Adopt, Require, Look, Goto, Start, durable
    <3> QED
      BY <1>2, <3>1, <3>2, <3>3
  <2>2. (IntentMatches' <=> IntentMatches) /\ Logical' = Logical
    BY <2>1, Unmoved
  <2>3. ~Excused /\ Placed => goal = "own"
    BY <2>1 DEF Placed, AtEase, Saving
  <2>4. expected' = expected => (ToRemove \cup ToWrite)' = ToRemove \cup ToWrite
    BY <2>2 DEF ToRemove, ToWrite, Present
  <2>5. ~Excused /\ Placed => Placed'
    BY <2>1, <2>2, <2>3, <2>4 DEF Placed, AtEase, Saving
  <2>6. ~Balanced'
    BY <2>1 DEF Balanced
  <2> QED
    BY <2>1, <2>5, <2>6, CalmStill
<1>3. CASE RestoreFile
  <2> DEFINE p == First(IF ToRemove # {} THEN ToRemove ELSE ToWrite)
             contents == IF ToRemove # {} THEN Absent
                         ELSE IF expected[p] = Absent THEN Empty
                         ELSE Logical[p]
  <2>1. pc = "restoreFile" /\ UNCHANGED <<log, baseline, intent, meddled>>
    BY <1>3 DEF RestoreFile, Put, outer, durable
  <2>2. \/ UNCHANGED <<disk, expected>> /\ pc' = "stopped" /\ goal' = "none"
        \/ /\ disk' = [disk EXCEPT ![p] = contents]
           /\ expected' = [expected EXCEPT ![p] = contents]
           /\ pc' = "restoring" /\ goal' = goal
    BY <1>3 DEF RestoreFile, Put, outer, Goto, Start
  <2>3. /\ Excused' <=> Excused
        /\ Observed' <=> Observed
        /\ IntentMatches' <=> IntentMatches
        /\ Logical' = Logical
    BY <2>1 DEF Excused, Observed, IntentMatches, Receipt, Logical, Present
  <2>4. ~Balanced'
    BY <2>2 DEF Balanced
  <2>5. ASSUME ~Excused PROVE Undisturbed'
    <3>1. Undisturbed /\ goal = "own" /\ IntentMatches /\ disk = expected
      BY <2>1, <2>5 DEF Calm, Undisturbed, Placed, AtEase, Saving
    <3>2. Present(expected) = Present(Logical)
      BY <2>5, <3>1, SamePresence DEF Undisturbed
    <3>3. ToRemove = {} /\ ToWrite # {}
      BY <2>1, <3>1, <3>2 DEF ToRemove, Undisturbed, Placed
    <3>4. ToWrite \subseteq File
      BY DEF ToWrite, Present
    <3>5. p \in ToWrite
      BY <3>3, <3>4, FirstIsIn
    <3>6. expected[p] # Absent
      BY <3>2, <3>5 DEF ToWrite, Present
    <3>7. contents = Logical[p]
      BY <3>3, <3>6
    <3>8. disk \in Versions
      BY DEF Typed
    <3> HIDE DEF p, contents
    <3>9. Mixture'
      BY <2>1, <2>2, <2>3, <3>1, <3>7, <3>8 DEF Undisturbed, Mixture, Versions
    <3>10. Placed'
      BY <2>2, <2>3, <3>1 DEF Placed, AtEase, Saving
    <3> QED
      BY <2>3, <3>1, <3>9, <3>10 DEF Undisturbed
  <2> QED
    BY <2>3, <2>4, <2>5 DEF Calm
<1> QED
  BY <1>1, <1>2, <1>3

(* Resuming tells an undisturbed disk, and a save cut short, from another  *)
(* program's work.                                                         *)
LEMMA CalmByResume ==
    ASSUME RInv, Resume
    PROVE  Calm'
<1> USE DEF RInv, FInv, EInv, Inv, Settled
<1>1. pc = "down" /\ UNCHANGED <<log, baseline, intent, evidence, disk, meddled>>
  BY DEF Resume, Look, durable
<1>2. (IntentMatches' <=> IntentMatches) /\ (Excused' <=> Excused)
      /\ Logical' = Logical
  BY <1>1, Unmoved
<1>3. baseline.files \in Versions /\ Logical \in Versions /\ disk \in Versions
  BY Spelled DEF Typed
<1>4. CASE OwnSavePending
  <2>1. pc' = "restore" /\ goal' = "own" /\ observed' = disk /\ IntentMatches
    BY <1>4 DEF Resume, Start, OwnSavePending
  <2>2. Placed'
    BY <1>1, <1>2, <2>1 DEF Placed, AtEase, Saving
  <2> QED
    BY <1>1, <2>1, <2>2, CalmStill DEF Balanced
<1>5. CASE ~OwnSavePending
  <2>1. /\ pc' = "resumed" /\ goal' = "open" /\ saved' = RecoveredSaved
        /\ view' = IF PendingExternal # None THEN PendingExternal.views
                   ELSE IF Diverged THEN Views(baseline.files, Logical, disk)
                   ELSE None
    BY <1>5 DEF Resume, Start
  <2>2. view' = None => PendingExternal = None /\ ~Diverged
    <3>1. PendingExternal # None => PendingExternal.views \in ViewsOf
      BY Found DEF Viewed
    <3>2. Views(baseline.files, Logical, disk) \in ViewsOf
      BY <1>3 DEF Views, ViewsOf
    <3>3. None \notin ViewsOf
      BY RecoveryAssumption DEF ViewsOf
    <3> QED
      BY <2>1, <3>1, <3>2, <3>3
  <2>3. Balanced' => Present(baseline.files) = Present(Logical)
    BY <2>1, <2>2 DEF Balanced, Diverged
  <2>4. ASSUME ~Excused PROVE Placed' /\ Undisturbed
    <3>1. Undisturbed
      BY <2>4 DEF Calm
    <3>2. PendingExternal = None
      <4>1. \A i \in DOMAIN log : ~(i > baseline.sequence /\ log[i].kind = "observation")
        BY <3>1, Domain DEF Undisturbed, Observed
      <4> QED
        BY <4>1 DEF PendingExternal
    <3>3. Present(disk) = Present(Logical) /\ Present(baseline.files) = Present(Logical)
      BY <2>4, <3>1, SamePresence DEF Undisturbed, Excused
    <3>4. disk = baseline.files
      BY <1>1, <1>5, <3>1, <3>2, <3>3 DEF Undisturbed, Placed, Mixture, OwnSavePending
    <3>5. view' = None
      BY <2>1, <3>2, <3>3, <3>4 DEF Diverged
    <3>6. RecoveredSaved = baseline.files
      <4>1. \A q \in File : Logical[q] = Absent <=> baseline.files[q] = Absent
        BY <3>3 DEF Present
      <4>2. \A q \in File : RecoveredSaved[q] = baseline.files[q]
        BY <4>1 DEF RecoveredSaved
      <4>3. RecoveredSaved = [q \in File |-> RecoveredSaved[q]]
        BY DEF RecoveredSaved
      <4> QED
        BY <1>3, <4>2, <4>3 DEF Versions
    <3> QED
      BY <1>1, <2>1, <3>1, <3>4, <3>5, <3>6 DEF Placed, AtEase, Saving
  <2>5. Observed' <=> Observed
    BY <1>1, Unmoved
  <2>6. Mixture' <=> Mixture
    BY <1>1, Unmoved
  <2>7. (Present(baseline.files) = Present(Logical))' <=> Present(baseline.files) = Present(Logical)
    BY <1>1, <1>2 DEF Present
  <2> QED
    BY <1>2, <2>3, <2>4, <2>5, <2>6, <2>7 DEF Calm, Undisturbed
<1> QED
  BY <1>4, <1>5

LEMMA CalmByOthers ==
    ASSUME RInv, Crash \/ OtherProgram \/ UNCHANGED vars
    PROVE  Calm'
<1> USE DEF RInv, FInv, EInv, Inv, Settled
<1>1. CASE Crash
  <2>1. /\ UNCHANGED <<log, baseline, intent, disk, meddled>>
        /\ pc' = "down" /\ goal' = "none"
    BY <1>1 DEF Crash, Start, durable, outer
  <2>2. IntentMatches' <=> IntentMatches
    BY <2>1, Unmoved
  <2>3. ~Excused /\ Placed => Placed'
    BY <2>1, <2>2 DEF Placed, AtEase, Saving
  <2> QED
    BY <2>1, <2>3, CalmStill DEF Balanced
<1>2. CASE OtherProgram
  <2>1. meddled' = TRUE /\ UNCHANGED <<log, baseline, pc, goal, view>>
    BY <1>2 DEF OtherProgram, durable, control, locals
  <2> QED
    BY <2>1 DEF Calm, Excused, Balanced, Present, Logical
<1>3. CASE UNCHANGED vars
  <2>1. UNCHANGED <<durable, control, locals, outer>>
    BY <1>3 DEF vars
  <2>2. UNCHANGED <<log, baseline, intent, disk, meddled, pc, goal, view, saved, observed, expected>>
    BY <2>1 DEF durable, control, locals, outer
  <2>3. IntentMatches' <=> IntentMatches
    BY <2>2, Unmoved
  <2>4. (ToRemove \cup ToWrite)' = ToRemove \cup ToWrite
    BY <2>2 DEF ToRemove, ToWrite, Present, Logical
  <2>5. Placed => Placed'
    BY <2>2, <2>3, <2>4 DEF Placed
  <2>6. Balanced' => Balanced
    BY <2>2 DEF Balanced
  <2> QED
    BY <2>2, <2>5, <2>6, CalmStill
<1> QED
  BY <1>1, <1>2, <1>3

LEMMA RStepHolds == RInv /\ [Next]_vars => RInv'
<1> SUFFICES ASSUME RInv, [Next]_vars PROVE RInv'
  OBVIOUS
<1>1. FInv'
  BY FStepHolds DEF RInv
<1>2. Calm'
  BY CalmByCalls, CalmBySaves, CalmByObservations, CalmByRestorations, CalmByResume,
     CalmByOthers, Zenon DEF Next
<1>3. Settled'
  BY <1>2, ViewedHolds, ClearHolds, FilesRemain DEF Settled
<1> QED
  BY <1>1, <1>3 DEF RInv

(* SessionRecovery!RestIsClean: as long as no other program has written    *)
(* since the last baseline, a session at rest knows exactly what is on     *)
(* disk, whatever was cut short and resumed before.                        *)
THEOREM CleanRest == Spec => []RestIsClean
<1>1. RInv => RestIsClean
  <2> SUFFICES ASSUME RInv, pc = "idle", ~meddled
               PROVE  disk = saved /\ Present(saved) = Present(Logical)
    BY DEF RestIsClean
  <2>1. Present(baseline.files) = Present(Logical)
    BY DEF RInv, Settled, Calm, Balanced
  <2>2. Placed
    BY <2>1 DEF RInv, Settled, Calm, Excused, Undisturbed
  <2> QED
    BY <2>1, <2>2 DEF Placed, AtEase
<1> QED
  BY RInitHolds, RStepHolds, <1>1, PTL DEF Spec

(* What is observed is never the session's own work. *)
LEMMA OnlyForeignObserved ==
    ASSUME RInv, [Next]_vars, NEW i \in DOMAIN log' \ DOMAIN log, log'[i].kind = "observation"
    PROVE  Excused
<1> USE DEF RInv, FInv, EInv, Inv, Settled
<1>1. ASSUME NEW kind, NEW files, NEW active, NEW shown, NEW a,
             Recorded(Event(kind, files, active, shown, a))
      PROVE  kind = "observation"
  <2> DEFINE e == Event(kind, files, active, shown, a)
  <2>1. e.kind = kind
    BY DEF Event
  <2>2. log' = Append(log, e)
    BY <1>1 DEF Recorded
  <2> HIDE DEF e
  <2>3. PICK S : log \in Seq(S)
    BY DEF IsLog
  <2>4. /\ Len(log') = Len(log) + 1 /\ Len(log) \in Nat
        /\ log'[Len(log) + 1] = e
        /\ DOMAIN log' = 1 .. Len(log') /\ DOMAIN log = 1 .. Len(log)
    BY <2>2, <2>3, Appended, Domain DEF Durable
  <2>5. i = Len(log) + 1
    BY <2>4
  <2> QED
    BY <2>1, <2>4, <2>5
<1>2. ~UNCHANGED log
  OBVIOUS
<1>3. CASE RecordObservation
  <2>1. pc = "record"
    BY <1>3 DEF RecordObservation
  <2>2. goal # "own"
    BY <2>1 DEF Working, OwnSave
  <2> QED
    BY <2>1, <2>2 DEF Calm, Undisturbed, Placed, AtEase, Saving
<1>4. CASE RecordChange
  <2>1. goal \in {"create", "rename", "delete"}
    BY <1>4 DEF RecordChange, Typed
  <2>2. PICK files \in Changes : Recorded(Event(goal, files, ActiveAfter(files), None, None))
    BY <1>2, <1>4 DEF RecordChange, durable
  <2>3. goal = "observation"
    BY <1>1, <2>2
  <2> QED
    BY <2>1, <2>3
<1>5. CASE ~RecordObservation /\ ~RecordChange
  <2>1. \E kind \in {"edit", "focus", "checkpoint", "recovery", "resumed"} :
           \E files, active, shown, a : Recorded(Event(kind, files, active, shown, a))
    BY <1>2, <1>5 DEF Next, Edit, Activate, Call, Capture, FocusChange, Mutate,
                SaveIntent, SaveBegin, SaveCheck, SaveWrite, SaveBaseline,
                PersistBaseline, Recheck, Observe, Readopt, Preserve,
                RecordDecision, Confirm, Restore, RestoreCheck,
                RestoreFile, Adopt, Seal, Outcome, Settle, Crash, Resume,
                RecordResumed, OtherProgram, Record, RecordFocus, RecordCheckpoint,
                durable, vars
  <2> QED
    BY <1>1, <2>1
<1> QED
  BY <1>3, <1>4, <1>5

(* SessionRecovery!OwnWorkNotForeign: without an outside change since the  *)
(* last baseline, and without a file operation that was cut short, nothing *)
(* a session left on disk is ever recorded as another program's.           *)
THEOREM OwnWork == Spec => OwnWorkNotForeign
<1>1. RInv /\ [Next]_vars =>
        [\A i \in DOMAIN log' \ DOMAIN log : log'[i].kind = "observation" =>
            meddled \/ Present(baseline.files) # Present(Logical)]_vars
  BY OnlyForeignObserved DEF Excused
<1> QED
  BY RInitHolds, RStepHolds, <1>1, PTL DEF Spec, OwnWorkNotForeign
=============================================================================
