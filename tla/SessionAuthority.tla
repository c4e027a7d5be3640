-------------------------- MODULE SessionAuthority --------------------------
(***************************************************************************)
(* src/session.rs: the Authority of a running session, on top of its       *)
(* journal writer.                                                         *)
(*                                                                         *)
(* The Authority owns the only writer of the session's journal and a live  *)
(* replay of the durable events; an editor action takes effect only after  *)
(* its event has come back durable.  It is used by one thread, one call at *)
(* a time, but the worker runs beside it, a periodic checkpoint stays in   *)
(* flight across calls, the process may be killed at any point, and another*)
(* process may open the same session whenever the ownership lock is free.  *)
(*                                                                         *)
(* The writer is JournalWriter.tla with the calling thread as its only     *)
(* client; an element of Writer is one incarnation of the session, opened  *)
(* by start or resume.  Checkpoint scheduling is CheckpointSchedule.tla,   *)
(* with time measured from the schedule's baseline.                        *)
(***************************************************************************)
EXTENDS Naturals, Sequences, SequencesExt, FiniteSets

CONSTANTS
    Writer,         \* incarnations of the session
    AppendKind,     \* kinds of event the calls append
    None,
    Capacity,       \* slots of the writer's queue (16 in make_effects)
    MaxAttempt,     \* where attempt identities run out
    Threshold,      \* edits that make a checkpoint due (100)
    Budget          \* SessionBudgets.events

Ui == "ui"

(***************************************************************************)
(* edit: FileEdited or InternalPaste.  track: an event that changes what a *)
(* checkpoint holds but is not counted, like FileCreated or FileFocused.   *)
(* note: one that does not.  finish and compared end a controlled command. *)
(***************************************************************************)
Kind == {"edit", "track", "note", "finish", "compared", "resumed", "checkpoint"}

(* sound: the replay of the events before it accepts the event. *)
Event(kind, sound) == [kind |-> kind, sound |-> sound]

Job ==
    {<<Event(kind, sound)>> : kind \in Kind, sound \in BOOLEAN}
    \cup {<<Event("finish", s1), Event("compared", s2)>> : s1, s2 \in BOOLEAN}

(* The call under way and where it is, and the checkpoint in flight, as    *)
(* the Authority knows it and as its schedule does.                        *)
Call ==
    [kind : {"append", "compared", "checkpoint", "drain", "quit", "drop"},
     job : Seq([kind : Kind, sound : BOOLEAN]), wait : BOOLEAN, opening : BOOLEAN,
     phase : {"spawn", "settle", "check", "submit", "send", "wait", "confirm",
              "close", "join", "release"},
     attempt : Nat]
PendingCheckpoint == [attempt : Nat, event : [kind : Kind, sound : BOOLEAN]]
Scheduled == [attempt : Nat, at : Nat, captured : Nat, post : Nat]

ASSUME AuthorityAssumption ==
    /\ AppendKind \subseteq {"edit", "track", "note", "finish"}
    /\ {Capacity, MaxAttempt, Threshold} \subseteq Nat \ {0}
    /\ Budget \in Nat
    /\ None \notin Writer \cup Call \cup PendingCheckpoint \cup Scheduled

VARIABLES
    counter, submitting, sender, queue, worker, current, receipt, joined, log,
    accepted,       \* those of JournalWriter
    lock,           \* the incarnation holding the ownership lock, or None
    session,        \* the incarnation whose Authority exists, or None
    call,           \* the call under way, or None
    replayed,       \* the events the live replay has applied
    poison,         \* Authority.poison is set
    changed,        \* Authority.changed
    schedule,       \* Authority.schedule
    checkpoint      \* Authority.pending_checkpoint: attempt and event, or None

writerVars ==
    <<counter, submitting, sender, queue, worker, current, receipt, joined, log,
      accepted>>
liveVars == <<replayed, poison, changed, schedule, checkpoint>>

W == INSTANCE JournalWriter WITH Client <- {Ui}

S == INSTANCE CheckpointSchedule WITH
        Interval <- 1, MaxCount <- Budget + Threshold, NoPending <- None

vars == <<writerVars, lock, session, call, liveVars>>

Durable == [i \in DOMAIN log |-> log[i].event]

-----------------------------------------------------------------------------
(* What resume computes of a durable prefix (validate_prefix). *)
Uncaptured(events) ==
    LET last == SelectLastInSeq(events, LAMBDA e : e.kind = "checkpoint")
    IN  SubSeq(events, last + 1, Len(events))

UncapturedEdits(events) ==
    Cardinality({i \in DOMAIN Uncaptured(events) : Uncaptured(events)[i].kind = "edit"})

ChangedSince(events) ==
    \E i \in DOMAIN Uncaptured(events) : Uncaptured(events)[i].kind \in {"edit", "track"}

AllSound(events) == \A i \in DOMAIN events : events[i].sound

NoLiveState ==
    /\ replayed' = <<>>
    /\ poison' = FALSE
    /\ changed' = FALSE
    /\ schedule' = S!Fresh(0)
    /\ checkpoint' = None

Init ==
    /\ W!WriterInit
    /\ lock = None
    /\ session = None
    /\ call = None
    /\ replayed = <<>>
    /\ poison = FALSE
    /\ changed = FALSE
    /\ schedule = S!Fresh(0)
    /\ checkpoint = None

-----------------------------------------------------------------------------
(***************************************************************************)
(* Opening.  Both start and resume hold the lock from before they look at  *)
(* the journal.  A workspace that has a state directory is never started   *)
(* again; resume needs a genesis and replays the whole prefix.  Either     *)
(* makes one first call, and an error in it drops the new Authority.       *)
(***************************************************************************)
NewCall(kind, job, wait, phase, opening) ==
    [kind |-> kind, job |-> job, wait |-> wait, phase |-> phase,
     opening |-> opening, attempt |-> 0]

Start(w) ==
    /\ lock = None
    /\ \A v \in Writer : worker[v] = "none"
    /\ lock' = w
    /\ session' = w
    /\ call' = NewCall("checkpoint", <<Event("checkpoint", TRUE)>>, TRUE, "spawn", TRUE)
    /\ NoLiveState
    /\ UNCHANGED writerVars

Resume(w) ==
    /\ lock = None
    /\ worker[w] = "none"
    /\ log # <<>>
    /\ Len(log) <= Budget
    /\ AllSound(Durable)
    /\ lock' = w
    /\ session' = w
    /\ call' = NewCall("append", <<Event("resumed", TRUE)>>, TRUE, "spawn", TRUE)
    /\ replayed' = Durable
    /\ poison' = FALSE
    /\ changed' = ChangedSince(Durable)
    /\ schedule' = S!RecordEdits(S!Fresh(0), UncapturedEdits(Durable))
    /\ checkpoint' = None
    /\ UNCHANGED writerVars

SpawnWriter ==
    /\ call # None /\ call.phase = "spawn"
    /\ W!Spawn(session)
    /\ call' = [call EXCEPT !.phase = "settle"]
    /\ UNCHANGED <<lock, session, liveVars>>

-----------------------------------------------------------------------------
(***************************************************************************)
(* Calls.  append and append_compared_finish settle whatever checkpoint is *)
(* in flight; checkpoint settles it at a boundary and only polls on        *)
(* activity; drain and the tick's poll do nothing else; quit drains and    *)
(* shuts the writer down; an Authority dropped without quit only does the  *)
(* latter.                                                                 *)
(***************************************************************************)
Begin(kind, job, wait, phase) ==
    /\ session # None
    /\ call = None
    /\ call' = NewCall(kind, job, wait, phase, FALSE)
    /\ UNCHANGED <<writerVars, lock, session, liveVars>>

BeginCall ==
    \/ \E kind \in AppendKind, sound \in BOOLEAN :
        Begin("append", <<Event(kind, sound)>>, TRUE, "settle")
    \/ \E s1, s2 \in BOOLEAN :
        /\ "finish" \in AppendKind
        /\ Begin("compared", <<Event("finish", s1), Event("compared", s2)>>, TRUE, "settle")
    \/ \E boundary, sound \in BOOLEAN :
        Begin("checkpoint", <<Event("checkpoint", sound)>>, boundary, "settle")
    \/ \E wait \in BOOLEAN : Begin("drain", <<>>, wait, "settle")
    \/ Begin("quit", <<>>, TRUE, "settle")
    \/ Begin("drop", <<>>, TRUE, "close")

(* shutdown closes the channel, then joins the thread. *)
JoinFirst == "join"                                                 \* mutant
ShutdownFirst == "close"

Return(ok) ==
    call' = IF call.kind = "quit" \/ (call.opening /\ ~ok)
            THEN [call EXCEPT !.phase = ShutdownFirst]
            ELSE None

(* Authority::fail: the first error poisons the Authority for good. *)
Fail ==
    /\ poison' = TRUE
    /\ Return(FALSE)

(***************************************************************************)
(* The live replay applies durable events only at the sequence after its   *)
(* own, and the Authority keeps its books of them.                         *)
(***************************************************************************)
Fits(events, sequence) ==
    /\ sequence = Len(replayed) + Len(events)
    /\ AllSound(events)

KeepChanged(events) ==                                              \* mutant
    changed \/ \E i \in DOMAIN events : events[i].kind \in {"edit", "track"}
Changed(events) ==
    IF events[1].kind = "checkpoint" THEN FALSE
    ELSE changed \/ \E i \in DOMAIN events : events[i].kind \in {"edit", "track"}

Adopt(events) ==
    /\ replayed' = replayed \o events
    /\ changed' = Changed(events)

-----------------------------------------------------------------------------
(***************************************************************************)
(* complete_checkpoint.  The pending checkpoint is taken out first, so an  *)
(* error of any kind, in the receipt or after it, leaves none behind.      *)
(***************************************************************************)
Proceed ==
    IF call.phase = "confirm" \/ call.kind \in {"drain", "quit"} THEN Return(TRUE)
    ELSE call' = [call EXCEPT !.phase = "check"]

AnswerOf(attempt) ==
    [attempt |-> attempt, kind |-> "checkpoint", outcome |-> receipt[attempt].state]

AppendsDoNotWait == call.kind # "append"                            \* mutant
Waits == call.wait

MustSettle == checkpoint # None /\ Waits

MaySettle == checkpoint # None /\ receipt[checkpoint.attempt] # W!Pending

Taken == None

Settle(owned) ==
    /\ call # None /\ call.phase \in {"settle", "confirm"}
    /\ \/ /\ ~MustSettle
          /\ ~MaySettle
          /\ Proceed
          /\ UNCHANGED liveVars
       \/ /\ MaySettle
          /\ checkpoint' = Taken
          /\ schedule' = S!Applied(schedule, AnswerOf(checkpoint.attempt))
          /\ IF /\ receipt[checkpoint.attempt].state = "persisted"
                /\ owned
                /\ Fits(<<checkpoint.event>>, receipt[checkpoint.attempt].sequence)
             THEN /\ Adopt(<<checkpoint.event>>)
                  /\ UNCHANGED poison
                  /\ Proceed
             ELSE /\ Fail
                  /\ UNCHANGED <<replayed, changed>>
    /\ UNCHANGED <<writerVars, lock, session>>

(***************************************************************************)
(* healthy, the activity test of checkpoint, headroom, and the validation  *)
(* of a command's finish against a copy of the replay.  `owned': ownership *)
(* verifies and there is room on the volume.  `elapsed': the checkpoint    *)
(* interval has passed.                                                    *)
(***************************************************************************)
ForgetPoison(owned) == owned                                        \* mutant
Healthy(owned) == owned /\ ~poison

SingleEvent == 1                                                    \* mutant
EventCount == Len(call.job)

Headroom == Len(replayed) + EventCount + 1 < Budget

NotDue(elapsed) ==
    /\ call.kind = "checkpoint"
    /\ ~call.wait
    /\ replayed # <<>>
    /\ \/ ~changed
       \/ ~S!ShouldSubmit(schedule, IF elapsed THEN 1 ELSE 0, "Activity")

Postvalidated == TRUE                                               \* mutant
Prevalidated == call.job[1].kind = "finish" => AllSound(call.job)

Check(owned, elapsed) ==
    /\ call # None /\ call.phase = "check"
    /\ IF Healthy(owned) /\ NotDue(elapsed)
       THEN Return(TRUE) /\ UNCHANGED poison
       ELSE IF Healthy(owned) /\ Headroom /\ Prevalidated
       THEN call' = [call EXCEPT !.phase = "submit"] /\ UNCHANGED poison
       ELSE Fail
    /\ UNCHANGED <<writerVars, lock, session, replayed, changed, schedule, checkpoint>>

(* try_submit, in its two halves.  The first fails when identities are out.*)
Submit ==
    /\ call # None /\ call.phase = "submit"
    /\ \/ /\ W!BeginSubmit(Ui, session, call.job)
          /\ call' = [call EXCEPT !.phase = "send"]
          /\ UNCHANGED liveVars
       \/ /\ counter = MaxAttempt
          /\ Fail
          /\ UNCHANGED <<writerVars, replayed, changed, schedule, checkpoint>>
    /\ UNCHANGED <<lock, session>>

(* The second fails when the worker is gone or its queue full.  A queued   *)
(* checkpoint becomes the pending one; a boundary waits for it.            *)
Send ==
    /\ call # None /\ call.phase = "send"
    /\ W!TrySend(Ui)
    /\ LET attempt == submitting[Ui].attempt
       IN  IF receipt'[attempt] # W!Pending
                \/ (call.kind = "checkpoint" /\ schedule.pending # None)
           THEN /\ Fail
                /\ UNCHANGED <<schedule, checkpoint>>
           ELSE IF call.kind = "checkpoint"
           THEN /\ schedule' = S!Queued(schedule, 0, attempt)
                /\ checkpoint' = [attempt |-> attempt, event |-> call.job[1]]
                /\ IF call.wait THEN call' = [call EXCEPT !.phase = "confirm"]
                   ELSE Return(TRUE)
                /\ UNCHANGED poison
           ELSE /\ call' = [call EXCEPT !.phase = "wait", !.attempt = attempt]
                /\ UNCHANGED <<schedule, checkpoint, poison>>
    /\ UNCHANGED <<lock, session, replayed, changed>>

(* The receipt of an append: only now do its events become live. *)
Acknowledge(owned) ==
    /\ call # None /\ call.phase = "wait"
    /\ receipt[call.attempt] # W!Pending
    /\ IF /\ receipt[call.attempt].state = "persisted"
          /\ owned
          /\ Fits(call.job, receipt[call.attempt].sequence)
       THEN /\ Adopt(call.job)
            /\ schedule' = IF call.job[1].kind = "edit" THEN S!RecordEdits(schedule, 1)
                           ELSE schedule
            /\ Return(TRUE)
            /\ UNCHANGED poison
       ELSE /\ Fail
            /\ UNCHANGED <<replayed, changed, schedule>>
    /\ UNCHANGED <<writerVars, lock, session, checkpoint>>

-----------------------------------------------------------------------------
(***************************************************************************)
(* Shutdown: close the queue, join the worker, and only then give up the   *)
(* ownership lock and the Authority with it.                               *)
(***************************************************************************)
AfterCloseRelease == "release"                                      \* mutant
AfterClose == "join"

Shutdown ==
    /\ call # None
    /\ \/ /\ call.phase = "close"
          /\ W!Close(session)
          /\ call' = [call EXCEPT !.phase = AfterClose]
          /\ UNCHANGED <<lock, session, liveVars>>
       \/ /\ call.phase = "join"
          /\ W!Join(session)
          /\ call' = [call EXCEPT !.phase = "release"]
          /\ UNCHANGED <<lock, session, liveVars>>
       \/ /\ call.phase = "release"
          /\ lock' = None
          /\ session' = None
          /\ call' = None
          /\ NoLiveState
          /\ UNCHANGED writerVars

(* The process is killed: its threads, its lock and its attempt counter go *)
(* with it; what is in the journal stays.                                  *)
Crash ==
    /\ session # None
    /\ lock' = None
    /\ session' = None
    /\ call' = None
    /\ NoLiveState
    /\ counter' = 1
    /\ submitting' = [submitting EXCEPT ![Ui] = None]
    /\ sender' = [sender EXCEPT ![session] = "closed"]
    /\ queue' = [queue EXCEPT ![session] = <<>>]
    /\ worker' = [worker EXCEPT ![session] = "panicked"]
    /\ current' = [current EXCEPT ![session] = None]
    /\ receipt' = [a \in W!Attempt |-> W!Unsent]
    /\ joined' = [joined EXCEPT ![session] = "error"]
    /\ UNCHANGED <<log, accepted>>

CallStep ==
    \/ SpawnWriter
    \/ \E owned \in BOOLEAN :
        \/ Settle(owned)
        \/ Acknowledge(owned)
        \/ \E elapsed \in BOOLEAN : Check(owned, elapsed)
    \/ Submit
    \/ Send
    \/ Shutdown

WorkerRuns ==
    \E w \in Writer :
        /\ W!WorkerStep(w)
        /\ UNCHANGED <<lock, session, call, liveVars>>

Next ==
    \/ \E w \in Writer : Start(w) \/ Resume(w)
    \/ BeginCall
    \/ CallStep
    \/ WorkerRuns
    \/ Crash

(***************************************************************************)
(* Fairness: the thread inside a call and the worker thread are scheduled, *)
(* and a journal operation ends.  Nothing is assumed of what calls are     *)
(* made.                                                                   *)
(***************************************************************************)
Spec == Init /\ [][Next]_vars /\ WF_vars(CallStep) /\ WF_vars(WorkerRuns)

-----------------------------------------------------------------------------
(* Events sent to the writer and not yet adopted. *)
Outstanding ==
    (IF checkpoint # None THEN 1 ELSE 0)
      + (IF call # None /\ call.phase = "wait" THEN Len(call.job) ELSE 0)

(* Durable first: the live replay is a prefix of the journal and, as long  *)
(* as the Authority is not poisoned, it lacks nothing but what is under    *)
(* way.  An idle healthy session shows exactly what a resume would read,   *)
(* and nobody else has written to its journal.                             *)
LiveIsDurable ==
    session # None =>
        /\ IsPrefix(replayed, Durable)
        /\ ~poison => Len(Durable) <= Len(replayed) + Outstanding

(* Every receipt the Authority waits for names the sequence after its own: *)
(* no event overtakes a checkpoint in flight, so the session never poisons *)
(* itself over the order of its own writes.                                *)
AcknowledgedInOrder ==
    /\ (checkpoint # None /\ receipt[checkpoint.attempt].state = "persisted") =>
        receipt[checkpoint.attempt].sequence = Len(replayed) + 1
    /\ (call # None /\ call.phase = "wait"
            /\ receipt[call.attempt].state = "persisted") =>
        receipt[call.attempt].sequence = Len(replayed) + Len(call.job)

(* Poison is final: the Authority stays poisoned and submits nothing more, *)
(* whatever calls follow, until the session is opened again.               *)
PoisonFinal ==
    [][(poison /\ session' = session) => (poison' /\ accepted' = accepted)]_vars

(* The event budget keeps its reserve in the journal itself, through       *)
(* paired events, boundary checkpoints, crashes and resumptions.           *)
BudgetReserve == Len(log) + 2 <= Budget \/ log = <<>>

(* A command's finish that replay would refuse never becomes durable, nor  *)
(* half of one with its comparison: it cannot make the session             *)
(* unresumable.                                                            *)
FinishesReplayable ==
    \A i \in DOMAIN Durable :
        Durable[i].kind \in {"finish", "compared"} => Durable[i].sound

(* The books kept call by call are those resume would compute from the     *)
(* events: the edits in no checkpoint, and whether there is anything for   *)
(* the next periodic checkpoint to capture.  (A poisoned Authority may     *)
(* have counted a checkpoint its replay then refused.)  And the schedule   *)
(* waits for the very checkpoint the Authority has under way, if any.      *)
BooksMatchReplay ==
    /\ session # None /\ ~poison =>
        /\ changed = ChangedSince(replayed)
        /\ schedule.edits = UncapturedEdits(replayed)
    /\ schedule.pending # None <=> checkpoint # None
    /\ checkpoint # None => schedule.pending.attempt = checkpoint.attempt

(* The ownership lock outlives the worker: while a worker thread can still *)
(* write, no other incarnation holds the lock, even when the Authority is  *)
(* dropped with jobs queued.                                               *)
LockCoversWorker ==
    \A w \in Writer : worker[w] \notin W!Ended \cup {"none"} => lock = w

(* Every call returns, also when the worker has failed, panicked or been   *)
(* closed under it.                                                        *)
CallsReturn == call # None ~> call = None
=============================================================================
