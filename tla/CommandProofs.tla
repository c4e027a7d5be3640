---------------------------- MODULE CommandProofs ----------------------------
(***************************************************************************)
(* Replay accepts whatever a controlled command leaves in the journal, and *)
(* no process of a command is left behind unmarked: for any limits of      *)
(* output and events, any process identities and any number of turns of    *)
(* the user, the outside world and crashes.                                *)
(*                                                                         *)
(* The two hold together or not at all.  A finish that replay refused      *)
(* would leave the command active in the journal and yet unmarked; and     *)
(* what replay demands of a finish is what the stages before it have       *)
(* recorded.  The invariant therefore says, for each stage a command goes  *)
(* through, what the journal holds of it, what the worker has returned and *)
(* which of its processes may be alive.                                    *)
(***************************************************************************)
EXTENDS ControlledCommand, Integers, TLAPS

(* A command is at a step of a call, or at rest in the job of a poll. *)
Stage == IF pc = "idle" THEN job ELSE pc

Preparing == {"beginning", "spawning", "preparing", "resolved", "launching"}
UnderWay == {"launched", "running", "reaping", "capturing", "recording", "applying",
             "finishing", "finished"}
Reported == {"reaping", "capturing", "recording", "applying", "finishing", "finished"}
Written == {"applying", "finishing", "finished"}
Owning == (Preparing \ {"beginning"}) \cup UnderWay \cup {"clearing", "unmarking"}
Opening == {"none", "finishing", "finished", "unmarking", "unclaiming", "resuming"}

JobName == {"none", "preparing", "running", "reaping", "recording"}
PcName == {"idle", "beginning", "spawning", "resolved", "launching", "clearing", "launched",
           "capturing", "recording", "applying", "finishing", "finished", "unmarking",
           "unclaiming", "resuming"}

CaptureType == [Stream -> [bytes : Nat, completeness : Completeness]]

ReplayState ==
    [tail : Nat, link : Nat, active : ActiveCommand \cup {None},
     finished : FinishedCommand \cup {None}, output : Nat]

CommandType == [action : Action, limit : Nat, id : Nat, before : Nat]

TypeOK ==
    /\ replay \in ReplayState
    /\ marker \in [active : BOOLEAN, pid : Pid] \cup {None}
    /\ pid \in Pid \cup {None}
    /\ refused \in BOOLEAN /\ released \in BOOLEAN /\ active \in BOOLEAN
    /\ opening \in BOOLEAN /\ periodic \in BOOLEAN /\ alive \in BOOLEAN
    /\ job \in JobName /\ pc \in PcName
    /\ worker \in {"none", "resolving", "probing", "resolved", "working", "returned", "panicked"}
    /\ reaper \in {"none", "working", "done"}
    /\ chunks \in Seq([kind : {"output"}, id : Nat, stream : Stream, offset : Nat, bytes : Nat])

(* Which stage a session can be in, and when it is its own owner. *)
Owner ==
    /\ pc # "idle" => job = "none"
    /\ pid = None => Stage = "none" /\ worker = "none" /\ reaper = "none" /\ ~opening /\ ~periodic
    /\ pid # None => ~released
    /\ opening => Stage \in Opening /\ worker = "none"
    /\ Stage \in Owning => active /\ Marked
    /\ Stage \in {"beginning", "unclaiming", "resuming"} => ~active
    /\ Stage \in {"unclaiming", "resuming"} => opening

(* The command replay knows is the one under way, from its start to its    *)
(* finish.                                                                 *)
Known ==
    /\ ~refused
    /\ replay.active # None => Marked /\ replay.active.limit > 0
                               /\ replay.active.before < replay.tail
    /\ pid # None /\ ~active => replay.active = None
    /\ Stage \in Preparing \cup {"clearing", "unmarking"} => replay.active = None
    /\ Stage \in UnderWay =>
           /\ replay.active # None /\ command \in CommandType
           /\ command.id = replay.active.id /\ command.action = replay.active.action
           /\ command.before = replay.active.before /\ command.limit = replay.active.limit
    /\ Stage \in Preparing =>
           command \in CommandType /\ command.limit > 0
             /\ replay.output + command.limit <= SessionOutput
    /\ Stage = "applying" => command.action = "tool"
    /\ Stage \in {"launching", "finished"} => ~periodic /\ replay.link = replay.tail

(* What a worker has returned, by its contract. *)
Honest ==
    (worker \in {"returned", "panicked"} /\ Stage \in UnderWay) =>
        /\ result.captures \in CaptureType /\ result.outcome \in Outcome
        /\ result.confirmed \in BOOLEAN
        /\ Total(result.captures) <= command.limit
        /\ \A s \in Stream : s \notin Captured(command.action) => result.captures[s].bytes = 0
        /\ result.outcome = "OutputLimit" => Total(result.captures) = command.limit
        /\ Total(result.captures) = command.limit =>
              \E s \in Stream : result.captures[s].completeness # "Complete"

(* Where the worker is, and which of its processes may be alive. *)
Living ==
    /\ Stage = "preparing" <=> worker \in {"resolving", "probing", "resolved"}
    /\ worker = "working" => Stage = "running"
    /\ Stage = "running" => worker \in {"working", "returned", "panicked"}
    /\ Stage \in Reported /\ ~opening => worker \in {"returned", "panicked"}
    /\ Stage \notin Reported \cup {"preparing", "running", "unmarking", "none"} => worker = "none"
    /\ Stage = "none" /\ worker # "none" => active
    /\ worker \in {"none", "resolving", "probing", "resolved", "working"} => reaper = "none"
    /\ reaper = "working" =>
           worker = "returned" /\ ~result.confirmed /\ Stage \in {"running", "reaping"}
    /\ pid # None /\ alive => worker \in {"probing", "working"} \/ reaper = "working"
    /\ alive => Marked /\ ~released

(* The chunks that are left continue, one after the other, what is         *)
(* recorded of each stream: first standard output, then standard error.    *)
Ends(c, s, n) == c.stream = s /\ c.offset + c.bytes = n

Chained ==
    Stage = "recording" =>
        /\ \A i \in 1 .. Len(chunks) :
              /\ chunks[i].id = command.id
              /\ chunks[i].offset + chunks[i].bytes <= result.captures[chunks[i].stream].bytes
              /\ chunks[i].stream \in Captured(command.action)
        /\ \A i \in 1 .. Len(chunks) - 1 :
              \/ chunks[i + 1].stream = chunks[i].stream
                   /\ chunks[i + 1].offset = chunks[i].offset + chunks[i].bytes
              \/ chunks[i].stream = "out" /\ chunks[i + 1].stream = "err"
                   /\ chunks[i + 1].offset = 0
                   /\ chunks[i].offset + chunks[i].bytes = result.captures["out"].bytes
        /\ chunks # <<>> =>
              LET first == chunks[1]
                  last == chunks[Len(chunks)]
              IN  /\ first.offset = replay.active.bytes[first.stream]
                  /\ first.stream = "out" => replay.active.bytes["err"] = 0
                  /\ first.stream = "err" =>
                        replay.active.bytes["out"] = result.captures["out"].bytes
                  /\ last.offset + last.bytes = result.captures[last.stream].bytes
                  /\ last.stream = "out" => result.captures["err"].bytes = 0
        /\ chunks = <<>> =>
              \A s \in Stream : replay.active.bytes[s] = result.captures[s].bytes

Counted ==
    /\ Stage \in {"launched", "running", "reaping", "capturing"} =>
          \A s \in Stream : replay.active.bytes[s] = 0
    /\ Stage \in Written /\ ~opening =>
          \A s \in Stream : replay.active.bytes[s] = result.captures[s].bytes

Inv == TypeOK /\ Owner /\ Known /\ Honest /\ Living /\ Chained /\ Counted

-----------------------------------------------------------------------------
(* The state of replay and of the parts of the invariant that do not       *)
(* mention it.                                                             *)
sessionVars == <<marker, released, pid, active, opening, job, pc, command, chunks,
                 worker, result, reaper, alive>>

LEMMA SettledIs ==
    ASSUME TypeOK
    PROVE  /\ Settled \in ReplayState
           /\ Settled.active = replay.active /\ Settled.output = replay.output
           /\ Settled.tail >= replay.tail
           /\ ~periodic => Settled = replay
<1> USE DEF TypeOK, ReplayState
<1>1. CASE periodic
  BY <1>1 DEF Settled, Applied, Checkpoint
<1>2. CASE ~periodic
  BY <1>2 DEF Settled
<1> QED
  BY <1>1, <1>2

(* Recording one event that replay accepts. *)
LEMMA RecordsOne ==
    ASSUME NEW e, Record(<<e>>), Accepts(Settled, e), refused = FALSE
    PROVE  /\ replay' = Applied(Settled, e) /\ refused' = FALSE /\ periodic' = FALSE
           /\ UNCHANGED <<marker, released>>
<1> DEFINE events == <<e>>
<1>1. Record(events) /\ Head(events) = e /\ Len(events) = 1
  OBVIOUS
<1> DEFINE played == Play([ok |-> TRUE, state |-> Settled], e)
<1>2. played.state = Applied(Settled, e) /\ played.ok = TRUE
  BY DEF Play
<1>3. replay' = played.state /\ refused' = (refused \/ ~played.ok)
  <2> HIDE DEF events
  <2> QED
    BY <1>1, Zenon DEF Record
<1>4. periodic' = FALSE /\ UNCHANGED <<marker, released>>
  <2> HIDE DEF events
  <2> QED
    BY <1>1, Zenon DEF Record
<1> HIDE DEF events, played
<1>5. refused' = FALSE
  BY <1>2, <1>3
<1> QED
  BY <1>2, <1>3, <1>4, <1>5

(* Events that leave the command under way as it is. *)
LEMMA RecordsQuietly ==
    ASSUME TypeOK, refused = FALSE, NEW e, Record(<<e>>),
           \/ e = Checkpoint \/ e = Reconciled
           \/ e = Plain /\ replay.active = None
           \/ e = ToolEdit /\ replay.active # None /\ replay.active.action = "tool"
    PROVE  /\ replay' \in ReplayState
           /\ replay'.active = replay.active /\ replay'.output = replay.output
           /\ replay'.tail > replay.tail
           /\ e = Checkpoint => replay'.link = replay'.tail
           /\ refused' = FALSE /\ periodic' = FALSE /\ UNCHANGED <<marker, released>>
<1>1. Accepts(Settled, e)
  <2>1. CASE e = Checkpoint
    BY <2>1 DEF Accepts, Checkpoint
  <2>2. CASE e = Reconciled
    BY <2>2 DEF Accepts, Reconciled
  <2>3. CASE e = Plain /\ replay.active = None
    BY <2>3, SettledIs DEF Accepts, Plain
  <2>4. CASE e = ToolEdit /\ replay.active # None /\ replay.active.action = "tool"
    BY <2>4, SettledIs DEF Accepts, ToolEdit
  <2> QED
    BY <2>1, <2>2, <2>3, <2>4
<1>2. /\ replay' = Applied(Settled, e) /\ refused' = FALSE /\ periodic' = FALSE
      /\ UNCHANGED <<marker, released>>
  BY <1>1, RecordsOne
<1>3. Settled \in ReplayState /\ Settled.active = replay.active
      /\ Settled.output = replay.output /\ Settled.tail >= replay.tail
  BY SettledIs
<1> HIDE DEF Settled
<1>4. e.kind \in {"checkpoint", "reconciled", "plain", "edited"}
      /\ (e = Checkpoint => e.kind = "checkpoint")
  BY DEF Checkpoint, Reconciled, Plain, ToolEdit
<1>5. replay' = [tail |-> Settled.tail + 1,
                 link |-> IF e.kind = "checkpoint" THEN Settled.tail + 1 ELSE Settled.link,
                 active |-> Settled.active, finished |-> None, output |-> Settled.output]
  BY <1>2, <1>4 DEF Applied
<1> QED
  BY <1>2, <1>3, <1>4, <1>5 DEF TypeOK, ReplayState

(* A step that records such an event and moves the command nowhere. *)
LEMMA RecordStays ==
    ASSUME Inv, UNCHANGED sessionVars, refused' = FALSE, periodic' = FALSE,
           replay' \in ReplayState, replay'.active = replay.active,
           replay'.output = replay.output, replay'.tail > replay.tail,
           Stage \notin {"launching", "finished"}
    PROVE  Inv'
<1> USE DEF Inv, sessionVars
<1>1. Stage' = Stage
  BY DEF Stage
<1>2. TypeOK'
  BY DEF TypeOK
<1>3. Owner'
  BY <1>1 DEF Owner, Marked
<1>4. Known'
  BY <1>1 DEF Known, Marked, TypeOK, ReplayState, ActiveCommand
<1>5. Honest' /\ Living'
  BY <1>1 DEF Honest, Living, Marked
<1>6. Chained' /\ Counted'
  BY <1>1 DEF Chained, Counted
<1> QED
  BY <1>2, <1>3, <1>4, <1>5, <1>6

LEMMA InitHolds == Init => Inv
<1> SUFFICES ASSUME Init PROVE Inv
  OBVIOUS
<1>1. Stage = "none" /\ pid \in Pid
  BY CommandAssumption DEF Init, Stage
<1>2. TypeOK
  <2>1. replay \in ReplayState
    BY DEF Init, Genesis, ReplayState
  <2>2. chunks \in Seq([kind : {"output"}, id : Nat, stream : Stream, offset : Nat, bytes : Nat])
    BY DEF Init
  <2> QED
    BY <1>1, <2>1, <2>2 DEF Init, TypeOK, JobName, PcName
<1>3. Owner /\ Known /\ Honest /\ Living /\ Chained /\ Counted
  BY <1>1 DEF Init, Owner, Known, Honest, Living, Chained, Counted, Genesis, Opening, Owning,
     Preparing, UnderWay, Reported, Written
<1> QED
  BY <1>2, <1>3 DEF Inv

(* Steps that touch nothing the invariant speaks of. *)
LEMMA AsideSteps ==
    ASSUME Inv, UNCHANGED <<replay, refused, periodic, sessionVars>> PROVE Inv'
BY DEF Inv, sessionVars, TypeOK, Owner, Known, Honest, Living, Chained, Counted, Stage, Marked

(* What the user, the outside world and a tool's edits record. *)
LEMMA RecordSteps ==
    ASSUME Inv, Edit \/ Reconcile \/ ApplyEdit \/ PeriodicLands \/ StartPeriodic PROVE Inv'
<1> USE DEF Inv
<1>1. UNCHANGED <<pid, active, opening, job, pc, command, chunks, worker, result, reaper,
                  alive, marker, released>>
  BY DEF Edit, Reconcile, ApplyEdit, PeriodicLands, StartPeriodic, callVars, workerVars,
     durableVars, Record
<1>2. CASE Edit
  <2>1. Stage = job /\ job \in JobName /\ replay.active = None
    BY <1>2 DEF Edit, CommandIdle, Interactive, Between, Known, Stage, TypeOK
  <2>2. Record(<<Plain>>)
    BY <1>2 DEF Edit
  <2> QED
    BY <1>1, <2>1, <2>2, RecordsQuietly, RecordStays DEF Known, TypeOK, sessionVars, JobName
<1>3. CASE Reconcile
  <2>1. Stage \in {"beginning", "applying", "finishing"}
    BY <1>3 DEF Reconcile, Stage
  <2>2. Record(<<Reconciled>>)
    BY <1>3 DEF Reconcile
  <2> QED
    BY <1>1, <2>1, <2>2, RecordsQuietly, RecordStays DEF Known, TypeOK, sessionVars
<1>4. CASE ApplyEdit
  <2>1. Stage = "applying"
    BY <1>4 DEF ApplyEdit, Stage
  <2>2. Record(<<ToolEdit>>)
    BY <1>4 DEF ApplyEdit
  <2>3. replay.active # None /\ replay.active.action = "tool"
    BY <2>1 DEF Known, UnderWay
  <2> QED
    BY <1>1, <2>1, <2>2, <2>3, RecordsQuietly, RecordStays DEF Known, TypeOK, sessionVars
<1>5. CASE PeriodicLands
  <2>1. periodic /\ refused' = refused /\ replay' = Applied(replay, Checkpoint)
    BY <1>5 DEF PeriodicLands, Settled
  <2>2. periodic' = FALSE /\ refused' = FALSE
    BY <1>5, <2>1 DEF PeriodicLands, Known, TypeOK
  <2>3. Stage \notin {"launching", "finished"}
    BY <2>1 DEF Known
  <2>4. /\ replay' \in ReplayState
        /\ replay'.active = replay.active /\ replay'.output = replay.output
        /\ replay'.tail > replay.tail
    BY <2>1 DEF Applied, Checkpoint, TypeOK, ReplayState
  <2> QED
    BY <1>1, <2>2, <2>3, <2>4, RecordStays DEF sessionVars
<1>6. CASE StartPeriodic
  <2>1. Stage = job /\ job \in JobName /\ UNCHANGED <<replay, refused>> /\ periodic' = TRUE
        /\ pid # None
    BY <1>6 DEF StartPeriodic, CommandIdle, Interactive, Between, Stage, TypeOK, durableVars
  <2>2. Stage \notin {"launching", "finished"} /\ Stage' = Stage
    BY <1>1, <2>1 DEF JobName, Stage
  <2>3. TypeOK' /\ Owner' /\ Known'
    BY <1>1, <2>1, <2>2 DEF TypeOK, Owner, Known, Marked
  <2>4. Honest' /\ Living' /\ Chained' /\ Counted'
    BY <1>1, <2>1, <2>2 DEF Honest, Living, Marked, Chained, Counted
  <2> QED
    BY <2>3, <2>4
<1> QED
  BY <1>2, <1>3, <1>4, <1>5, <1>6

-----------------------------------------------------------------------------
(* Before the command is in the journal: it claims the workspace, finds    *)
(* its tools and is launched, or gives up.                                 *)
LEMMA PrepareSteps ==
    ASSUME Inv,
           \/ \E a \in Action : Begin(a)
           \/ Claim \/ SpawnResolver \/ PollPreparing \/ PrepareFails \/ SpawnWorker
    PROVE  Inv'
<1> USE DEF Inv, Preparing, UnderWay, Reported, Written, Owning, Opening
<1>1. UNCHANGED <<replay, refused, released, pid, opening, periodic, chunks, result, reaper,
                  alive>>
  BY DEF Begin, Claim, SpawnResolver, PollPreparing, PrepareFails, SpawnWorker, callVars,
     workerVars, durableVars, authorityVars, PublishMarker
<1>2. ASSUME NEW a \in Action, Begin(a) PROVE Inv'
  <2> DEFINE limit == Lower(SessionOutput - replay.output, OutputLimit)
  <2>1. Stage = "none" /\ Stage' = "beginning" /\ pid # None /\ ~active /\ ~opening
    BY <1>2 DEF Begin, CommandIdle, Interactive, Between, Stage, Goto, TypeOK, JobName, Owner
  <2>2. UNCHANGED <<marker, active, worker>>
    BY <1>2 DEF Begin, workerVars, durableVars, authorityVars
  <2>3. limit > 0 /\ command' = [action |-> a, limit |-> limit, id |-> 0, before |-> 0]
    BY <1>2 DEF Begin
  <2>4. limit \in Nat /\ replay.output + limit <= SessionOutput
    BY <2>3, CommandAssumption DEF Lower, TypeOK, ReplayState
  <2> HIDE DEF limit
  <2>5. command' \in CommandType /\ command'.limit = limit
    BY <2>3, <2>4 DEF CommandType
  <2>6. TypeOK' /\ Owner'
    <3>1. pc' = "beginning" /\ job' = job
      BY <1>2 DEF Begin, Goto
    <3>2. TypeOK'
      BY <1>1, <2>2, <3>1 DEF TypeOK, PcName
    <3>3. pc = "idle" => job = "none"
      BY <2>1 DEF Stage
    <3> QED
      BY <1>1, <2>1, <2>2, <3>1, <3>2, <3>3 DEF Owner, Marked
  <2>7. Known' /\ Honest'
    BY <1>1, <2>1, <2>2, <2>3, <2>4, <2>5 DEF Known, Honest, Marked
  <2>8. Living' /\ Chained' /\ Counted'
    BY <1>1, <2>1, <2>2 DEF Living, Chained, Counted, Marked
  <2> QED
    BY <2>6, <2>7, <2>8
<1>3. CASE Claim
  <2>1. Stage = "beginning" /\ pc = "beginning" /\ worker' = worker /\ active' = TRUE /\ pid # None
    BY <1>3 DEF Claim, Stage, workerVars, Owner
  <2>2. CASE PublishMarker(TRUE) /\ Goto("spawning") /\ command' = command
    <3>1. Stage' = "spawning" /\ marker' = [active |-> TRUE, pid |-> pid]
      BY <2>2 DEF PublishMarker, Goto, Stage
    <3>2. marker' \in [active : BOOLEAN, pid : Pid]
      BY <2>1, <3>1 DEF TypeOK
    <3>3. Marked'
      BY <3>1, <3>2, CommandAssumption DEF Marked
    <3>4. TypeOK'
      BY <1>1, <2>1, <2>2, <3>2 DEF Goto, TypeOK, PcName
    <3>5. Owner'
      BY <1>1, <2>1, <2>2, <3>1, <3>3 DEF Goto, TypeOK, Owner
    <3>6. Known' /\ Honest' /\ Living' /\ Chained' /\ Counted'
      BY <1>1, <2>1, <2>2, <3>1, <3>3 DEF Known, Honest, Living, Chained, Counted
    <3> QED
      BY <3>4, <3>5, <3>6
  <2>3. CASE Rest("none") /\ marker' = marker
    <3>1. Stage' = "none"
      BY <2>3 DEF Rest, Stage
    <3>2. TypeOK' /\ Owner'
      BY <1>1, <2>1, <2>3, <3>1 DEF Rest, TypeOK, Owner, PcName, JobName, Marked
    <3>3. Known' /\ Honest' /\ Living' /\ Chained' /\ Counted'
      BY <1>1, <2>1, <2>3, <3>1 DEF Known, Honest, Living, Chained, Counted, Marked
    <3> QED
      BY <3>2, <3>3
  <2> QED
    BY <1>3, <2>2, <2>3 DEF Claim, durableVars
<1>4. CASE SpawnResolver
  <2>1. Stage = "spawning" /\ Stage' = "preparing" /\ worker' = "resolving"
        /\ UNCHANGED <<marker, active, command>>
    BY <1>4 DEF SpawnResolver, Stage, Rest, durableVars, authorityVars
  <2>2. TypeOK' /\ Owner'
    BY <1>1, <1>4, <2>1 DEF SpawnResolver, Rest, TypeOK, Owner, Marked, JobName, PcName
  <2>3. Known' /\ Honest'
    BY <1>1, <2>1 DEF Known, Honest, Marked
  <2>4. Living' /\ Chained' /\ Counted'
    BY <1>1, <2>1 DEF Living, Chained, Counted, Marked
  <2> QED
    BY <2>2, <2>3, <2>4
<1>5. CASE PollPreparing
  <2>1. Stage = "preparing" /\ Stage' = "resolved" /\ worker = "resolved" /\ worker' = "none"
        /\ UNCHANGED <<marker, active, command>> /\ pid # None /\ ~opening
    BY <1>5 DEF PollPreparing, Between, Stage, durableVars, authorityVars
  <2>2. TypeOK' /\ Owner'
    BY <1>1, <1>5, <2>1 DEF PollPreparing, TypeOK, Owner, Marked, JobName, PcName
  <2>3. Known' /\ Honest'
    BY <1>1, <2>1 DEF Known, Honest, Marked
  <2>4. Living' /\ Chained' /\ Counted'
    BY <1>1, <2>1 DEF Living, Chained, Counted, Marked
  <2> QED
    BY <2>2, <2>3, <2>4
<1>6. CASE PrepareFails
  <2>1. Stage = "launching" /\ Stage' = "clearing"
        /\ UNCHANGED <<marker, active, command, worker>>
    BY <1>6 DEF PrepareFails, Goto, Stage, durableVars, authorityVars, workerVars
  <2>2. TypeOK' /\ Owner'
    BY <1>1, <1>6, <2>1 DEF PrepareFails, Goto, TypeOK, Owner, Marked, JobName, PcName
  <2>3. Known' /\ Honest'
    BY <1>1, <2>1 DEF Known, Honest, Marked
  <2>4. Living' /\ Chained' /\ Counted'
    BY <1>1, <2>1 DEF Living, Chained, Counted, Marked
  <2> QED
    BY <2>2, <2>3, <2>4
<1>7. CASE SpawnWorker
  <2>1. Stage = "launched" /\ Stage' = "running" /\ worker' = "working"
        /\ UNCHANGED <<marker, active, command>>
    BY <1>7 DEF SpawnWorker, Rest, Stage, durableVars, authorityVars
  <2>2. TypeOK' /\ Owner'
    BY <1>1, <1>7, <2>1 DEF SpawnWorker, Rest, TypeOK, Owner, Marked, JobName, PcName
  <2>3. Known' /\ Honest'
    BY <1>1, <2>1 DEF Known, Honest, Marked
  <2>4. Living' /\ Chained' /\ Counted'
    BY <1>1, <2>1 DEF Living, Chained, Counted, Marked
  <2> QED
    BY <2>2, <2>3, <2>4
<1> QED
  BY <1>2, <1>3, <1>4, <1>5, <1>6, <1>7

-----------------------------------------------------------------------------
(* Polls and what follows them, until the finish. *)
LEMMA PollSteps ==
    ASSUME Inv,
           PollRunning \/ PollReaping \/ PollRecording \/ OutputRecorded \/ EditsApplied
    PROVE  Inv'
<1> USE DEF Inv, Preparing, UnderWay, Reported, Written, Owning, Opening
<1>1. UNCHANGED <<replay, refused, marker, released, pid, active, opening, periodic, command,
                  chunks, worker, result, reaper, alive>>
  BY DEF PollRunning, PollReaping, PollRecording, OutputRecorded, EditsApplied,
     workerVars, durableVars, authorityVars
<1>2. pc' \in PcName /\ job' \in JobName /\ (pc' # "idle" => job' = "none")
  BY DEF PollRunning, PollReaping, PollRecording, OutputRecorded, EditsApplied, Goto, Rest,
     Between, Owner, TypeOK, PcName, JobName
<1>3. TypeOK'
  BY <1>1, <1>2 DEF TypeOK
<1>4. CASE PollRunning
  <2>1. /\ Stage = "running" /\ Stage' \in {"capturing", "reaping"}
        /\ worker \in {"returned", "panicked"} /\ pid # None /\ ~opening
        /\ Stage' = "capturing" => result.confirmed
    BY <1>4 DEF PollRunning, Between, Stage, WorkerEnded, CleanupConfirmed, Rest
  <2>2. Owner' /\ Known' /\ Honest'
    BY <1>1, <1>2, <2>1 DEF Owner, Known, Honest, Marked
  <2>3. Living' /\ Chained' /\ Counted'
    BY <1>1, <2>1 DEF Living, Chained, Counted, Marked
  <2> QED
    BY <1>3, <2>2, <2>3
<1>5. CASE PollReaping
  <2>1. Stage = "reaping" /\ Stage' = "capturing" /\ reaper = "done" /\ pid # None /\ ~opening
    BY <1>5 DEF PollReaping, Between, Stage
  <2>2. Owner' /\ Known' /\ Honest'
    BY <1>1, <1>2, <2>1 DEF Owner, Known, Honest, Marked
  <2>3. Living' /\ Chained' /\ Counted'
    BY <1>1, <2>1 DEF Living, Chained, Counted, Marked
  <2> QED
    BY <1>3, <2>2, <2>3
<1>6. CASE PollRecording
  <2>1. Stage = "recording" /\ Stage' = "recording" /\ pid # None /\ ~opening
    BY <1>6 DEF PollRecording, Between, Stage
  <2>2. Owner' /\ Known' /\ Honest'
    BY <1>1, <1>2, <2>1 DEF Owner, Known, Honest, Marked
  <2>3. Living' /\ Chained' /\ Counted'
    BY <1>1, <2>1 DEF Living, Chained, Counted, Marked
  <2> QED
    BY <1>3, <2>2, <2>3
<1>7. CASE OutputRecorded \/ EditsApplied
  <2>1. /\ Stage \in {"recording", "applying"} /\ Stage' \in {"applying", "finishing"}
        /\ Stage = "recording" => chunks = <<>>
        /\ Stage' = "applying" => command.action = "tool"
    BY <1>7 DEF OutputRecorded, EditsApplied, Stage, Goto
  <2>2. Owner' /\ Known' /\ Honest'
    BY <1>1, <1>2, <2>1 DEF Owner, Known, Honest, Marked
  <2>3. Living' /\ Chained' /\ Counted'
    BY <1>1, <2>1 DEF Living, Chained, Counted, Marked
  <2> QED
    BY <1>3, <2>2, <2>3
<1> QED
  BY <1>4, <1>5, <1>6, <1>7

(* A recording given up, a step that failed: the command stays unfinished, *)
(* marked, and without a process.                                          *)
LEMMA FailingSteps == ASSUME Inv, AbandonRecording \/ StepFails PROVE Inv'
<1> USE DEF Inv, Preparing, UnderWay, Reported, Written, Owning, Opening
<1>1. UNCHANGED <<replay, refused, marker, released, pid, active, opening, periodic, alive>>
  BY DEF AbandonRecording, StepFails, workerVars, durableVars, authorityVars
<1>2. Stage' = "none" /\ pc' = "idle" /\ job' = "none" /\ pid # None /\ Stage # "none"
  BY DEF AbandonRecording, StepFails, Rest, Between, Stage, Owner, TypeOK, PcName
<1>3. \/ UNCHANGED <<chunks, worker, reaper, result>> /\ Stage = "recording"
      \/ chunks' = <<>> /\ worker' = "none" /\ reaper' = "none" /\ pc # "idle"
  BY DEF AbandonRecording, StepFails, workerVars, Reset, Between, Stage
<1>4. TypeOK'
  <2> DEFINE nothing == <<>>
  <2>1. nothing \in Seq([kind : {"output"}, id : Nat, stream : Stream, offset : Nat, bytes : Nat])
    OBVIOUS
  <2>2. chunks' = chunks \/ chunks' = nothing
    BY <1>3
  <2> HIDE DEF nothing
  <2>3. pc' \in PcName /\ job' \in JobName
    BY <1>2 DEF PcName, JobName
  <2> QED
    BY <1>1, <1>3, <2>1, <2>2, <2>3 DEF TypeOK
<1>5. Owner' /\ Known' /\ Honest' /\ Chained' /\ Counted'
  BY <1>1, <1>2, <1>3 DEF Owner, Known, Honest, Chained, Counted, Marked
<1>6. Living'
  <2>1. ~alive
    BY <1>2, <1>3 DEF Living, Stage, TypeOK, PcName
  <2> QED
    BY <1>1, <1>2, <1>3, <2>1 DEF Living, Owner
<1> QED
  BY <1>4, <1>5, <1>6

-----------------------------------------------------------------------------
(* A boundary checkpoint in front of a start, a finish or a retreat. *)
LEMMA BoundarySteps ==
    ASSUME Inv, Abandon \/ Save \/ FinishBoundary \/ RecordResumed PROVE Inv'
<1> USE DEF Inv, Preparing, UnderWay, Reported, Written, Owning, Opening
<1>1. UNCHANGED <<pid, active, command, chunks, worker, result, reaper, alive>>
  BY DEF Abandon, Save, FinishBoundary, Boundary, RecordResumed, workerVars
<1>2. job' = job /\ pc # "idle"
  BY DEF Abandon, Save, FinishBoundary, Boundary, RecordResumed, Goto
<1>3. CASE Abandon \/ Save \/ FinishBoundary
  <2>1. /\ \/ Stage = "resolved" /\ pc' = "clearing"
           \/ Stage = "resolved" /\ pc' = "launching"
           \/ Stage = "finishing" /\ pc' = "finished"
        /\ Stage' = pc' /\ opening' = opening
    BY <1>3 DEF Abandon, Save, FinishBoundary, Boundary, Stage, Goto
  <2>2. Record(<<Checkpoint>>)
    BY <1>3 DEF Abandon, Save, FinishBoundary, Boundary
  <2>3. /\ replay' \in ReplayState
        /\ replay'.active = replay.active /\ replay'.output = replay.output
        /\ replay'.tail > replay.tail /\ replay'.link = replay'.tail
        /\ refused' = FALSE /\ periodic' = FALSE /\ UNCHANGED <<marker, released>>
    BY <2>2, RecordsQuietly DEF Known, TypeOK
  <2>4. pc' \in PcName
    BY <2>1 DEF PcName
  <2>5. TypeOK'
    BY <1>1, <1>2, <2>1, <2>3, <2>4 DEF TypeOK
  <2>6. Owner' /\ Honest'
    BY <1>1, <1>2, <2>1, <2>3 DEF Owner, Honest, Marked
  <2>7. Known'
    BY <1>1, <2>1, <2>3 DEF Known, Marked, TypeOK, ReplayState, ActiveCommand
  <2>8. Living' /\ Chained' /\ Counted'
    BY <1>1, <2>1, <2>3 DEF Living, Chained, Counted, Marked
  <2> QED
    BY <2>5, <2>6, <2>7, <2>8
<1>4. CASE RecordResumed
  <2>1. Stage = "resuming" /\ Stage' = "none" /\ pc' = "idle" /\ opening' = FALSE
    BY <1>2, <1>4 DEF RecordResumed, Goto, Stage, Owner
  <2>2. Record(<<Plain>>) /\ replay.active = None
    BY <1>4, <2>1 DEF RecordResumed, Known, Owner
  <2>3. /\ replay' \in ReplayState
        /\ replay'.active = replay.active /\ replay'.output = replay.output
        /\ replay'.tail > replay.tail
        /\ refused' = FALSE /\ periodic' = FALSE /\ UNCHANGED <<marker, released>>
    BY <2>2, RecordsQuietly DEF Known, TypeOK
  <2>4. TypeOK' /\ Owner'
    BY <1>1, <1>2, <2>1, <2>3 DEF TypeOK, PcName, Owner
  <2>5. Known'
    BY <1>1, <2>1, <2>3 DEF Known, Marked, TypeOK, ReplayState, ActiveCommand
  <2>6. Honest' /\ Living' /\ Chained' /\ Counted'
    BY <1>1, <2>1, <2>3 DEF Honest, Living, Chained, Counted, Marked
  <2> QED
    BY <2>4, <2>5, <2>6
<1> QED
  BY <1>3, <1>4

(* The marker is taken back when no command is unfinished and no process   *)
(* of one is left.                                                         *)
LEMMA UnclaimSteps == ASSUME Inv, Clear \/ Unmark \/ Disown PROVE Inv'
<1> USE DEF Inv, Preparing, UnderWay, Reported, Written, Owning, Opening
<1>1. UNCHANGED <<replay, refused, released, pid, opening, periodic, chunks, alive>>
  BY DEF Clear, Unmark, Disown, Unclaim, PublishMarker
<1>2. /\ marker' = [active |-> FALSE, pid |-> pid] /\ active' = FALSE /\ job' = "none"
      /\ worker' = "none" /\ reaper' = "none"
  BY DEF Clear, Unmark, Disown, Unclaim, PublishMarker, Reset
<1>3. Stage \in {"clearing", "unmarking", "unclaiming"} /\ pid # None
  BY DEF Clear, Unmark, Disown, Unclaim, Stage, Owner
<1>4. \/ pc' = "resuming" /\ Stage' = "resuming" /\ opening
      \/ pc' = "idle" /\ Stage' = "none"
  BY <1>2, <1>3 DEF Clear, Unmark, Disown, Unclaim, Stage, Owner
<1>5. replay.active = None /\ ~alive
  BY <1>3 DEF Known, Living, Owner
<1>6. TypeOK' /\ Owner'
  BY <1>1, <1>2, <1>3, <1>4 DEF TypeOK, Owner, PcName, JobName
<1>7. Known' /\ Honest' /\ Living' /\ Chained' /\ Counted'
  BY <1>1, <1>2, <1>4, <1>5 DEF Known, Honest, Living, Chained, Counted
<1> QED
  BY <1>6, <1>7

-----------------------------------------------------------------------------
(* The end of a process, and the next one that opens the session. *)
LEMMA NoneAtRest == ASSUME Inv, Stage = "none", pid # None PROVE ~alive
BY DEF Inv, Living

LEMMA VanishSteps == ASSUME Inv, Leave \/ Crash \/ ResumeFails PROVE Inv'
<1> USE DEF Inv, Preparing, UnderWay, Reported, Written, Owning, Opening
<1>1. /\ pid' = None /\ active' = FALSE /\ periodic' = FALSE /\ job' = "none" /\ pc' = "idle"
      /\ chunks' = <<>> /\ opening' = FALSE /\ worker' = "none" /\ reaper' = "none"
      /\ UNCHANGED <<refused, marker, alive>>
  BY DEF Leave, Crash, ResumeFails, Vanish, Close, Reset
<1>2. Stage' = "none"
  BY <1>1 DEF Stage
<1>3. /\ replay' \in ReplayState /\ replay'.active = replay.active
      /\ replay'.tail >= replay.tail
  <2>1. replay' = Settled \/ replay' = replay
    BY DEF Leave, Crash, ResumeFails
  <2> QED
    BY <2>1, SettledIs DEF TypeOK, ReplayState
<1>4. released' \in BOOLEAN /\ (alive => ~released')
  <2>1. CASE Leave
    <3>1. Stage = "none" /\ pid # None
      BY <2>1 DEF Leave, Between, Stage
    <3> QED
      BY <2>1, <3>1, NoneAtRest DEF Leave
  <2>2. CASE Crash \/ ResumeFails
    BY <2>2 DEF Crash, ResumeFails, TypeOK, Living
  <2> QED
    BY <2>1, <2>2
<1>5. TypeOK'
  <2> DEFINE nothing == <<>>
  <2>1. nothing \in Seq([kind : {"output"}, id : Nat, stream : Stream, offset : Nat, bytes : Nat])
    OBVIOUS
  <2>2. chunks' = nothing
    BY <1>1
  <2> HIDE DEF nothing
  <2> QED
    BY <1>1, <1>3, <1>4, <2>1, <2>2 DEF TypeOK, PcName, JobName
<1>6. Owner' /\ Honest' /\ Chained' /\ Counted'
  BY <1>1, <1>2 DEF Owner, Honest, Chained, Counted
<1>7. Known' /\ Living'
  BY <1>1, <1>2, <1>3, <1>4 DEF Known, Living, Marked, TypeOK, ReplayState, ActiveCommand
<1> QED
  BY <1>5, <1>6, <1>7

LEMMA ResumeSteps == ASSUME Inv, NEW p \in Pid, Resume(p) PROVE Inv'
<1> USE DEF Inv, Preparing, UnderWay, Reported, Written, Owning, Opening
<1>1. /\ pid = None /\ pid' = p /\ pid' # None /\ released' = FALSE /\ opening' = TRUE
      /\ active' = (replay.active # None) /\ periodic = FALSE
      /\ UNCHANGED <<replay, refused, marker, periodic, job, chunks, worker, reaper, result,
                     alive>>
  BY CommandAssumption DEF Resume, workerVars, Owner, TypeOK
<1>2. Stage = "none" /\ worker = "none" /\ job = "none" /\ ~alive
  BY <1>1 DEF Resume, Owner, Stage, LockFree, Inheritors, Living, TypeOK, PcName
<1>3. CASE replay.active # None
  <2>1. /\ Marked /\ pc' = "finishing" /\ Stage' = "finishing"
        /\ command' = [action |-> replay.active.action, limit |-> replay.active.limit,
                       id |-> replay.active.id, before |-> replay.active.before]
    BY <1>3 DEF Resume, Stage
  <2>2. command' \in CommandType
    BY <1>3, <2>1 DEF CommandType, TypeOK, ReplayState, ActiveCommand
  <2>3. TypeOK' /\ Owner'
    BY <1>1, <1>2, <1>3, <2>1 DEF TypeOK, Owner, PcName, Marked
  <2>4. Known'
    BY <1>1, <1>2, <1>3, <2>1, <2>2 DEF Known, Marked
  <2>5. Honest' /\ Living' /\ Chained' /\ Counted'
    BY <1>1, <1>2, <2>1 DEF Honest, Living, Chained, Counted, Marked
  <2> QED
    BY <2>3, <2>4, <2>5
<1>4. CASE replay.active = None
  <2>1. pc' \in {"unclaiming", "resuming"} /\ Stage' = pc'
    BY <1>4 DEF Resume, Stage
  <2>2. TypeOK' /\ Owner'
    BY <1>1, <1>2, <1>4, <2>1 DEF TypeOK, Owner, PcName
  <2>3. Known'
    BY <1>1, <1>2, <1>4, <2>1 DEF Known, Marked
  <2>4. Honest' /\ Living' /\ Chained' /\ Counted'
    BY <1>1, <1>2, <2>1 DEF Honest, Living, Chained, Counted, Marked
  <2> QED
    BY <2>2, <2>3, <2>4
<1> QED
  BY <1>3, <1>4

-----------------------------------------------------------------------------
(* What a worker returns keeps its contract whatever command it ran. *)
LEMMA WorkReturns ==
    ASSUME Work, command \in CommandType, command.limit > 0
    PROVE  /\ result'.captures \in CaptureType /\ result'.outcome \in Outcome
           /\ result'.confirmed \in BOOLEAN
           /\ Total(result'.captures) <= command.limit
           /\ \A s \in Stream : s \notin Captured(command.action) =>
                    result'.captures[s].bytes = 0
           /\ result'.outcome = "OutputLimit" => Total(result'.captures) = command.limit
           /\ Total(result'.captures) = command.limit =>
                    \E s \in Stream : result'.captures[s].completeness # "Complete"
           /\ worker' \in {"returned", "panicked"}
           /\ \/ ~alive /\ result'.confirmed /\ reaper' = reaper
              \/ worker' = "returned" /\ reaper' = "none" /\ result'.confirmed /\ ~alive
              \/ worker' = "returned" /\ reaper' = "working" /\ ~result'.confirmed
<1>1. NoCapture \in CaptureType /\ Total(NoCapture) = 0
      /\ \A s \in Stream : NoCapture[s].bytes = 0
  BY DEF NoCapture, Capture, CaptureType, Total, Stream, Completeness
<1>2. Stop \subseteq {"Quit", "Cancelled"}
  BY DEF Stop
<1>3. CASE Finish
  <2>1. PICK captures \in Captures(command.action, command.limit) :
          \E outcome \in ProcessOutcome(captures, command.action, command.limit) \cup Stop :
            \E confirmed \in BOOLEAN :
                /\ confirmed => ~alive
                /\ ~confirmed => outcome = "CleanupFailure"
                /\ result' = Result(outcome, captures, confirmed)
                /\ reaper' = IF confirmed THEN "none" ELSE "working"
    BY <1>3 DEF Finish
  <2>2. PICK outcome \in ProcessOutcome(captures, command.action, command.limit) \cup Stop,
             confirmed \in BOOLEAN :
                /\ confirmed => ~alive
                /\ result' = Result(outcome, captures, confirmed)
                /\ reaper' = IF confirmed THEN "none" ELSE "working"
    BY <2>1
  <2>3. /\ captures \in [Stream -> [bytes : 0 .. command.limit, completeness : Completeness]]
        /\ Total(captures) <= command.limit
        /\ \A s \in Stream : s \notin Captured(command.action) => captures[s] = NoCapture[s]
        /\ Total(captures) = command.limit => \E s \in Stream : captures[s].completeness = "Truncated"
    BY DEF Captures
  <2>4. captures \in CaptureType
    BY <2>3 DEF CaptureType, CommandType
  <2>5. outcome \in Outcome /\ (outcome = "OutputLimit" => Total(captures) = command.limit)
    BY <1>2 DEF ProcessOutcome, Outcome, Termination
  <2>6. result'.captures = captures /\ result'.outcome = outcome /\ result'.confirmed = confirmed
    BY <2>2 DEF Result
  <2>7. worker' = "returned"
    BY <1>3 DEF Finish
  <2>8. /\ \A s \in Stream : s \notin Captured(command.action) => captures[s].bytes = 0
        /\ Total(captures) = command.limit =>
              \E s \in Stream : captures[s].completeness # "Complete"
    BY <1>1, <2>3
  <2>9. \/ worker' = "returned" /\ reaper' = "none" /\ result'.confirmed /\ ~alive
        \/ worker' = "returned" /\ reaper' = "working" /\ ~result'.confirmed
    BY <2>2, <2>6, <2>7
  <2>10. /\ result'.captures \in CaptureType /\ result'.outcome \in Outcome
         /\ result'.confirmed \in BOOLEAN
    BY <2>4, <2>5, <2>6
  <2>11. /\ Total(result'.captures) <= command.limit
         /\ \A s \in Stream : s \notin Captured(command.action) =>
                    result'.captures[s].bytes = 0
         /\ result'.outcome = "OutputLimit" => Total(result'.captures) = command.limit
         /\ Total(result'.captures) = command.limit =>
                    \E s \in Stream : result'.captures[s].completeness # "Complete"
    BY <2>3, <2>5, <2>6, <2>8
  <2> QED
    BY <2>7, <2>9, <2>10, <2>11
<1>4. CASE GiveUp \/ Unwind
  <2>1. PICK outcome \in {"LaunchFailed", "CleanupFailure"} \cup Stop :
            result' = Result(outcome, NoCapture, TRUE)
    BY <1>4 DEF GiveUp, Unwind
  <2>2. result'.captures = NoCapture /\ result'.outcome = outcome /\ result'.confirmed = TRUE
    BY <2>1 DEF Result
  <2>3. outcome \in Outcome /\ outcome # "OutputLimit"
    BY <1>2 DEF Outcome, Termination
  <2>4. ~alive /\ reaper' = reaper /\ worker' \in {"returned", "panicked"}
    BY <1>4 DEF GiveUp, Unwind
  <2>5. Total(result'.captures) = 0 /\ command.limit \in Nat
    BY <1>1, <2>2 DEF CommandType
  <2>6. Total(result'.captures) <= command.limit /\ Total(result'.captures) # command.limit
    <3> HIDE DEF Total
    <3> QED
      BY <2>5
  <2>7. /\ result'.captures \in CaptureType
        /\ \A s \in Stream : s \notin Captured(command.action) =>
                 result'.captures[s].bytes = 0
    BY <1>1, <2>2
  <2>8. result'.outcome \in Outcome /\ result'.outcome # "OutputLimit" /\ result'.confirmed \in BOOLEAN
    BY <2>2, <2>3
  <2> QED
    BY <2>2, <2>4, <2>6, <2>7, <2>8
<1> QED
  BY <1>3, <1>4 DEF Work

(* The workers and the processes they look after. *)
LEMMA WorkerSteps ==
    ASSUME Inv, Worker \/ WorkerStep(Launch \/ Probe \/ Die \/ Escape \/ StraysEnd)
    PROVE  Inv'
<1> USE DEF Inv, Preparing, UnderWay, Reported, Written, Owning, Opening
<1>1. /\ UNCHANGED <<replay, refused, marker, released, pid, active, opening, periodic, job,
                     pc, command, chunks>>
      /\ Work \/ Reap \/ Resolve \/ Launch \/ Probe \/ Die \/ Escape \/ StraysEnd
  BY DEF Worker, WorkerStep, durableVars, authorityVars, callVars
<1>2. Stage' = Stage
  BY <1>1 DEF Stage
<1>3. CASE Work
  <2>1. Stage = "running" /\ alive' = alive /\ reaper = "none" /\ pid # None /\ ~opening
    BY <1>3 DEF Work, Living, Owner
  <2>2. command \in CommandType /\ command.limit > 0
    BY <2>1 DEF Known
  <2>3. /\ Honest'
        /\ worker' \in {"returned", "panicked"}
        /\ \/ ~alive /\ result'.confirmed /\ reaper' = reaper
           \/ worker' = "returned" /\ reaper' = "none" /\ result'.confirmed /\ ~alive
           \/ worker' = "returned" /\ reaper' = "working" /\ ~result'.confirmed
    BY <1>1, <1>3, <2>2, WorkReturns DEF Honest
  <2>4. TypeOK' /\ Owner'
    BY <1>1, <1>2, <2>1, <2>3 DEF TypeOK, Owner, Marked
  <2>5. Known' /\ Chained' /\ Counted'
    BY <1>1, <1>2, <2>1 DEF Known, Chained, Counted, Marked
  <2>6. Living'
    BY <1>1, <1>2, <2>1, <2>3 DEF Living, Marked
  <2> QED
    BY <2>3, <2>4, <2>5, <2>6
<1>4. CASE Reap \/ Resolve \/ Launch \/ Probe \/ Die \/ Escape \/ StraysEnd
  <2>1. /\ result' = result /\ alive' \in BOOLEAN
        /\ \/ worker' = worker
           \/ Stage = "preparing" /\ worker' \in {"probing", "resolved"}
        /\ \/ reaper' = reaper
           \/ reaper = "working" /\ reaper' = "done" /\ ~alive'
    <3>1. CASE Reap
      BY <3>1 DEF Reap, TypeOK
    <3>2. CASE Resolve \/ Probe
      BY <3>2 DEF Resolve, Probe, Living, TypeOK
    <3>3. CASE Launch \/ Die \/ Escape \/ StraysEnd
      BY <3>3 DEF Launch, Die, Escape, StraysEnd, TypeOK
    <3> QED
      BY <1>4, <3>1, <3>2, <3>3
  <2>2. \/ alive' => alive /\ worker' = worker /\ reaper' = reaper
        \/ worker' \in {"probing", "working"} /\ reaper' = reaper /\ Stage \in {"preparing", "running"}
             /\ pid # None
    BY <1>4 DEF Reap, Resolve, Launch, Probe, Die, Escape, StraysEnd, Living, TypeOK, Owner
  <2>3. TypeOK' /\ Owner'
    BY <1>1, <1>2, <2>1 DEF TypeOK, Owner, Marked
  <2>4. Known' /\ Honest' /\ Chained' /\ Counted'
    BY <1>1, <1>2, <2>1 DEF Known, Honest, Chained, Counted, Marked
  <2>5. Living'
    BY <1>1, <1>2, <2>1, <2>2 DEF Living, Marked, Owner
  <2> QED
    BY <2>3, <2>4, <2>5
<1> QED
  BY <1>1, <1>3, <1>4

-----------------------------------------------------------------------------
(* The start: right behind the checkpoint, with nothing else active. *)
LEMMA StartSteps == ASSUME Inv, RecordStarted PROVE Inv'
<1> USE DEF Inv, Preparing, UnderWay, Reported, Written, Owning, Opening
<1>1. /\ pc = "launching" /\ pc' = "launched" /\ job' = job
      /\ UNCHANGED <<pid, active, opening, chunks, worker, result, reaper, alive>>
  BY DEF RecordStarted, Goto, workerVars
<1>2. Stage = "launching" /\ Stage' = "launched"
  BY <1>1 DEF Stage
<1>3. /\ replay.active = None /\ periodic = FALSE /\ replay.link = replay.tail
      /\ command \in CommandType /\ command.limit > 0
      /\ replay.output + command.limit <= SessionOutput
      /\ Settled = replay /\ ~opening
  BY <1>2, SettledIs DEF Known, TypeOK, Owner
<1> DEFINE id == replay.tail + 1
           e == Started(id, command.action, replay.link, command.limit)
<1>4. Record(<<e>>) /\ command' = [command EXCEPT !.id = id, !.before = replay.link]
  BY DEF RecordStarted
<1>5. e.kind = "started" /\ e.id = id /\ e.action = command.action /\ e.before = replay.link
      /\ e.limit = command.limit
  BY DEF Started
<1> HIDE DEF e
<1>6. Accepts(Settled, e)
  BY <1>3, <1>5 DEF Accepts, AcceptsStart, TypeOK, ReplayState
<1>7. /\ replay' = Applied(replay, e) /\ refused' = FALSE /\ periodic' = FALSE
      /\ UNCHANGED <<marker, released>>
  BY <1>3, <1>4, <1>6, RecordsOne DEF Known, TypeOK
<1>8. /\ replay'.active = [id |-> id, action |-> command.action, before |-> replay.link,
                           limit |-> command.limit, bytes |-> [s \in Stream |-> 0]]
      /\ replay'.tail = id /\ replay'.link = replay.link /\ replay'.finished = None
      /\ replay'.output = replay.output
      /\ replay' = [tail |-> replay'.tail, link |-> replay'.link, active |-> replay'.active,
                    finished |-> replay'.finished, output |-> replay'.output]
  BY <1>5, <1>7 DEF Applied
<1>9. replay'.active \in ActiveCommand
  BY <1>3, <1>8 DEF ActiveCommand, CommandType, TypeOK, ReplayState
<1>10. replay'.active # None
  BY <1>9, ReplayAssumption
<1>11. command' \in CommandType /\ command'.id = id /\ command'.before = replay.link
       /\ command'.action = command.action /\ command'.limit = command.limit
  <2>1. id \in Nat /\ replay.link \in Nat
    BY DEF TypeOK, ReplayState
  <2>2. command' = [action |-> command.action, limit |-> command.limit, id |-> id,
                    before |-> replay.link]
    BY <1>3, <1>4 DEF CommandType
  <2> QED
    BY <1>3, <2>1, <2>2 DEF CommandType
<1>12. replay' \in ReplayState
  BY <1>8, <1>9 DEF ReplayState, TypeOK
<1>13. TypeOK' /\ Owner'
  BY <1>1, <1>2, <1>7, <1>12 DEF TypeOK, Owner, PcName, Marked
<1>14. Known'
  <2>1. Marked'
    BY <1>2, <1>7 DEF Owner, Marked
  <2>2. replay'.active.limit > 0 /\ replay'.active.before < replay'.tail
    BY <1>3, <1>8 DEF TypeOK, ReplayState
  <2> QED
    BY <1>1, <1>2, <1>7, <1>8, <1>10, <1>11, <2>1, <2>2 DEF Known, Owner
<1>15. Honest' /\ Living'
  BY <1>1, <1>2, <1>3, <1>7 DEF Honest, Living, Marked
<1>16. Chained' /\ Counted'
  BY <1>2, <1>8 DEF Chained, Counted
<1> QED
  BY <1>13, <1>14, <1>15, <1>16

-----------------------------------------------------------------------------
(* How a captured stream is cut into chunks: a chunk starts at every       *)
(* multiple of the chunk size below the length, and nowhere else.          *)
LEMMA ChunkCount ==
    ASSUME NEW n \in Nat
    PROVE  /\ Chunks(n) \in Nat /\ (Chunks(n) = 0 <=> n = 0)
           /\ n <= Chunks(n) * ChunkBytes
           /\ \A i \in 1 .. Chunks(n) : (i - 1) * ChunkBytes \in Nat /\ (i - 1) * ChunkBytes < n
<1> DEFINE C == ChunkBytes
           k == (n + C - 1) \div C
           r == (n + C - 1) % C
<1>1. C \in Nat /\ C > 0
  BY CommandAssumption
<1>2. k \in Int /\ r \in Int /\ 0 <= r /\ r < C /\ n + C - 1 = C * k + r
  BY <1>1
<1>3. Chunks(n) = k
  BY DEF Chunks
<1> HIDE DEF k, r
<1>4. C * k + r = n + C - 1 /\ C * (k - 1) = C * k - C
  BY <1>1, <1>2
<1>5. k >= 0
  <2> SUFFICES ASSUME k <= -1 PROVE FALSE
    BY <1>2
  <2>1. C * k <= -C
    BY <1>1, <1>2
  <2> QED
    BY <1>1, <1>2, <2>1
<1>6. n <= k * C
  <2>1. C * k = k * C
    BY <1>1, <1>2
  <2> QED
    BY <1>1, <1>2, <2>1
<1>7. ASSUME NEW i \in 1 .. k PROVE (i - 1) * C \in Nat /\ (i - 1) * C < n
  <2>1. (i - 1) * C <= (k - 1) * C /\ (i - 1) * C >= 0
    BY <1>1, <1>2
  <2>2. (k - 1) * C = C * k - C
    BY <1>1, <1>2
  <2>3. (i - 1) * C \in Int
    BY <1>1, <1>2
  <2> QED
    BY <1>1, <1>2, <2>1, <2>2, <2>3
<1>8. k = 0 <=> n = 0
  <2>1. CASE k = 0
    BY <2>1, <1>1, <1>2
  <2>2. CASE n = 0
    <3>1. k > 0 => C * k >= C
      BY <1>1, <1>2
    <3> QED
      BY <2>2, <1>1, <1>2, <1>5, <3>1
  <2> QED
    BY <2>1, <2>2
<1> QED
  BY <1>2, <1>3, <1>5, <1>6, <1>7, <1>8

LEMMA ChunksChain ==
    ASSUME NEW s \in Stream, result.captures \in CaptureType, command.id \in Nat,
           NEW n, n = result.captures[s].bytes
    PROVE  /\ ChunksOf(s) \in Seq([kind : {"output"}, id : Nat, stream : Stream, offset : Nat,
                                   bytes : Nat])
           /\ Len(ChunksOf(s)) \in Nat /\ (Len(ChunksOf(s)) = 0 <=> n = 0)
           /\ \A i \in 1 .. Len(ChunksOf(s)) :
                 LET c == ChunksOf(s)[i]
                 IN  /\ c.id = command.id /\ c.stream = s /\ c.offset + c.bytes <= n
                     /\ i = 1 => c.offset = 0
                     /\ i = Len(ChunksOf(s)) => c.offset + c.bytes = n
                     /\ i < Len(ChunksOf(s)) =>
                            ChunksOf(s)[i + 1].offset = c.offset + c.bytes
<1> DEFINE k == Chunks(n)
           offset(i) == (i - 1) * ChunkBytes
           size(i) == Lower(ChunkBytes, n - offset(i))
           Chunk == [kind : {"output"}, id : Nat, stream : Stream, offset : Nat, bytes : Nat]
<1>1. n \in Nat
  BY DEF CaptureType
<1>2. ChunkBytes \in Nat /\ ChunkBytes > 0
  BY CommandAssumption
<1>3. /\ k \in Nat /\ (k = 0 <=> n = 0) /\ n <= k * ChunkBytes
      /\ \A i \in 1 .. k : offset(i) \in Nat /\ offset(i) < n
  BY <1>1, ChunkCount
<1>4. ChunksOf(s) = [i \in 1 .. k |-> Output(command.id, s, offset(i), size(i))]
  BY DEF ChunksOf
<1> HIDE DEF k
<1>5. ASSUME NEW i \in 1 .. k
      PROVE  /\ size(i) \in Nat /\ offset(i) + size(i) <= n
             /\ i = 1 => offset(i) = 0
             /\ i = k => offset(i) + size(i) = n
             /\ i < k => offset(i + 1) = offset(i) + size(i)
  <2>1. offset(i) \in Nat /\ offset(i) < n
    BY <1>3
  <2>2. size(i) = ChunkBytes \/ size(i) = n - offset(i)
    BY DEF Lower
  <2>3. size(i) <= ChunkBytes /\ size(i) <= n - offset(i)
    BY <2>1, <1>1, <1>2 DEF Lower
  <2>4. i * ChunkBytes = offset(i) + ChunkBytes /\ offset(i + 1) = i * ChunkBytes
    BY <1>2, <1>3
  <2>5. i = k => offset(i) + size(i) = n
    BY <1>1, <1>2, <1>3, <2>1, <2>2, <2>4 DEF Lower
  <2>6. i < k => offset(i + 1) = offset(i) + size(i)
    <3>1. SUFFICES ASSUME i < k PROVE size(i) = ChunkBytes
      BY <2>4
    <3>2. offset(i + 1) < n
      BY <1>3, <3>1
    <3> QED
      BY <1>1, <1>2, <2>1, <2>4, <3>2 DEF Lower
  <2>7. i = 1 => offset(i) = 0
    BY <1>2
  <2>8. size(i) \in Nat /\ offset(i) + size(i) <= n
    <3> HIDE DEF size, offset
    <3> QED
      BY <1>1, <1>2, <2>1, <2>2, <2>3
  <2> QED
    BY <2>5, <2>6, <2>7, <2>8
<1> HIDE DEF offset, size
<1>6. ASSUME NEW i \in 1 .. k
      PROVE  /\ ChunksOf(s)[i] \in Chunk
             /\ ChunksOf(s)[i].id = command.id /\ ChunksOf(s)[i].stream = s
             /\ ChunksOf(s)[i].offset = offset(i) /\ ChunksOf(s)[i].bytes = size(i)
  <2>1. ChunksOf(s)[i] = Output(command.id, s, offset(i), size(i))
    BY <1>4
  <2> QED
    BY <1>3, <1>5, <2>1 DEF Output
<1>7. ChunksOf(s) \in Seq(Chunk) /\ Len(ChunksOf(s)) = k
  <2> DEFINE cs == ChunksOf(s)
  <2>1. cs \in [1 .. k -> Chunk]
    <3>1. cs = [i \in 1 .. k |-> cs[i]]
      BY <1>4
    <3>2. \A i \in 1 .. k : cs[i] \in Chunk
      BY <1>6
    <3> HIDE DEF cs, Chunk
    <3> QED
      BY <3>1, <3>2
  <2> HIDE DEF cs, Chunk
  <2>2. cs \in Seq(Chunk) /\ Len(cs) = k
    BY <1>3, <2>1
  <2> QED
    BY <2>2 DEF cs
<1> QED
  BY <1>3, <1>5, <1>6, <1>7

(* The capture is laid down whole: standard output, then standard error. *)
LEMMA CaptureSteps == ASSUME Inv, PreserveCapture PROVE Inv'
<1> USE DEF Inv, Preparing, UnderWay, Reported, Written, Owning, Opening
<1>1. /\ pc = "capturing" /\ pc' = "idle" /\ job' = "recording"
      /\ chunks' = ChunksOf("out") \o ChunksOf("err")
      /\ UNCHANGED <<replay, refused, marker, released, pid, opening, active, periodic, command,
                     worker, result, reaper, alive>>
  BY DEF PreserveCapture, Rest, durableVars, authorityVars, workerVars
<1>2. Stage = "capturing" /\ Stage' = "recording"
  BY <1>1 DEF Stage
<1>3. ~opening /\ worker \in {"returned", "panicked"}
  BY <1>2 DEF Owner, Living
<1>4. /\ result.captures \in CaptureType /\ command \in CommandType
      /\ \A s \in Stream : s \notin Captured(command.action) => result.captures[s].bytes = 0
      /\ \A s \in Stream : replay.active.bytes[s] = 0
  BY <1>2, <1>3 DEF Honest, Known, Counted
<1> DEFINE Chunk == [kind : {"output"}, id : Nat, stream : Stream, offset : Nat, bytes : Nat]
           outs == ChunksOf("out")
           errs == ChunksOf("err")
           a == Len(outs)
           b == Len(errs)
           n == [s \in Stream |-> result.captures[s].bytes]
<1>5. command.id \in Nat
  BY <1>4 DEF CommandType
<1>6. /\ outs \in Seq(Chunk) /\ a \in Nat /\ (a = 0 <=> n["out"] = 0)
      /\ \A i \in 1 .. a :
            /\ outs[i].id = command.id /\ outs[i].stream = "out"
            /\ outs[i].offset + outs[i].bytes <= n["out"]
            /\ i = 1 => outs[i].offset = 0
            /\ i = a => outs[i].offset + outs[i].bytes = n["out"]
            /\ i < a => outs[i + 1].offset = outs[i].offset + outs[i].bytes
  BY <1>4, <1>5, ChunksChain DEF Stream
<1>7. /\ errs \in Seq(Chunk) /\ b \in Nat /\ (b = 0 <=> n["err"] = 0)
      /\ \A i \in 1 .. b :
            /\ errs[i].id = command.id /\ errs[i].stream = "err"
            /\ errs[i].offset + errs[i].bytes <= n["err"]
            /\ i = 1 => errs[i].offset = 0
            /\ i = b => errs[i].offset + errs[i].bytes = n["err"]
            /\ i < b => errs[i + 1].offset = errs[i].offset + errs[i].bytes
  BY <1>4, <1>5, ChunksChain DEF Stream
<1>8. chunks' = outs \o errs
  BY <1>1
<1> HIDE DEF outs, errs
<1>9. /\ chunks' \in Seq(Chunk) /\ Len(chunks') = a + b
      /\ \A i \in 1 .. a : chunks'[i] = outs[i]
      /\ \A i \in a + 1 .. a + b : chunks'[i] = errs[i - a]
  BY <1>6, <1>7, <1>8
<1>10. TypeOK' /\ Owner'
  BY <1>1, <1>2, <1>9 DEF TypeOK, Owner, PcName, JobName, Marked
<1>11. Known' /\ Honest' /\ Living' /\ Counted'
  BY <1>1, <1>2 DEF Known, Honest, Living, Counted, Marked
<1>12. \A s \in Stream : n[s] = result'.captures[s].bytes /\ replay'.active.bytes[s] = 0
  BY <1>1, <1>4
<1>13. \A i \in 1 .. a + b : chunks'[i].stream \in Stream
  <2>1. ASSUME NEW i \in 1 .. a + b PROVE chunks'[i] \in Chunk
    <3> HIDE DEF Chunk
    <3> QED
      BY <1>9
  <2> QED
    BY <2>1
<1>14. \A s \in Stream : s \notin Captured(command.action) => n[s] = 0
  BY <1>4
<1> HIDE DEF n, Chunk
<1>15. Chained'
  <2>1. ASSUME NEW i \in 1 .. a + b
        PROVE  /\ chunks'[i].id = command'.id
               /\ chunks'[i].offset + chunks'[i].bytes <= n[chunks'[i].stream]
               /\ chunks'[i].stream \in Captured(command'.action)
    <3>1. CASE i \in 1 .. a
      <4>1. n["out"] # 0
        BY <1>6, <3>1
      <4> QED
        BY <1>1, <1>6, <1>9, <1>14, <3>1, <4>1 DEF Stream
    <3>2. CASE i \in a + 1 .. a + b
      <4>1. i - a \in 1 .. b
        BY <1>6, <1>7, <3>2
      <4>2. n["err"] # 0
        BY <1>7, <4>1
      <4> QED
        BY <1>1, <1>7, <1>9, <1>14, <3>2, <4>1, <4>2 DEF Stream
    <3> QED
      BY <1>6, <1>7, <3>1, <3>2
  <2>2. ASSUME NEW i \in 1 .. (a + b) - 1
        PROVE  \/ chunks'[i + 1].stream = chunks'[i].stream
                    /\ chunks'[i + 1].offset = chunks'[i].offset + chunks'[i].bytes
               \/ chunks'[i].stream = "out" /\ chunks'[i + 1].stream = "err"
                    /\ chunks'[i + 1].offset = 0
                    /\ chunks'[i].offset + chunks'[i].bytes = n["out"]
    <3>1. CASE i < a
      <4>1. i \in 1 .. a /\ i + 1 \in 1 .. a
        BY <1>6, <1>7, <3>1
      <4>2. chunks'[i] = outs[i] /\ chunks'[i + 1] = outs[i + 1]
        BY <1>9, <4>1
      <4> QED
        BY <1>6, <3>1, <4>1, <4>2
    <3>2. CASE i = a
      <4>1. i \in 1 .. a /\ i + 1 \in a + 1 .. a + b /\ (i + 1) - a = 1 /\ 1 \in 1 .. b
        BY <1>6, <1>7, <3>2
      <4>2. chunks'[i] = outs[i] /\ chunks'[i + 1] = errs[1]
        BY <1>9, <4>1
      <4> QED
        BY <1>6, <1>7, <3>2, <4>1, <4>2
    <3>3. CASE i > a
      <4>1. i - a \in 1 .. b /\ (i - a) + 1 \in 1 .. b /\ (i + 1) - a = (i - a) + 1 /\ i - a < b
        BY <1>6, <1>7, <3>3
      <4>2. chunks'[i] = errs[i - a] /\ chunks'[i + 1] = errs[(i - a) + 1]
        BY <1>6, <1>7, <1>9, <3>3, <4>1
      <4> QED
        BY <1>7, <4>1, <4>2
    <3> QED
      BY <1>6, <3>1, <3>2, <3>3
  <2>3. ASSUME a > 0 \/ b > 0
        PROVE  /\ chunks'[1].offset = 0
               /\ chunks'[1].stream = "out" \/ (chunks'[1].stream = "err" /\ n["out"] = 0)
               /\ chunks'[a + b].offset + chunks'[a + b].bytes = n[chunks'[a + b].stream]
               /\ chunks'[a + b].stream = "out" => n["err"] = 0
    <3>1. /\ chunks'[1].offset = 0
          /\ chunks'[1].stream = "out" \/ (chunks'[1].stream = "err" /\ n["out"] = 0)
      <4>1. CASE a > 0
        <5>1. 1 \in 1 .. a /\ chunks'[1] = outs[1]
          BY <1>6, <1>9, <4>1
        <5> QED
          BY <1>6, <5>1
      <4>2. CASE a = 0 /\ b > 0
        <5>1. 1 \in 1 .. b /\ 1 \in a + 1 .. a + b /\ 1 - a = 1
          BY <1>7, <4>2
        <5>2. chunks'[1] = errs[1]
          BY <1>9, <5>1
        <5> QED
          BY <1>6, <1>7, <4>2, <5>1, <5>2
      <4> QED
        BY <1>6, <2>3, <4>1, <4>2
    <3>2. /\ chunks'[a + b].offset + chunks'[a + b].bytes = n[chunks'[a + b].stream]
          /\ chunks'[a + b].stream = "out" => n["err"] = 0
      <4>1. CASE b > 0
        <5>1. b \in 1 .. b /\ a + b \in a + 1 .. a + b /\ (a + b) - a = b
          BY <1>6, <1>7, <4>1
        <5>2. chunks'[a + b] = errs[b]
          BY <1>9, <5>1
        <5> QED
          BY <1>7, <5>1, <5>2
      <4>2. CASE b = 0 /\ a > 0
        <5>1. a \in 1 .. a /\ a + b = a
          BY <1>6, <4>2
        <5>2. chunks'[a + b] = outs[a]
          BY <1>9, <5>1
        <5> QED
          BY <1>6, <1>7, <4>2, <5>1, <5>2
      <4> QED
        BY <1>7, <2>3, <4>1, <4>2
    <3> QED
      BY <3>1, <3>2
  <2>4. chunks' = <<>> <=> a + b = 0
    BY <1>6, <1>7, <1>9
  <2>5. a + b = 0 => n["out"] = 0 /\ n["err"] = 0
    BY <1>6, <1>7
  <2> DEFINE first == chunks'[1]
             last == chunks'[a + b]
  <2>6. \A i \in 1 .. Len(chunks') :
              /\ chunks'[i].id = command'.id
              /\ chunks'[i].offset + chunks'[i].bytes <= result'.captures[chunks'[i].stream].bytes
              /\ chunks'[i].stream \in Captured(command'.action)
    BY <1>9, <1>12, <1>13, <2>1
  <2>7. \A i \in 1 .. Len(chunks') - 1 :
              \/ chunks'[i + 1].stream = chunks'[i].stream
                   /\ chunks'[i + 1].offset = chunks'[i].offset + chunks'[i].bytes
              \/ chunks'[i].stream = "out" /\ chunks'[i + 1].stream = "err"
                   /\ chunks'[i + 1].offset = 0
                   /\ chunks'[i].offset + chunks'[i].bytes = result'.captures["out"].bytes
    BY <1>9, <1>12, <2>2 DEF Stream
  <2>8. ASSUME chunks' # <<>>
        PROVE  /\ first.offset = replay'.active.bytes[first.stream]
               /\ first.stream = "out" => replay'.active.bytes["err"] = 0
               /\ first.stream = "err" =>
                     replay'.active.bytes["out"] = result'.captures["out"].bytes
               /\ last.offset + last.bytes = result'.captures[last.stream].bytes
               /\ last.stream = "out" => result'.captures["err"].bytes = 0
    <3>1. a > 0 \/ b > 0
      BY <1>6, <1>7, <2>4, <2>8
    <3>2. first.stream \in Stream /\ last.stream \in Stream
      <4>1. 1 \in 1 .. a + b /\ a + b \in 1 .. a + b
        BY <1>6, <1>7, <3>1
      <4> QED
        BY <1>13, <4>1
    <3> HIDE DEF first, last
    <3> QED
      BY <1>12, <2>3, <3>1, <3>2 DEF Stream, first, last
  <2>9. chunks' = <<>> => \A s \in Stream : replay'.active.bytes[s] = result'.captures[s].bytes
    BY <1>12, <2>4, <2>5 DEF Stream
  <2> QED
    BY <1>9, <2>6, <2>7, <2>8, <2>9 DEF Chained
<1> QED
  BY <1>10, <1>11, <1>15

-----------------------------------------------------------------------------
(* The next chunk continues what is recorded of its stream, and the one    *)
(* behind it continues that.                                               *)
LEMMA ChunkSteps == ASSUME Inv, RecordChunk PROVE Inv'
<1> USE DEF Inv, Preparing, UnderWay, Reported, Written, Owning, Opening
<1> DEFINE e == Head(chunks)
           k == Len(chunks)
           captures == result.captures
           bytes == replay.active.bytes
           Chunk == [kind : {"output"}, id : Nat, stream : Stream, offset : Nat, bytes : Nat]
<1>1. /\ pc = "recording" /\ chunks # <<>> /\ Record(<<e>>) /\ chunks' = Tail(chunks)
      /\ UNCHANGED <<pid, opening, active, command, worker, result, reaper, alive>>
  BY DEF RecordChunk, workerVars
<1>2. /\ Stage = "recording" /\ Stage' = "recording"
      /\ \/ pc' = "recording" /\ job' = "none"
         \/ pc' = "idle" /\ job' = "recording"
  <2>1. pc # "idle" /\ Stage = "recording" /\ job = "none"
    BY <1>1 DEF Stage, Owner
  <2>2. Goto("recording") \/ Rest("recording")
    BY Zenon DEF RecordChunk
  <2> QED
    BY <2>1, <2>2 DEF Goto, Rest, Stage
<1>3. ~opening /\ worker \in {"returned", "panicked"} /\ active /\ Marked /\ refused = FALSE
  BY <1>2 DEF Owner, Living, Known, TypeOK
<1>4. /\ captures \in CaptureType /\ Total(captures) <= command.limit
      /\ command \in CommandType
      /\ replay.active # None /\ command.id = replay.active.id
      /\ command.action = replay.active.action /\ command.limit = replay.active.limit
      /\ command.before = replay.active.before
      /\ replay.active.limit > 0 /\ replay.active.before < replay.tail
  BY <1>2, <1>3 DEF Honest, Known
<1>5. replay.active \in ActiveCommand
  BY <1>4 DEF TypeOK, ReplayState
<1>6. /\ k \in Nat /\ k > 0 /\ 1 \in 1 .. k /\ k \in 1 .. k /\ e = chunks[1]
      /\ chunks' \in Seq(Chunk)
      /\ Len(chunks') = k - 1 /\ \A i \in 1 .. k - 1 : chunks'[i] = chunks[i + 1]
      /\ chunks' = <<>> <=> k = 1
      /\ \A i \in 1 .. k : chunks[i] \in Chunk
  <2>1. chunks \in Seq(Chunk)
    BY DEF TypeOK
  <2> HIDE DEF Chunk
  <2>2. k \in Nat /\ k > 0
    BY <1>1, <2>1
  <2>3. chunks' \in Seq(Chunk) /\ Len(chunks') = k - 1
        /\ \A i \in 1 .. k - 1 : chunks'[i] = chunks[i + 1]
    BY <1>1, <2>1, <2>2
  <2>4. chunks' = <<>> <=> k = 1
    BY <2>2, <2>3
  <2>5. \A i \in 1 .. k : chunks[i] \in Chunk
    BY <2>1
  <2> QED
    BY <2>2, <2>3, <2>4, <2>5
<1>7. e \in Chunk /\ \A i \in 1 .. k : chunks[i].stream \in Stream
  BY <1>6
<1> HIDE DEF e, k
<1> DEFINE last == chunks[k]
<1>8. /\ e.id = command.id /\ e.stream \in Captured(command.action)
      /\ e.offset + e.bytes <= captures[e.stream].bytes
      /\ e.offset = bytes[e.stream]
      /\ e.stream = "out" => bytes["err"] = 0
      /\ e.stream = "err" => bytes["out"] = captures["out"].bytes
      /\ last.offset + last.bytes = captures[last.stream].bytes
      /\ last.stream = "out" => captures["err"].bytes = 0
  BY <1>1, <1>2, <1>6 DEF Chained, k
<1>9. /\ e.kind = "output" /\ e.stream \in Stream /\ e.offset \in Nat /\ e.bytes \in Nat
      /\ bytes \in [Stream -> Nat] /\ captures["out"].bytes \in Nat
      /\ captures["err"].bytes \in Nat /\ command.limit \in Nat
      /\ captures["out"].bytes + captures["err"].bytes <= command.limit
  BY <1>4, <1>5, <1>7 DEF ActiveCommand, CaptureType, Stream, CommandType, Total
<1>10. Recorded(replay) + e.bytes <= replay.active.limit
  <2>1. e.stream = "out" \/ e.stream = "err"
    BY <1>9 DEF Stream
  <2>2. bytes["out"] \in Nat /\ bytes["err"] \in Nat
    BY <1>9 DEF Stream
  <2> QED
    BY <1>4, <1>8, <1>9, <2>1, <2>2 DEF Recorded
<1>11. /\ Settled \in ReplayState /\ Settled.active = replay.active
       /\ Settled.output = replay.output /\ Settled.tail >= replay.tail
  BY SettledIs
<1>12. Accepts(Settled, e)
  <2>1. Recorded(Settled) = Recorded(replay)
    BY <1>11 DEF Recorded
  <2> QED
    BY <1>4, <1>8, <1>9, <1>10, <1>11, <2>1 DEF Accepts, AcceptsOutput
<1>13. /\ replay' = Applied(Settled, e) /\ refused' = FALSE /\ periodic' = FALSE
       /\ UNCHANGED <<marker, released>>
  BY <1>1, <1>3, <1>12, RecordsOne
<1>14. /\ replay' = [tail |-> Settled.tail + 1, link |-> Settled.link,
                     active |-> [replay.active EXCEPT !.bytes[e.stream] = @ + e.bytes],
                     finished |-> None, output |-> Settled.output + e.bytes]
  <2> HIDE DEF Settled
  <2> QED
    BY <1>9, <1>11, <1>13 DEF Applied
<1>15. /\ replay'.active = [replay.active EXCEPT !.bytes[e.stream] = @ + e.bytes]
       /\ replay'.tail = Settled.tail + 1
  <2> HIDE DEF Settled
  <2> QED
    BY <1>14
<1>16. /\ replay'.active \in ActiveCommand
       /\ replay'.active.id = replay.active.id /\ replay'.active.action = replay.active.action
       /\ replay'.active.before = replay.active.before /\ replay'.active.limit = replay.active.limit
       /\ replay'.active.bytes = [bytes EXCEPT ![e.stream] = @ + e.bytes]
  BY <1>5, <1>9, <1>15 DEF ActiveCommand
<1>17. replay'.active # None
  BY <1>16, ReplayAssumption
<1>18. replay' \in ReplayState
  <2> HIDE DEF Settled
  <2> QED
    BY <1>9, <1>11, <1>14, <1>15, <1>16 DEF ReplayState
<1>19. TypeOK'
  <2>1. job' \in JobName /\ pc' \in PcName
    BY <1>2 DEF PcName, JobName
  <2>2. chunks' \in Seq([kind : {"output"}, id : Nat, stream : Stream, offset : Nat, bytes : Nat])
    BY <1>6, Zenon
  <2>3. /\ marker' = marker /\ pid' = pid /\ refused' = FALSE /\ released' = released
        /\ active' = active /\ opening' = opening /\ periodic' = FALSE /\ alive' = alive
        /\ worker' = worker /\ reaper' = reaper
    BY <1>1, <1>13, Zenon
  <2> HIDE DEF Settled
  <2> QED
    BY <1>18, <2>1, <2>2, <2>3 DEF TypeOK
<1>20. Owner' /\ Honest' /\ Living' /\ Counted'
  BY <1>1, <1>2, <1>3, <1>13 DEF Owner, Honest, Living, Counted, Marked
<1>21. Known'
  <2>1. replay'.active.before < replay'.tail
    BY <1>4, <1>5, <1>11, <1>15, <1>16 DEF ActiveCommand, ReplayState, TypeOK
  <2> QED
    BY <1>1, <1>2, <1>3, <1>4, <1>13, <1>16, <1>17, <2>1 DEF Known, Marked
<1>22. /\ replay'.active.bytes[e.stream] = e.offset + e.bytes
       /\ \A s \in Stream : s # e.stream => replay'.active.bytes[s] = bytes[s]
  BY <1>8, <1>9, <1>16
<1>23. Chained'
  <2>1. \A i \in 1 .. k : /\ chunks[i].id = command.id /\ chunks[i].stream \in Stream
                          /\ chunks[i].offset + chunks[i].bytes <= captures[chunks[i].stream].bytes
                          /\ chunks[i].stream \in Captured(command.action)
    BY <1>2, <1>7 DEF Chained, k
  <2>2. \A i \in 1 .. k - 1 :
          \/ chunks[i + 1].stream = chunks[i].stream
               /\ chunks[i + 1].offset = chunks[i].offset + chunks[i].bytes
          \/ chunks[i].stream = "out" /\ chunks[i + 1].stream = "err"
               /\ chunks[i + 1].offset = 0
               /\ chunks[i].offset + chunks[i].bytes = captures["out"].bytes
    BY <1>2 DEF Chained, k
  <2>3. ASSUME NEW i \in 1 .. Len(chunks')
        PROVE  /\ chunks'[i].id = command'.id
               /\ chunks'[i].offset + chunks'[i].bytes <= result'.captures[chunks'[i].stream].bytes
               /\ chunks'[i].stream \in Captured(command'.action)
    <3>1. i \in 1 .. k - 1 /\ i + 1 \in 1 .. k
      BY <1>6
    <3> QED
      BY <1>1, <1>6, <2>1, <3>1
  <2>4. ASSUME NEW i \in 1 .. Len(chunks') - 1
        PROVE  \/ chunks'[i + 1].stream = chunks'[i].stream
                    /\ chunks'[i + 1].offset = chunks'[i].offset + chunks'[i].bytes
               \/ chunks'[i].stream = "out" /\ chunks'[i + 1].stream = "err"
                    /\ chunks'[i + 1].offset = 0
                    /\ chunks'[i].offset + chunks'[i].bytes = result'.captures["out"].bytes
    <3>1. i \in 1 .. k - 1 /\ i + 1 \in 1 .. k - 1
      BY <1>6
    <3>2. chunks'[i] = chunks[i + 1] /\ chunks'[i + 1] = chunks[(i + 1) + 1]
      BY <1>6, <3>1
    <3> QED
      BY <1>1, <2>2, <3>1, <3>2
  <2> DEFINE front == chunks'[1]
             back == chunks'[Len(chunks')]
  <2>5. ASSUME chunks' # <<>>
        PROVE  /\ front.offset = replay'.active.bytes[front.stream]
               /\ front.stream = "out" => replay'.active.bytes["err"] = 0
               /\ front.stream = "err" =>
                     replay'.active.bytes["out"] = result'.captures["out"].bytes
               /\ back.offset + back.bytes = result'.captures[back.stream].bytes
               /\ back.stream = "out" => result'.captures["err"].bytes = 0
    <3>1. 1 \in 1 .. k - 1 /\ k - 1 \in 1 .. k - 1 /\ (k - 1) + 1 = k /\ 1 + 1 = 2 /\ 2 \in 1 .. k
      BY <1>6, <2>5
    <3>2. front = chunks[2] /\ back = last
      BY <1>6, <3>1
    <3>3. /\ back.offset + back.bytes = result'.captures[back.stream].bytes
          /\ back.stream = "out" => result'.captures["err"].bytes = 0
      BY <1>1, <1>8, <3>2
    <3>4. \/ chunks[2].stream = e.stream /\ chunks[2].offset = e.offset + e.bytes
          \/ e.stream = "out" /\ chunks[2].stream = "err" /\ chunks[2].offset = 0
               /\ e.offset + e.bytes = captures["out"].bytes
      BY <1>6, <2>2, <3>1
    <3> HIDE DEF front, back
    <3>5. CASE front.stream = e.stream /\ front.offset = e.offset + e.bytes
      BY <1>1, <1>8, <1>9, <1>22, <3>3, <3>5 DEF Stream
    <3>6. CASE /\ e.stream = "out" /\ front.stream = "err" /\ front.offset = 0
               /\ e.offset + e.bytes = captures["out"].bytes
      BY <1>1, <1>8, <1>9, <1>22, <3>3, <3>6 DEF Stream
    <3> QED
      BY <3>2, <3>4, <3>5, <3>6
  <2>6. ASSUME chunks' = <<>>
        PROVE  \A s \in Stream : replay'.active.bytes[s] = result'.captures[s].bytes
    <3>1. e = last
      BY <1>6, <2>6
    <3> QED
      BY <1>1, <1>8, <1>9, <1>22, <3>1 DEF Stream
  <2> QED
    BY <2>3, <2>4, <2>5, <2>6 DEF Chained
<1> QED
  BY <1>19, <1>20, <1>21, <1>23

-----------------------------------------------------------------------------
(* The finish, alone or with a comparison behind it: replay accepts both.  *)
LEMMA RecordsTwo ==
    ASSUME NEW e, NEW f, Record(<<e, f>>), refused = FALSE,
           Accepts(Settled, e), Accepts(Applied(Settled, e), f)
    PROVE  /\ replay' = Applied(Applied(Settled, e), f) /\ refused' = FALSE /\ periodic' = FALSE
           /\ UNCHANGED <<marker, released>>
<1> DEFINE events == <<e, f>>
           first == Play([ok |-> TRUE, state |-> Settled], e)
           played == Play(first, f)
<1>1. Record(events) /\ Head(events) = e /\ events[2] = f /\ Len(events) # 1
  OBVIOUS
<1>2. first.state = Applied(Settled, e) /\ first.ok = TRUE
  BY DEF Play
<1>3. played.state = Applied(Applied(Settled, e), f) /\ played.ok = TRUE
  <2> HIDE DEF first
  <2> QED
    BY <1>2 DEF Play
<1>4. /\ replay' = played.state /\ refused' = (refused \/ ~played.ok)
      /\ periodic' = FALSE /\ UNCHANGED <<marker, released>>
  <2> HIDE DEF events
  <2> QED
    BY <1>1, Zenon DEF Record
<1> HIDE DEF events, first, played
<1> QED
  BY <1>3, <1>4

(* What a finish says was captured is what replay has counted, whether the *)
(* worker returned it or a later process found the command unfinished.     *)
LEMMA ConclusionIs ==
    ASSUME Inv, Stage = "finished"
    PROVE  /\ Conclusion.outcome \in Outcome /\ Conclusion.captures \in CaptureType
           /\ \A s \in Stream : Conclusion.captures[s].bytes = replay.active.bytes[s]
           /\ Conclusion.outcome = "OutputLimit" => Recorded(replay) = replay.active.limit
           /\ Recorded(replay) = replay.active.limit =>
                 \E s \in Stream : Conclusion.captures[s].completeness # "Complete"
<1> USE DEF Inv, Preparing, UnderWay, Reported, Written
<1>1. replay.active \in ActiveCommand /\ command.limit = replay.active.limit
  BY DEF Known, TypeOK, ReplayState
<1>2. CASE ~opening
  <2>1. Conclusion = result /\ worker \in {"returned", "panicked"}
    BY <1>2 DEF Conclusion, Living
  <2>2. /\ result.captures \in CaptureType /\ result.outcome \in Outcome
        /\ result.outcome = "OutputLimit" => Total(result.captures) = command.limit
        /\ Total(result.captures) = command.limit =>
              \E s \in Stream : result.captures[s].completeness # "Complete"
        /\ \A s \in Stream : replay.active.bytes[s] = result.captures[s].bytes
    BY <1>2, <2>1 DEF Honest, Counted
  <2>3. Recorded(replay) = Total(result.captures)
    BY <2>2 DEF Recorded, Total, Stream
  <2> QED
    BY <1>1, <2>1, <2>2, <2>3
<1>3. CASE opening
  <2> DEFINE n(s) == replay.active.bytes[s]
             how(s) == IF n(s) = 0 THEN "Unavailable" ELSE "Truncated"
  <2>1. /\ Conclusion.outcome = "Quit"
        /\ Conclusion.captures = [s \in Stream |-> Capture(n(s), how(s))]
    BY <1>3 DEF Conclusion, Interrupted
  <2>2. ASSUME NEW s \in Stream
        PROVE  /\ Conclusion.captures[s] = [bytes |-> n(s), completeness |-> how(s)]
               /\ n(s) \in Nat /\ how(s) \in Completeness /\ how(s) # "Complete"
    BY <1>1, <2>1 DEF ActiveCommand, Completeness, Capture
  <2> HIDE DEF n, how
  <2>3. Conclusion.captures \in CaptureType
    BY <2>1, <2>2 DEF CaptureType, Capture
  <2> QED
    BY <2>1, <2>2, <2>3 DEF n, Outcome, Termination, Stream
<1> QED
  BY <1>2, <1>3

LEMMA FinishAccepted ==
    ASSUME Inv, Stage = "finished", NEW e,
           e = Finished(command.id, command.action, AfterLink, Conclusion.outcome,
                        Conclusion.captures)
    PROVE  /\ Accepts(Settled, e) /\ Applied(Settled, e) \in ReplayState
           /\ Applied(Settled, e).active = None /\ Applied(Settled, e).finished # None
           /\ Applied(Settled, e).tail > replay.tail
           /\ Applied(Settled, e).finished =
                 [id |-> command.id, action |-> command.action, outcome |-> Conclusion.outcome,
                  completeness |-> Conclusion.captures["out"].completeness]
<1> USE DEF Inv, UnderWay
<1>1. /\ replay.active # None /\ command \in CommandType
      /\ command.id = replay.active.id /\ command.action = replay.active.action
      /\ replay.link = replay.tail /\ replay.active.before < replay.tail
      /\ replay \in ReplayState /\ replay.active \in ActiveCommand
  BY DEF Known, TypeOK, ReplayState
<1>2. Settled = replay
  BY SettledIs DEF Known
<1>3. /\ e.kind = "finished" /\ e.id = command.id /\ e.after = replay.link
      /\ e.outcome = Conclusion.outcome /\ e.captures = Conclusion.captures
      /\ e.modes = [s \in Stream |-> Mode(command.action, s)]
  BY DEF Finished, AfterLink
<1> DEFINE done == [id |-> command.id, action |-> command.action, outcome |-> Conclusion.outcome,
                    completeness |-> Conclusion.captures["out"].completeness]
<1>4. Accepts(Settled, e)
  <2>1. replay.link > replay.active.before
    BY <1>1 DEF ReplayState, ActiveCommand
  <2> QED
    BY <1>1, <1>2, <1>3, <2>1, ConclusionIs DEF Accepts, AcceptsFinish
<1>5. Applied(replay, e) =
        [tail |-> replay.tail + 1, link |-> replay.link, active |-> None,
         finished |-> done, output |-> replay.output]
  BY <1>1, <1>3 DEF Applied
<1>6. done \in FinishedCommand
  <2>1. Conclusion.outcome \in Outcome /\ Conclusion.captures["out"].completeness \in Completeness
    BY ConclusionIs DEF CaptureType, Stream
  <2>2. command.id \in Nat /\ command.action \in Action
    BY <1>1 DEF CommandType
  <2> QED
    BY <2>1, <2>2 DEF FinishedCommand
<1> HIDE DEF done
<1>7. done # None
  BY <1>6, ReplayAssumption
<1>8. Applied(replay, e) \in ReplayState /\ Applied(replay, e).tail > replay.tail
  BY <1>1, <1>5, <1>6 DEF ReplayState
<1>9. Applied(replay, e).active = None /\ Applied(replay, e).finished = done
  BY <1>5
<1> QED
  BY <1>2, <1>4, <1>7, <1>8, <1>9 DEF done

LEMMA FinishSteps == ASSUME Inv, RecordFinish PROVE Inv'
<1> USE DEF Inv, Preparing, UnderWay, Reported, Written, Owning, Opening
<1>1. /\ pc = "finished" /\ pc' = "unmarking" /\ job' = job
      /\ UNCHANGED <<pid, opening, active, command, chunks, worker, result, reaper, alive>>
  BY DEF RecordFinish, Goto, workerVars
<1>2. Stage = "finished" /\ Stage' = "unmarking"
  BY <1>1 DEF Stage
<1> DEFINE e == Finished(command.id, command.action, AfterLink, Conclusion.outcome,
                         Conclusion.captures)
           done == Applied(Settled, e)
<1>3. /\ Accepts(Settled, e) /\ done \in ReplayState /\ done.active = None
      /\ done.finished # None
      /\ done.finished =
            [id |-> command.id, action |-> command.action, outcome |-> Conclusion.outcome,
             completeness |-> Conclusion.captures["out"].completeness]
  BY <1>2, FinishAccepted
<1>4. \/ Record(<<e>>)
      \/ command.action = "case" /\ \E v \in Verdicts : Record(<<e, Compared(command.id, v)>>)
  BY DEF RecordFinish
<1> HIDE DEF e
<1>5. refused = FALSE
  BY DEF Known, TypeOK
<1>6. /\ replay' \in ReplayState /\ replay'.active = None /\ refused' = FALSE
      /\ periodic' = FALSE /\ UNCHANGED <<marker, released>>
  <2>1. CASE Record(<<e>>)
    BY <1>3, <1>5, <2>1, RecordsOne
  <2>2. CASE command.action = "case" /\ \E v \in Verdicts : Record(<<e, Compared(command.id, v)>>)
    <3>1. PICK v \in Verdicts : Record(<<e, Compared(command.id, v)>>)
      BY <2>2
    <3> DEFINE f == Compared(command.id, v)
    <3>2. f.kind = "compared" /\ f.id = command.id /\ f.verdict = v
      BY DEF Compared
    <3> HIDE DEF done
    <3>3. /\ done.finished.id = command.id /\ done.finished.action = "case"
          /\ done.finished.outcome = Conclusion.outcome
          /\ done.finished.completeness = Conclusion.captures["out"].completeness
      BY <1>3, <2>2
    <3> HIDE DEF f
    <3>4. Accepts(done, f)
      <4>1. AcceptsComparison(done, f)
        BY <1>3, <3>2, <3>3 DEF AcceptsComparison, Verdicts
      <4> QED
        BY <3>2, <4>1 DEF Accepts
    <3>5. /\ replay' = Applied(done, f) /\ refused' = FALSE /\ periodic' = FALSE
          /\ UNCHANGED <<marker, released>>
      BY <1>3, <1>5, <3>1, <3>4, RecordsTwo DEF done, f
    <3>6. Applied(done, f) =
            [tail |-> done.tail + 1, link |-> done.link, active |-> None, finished |-> None,
             output |-> done.output]
      BY <1>3, <3>2 DEF Applied
    <3>7. Applied(done, f) \in ReplayState /\ Applied(done, f).active = None
      BY <1>3, <3>6 DEF ReplayState
    <3> QED
      BY <3>5, <3>7
  <2> QED
    BY <1>4, <2>1, <2>2
<1>7. TypeOK' /\ Owner'
  BY <1>1, <1>2, <1>6 DEF TypeOK, Owner, PcName, Marked
<1>8. Known' /\ Honest' /\ Living' /\ Chained' /\ Counted'
  BY <1>1, <1>2, <1>6 DEF Known, Honest, Living, Chained, Counted, Marked
<1> QED
  BY <1>7, <1>8

-----------------------------------------------------------------------------
LEMMA NextPreserves == Inv /\ [Next]_vars => Inv'
<1> SUFFICES ASSUME Inv, [Next]_vars PROVE Inv'
  OBVIOUS
<1>1. CASE UNCHANGED vars
  BY <1>1, AsideSteps DEF vars, durableVars, authorityVars, callVars, userVars, workerVars,
     sessionVars
<1>2. CASE Cancel \/ Quit \/ ProbeLingers
  BY <1>2, AsideSteps DEF Cancel, Quit, ProbeLingers, durableVars, authorityVars, callVars,
     userVars, workerVars, sessionVars
<1>3. CASE Edit \/ Reconcile \/ ApplyEdit \/ PeriodicLands \/ StartPeriodic
  BY <1>3, RecordSteps
<1>4. CASE \/ \E a \in Action : Begin(a)
           \/ Claim \/ SpawnResolver \/ PollPreparing \/ PrepareFails \/ SpawnWorker
  BY <1>4, PrepareSteps
<1>5. CASE PollRunning \/ PollReaping \/ PollRecording \/ OutputRecorded \/ EditsApplied
  BY <1>5, PollSteps
<1>6. CASE AbandonRecording \/ StepFails
  BY <1>6, FailingSteps
<1>7. CASE Abandon \/ Save \/ FinishBoundary \/ RecordResumed
  BY <1>7, BoundarySteps
<1>8. CASE Clear \/ Unmark \/ Disown
  BY <1>8, UnclaimSteps
<1>9. CASE Leave \/ Crash \/ ResumeFails
  BY <1>9, VanishSteps
<1>10. CASE \E p \in Pid : Resume(p)
  BY <1>10, ResumeSteps
<1>11. CASE Worker \/ WorkerStep(Launch \/ Probe \/ Die \/ Escape \/ StraysEnd)
  BY <1>11, WorkerSteps
<1>12. CASE RecordStarted
  BY <1>12, StartSteps
<1>13. CASE PreserveCapture
  BY <1>13, CaptureSteps
<1>14. CASE RecordChunk
  BY <1>14, ChunkSteps
<1>15. CASE RecordFinish
  BY <1>15, FinishSteps
<1> QED
  BY <1>1, <1>2, <1>3, <1>4, <1>5, <1>6, <1>7, <1>8, <1>9, <1>10, <1>11, <1>12, <1>13, <1>14,
     <1>15 DEF Next, CallStep, Poll

LEMMA InvAlways == Spec => []Inv
<1>1. Inv /\ [Next]_vars => Inv'
  BY NextPreserves
<1> QED
  BY <1>1, InitHolds, PTL DEF Spec

(* The replay engine accepts every event that the session appends for a    *)
(* command, in whatever order chunks, reconciliations, edits, failures,    *)
(* crashes and resumptions come.                                           *)
THEOREM ReplayAlwaysAccepts == Spec => []ReplayAccepts
<1>1. Inv => ReplayAccepts
  BY DEF Inv, Known, ReplayAccepts
<1> QED
  BY <1>1, InvAlways, PTL

(* While a process of a command is alive, or a command unfinished, the     *)
(* durable marker says so, and the workspace is only given back, and a     *)
(* command only recorded, when every process of its group is gone.         *)
THEOREM NeverOrphans == Spec => []NoOrphans
<1>1. Inv => NoOrphans
  <2> SUFFICES ASSUME Inv PROVE NoOrphans
    OBVIOUS
  <2>1. (alive => Marked) /\ (replay.active # None => Marked)
    BY DEF Inv, Living, Known
  <2>2. ASSUME pid # None, ~active \/ (pc = "idle" /\ job \in {"none", "recording"}), alive
        PROVE  FALSE
    <3>1. worker \in {"probing", "working"} \/ reaper = "working"
      BY <2>2 DEF Inv, Living
    <3>2. Stage \in {"preparing", "running", "reaping"}
      BY <3>1 DEF Inv, Living
    <3>3. active
      BY <3>2 DEF Inv, Owner, Owning, Preparing, UnderWay
    <3> QED
      BY <2>2, <3>2, <3>3 DEF Stage
  <2> QED
    BY <2>1, <2>2 DEF NoOrphans
<1> QED
  BY <1>1, InvAlways, PTL
=============================================================================
