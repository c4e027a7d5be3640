---------------------------- MODULE CommandReplay ----------------------------
(***************************************************************************)
(* crates/replay/src/command.rs: what the replay engine demands of the     *)
(* events a controlled command leaves in the journal.                      *)
(*                                                                         *)
(* A session whose journal holds one event that Accepts refuses can never  *)
(* be replayed, resumed or finalized again, so this is the contract the    *)
(* recording side (ControlledCommand.tla) has to keep whatever the command *)
(* and the user do.  A replay state summarises the durable prefix: `tail'  *)
(* is its length, `link' the sequence of its last checkpoint, `active' the *)
(* command without a finish, `finished' the command finished by the very   *)
(* last event, `output' the bytes all commands have recorded.  Clocks,     *)
(* argument vectors, hashes of trees and test files are left out, and so   *)
(* are the command events of older journals (legacy_active), which no      *)
(* session writes any more.                                                *)
(***************************************************************************)
EXTENDS Naturals, Sequences

CONSTANTS
    None,
    SessionOutput       \* MAX_SESSION_COMMAND_OUTPUT_BYTES

Stream == {"out", "err"}

(* What is run: a Cargo action, a console Run with its output sent to a    *)
(* file, a packaged test case, or one that returns edits (Format, Add...). *)
Action == {"run", "redirected", "case", "tool"}

Captured(action) == IF action = "redirected" THEN {"err"} ELSE Stream
Mode(action, s) == IF s \in Captured(action) THEN "captured" ELSE "redirected"

(* CommandTermination; the outcome of a command is one of these, its exit, *)
(* or a launch that failed.                                                *)
Termination ==
    {"Cancelled", "Quit", "Deadline", "OutputLimit", "CaptureFailure", "Signal",
     "CleanupFailure"}
Outcome == Termination \cup {"success", "failure", "LaunchFailed"}
Completeness == {"Complete", "Truncated", "Unavailable", "ReadFailed"}

(* What replay remembers of the command under way and of the last one.     *)
ActiveCommand == [id : Nat, action : Action, before : Nat, limit : Nat, bytes : [Stream -> Nat]]
FinishedCommand ==
    [id : Nat, action : Action, outcome : Outcome, completeness : Completeness]

ASSUME ReplayAssumption == None \notin ActiveCommand \cup FinishedCommand

Capture(n, how) == [bytes |-> n, completeness |-> how]
NoCapture == [s \in Stream |-> Capture(0, "Unavailable")]
Total(captures) == captures["out"].bytes + captures["err"].bytes

-----------------------------------------------------------------------------
(* Events, as far as commands are concerned; `plain' is any event that is  *)
(* neither a command's nor allowed while one is active.                    *)
Checkpoint == [kind |-> "checkpoint"]
Plain == [kind |-> "plain"]
Reconciled == [kind |-> "reconciled"]
ToolEdit == [kind |-> "edited"]
Started(id, action, before, limit) ==
    [kind |-> "started", id |-> id, action |-> action, before |-> before, limit |-> limit]
Output(id, s, offset, n) ==
    [kind |-> "output", id |-> id, stream |-> s, offset |-> offset, bytes |-> n]
Finished(id, action, after, outcome, captures) ==
    [kind |-> "finished", id |-> id, after |-> after, outcome |-> outcome,
     captures |-> captures, modes |-> [s \in Stream |-> Mode(action, s)]]
Compared(id, verdict) == [kind |-> "compared", id |-> id, verdict |-> verdict]

Genesis == [tail |-> 2, link |-> 2, active |-> None, finished |-> None, output |-> 0]

-----------------------------------------------------------------------------
Recorded(r) == r.active.bytes["out"] + r.active.bytes["err"]

(* A command starts right behind the checkpoint of the tree it starts from,*)
(* and never while another is active.                                      *)
AcceptsStart(r, e) ==
    /\ r.active = None
    /\ e.id = r.tail + 1
    /\ e.before = r.link
    /\ e.before + 1 = e.id
    /\ r.output + e.limit <= SessionOutput

AcceptsOutput(r, e) ==
    /\ r.active # None
    /\ e.id = r.active.id
    /\ e.stream \in Captured(r.active.action)
    /\ e.offset = r.active.bytes[e.stream]
    /\ Recorded(r) + e.bytes <= r.active.limit

(* It finishes right behind a checkpoint of its own, with the byte counts  *)
(* of the output recorded, and at its limit it never claims completeness.  *)
AcceptsFinish(r, e) ==
    /\ r.active # None
    /\ e.id = r.active.id
    /\ e.after = r.link
    /\ e.after = r.tail
    /\ e.after > r.active.before
    /\ \A s \in Stream : e.captures[s].bytes = r.active.bytes[s]
    /\ e.modes = [s \in Stream |-> Mode(r.active.action, s)]
    /\ e.outcome = "OutputLimit" => Recorded(r) = r.active.limit
    /\ Recorded(r) = r.active.limit =>
        \E s \in Stream : e.captures[s].completeness # "Complete"

(* The verdict a comparison must give: an error, unless the command        *)
(* succeeded and its standard output is complete; then it may also be that *)
(* what was expected could not be read, which ControlledCommand never      *)
(* records: a case whose expected file is bad is not launched.             *)
RequiredError(outcome, completeness) ==
    IF outcome \in Termination THEN "Terminated"
    ELSE IF outcome # "success" THEN outcome
    ELSE IF completeness # "Complete" THEN completeness
    ELSE None

AcceptsComparison(r, e) ==
    /\ r.finished # None
    /\ e.id = r.finished.id
    /\ r.finished.action = "case"
    /\ LET required == RequiredError(r.finished.outcome, r.finished.completeness)
       IN  IF required = None THEN e.verdict \in {"pass", "mismatch", "ExpectedUnreadable", "ExpectedOversized"}
           ELSE e.verdict = required

Accepts(r, e) ==
    \/ e.kind = "started" /\ AcceptsStart(r, e)
    \/ e.kind = "output" /\ AcceptsOutput(r, e)
    \/ e.kind = "finished" /\ AcceptsFinish(r, e)
    \/ e.kind = "compared" /\ AcceptsComparison(r, e)
    \/ e.kind = "edited" /\ r.active # None /\ r.active.action = "tool"
    \/ e.kind \in {"checkpoint", "reconciled"}
    \/ e.kind = "plain" /\ r.active = None

(***************************************************************************)
(* CommandReplay::applied.  Every event but a finish forgets the command   *)
(* that finished last, so that a comparison can only follow immediately.   *)
(***************************************************************************)
Applied(r, e) ==
    [tail |-> r.tail + 1,
     link |-> IF e.kind = "checkpoint" THEN r.tail + 1 ELSE r.link,
     active |->
        CASE e.kind = "started" ->
                [id |-> e.id, action |-> e.action, before |-> e.before,
                 limit |-> e.limit, bytes |-> [s \in Stream |-> 0]]
          [] e.kind = "output" ->
                [r.active EXCEPT !.bytes[e.stream] = @ + e.bytes]
          [] e.kind = "finished" -> None
          [] OTHER -> r.active,
     finished |->
        IF e.kind = "finished"
        THEN [id |-> e.id, action |-> r.active.action, outcome |-> e.outcome,
              completeness |-> e.captures["out"].completeness]
        ELSE None,
     output |-> IF e.kind = "output" THEN r.output + e.bytes ELSE r.output]
=============================================================================
