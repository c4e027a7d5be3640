------------------------ MODULE CommandProcessProofs ------------------------
(***************************************************************************)
(* The worker thread of a command keeps the contract the session relies    *)
(* on, and its captures are honest: for any limit, and whatever the        *)
(* program writes, forks and leaves behind between two steps of the thread.*)
(*                                                                         *)
(* The argument: a capture that still claims to be complete accounts for   *)
(* every byte written, read or still in its pipe, and is closed only once  *)
(* the pipe is empty and nobody will write to it; and whatever the thread  *)
(* takes for a reason to stop remains one, whatever happens afterwards.    *)
(***************************************************************************)
EXTENDS CommandProcess, TLAPS

Exit == {"success", "failure", "Signal"}
CaptureType == [bytes : Nat, completeness : Completeness]

Locals ==
    [action : {"run", "redirected"}, limit : Nat \ {0}, captures : [Stream -> CaptureType],
     open : SUBSET Stream, reason : Termination \cup {None}, exit : Exit \cup {None},
     cleaning : BOOLEAN, absent : BOOLEAN]

TypeOK ==
    /\ worker \in {"entered", "unwinding", "returned", "panicked"} \cup Looping
    /\ reaper \in {"none", "working", "done"}
    /\ group \subseteq {"leader", "child"}
    /\ reaped \in BOOLEAN /\ escaped \in BOOLEAN /\ late \in BOOLEAN
    /\ pipe \in [Stream -> Nat] /\ produced \in [Stream -> Nat]
    /\ cancel \in 0 .. 2
    /\ command \in [action : {"run", "redirected"}, limit : {OutputLimit}]

(* What the captures of the locals x.exec say of the bytes in x.pipe and   *)
(* of those ever written.                                                  *)
Accounted(x, s) ==
    LET c == x.exec.captures[s]
    IN  IF s \in Captured(x.exec.action)
        THEN /\ c.completeness # "Unavailable"
             /\ s \in x.exec.open => c.completeness = "Complete"
             /\ c.completeness = "Complete" =>
                   /\ c.bytes + x.pipe[s] = produced[s]
                   /\ s \notin x.exec.open => x.pipe[s] = 0
        ELSE c = NoCapture[s] /\ s \notin x.exec.open

Limited(x) ==
    /\ Total(x.exec.captures) <= x.exec.limit
    /\ Total(x.exec.captures) = x.exec.limit
          <=> (\E s \in Stream : x.exec.captures[s].completeness = "Truncated")

(* The reason to stop still stands. *)
Stands(x) ==
    /\ x.exec.reason = "Quit" => cancel = 2
    /\ x.exec.reason = "Cancelled" => cancel # 0
    /\ x.exec.reason = "OutputLimit" => Total(x.exec.captures) = x.exec.limit
    /\ x.exec.reason = "CaptureFailure" =>
          \E s \in Stream : x.exec.captures[s].completeness = "ReadFailed"
    /\ x.exec.reason # "Signal"

Sound(x) ==
    /\ x.exec \in Locals /\ x.pipe \in [Stream -> Nat]
    /\ x.exec.action = command.action /\ x.exec.limit = command.limit
    /\ \A s \in Stream : Accounted(x, s)
    /\ Limited(x) /\ Stands(x)

Now == [exec |-> exec, pipe |-> pipe]

(* Where the processes of the group are. *)
Watched ==
    /\ "leader" \in group => ~reaped
    /\ worker = "entered" => group = {} /\ exec = Fresh(command.action, command.limit)
                             /\ pipe = Silent /\ produced = Silent
    /\ worker \in Looping => (exec.exit # None <=> reaped) /\ (exec.absent => GroupAbsent)
    /\ worker \notin {"returned", "panicked"} => reaper = "none"

(* What the turn has found when it comes to signal the group. *)
Decided ==
    worker = "signalling" /\ exec.reason = None =>
        /\ Total(exec.captures) # exec.limit
        /\ \A s \in Stream : exec.captures[s].completeness # "ReadFailed"

Inv == TypeOK /\ Watched /\ Decided /\ (worker \in Looping => Sound(Now))

-----------------------------------------------------------------------------
USE ProcessAssumption

LEMMA StreamsAre == Stream = {"out", "err"} /\ "out" \in Stream /\ "err" \in Stream
  BY DEF Stream

(* One stream's capture becomes c, and is closed perhaps.                  *)
Becomes(x, y, s, c, open, left) ==
    /\ s \in x.exec.open /\ c \in CaptureType /\ left \in Nat
    /\ open \in {x.exec.open, x.exec.open \ {s}}
    /\ y.exec = [x.exec EXCEPT !.captures[s] = c, !.open = open]
    /\ y.pipe = [x.pipe EXCEPT ![s] = left]
    /\ c.completeness # "Unavailable"
    /\ s \in open => c.completeness = "Complete"
    /\ c.completeness = "Complete" =>
           c.bytes + left = produced[s] /\ (s \notin open => left = 0)
    /\ c.bytes >= x.exec.captures[s].bytes
    /\ Limited(y)

LEMMA OneStream ==
    ASSUME NEW x, NEW y, NEW s \in Stream, NEW c, NEW open, NEW left,
           Sound(x), Becomes(x, y, s, c, open, left)
    PROVE  Sound(y)
<1> USE DEF Becomes
<1>1. x.exec \in Locals /\ x.pipe \in [Stream -> Nat]
  BY DEF Sound
<1>2. y.exec \in Locals /\ y.pipe \in [Stream -> Nat]
  <2> DEFINE captures == [x.exec.captures EXCEPT ![s] = c]
  <2>1. captures \in [Stream -> CaptureType] /\ open \in SUBSET Stream
    BY <1>1 DEF Locals
  <2>2. y.exec = [x.exec EXCEPT !.captures = captures, !.open = open]
    OBVIOUS
  <2> HIDE DEF captures
  <2>3. y.exec \in Locals
    BY <1>1, <2>1, <2>2 DEF Locals
  <2> QED
    BY <1>1, <2>3
<1>3. /\ y.exec.action = x.exec.action /\ y.exec.limit = x.exec.limit /\ y.exec.open = open
      /\ y.exec.reason = x.exec.reason
      /\ y.exec.captures = [x.exec.captures EXCEPT ![s] = c]
  BY <1>1 DEF Locals
<1>4. ASSUME NEW r \in Stream PROVE Accounted(y, r)
  <2>1. CASE r = s
    <3>1. s \in Captured(x.exec.action)
      BY DEF Sound, Accounted
    <3>2. y.exec.captures[s] = c /\ y.pipe[s] = left
      BY <1>1, <1>3 DEF Locals
    <3> QED
      BY <1>3, <2>1, <3>1, <3>2 DEF Accounted
  <2>2. CASE r # s
    <3>1. y.exec.captures[r] = x.exec.captures[r] /\ y.pipe[r] = x.pipe[r]
      BY <1>1, <1>3, <2>2 DEF Locals
    <3>2. r \in open <=> r \in x.exec.open
      BY <2>2
    <3>3. Accounted(x, r)
      BY DEF Sound
    <3> QED
      BY <1>3, <3>1, <3>2, <3>3 DEF Accounted
  <2> QED
    BY <2>1, <2>2
<1>5. Stands(y)
  <2>1. Stands(x) /\ Limited(x) /\ Accounted(x, s)
    BY DEF Sound
  <2>2. Total(x.exec.captures) <= Total(y.exec.captures)
    <3>1. \A r \in Stream : x.exec.captures[r].bytes \in Nat
      BY <1>1 DEF Locals, CaptureType
    <3>2. \A r \in Stream : /\ y.exec.captures[r].bytes \in Nat
                            /\ x.exec.captures[r].bytes <= y.exec.captures[r].bytes
      BY <1>1, <1>3, <3>1 DEF Locals, CaptureType
    <3> HIDE <1>3
    <3> QED
      BY <3>1, <3>2, StreamsAre DEF Total
  <2>3. ASSUME NEW r \in Stream, x.exec.captures[r].completeness = "ReadFailed"
        PROVE  y.exec.captures[r].completeness = "ReadFailed"
    <3>1. r # s
      BY <2>3, Accounted(x, s) DEF Sound, Accounted
    <3> QED
      BY <1>1, <1>3, <2>3, <3>1 DEF Locals
  <2>4. x.exec.reason = "OutputLimit" => Total(y.exec.captures) = y.exec.limit
    <3>1. Total(y.exec.captures) \in Nat /\ Total(x.exec.captures) \in Nat /\ y.exec.limit \in Nat
      BY <1>1, <1>2, StreamsAre DEF Locals, CaptureType, Total
    <3> QED
      BY <1>3, <2>1, <2>2, <3>1 DEF Stands, Limited
  <2> QED
    BY <1>3, <2>1, <2>3, <2>4 DEF Stands
<1> QED
  BY <1>2, <1>3, <1>4, <1>5 DEF Sound

LEMMA TotalMoves ==
    ASSUME NEW captures \in [Stream -> CaptureType], NEW s \in Stream, NEW c \in CaptureType
    PROVE  /\ Total(captures) \in Nat
           /\ captures[s].bytes \in Nat /\ captures[s].bytes <= Total(captures)
           /\ Total([captures EXCEPT ![s] = c]) = Total(captures) - captures[s].bytes + c.bytes
  BY StreamsAre DEF Total, CaptureType

(* What a read keeps. *)
LEMMA KeptSound ==
    ASSUME NEW x, Sound(x), NEW s \in Stream, s \in x.exec.open, NEW n \in 1 .. x.pipe[s]
    PROVE  Sound(Kept(x, s, n))
<1> DEFINE before == x.exec.captures[s]
           left == x.exec.limit - Total(x.exec.captures)
           full == n >= left
           bytes == before.bytes + (IF full THEN left ELSE n)
           c == Capture(bytes, IF full THEN "Truncated" ELSE before.completeness)
           open == IF full THEN x.exec.open \ {s} ELSE x.exec.open
           y == Kept(x, s, n)
<1>1. /\ x.exec \in Locals /\ x.pipe \in [Stream -> Nat] /\ Limited(x) /\ Accounted(x, s)
      /\ x.exec.captures \in [Stream -> CaptureType] /\ x.exec.limit \in Nat
  BY DEF Sound, Locals
<1>2. /\ Total(x.exec.captures) \in Nat /\ left \in Nat /\ before.bytes \in Nat
      /\ before \in CaptureType /\ n \in Nat /\ x.pipe[s] \in Nat /\ n <= x.pipe[s]
  BY <1>1, TotalMoves DEF Limited, CaptureType
<1>3. before.completeness = "Complete" /\ before.bytes + x.pipe[s] = produced[s]
  BY <1>1 DEF Accounted
<1>4. bytes \in Nat /\ bytes >= before.bytes /\ c \in CaptureType /\ c.bytes = bytes
  <2>1. bytes \in Nat /\ bytes >= before.bytes
    BY <1>2
  <2> HIDE DEF bytes
  <2> QED
    BY <1>2, <2>1 DEF c, Capture, CaptureType, Completeness
<1>5. /\ y.exec = [x.exec EXCEPT !.captures[s] = c, !.open = open]
      /\ y.pipe = [x.pipe EXCEPT ![s] = @ - n]
  BY <1>1 DEF Kept, Locals
<1>6. c.completeness = IF full THEN "Truncated" ELSE "Complete"
  BY <1>3 DEF Capture
<1>7. Limited(y)
  <2> DEFINE captures == [x.exec.captures EXCEPT ![s] = c]
  <2>1. y.exec.captures = captures /\ y.exec.limit = x.exec.limit
    BY <1>1, <1>5 DEF Locals
  <2>2. Total(captures) = Total(x.exec.captures) - before.bytes + bytes
    BY <1>1, <1>4, TotalMoves
  <2>3. /\ Total(captures) <= x.exec.limit
        /\ Total(captures) = x.exec.limit <=> full
    <3> HIDE DEF captures
    <3> QED
      BY <1>1, <1>2, <2>2
  <2>4. (\E r \in Stream : captures[r].completeness = "Truncated") <=> full
    <3>1. captures[s].completeness = IF full THEN "Truncated" ELSE "Complete"
      BY <1>1, <1>6
    <3>2. CASE full
      BY <3>1, <3>2
    <3>3. CASE ~full
      <4>1. Total(x.exec.captures) # x.exec.limit
        BY <1>1, <1>2, <3>3
      <4>2. \A r \in Stream : x.exec.captures[r].completeness # "Truncated"
        BY <1>1, <4>1 DEF Limited
      <4>3. \A r \in Stream : captures[r].completeness # "Truncated"
        BY <1>1, <3>1, <3>3, <4>2
      <4> QED
        BY <3>3, <4>3
    <3> QED
      BY <3>2, <3>3
  <2> HIDE DEF captures, full
  <2> QED
    BY <2>1, <2>3, <2>4 DEF Limited
<1>8. c.completeness = "Complete" => c.bytes + (x.pipe[s] - n) = produced[s] /\ s \in open
  BY <1>2, <1>3, <1>4, <1>6
<1>9. x.pipe[s] - n \in Nat /\ y.pipe = [x.pipe EXCEPT ![s] = x.pipe[s] - n]
  BY <1>1, <1>2, <1>5
<1>10. /\ s \in open => c.completeness = "Complete"
       /\ c.completeness # "Unavailable"
       /\ open \in {x.exec.open, x.exec.open \ {s}}
  BY <1>6
<1> HIDE DEF c, y, open
<1>11. Becomes(x, y, s, c, open, x.pipe[s] - n)
  BY <1>4, <1>5, <1>7, <1>8, <1>9, <1>10 DEF Becomes
<1>12. Sound(y)
  BY <1>11, OneStream
<1> QED
  BY <1>12 DEF y

(* A stream that is done: at the end of the file, or after an error. *)
LEMMA ClosedSound ==
    ASSUME NEW x, Sound(x), NEW s \in Stream, s \in x.exec.open, NEW y,
           y = [x EXCEPT !.exec.open = @ \ {s}], x = [exec |-> x.exec, pipe |-> x.pipe],
           x.pipe[s] = 0
    PROVE  Sound(y)
<1> DEFINE c == x.exec.captures[s]
           open == x.exec.open \ {s}
<1>1. /\ x.exec \in Locals /\ x.pipe \in [Stream -> Nat] /\ Limited(x) /\ Accounted(x, s)
      /\ c \in CaptureType /\ x.exec.captures \in [Stream -> CaptureType]
  BY DEF Sound, Locals
<1>2. c.completeness = "Complete" /\ c.bytes + 0 = produced[s] /\ c.bytes \in Nat
  BY <1>1 DEF Accounted, CaptureType
<1>3. [x.exec.captures EXCEPT ![s] = c] = x.exec.captures
  BY <1>1
<1>4. /\ y.exec = [x.exec EXCEPT !.captures[s] = c, !.open = open]
      /\ y.pipe = [x.pipe EXCEPT ![s] = 0]
  <2>1. y.exec = [x.exec EXCEPT !.open = open] /\ y.pipe = x.pipe
    OBVIOUS
  <2>2. [x.exec EXCEPT !.captures[s] = c, !.open = open] = [x.exec EXCEPT !.open = open]
    BY <1>1, <1>3 DEF Locals
  <2> QED
    BY <1>1, <2>1, <2>2
<1>5. Limited(y)
  <2>1. y.exec.captures = x.exec.captures /\ y.exec.limit = x.exec.limit
    BY <1>1, <1>3, <1>4 DEF Locals
  <2> QED
    BY <1>1, <2>1 DEF Limited
<1>6. Becomes(x, y, s, c, open, 0)
  BY <1>1, <1>2, <1>4, <1>5 DEF Becomes
<1> HIDE DEF c, open
<1> QED
  BY <1>6, OneStream

LEMMA BrokenSound ==
    ASSUME NEW x, Sound(x), NEW s \in Stream, s \in x.exec.open, NEW y,
           x = [exec |-> x.exec, pipe |-> x.pipe],
           y = [x EXCEPT !.exec = [x.exec EXCEPT !.open = x.exec.open \ {s},
                                                 !.captures[s].completeness = "ReadFailed"]]
    PROVE  Sound(y)
<1> DEFINE before == x.exec.captures[s]
           c == Capture(before.bytes, "ReadFailed")
           open == x.exec.open \ {s}
<1>1. /\ x.exec \in Locals /\ x.pipe \in [Stream -> Nat] /\ Limited(x) /\ Accounted(x, s)
      /\ before \in CaptureType /\ x.exec.captures \in [Stream -> CaptureType]
      /\ x.exec.limit \in Nat
  BY DEF Sound, Locals
<1>2. before.completeness = "Complete" /\ before.bytes \in Nat
  BY <1>1 DEF Accounted, CaptureType
<1>3. c \in CaptureType /\ c.bytes = before.bytes /\ c.completeness = "ReadFailed"
      /\ c = [before EXCEPT !.completeness = "ReadFailed"]
  BY <1>1, <1>2 DEF Capture, CaptureType, Completeness
<1>4. /\ y.exec = [x.exec EXCEPT !.captures[s] = c, !.open = open]
      /\ y.pipe = [x.pipe EXCEPT ![s] = x.pipe[s]]
  <2>1. y.exec = [x.exec EXCEPT !.open = open, !.captures[s] = [@ EXCEPT !.completeness = "ReadFailed"]]
    OBVIOUS
  <2>2. y.exec = [x.exec EXCEPT !.open = open, !.captures[s] = c]
    BY <1>3, <2>1
  <2>3. y.pipe = x.pipe
    OBVIOUS
  <2> QED
    BY <1>1, <2>2, <2>3 DEF Locals
<1>5. Limited(y)
  <2> DEFINE captures == [x.exec.captures EXCEPT ![s] = c]
  <2>1. y.exec.captures = captures /\ y.exec.limit = x.exec.limit
    BY <1>1, <1>4 DEF Locals
  <2>2. Total(captures) = Total(x.exec.captures)
    BY <1>1, <1>2, <1>3, TotalMoves
  <2>3. (\E r \in Stream : captures[r].completeness = "Truncated")
           = (\E r \in Stream : x.exec.captures[r].completeness = "Truncated")
    BY <1>1, <1>2, <1>3
  <2> HIDE DEF captures
  <2> QED
    BY <1>1, <2>1, <2>2, <2>3 DEF Limited
<1>6. x.pipe[s] \in Nat
  BY <1>1
<1> HIDE DEF c
<1>7. Becomes(x, y, s, c, open, x.pipe[s])
  BY <1>2, <1>3, <1>4, <1>5, <1>6 DEF Becomes
<1> HIDE DEF open
<1> QED
  BY <1>7, OneStream

LEMMA DrainedSound ==
    ASSUME NEW x, Sound(x), x = [exec |-> x.exec, pipe |-> x.pipe], NEW s \in Stream,
           NEW y \in Drained(x, s)
    PROVE  /\ Sound(y) /\ y = [exec |-> y.exec, pipe |-> y.pipe]
           /\ y.exec.exit = x.exec.exit /\ y.exec.absent = x.exec.absent
<1>1. x.exec \in Locals /\ x.pipe \in [Stream -> Nat]
  BY DEF Sound
<1>2. CASE s \notin x.exec.open
  BY <1>2 DEF Drained
<1>3. CASE s \in x.exec.open
  <2> DEFINE closed == [x EXCEPT !.exec.open = @ \ {s}]
             broken == [closed EXCEPT !.exec.captures[s].completeness = "ReadFailed"]
  <2>1. CASE y = broken
    <3>1. y = [x EXCEPT !.exec = [x.exec EXCEPT !.open = x.exec.open \ {s},
                                                !.captures[s].completeness = "ReadFailed"]]
      BY <1>1, <2>1 DEF Locals
    <3> HIDE DEF closed, broken
    <3>2. Sound(y)
      BY <1>3, <3>1, BrokenSound
    <3> QED
      BY <1>1, <3>1, <3>2 DEF Locals
  <2>2. CASE x.pipe[s] > 0 /\ \E n \in 1 .. x.pipe[s] : y = Kept(x, s, n)
    <3>1. PICK n \in 1 .. x.pipe[s] : y = Kept(x, s, n)
      BY <2>2
    <3>2. Sound(y)
      BY <1>3, <3>1, KeptSound
    <3> QED
      BY <1>1, <3>1, <3>2 DEF Kept, Locals
  <2>3. CASE x.pipe[s] = 0 /\ y = x
    BY <2>3
  <2>4. CASE x.pipe[s] = 0 /\ y = closed
    <3>1. Sound(y)
      BY <1>3, <2>4, ClosedSound
    <3> QED
      BY <1>1, <2>4, <3>1 DEF Locals
  <2>5. x.pipe[s] \in Nat
    BY <1>1
  <2> QED
    BY <1>3, <2>1, <2>2, <2>3, <2>4, <2>5 DEF Drained
<1> QED
  BY <1>2, <1>3

-----------------------------------------------------------------------------
(***************************************************************************)
(* The steps.                                                              *)
(***************************************************************************)
LEMMA SoundStays ==
    ASSUME Sound(Now), UNCHANGED <<exec, pipe, produced, command>>,
           cancel = 2 => cancel' = 2, cancel # 0 => cancel' # 0
    PROVE  Sound(Now)'
<1>1. Now' = Now
  BY DEF Now
<1>2. ASSUME NEW s \in Stream PROVE Accounted(Now, s)'
  <2>1. Accounted(Now, s)
    BY DEF Sound
  <2> QED
    BY <1>1, <2>1 DEF Accounted
<1>3. Limited(Now)' /\ Stands(Now)'
  BY <1>1 DEF Sound, Limited, Stands
<1> QED
  BY <1>1, <1>2, <1>3 DEF Sound

LEMMA InvTypes ==
    Inv => /\ (worker \in Looping \cup {"entered"} => exec \in Locals)
           /\ (worker \in Looping => exec.captures \in [Stream -> CaptureType])
           /\ command.action \in {"run", "redirected"} /\ command.limit = OutputLimit
<1> SUFFICES ASSUME Inv
             PROVE  /\ (worker \in Looping \cup {"entered"} => exec \in Locals)
                    /\ (worker \in Looping => exec.captures \in [Stream -> CaptureType])
                    /\ command.action \in {"run", "redirected"} /\ command.limit = OutputLimit
  OBVIOUS
<1>1. command.action \in {"run", "redirected"} /\ command.limit = OutputLimit
  BY DEF Inv, TypeOK
<1>2. CASE worker = "entered"
  <2>1. exec = Fresh(command.action, command.limit)
    BY <1>2 DEF Inv, Watched
  <2>2. [s \in Stream |-> Capture(0, IF s \in Captured(command.action) THEN "Complete"
                                      ELSE "Unavailable")] \in [Stream -> CaptureType]
    BY DEF Capture, CaptureType, Completeness
  <2>3. Captured(command.action) \in SUBSET Stream
    BY DEF Captured, Stream
  <2> QED
    BY <1>1, <1>2, <2>1, <2>2, <2>3 DEF Fresh, Locals, Looping
<1>3. CASE worker \in Looping
  BY <1>1, <1>3 DEF Inv, Sound, Now, Locals, Looping
<1> QED
  BY <1>1, <1>2, <1>3 DEF Looping

LEMMA WriteSteps ==
    ASSUME Inv, NEW s \in Stream, Write(s), UNCHANGED request PROVE Inv'
<1> USE DEF Write, request, threads
<1>1. TypeOK'
  BY DEF Inv, TypeOK
<1>2. Watched' /\ Decided'
  BY DEF Inv, Watched, Decided, Looping, GroupAbsent
<1>3. worker \in Looping /\ ~EndOfFile(s) /\ Sound(Now)
  BY DEF Inv
<1>4. /\ Now'.exec = Now.exec /\ Now'.pipe = [Now.pipe EXCEPT ![s] = @ + 1]
      /\ produced' = [produced EXCEPT ![s] = @ + 1]
      /\ Now.pipe \in [Stream -> Nat] /\ produced \in [Stream -> Nat]
      /\ Now.exec \in Locals
  BY <1>3 DEF Now, Sound, Inv, TypeOK
<1>5. ASSUME NEW r \in Stream PROVE Accounted(Now, r)'
  <2>1. Accounted(Now, r)
    BY <1>3 DEF Sound
  <2>2. Now.exec.captures[r].bytes \in Nat /\ Now.pipe[r] \in Nat /\ produced[r] \in Nat
    BY <1>4 DEF Locals, CaptureType
  <2>3. CASE r = s
    <3>1. Now'.pipe[r] = Now.pipe[r] + 1 /\ produced'[r] = produced[r] + 1
      BY <1>4, <2>3
    <3> QED
      BY <1>3, <1>4, <2>1, <2>2, <2>3, <3>1 DEF Accounted, EndOfFile, Now
  <2>4. CASE r # s
    <3>1. Now'.pipe[r] = Now.pipe[r] /\ produced'[r] = produced[r]
      BY <1>4, <2>4
    <3> QED
      BY <1>3, <1>4, <2>1, <3>1 DEF Accounted
  <2> QED
    BY <2>3, <2>4
<1>6. Limited(Now)' /\ Stands(Now)'
  BY <1>3, <1>4 DEF Sound, Limited, Stands
<1>7. Sound(Now)'
  BY <1>3, <1>4, <1>5, <1>6 DEF Sound
<1> QED
  BY <1>1, <1>2, <1>7 DEF Inv

(* Programs come and go. *)
Quiet ==
    /\ UNCHANGED <<worker, exec, result, reaper, pipe, produced, reaped, command>>
    /\ group' \subseteq {"leader", "child"} /\ escaped' \in BOOLEAN /\ cancel' \in 0 .. 2
    /\ ("leader" \in group' => "leader" \in group) /\ (group = {} => group' = {})
    /\ (cancel = 2 => cancel' = 2) /\ (cancel # 0 => cancel' # 0)

LEMMA QuietSteps ==
    ASSUME Inv,
           \/ (Fork \/ Escape \/ EscapedExits \/ \E p \in group : Die(p)) /\ UNCHANGED request
           \/ TimePasses /\ UNCHANGED request
           \/ Ask
           \/ UNCHANGED vars
    PROVE  Inv'
<1> USE DEF Fork, Escape, EscapedExits, Die, TimePasses, Ask, request, threads, system, vars
<1>0. Quiet
  <2> USE DEF Inv, TypeOK, Quiet
  <2>1. CASE Fork /\ UNCHANGED request
    BY <2>1
  <2>2. CASE Escape /\ UNCHANGED request
    BY <2>2
  <2>3. CASE EscapedExits /\ UNCHANGED request
    BY <2>3
  <2>4. ASSUME NEW p \in group, Die(p), UNCHANGED request PROVE Quiet
    BY <2>4
  <2>5. CASE TimePasses /\ UNCHANGED request
    BY <2>5
  <2>6. CASE Ask
    BY <2>6
  <2>7. CASE UNCHANGED vars
    BY <2>7
  <2> QED
    BY <2>1, <2>2, <2>3, <2>4, <2>5, <2>6, <2>7
<1>1. TypeOK'
  BY <1>0 DEF Inv, TypeOK, Quiet
<1>2. Watched' /\ Decided'
  BY <1>0 DEF Inv, TypeOK, Watched, Decided, Looping, GroupAbsent, Quiet
<1>3. ASSUME worker \in Looping PROVE Sound(Now)'
  BY <1>0, <1>3, SoundStays DEF Inv, Quiet
<1>4. worker' = worker
  BY <1>0 DEF Quiet
<1> QED
  BY <1>1, <1>2, <1>3, <1>4 DEF Inv

(* A thread that returns leaves nothing to account for. *)
LEMMA ReturnSteps ==
    ASSUME Inv, NEW state \in {"returned", "panicked"}, NEW r, Return(state, r),
           reaper' \in {"none", "working", "done"}, UNCHANGED <<group, reaped, escaped>>,
           UNCHANGED request
    PROVE  Inv'
  BY DEF Inv, TypeOK, Watched, Decided, Looping, Return, Silent, request

LEMMA LaunchSteps == ASSUME Inv, Launch, UNCHANGED request PROVE Inv'
<1> USE DEF Launch, request
<1>1. TypeOK'
  BY DEF Inv, TypeOK, Looping
<1>2. exec = Fresh(command.action, command.limit) /\ pipe = Silent /\ produced = Silent
  BY DEF Inv, Watched
<1>3. /\ exec.exit = None /\ exec.absent = FALSE /\ exec.reason = None
      /\ exec.action = command.action /\ exec.limit = command.limit
      /\ exec.open = Captured(command.action)
      /\ exec.captures = [s \in Stream |->
            Capture(0, IF s \in Captured(command.action) THEN "Complete" ELSE "Unavailable")]
  BY <1>2 DEF Fresh
<1>4. Watched' /\ Decided'
  BY <1>3 DEF Inv, Watched, Decided, Looping
<1>5. exec \in Locals /\ command.limit = OutputLimit
  BY InvTypes
<1>6. \A s \in Stream : Accounted(Now, s)'
  BY <1>2, <1>3 DEF Accounted, Now, Silent, Capture, NoCapture
<1>7. Total(exec.captures) = 0 /\ \A s \in Stream : exec.captures[s].completeness # "Truncated"
  BY <1>3, StreamsAre DEF Total, Capture
<1>8. Limited(Now)' /\ Stands(Now)'
  <2>1. Now'.exec = exec
    BY DEF Now
  <2>2. exec.limit \in Nat \ {0}
    BY <1>5 DEF Locals
  <2>3. Limited(Now)'
    BY <1>7, <2>1, <2>2 DEF Limited
  <2>4. None \notin Termination
    BY DEF Outcome
  <2> QED
    BY <1>3, <2>1, <2>3, <2>4 DEF Stands, Termination
<1>9. Sound(Now)'
  BY <1>1, <1>3, <1>5, <1>6, <1>8 DEF Sound, Now, TypeOK
<1> QED
  BY <1>1, <1>4, <1>9 DEF Inv

LEMMA DrainSteps == ASSUME Inv, Drain, UNCHANGED request PROVE Inv'
<1> USE DEF Drain, request
<1>1. Sound(Now) /\ Now = [exec |-> Now.exec, pipe |-> Now.pipe] /\ Now.exec = exec
  BY DEF Inv, Looping, Now
<1>2. PICK x \in Drained(Now, "out") :
         \E y \in Drained(x, "err") : exec' = y.exec /\ pipe' = y.pipe
  BY DEF Now
<1>3. PICK y \in Drained(x, "err") : exec' = y.exec /\ pipe' = y.pipe
  BY <1>2
<1>4. /\ Sound(x) /\ x = [exec |-> x.exec, pipe |-> x.pipe]
      /\ x.exec.exit = exec.exit /\ x.exec.absent = exec.absent
  BY <1>1, <1>2, DrainedSound, StreamsAre
<1>5. /\ Sound(y) /\ y = [exec |-> y.exec, pipe |-> y.pipe]
      /\ y.exec.exit = exec.exit /\ y.exec.absent = exec.absent
  BY <1>3, <1>4, DrainedSound, StreamsAre
<1>6. Now' = y
  BY <1>3, <1>5 DEF Now
<1>7. Sound(Now)'
  <2>1. ASSUME NEW s \in Stream PROVE Accounted(Now, s)'
    <3>1. Accounted(y, s)
      BY <1>5 DEF Sound
    <3> QED
      BY <1>6, <3>1 DEF Accounted
  <2>2. Limited(Now)' /\ Stands(Now)'
    BY <1>5, <1>6 DEF Sound, Limited, Stands
  <2> QED
    BY <1>5, <1>6, <2>1, <2>2 DEF Sound
<1>8. TypeOK'
  <2>1. pipe' \in [Stream -> Nat]
    BY <1>3, <1>5 DEF Sound
  <2> QED
    BY <2>1 DEF Inv, TypeOK, Looping
<1>9. Watched' /\ Decided'
  BY <1>3, <1>5 DEF Inv, Watched, Decided, Looping, GroupAbsent
<1> QED
  BY <1>7, <1>8, <1>9 DEF Inv

(* What a reason found by a turn says of its captures and of the flag. *)
Reasoned(reason) ==
    /\ reason \in Termination \cup {None}
    /\ reason = "Quit" => cancel = 2
    /\ reason = "Cancelled" => cancel # 0
    /\ reason = "OutputLimit" => Total(exec.captures) = exec.limit
    /\ reason = "CaptureFailure" => \E s \in Stream : exec.captures[s].completeness = "ReadFailed"
    /\ reason # "Signal"
    /\ reason = None => /\ Total(exec.captures) # exec.limit
                        /\ \A s \in Stream : exec.captures[s].completeness # "ReadFailed"

LEMMA FindingSteps ==
    ASSUME Inv, worker = "watching", worker' = "signalling",
           NEW status \in Exit \cup {None}, NEW reason, Reasoned(reason),
           status # None <=> reaped', reaped' \in BOOLEAN, reaped => reaped',
           "leader" \in group => ~reaped',
           exec' = [exec EXCEPT !.exit = status, !.reason = reason],
           UNCHANGED <<result, reaper, group, killed, escaped, pipe, produced, late, request>>
    PROVE  Inv'
<1> USE DEF request
<1>1. Sound(Now) /\ exec \in Locals
  BY InvTypes DEF Inv, Looping
<1>2. Stands(Now) /\ Limited(Now)
  BY <1>1 DEF Sound
<1>3. /\ exec' \in Locals /\ exec'.exit = status /\ exec'.reason = reason
      /\ exec'.captures = exec.captures /\ exec'.limit = exec.limit /\ exec'.open = exec.open
      /\ exec'.action = exec.action /\ exec'.absent = exec.absent
  BY <1>1 DEF Locals, Reasoned
<1>4. Sound(Now)'
  <2>1. \A s \in Stream : Accounted(Now, s)'
    BY <1>1, <1>3 DEF Sound, Accounted, Now
  <2>2. Limited(Now)' /\ Stands(Now)'
    BY <1>2, <1>3 DEF Limited, Stands, Now, Reasoned
  <2> QED
    BY <1>1, <1>3, <2>1, <2>2 DEF Sound, Now
<1>5. TypeOK'
  BY DEF Inv, TypeOK, Looping
<1>6. Watched' /\ Decided'
  BY <1>3 DEF Inv, Watched, Decided, Looping, GroupAbsent, Reasoned
<1> QED
  BY <1>4, <1>5, <1>6 DEF Inv

LEMMA WatchSteps == ASSUME Inv, Watch, UNCHANGED request PROVE Inv'
<1> DEFINE exits == "leader" \notin group /\ ~reaped
<1>1. /\ worker = "watching" /\ worker' = "signalling"
      /\ UNCHANGED <<result, reaper, group, killed, escaped, pipe, produced, late, request>>
      /\ reaped \in BOOLEAN /\ ("leader" \in group => ~reaped)
  BY DEF Watch, Inv, TypeOK, Watched
<1>2. /\ exec \in Locals /\ exec.captures \in [Stream -> CaptureType] /\ Stands(Now)
      /\ (exec.exit # None <=> reaped)
  BY <1>1, InvTypes DEF Inv, Sound, Watched, Looping
<1>3. None \notin Termination \cup {"Signal"} \cup Exit
  BY DEF Exit, Outcome, Termination
<1>4. ASSUME exec.reason # None PROVE Reasoned(exec.reason)
  BY <1>2, <1>4 DEF Stands, Now, Locals, Reasoned
<1>5. CASE \E status \in IF exits THEN {"success", "failure", "Signal"} ELSE {exec.exit} :
             /\ reaped' = (reaped \/ exits)
             /\ exec' = [exec EXCEPT !.exit = status, !.reason = StopReason(reaped')]
  <2>1. PICK status \in IF exits THEN {"success", "failure", "Signal"} ELSE {exec.exit} :
             /\ reaped' = (reaped \/ exits)
             /\ exec' = [exec EXCEPT !.exit = status, !.reason = StopReason(reaped')]
    BY <1>5
  <2>2. status \in Exit \cup {None} /\ (status # None <=> reaped')
    BY <1>1, <1>2, <1>3, <2>1 DEF Locals, Exit
  <2> DEFINE reason == StopReason(reaped')
  <2>3. ASSUME exec.reason = None PROVE Reasoned(reason)
    <3>1. Total(exec.captures) \in Nat /\ exec.limit \in Nat
      BY <1>2, TotalMoves, StreamsAre DEF Locals, Total, CaptureType
    <3>2. reason \in {"Quit", "Cancelled", "OutputLimit", "CaptureFailure", "Deadline", None}
      BY <2>3 DEF StopReason
    <3>3. /\ reason = "Quit" => cancel = 2
          /\ reason = "Cancelled" => cancel = 1
          /\ reason = "OutputLimit" => Remaining = 0
          /\ reason = "CaptureFailure" => ReadFailed
          /\ reason = None => Remaining # 0 /\ ~ReadFailed
      BY <1>3, <2>3 DEF StopReason, Termination
    <3> HIDE DEF reason
    <3> QED
      BY <1>3, <3>1, <3>2, <3>3 DEF Remaining, ReadFailed, Termination, Reasoned
  <2>4. Reasoned(reason)
    BY <1>4, <2>3 DEF StopReason
  <2>5. exec' = [exec EXCEPT !.exit = status, !.reason = reason]
    BY <2>1
  <2> HIDE DEF reason
  <2> QED
    BY <1>1, <2>1, <2>2, <2>4, <2>5, FindingSteps
<1>6. CASE /\ ~reaped /\ UNCHANGED reaped
           /\ exec' = [exec EXCEPT !.reason = IF @ = None THEN "CleanupFailure" ELSE @]
  <2> DEFINE reason == IF exec.reason = None THEN "CleanupFailure" ELSE exec.reason
  <2>1. Reasoned(reason)
    BY <1>3, <1>4 DEF Reasoned, Termination
  <2>2. exec' = [exec EXCEPT !.exit = exec.exit, !.reason = reason]
    BY <1>2, <1>6 DEF Locals
  <2>3. exec.exit \in Exit \cup {None}
    BY <1>2 DEF Locals
  <2> HIDE DEF reason
  <2> QED
    BY <1>1, <1>2, <1>6, <2>1, <2>2, <2>3, FindingSteps
<1> QED
  BY <1>5, <1>6 DEF Watch

(* A turn that ends the loop, or goes on with what it has found. *)
LEMMA SignalSteps == ASSUME Inv, Signal, UNCHANGED request PROVE Inv'
<1> USE DEF request
<1>1. PICK killFails \in BOOLEAN, probeFails \in BOOLEAN :
        LET cleaning == exec.cleaning \/ exec.reason # None \/ exec.exit # None
            kill == cleaning /\ ~exec.cleaning
            probe == cleaning /\ ~exec.absent
            absent == exec.absent \/ (probe /\ ~probeFails /\ GroupAbsent)
            reason == IF killFails \/ probeFails THEN "CleanupFailure" ELSE exec.reason
            confirmed == exec.exit # None /\ absent
            overdue == exec.cleaning /\ late
        IN  \/ /\ Done(absent)
               /\ Return("returned", Result(Ended(reason), exec.captures, TRUE))
               /\ UNCHANGED reaper
            \/ /\ ~Done(absent) /\ overdue
               /\ Return("returned",
                         Result(Overdue(reason, confirmed),
                                [s \in Stream |-> FinalCapture(s)], confirmed))
               /\ reaper' = IF confirmed THEN "none" ELSE "working"
            \/ /\ ~Done(absent) /\ ~overdue
               /\ exec' = [exec EXCEPT !.cleaning = cleaning, !.absent = absent,
                                       !.reason = reason]
               /\ worker' = "reading"
               /\ late' = (late /\ exec.cleaning = cleaning)
               /\ UNCHANGED <<result, reaper, pipe, produced>>
  BY ZenonT(30) DEF Signal
<1>2. UNCHANGED <<group, reaped, escaped>> /\ worker = "signalling"
  BY DEF Signal
<1>3. /\ exec \in Locals /\ Sound(Now) /\ reaper \in {"none", "working", "done"}
      /\ (exec.exit # None <=> reaped) /\ (exec.absent => GroupAbsent) /\ late \in BOOLEAN
  BY <1>2, InvTypes DEF Inv, Looping, Watched, TypeOK
<1> DEFINE cleaning == exec.cleaning \/ exec.reason # None \/ exec.exit # None
           absent == exec.absent \/ (cleaning /\ ~exec.absent /\ ~probeFails /\ GroupAbsent)
           reason == IF killFails \/ probeFails THEN "CleanupFailure" ELSE exec.reason
<1>4. CASE \E r : Return("returned", r) /\ reaper' \in {reaper, "none", "working"}
  <2>1. PICK r : Return("returned", r)
    BY <1>4
  <2>2. reaper' \in {"none", "working", "done"}
    BY <1>3, <1>4
  <2> QED
    BY <1>2, <2>1, <2>2, ReturnSteps
<1>5. CASE /\ exec' = [exec EXCEPT !.cleaning = cleaning, !.absent = absent, !.reason = reason]
           /\ worker' = "reading" /\ late' = (late /\ exec.cleaning = cleaning)
           /\ UNCHANGED <<result, reaper, pipe, produced>>
  <2>1. cleaning \in BOOLEAN /\ absent \in BOOLEAN /\ reason \in Termination \cup {None}
    BY <1>3 DEF Locals, Termination
  <2>2. (absent => GroupAbsent) /\ reason \in {exec.reason, "CleanupFailure"}
    BY <1>3
  <2> HIDE DEF cleaning, absent, reason
  <2>3. /\ exec' \in Locals /\ exec'.reason = reason /\ exec'.absent = absent
        /\ exec'.captures = exec.captures /\ exec'.limit = exec.limit
        /\ exec'.open = exec.open /\ exec'.action = exec.action /\ exec'.exit = exec.exit
    BY <1>3, <1>5, <2>1 DEF Locals
  <2>4. \A s \in Stream : Accounted(Now, s)'
    BY <1>2, <1>3, <1>5, <2>3 DEF Sound, Accounted, Now
  <2>5. Limited(Now)' /\ Stands(Now)'
    <3>1. None \notin Termination
      BY DEF Outcome
    <3> QED
      BY <1>3, <2>2, <2>3 DEF Sound, Limited, Stands, Now
  <2>6. Sound(Now)'
    BY <1>3, <1>5, <2>3, <2>4, <2>5 DEF Sound, Now
  <2>7. TypeOK'
    BY <1>2, <1>5 DEF Inv, TypeOK, Looping
  <2>8. Watched' /\ Decided'
    BY <1>2, <1>3, <1>5, <2>2, <2>3 DEF Inv, Watched, Decided, Looping, GroupAbsent
  <2> QED
    BY <2>6, <2>7, <2>8 DEF Inv
<1> QED
  BY <1>1, <1>4, <1>5

LEMMA CleanUpSteps == ASSUME Inv, CleanUp, UNCHANGED request PROVE Inv'
<1> USE DEF CleanUp, request, threads, Cleaning
<1>1. worker \notin Looping /\ worker # "entered" /\ worker' = worker
  BY DEF Inv, Watched, Looping
<1>2. TypeOK'
  BY DEF Inv, TypeOK
<1>3. Watched' /\ Decided'
  BY <1>1 DEF Inv, Watched, Decided, Looping
<1> QED
  BY <1>1, <1>2, <1>3 DEF Inv

LEMMA ConfirmSteps == ASSUME Inv, ConfirmCleanup, UNCHANGED request PROVE Inv'
<1> USE DEF ConfirmCleanup, request, Cleaning
<1>1. CASE reaper = "working"
  <2>1. worker \in {"returned", "panicked"} /\ worker' = worker
    BY <1>1 DEF Inv, Watched
  <2>2. TypeOK'
    BY <1>1 DEF Inv, TypeOK
  <2> QED
    BY <1>1, <2>1, <2>2 DEF Inv, Watched, Decided, Looping
<1>2. CASE reaper # "working"
  <2>1. Return("panicked", Unwound) /\ reaper' \in {"none", "working", "done"}
    BY <1>2 DEF Inv, TypeOK
  <2> QED
    BY <2>1, ReturnSteps
<1> QED
  BY <1>1, <1>2

LEMMA PanicSteps == ASSUME Inv, Panic, UNCHANGED request PROVE Inv'
<1> USE DEF Panic, request, threads, system
<1>1. CASE worker = "entered"
  <2>1. /\ Return("panicked", Unwound) /\ reaper' \in {"none", "working", "done"}
        /\ UNCHANGED <<group, reaped, escaped>>
    BY <1>1 DEF Inv, TypeOK, Looping
  <2> QED
    BY <2>1, ReturnSteps
<1>2. CASE worker \in Looping
  <2>1. worker' = "unwinding" /\ UNCHANGED <<exec, result, reaper, system, late>>
    BY <1>2 DEF Looping
  <2> QED
    BY <1>2, <2>1 DEF Inv, TypeOK, Watched, Decided, Looping
<1> QED
  BY <1>1, <1>2

LEMMA InvInit == Init => Inv
<1> SUFFICES ASSUME Init PROVE Inv
  OBVIOUS
<1> USE DEF Init
<1>1. TypeOK
  <2>1. Silent \in [Stream -> Nat]
    BY DEF Silent
  <2>2. command \in [action : {"run", "redirected"}, limit : {OutputLimit}]
    OBVIOUS
  <2>3. reaped \in BOOLEAN /\ escaped \in BOOLEAN /\ late \in BOOLEAN
    BY Zenon
  <2>4. /\ worker = "entered" /\ reaper = "none" /\ group = {} /\ cancel = 0
        /\ pipe = Silent /\ produced = Silent
    OBVIOUS
  <2> HIDE DEF Init
  <2> QED
    BY <2>1, <2>2, <2>3, <2>4 DEF TypeOK
<1>2. worker = "entered" /\ exec = Fresh(command.action, command.limit)
  OBVIOUS
<1> QED
  BY <1>1, <1>2 DEF Inv, Watched, Decided, Looping

LEMMA InvNext == Inv /\ [Next]_vars => Inv'
<1> SUFFICES ASSUME Inv, [Next]_vars PROVE Inv'
  OBVIOUS
<1>1. CASE Unasked(WorkerStep)
  <2>1. UNCHANGED request /\ WorkerStep
    BY <1>1 DEF Unasked
  <2>2. CASE EnterCancelled \/ LaunchFails
    <3>1. PICK r : Return("returned", r)
      BY <2>2 DEF EnterCancelled, LaunchFails
    <3>2. reaper' \in {"none", "working", "done"} /\ UNCHANGED <<group, reaped, escaped>>
      BY <2>2 DEF EnterCancelled, LaunchFails, Inv, TypeOK
    <3> QED
      BY <2>1, <3>1, <3>2, ReturnSteps
  <2> QED
    BY <2>1, <2>2, LaunchSteps, DrainSteps, WatchSteps, SignalSteps, CleanUpSteps, ConfirmSteps
       DEF WorkerStep
<1>2. CASE Unasked(ProgramStep)
  BY <1>2, WriteSteps, QuietSteps DEF Unasked, ProgramStep
<1>3. CASE Unasked(TimePasses) \/ Ask \/ UNCHANGED vars
  BY <1>3, QuietSteps DEF Unasked
<1>4. CASE Unasked(Panic)
  BY <1>4, PanicSteps DEF Unasked
<1> QED
  BY <1>1, <1>2, <1>3, <1>4 DEF Next, Unasked

THEOREM InvAlways == Spec => []Inv
  BY InvInit, InvNext, PTL DEF Spec

-----------------------------------------------------------------------------
(***************************************************************************)
(* What the thread returns.                                                *)
(***************************************************************************)

(* The contract speaks of streams and captures as this module does. *)
LEMMA SameWords ==
    /\ W!Stream = Stream /\ W!NoCapture = NoCapture /\ W!Completeness = Completeness
    /\ \A c : W!Total(c) = Total(c)
    /\ \A a : W!Captured(a) = Captured(a)
    /\ \A o, c, b : W!Result(o, c, b) = Result(o, c, b)
  BY DEF W!Stream, Stream, W!NoCapture, NoCapture, W!Completeness, Completeness, W!Total, Total,
         W!Captured, Captured, W!Result, Result, W!Capture, Capture

(* Captures the thread may hand over, given what it has accounted for.     *)
LEMMA CapturesAllowed ==
    ASSUME Inv, worker \in Looping, NEW captures \in [Stream -> CaptureType],
           \A s \in Stream :
              \/ captures[s] = exec.captures[s]
              \/ s \in exec.open /\ captures[s] = [exec.captures[s] EXCEPT !.completeness = "ReadFailed"]
    PROVE  captures \in W!Captures(command.action, command.limit)
<1>1. /\ Sound(Now) /\ exec \in Locals /\ exec.action = command.action
      /\ exec.limit = command.limit /\ Limited(Now) /\ Now.exec = exec
      /\ exec.captures \in [Stream -> CaptureType] /\ command.limit \in Nat
  BY InvTypes DEF Inv, Sound, Now, Locals
<1>2. ASSUME NEW s \in Stream
      PROVE  /\ captures[s].bytes = exec.captures[s].bytes
             /\ captures[s].completeness = "Truncated"
                  <=> exec.captures[s].completeness = "Truncated"
             /\ IF s \in Captured(command.action) THEN captures[s].completeness # "Unavailable"
                ELSE captures[s] = NoCapture[s]
  <2>1. Accounted(Now, s) /\ exec.captures[s] \in CaptureType
    BY <1>1 DEF Sound
  <2>2. CASE captures[s] = exec.captures[s]
    BY <1>1, <2>1, <2>2 DEF Accounted
  <2>3. CASE s \in exec.open
              /\ captures[s] = [exec.captures[s] EXCEPT !.completeness = "ReadFailed"]
    BY <1>1, <2>1, <2>3 DEF Accounted, CaptureType
  <2> QED
    BY <2>2, <2>3
<1>3. Total(captures) = Total(exec.captures)
  BY <1>2, StreamsAre DEF Total
<1>4. \A s \in Stream : captures[s].bytes \in 0 .. command.limit
  <2>1. \A s \in Stream : exec.captures[s].bytes \in Nat
    BY <1>1 DEF CaptureType
  <2>2. Total(exec.captures) <= command.limit
    BY <1>1 DEF Limited
  <2> QED
    BY <1>1, <1>2, <2>1, <2>2, StreamsAre DEF Total
<1>5. captures \in [Stream -> [bytes : 0 .. command.limit, completeness : Completeness]]
  BY <1>4 DEF CaptureType
<1>6. Total(captures) <= command.limit
  BY <1>1, <1>3 DEF Limited
<1>7. (Total(captures) = command.limit)
         <=> (\E s \in Stream : captures[s].completeness = "Truncated")
  BY <1>1, <1>2, <1>3 DEF Limited
<1> QED
  <2>1. (Total(captures) = command.limit)
           = (\E s \in Stream : captures[s].completeness = "Truncated")
    BY <1>7, Zenon
  <2> QED
    BY <1>2, <1>5, <1>6, <2>1, SameWords DEF W!Captures

(* A result the thread returns from its loop is one the contract allows.   *)
Allowed(r) ==
    /\ r.captures \in W!Captures(command.action, command.limit)
    /\ r.outcome \in W!ProcessOutcome(r.captures, command.action, command.limit) \cup W!Stop
    /\ r.confirmed \in BOOLEAN
    /\ r.confirmed => group = {}
    /\ ~r.confirmed => r.outcome = "CleanupFailure"
    /\ r = Result(r.outcome, r.captures, r.confirmed)

(* The reasons to stop, as outcomes. *)
LEMMA ReasonAllowed ==
    ASSUME Inv, worker \in Looping, NEW captures \in [Stream -> CaptureType],
           NEW reason \in Termination \cup {None},
           Total(captures) = Total(exec.captures),
           \A s \in Stream : exec.captures[s].completeness = "ReadFailed"
                               => captures[s].completeness = "ReadFailed",
           reason \in {exec.reason, "CleanupFailure"}, reason # None
    PROVE  reason \in W!ProcessOutcome(captures, command.action, command.limit) \cup W!Stop
<1>1. Stands(Now) /\ Now.exec = exec /\ exec.limit = command.limit
  BY DEF Inv, Sound, Now
<1>2. reason \in {"Quit", "Cancelled", "OutputLimit", "CaptureFailure", "Deadline", "CleanupFailure"}
  BY <1>1 DEF Stands, Termination
<1>3. cancel \in 0 .. 2
  BY DEF Inv, TypeOK
<1>4. CASE reason \in {"Quit", "Cancelled"}
  BY <1>1, <1>3, <1>4 DEF Stands, W!Stop
<1>5. CASE reason \in {"Deadline", "CleanupFailure"}
  BY <1>5 DEF W!ProcessOutcome
<1>6. CASE reason = "OutputLimit"
  <2>1. Total(captures) = command.limit
    BY <1>1, <1>6 DEF Stands
  <2> QED
    BY <1>6, <2>1, SameWords DEF W!ProcessOutcome
<1>7. CASE reason = "CaptureFailure"
  <2>1. \E s \in Stream : captures[s].completeness = "ReadFailed"
    BY <1>1, <1>7 DEF Stands
  <2> QED
    BY <1>7, <2>1, SameWords DEF W!ProcessOutcome
<1> QED
  BY <1>2, <1>4, <1>5, <1>6, <1>7

Truthful(r) == Allowed(r) /\ Honest(r)

(* What Honest asks of the captures of a closed loop. *)
LEMMA ClosedHonest ==
    ASSUME Inv, worker \in Looping, NEW s \in Captured(command.action), s \notin exec.open,
           exec.captures[s].completeness = "Complete"
    PROVE  exec.captures[s].bytes = produced[s]
<1>1. s \in Stream
  BY DEF Captured, Stream
<1>2. Accounted(Now, s) /\ Now.exec = exec /\ Now.pipe = pipe /\ exec.action = command.action
  BY <1>1 DEF Inv, Sound, Now
<1>3. exec.captures[s].bytes + pipe[s] = produced[s] /\ pipe[s] = 0
  BY <1>2 DEF Accounted
<1>4. exec.captures[s].bytes \in Nat
  BY <1>1, InvTypes DEF CaptureType
<1> QED
  BY <1>3, <1>4

(* The loop has done all it had to do. *)
LEMMA DoneTruthful ==
    ASSUME Inv, worker = "signalling", NEW absent \in BOOLEAN, absent => GroupAbsent,
           Done(absent), NEW reason \in {exec.reason, "CleanupFailure"}
    PROVE  Truthful(Result(Ended(reason), exec.captures, TRUE))
<1> DEFINE r == Result(Ended(reason), exec.captures, TRUE)
<1>1. worker \in Looping /\ exec \in Locals /\ exec.captures \in [Stream -> CaptureType]
  BY InvTypes DEF Looping
<1>2. r.outcome = Ended(reason) /\ r.captures = exec.captures /\ r.confirmed = TRUE
  BY DEF Result
<1>3. group = {} /\ exec.exit \in Exit /\ exec.open = {}
  BY <1>1 DEF Done, GroupAbsent, Locals
<1>4. exec.captures \in W!Captures(command.action, command.limit)
  BY <1>1, CapturesAllowed
<1>5. Sound(Now) /\ Now.exec = exec /\ exec.action = command.action
  BY <1>1 DEF Inv, Sound, Now
<1>6. CASE reason = None
  <2>1. exec.reason = None
    BY <1>6 DEF Outcome, Termination
  <2>2. /\ Total(exec.captures) # exec.limit
        /\ \A s \in Stream : exec.captures[s].completeness # "ReadFailed"
    BY <2>1 DEF Inv, Decided
  <2>3. \A s \in Stream : exec.captures[s].completeness # "Truncated"
    BY <1>5, <2>2 DEF Sound, Limited
  <2>4. ASSUME NEW s \in Captured(command.action)
        PROVE  exec.captures[s].completeness = "Complete"
    <3>1. s \in Stream
      BY DEF Captured, Stream
    <3>2. Accounted(Now, s) /\ exec.captures[s].completeness \in Completeness
      BY <1>1, <1>5, <3>1 DEF Sound, CaptureType
    <3>3. exec.captures[s].completeness # "Unavailable"
      BY <1>5, <3>2 DEF Accounted
    <3> QED
      BY <2>2, <2>3, <3>1, <3>2, <3>3 DEF Completeness
  <2>5. Ended(reason) = exec.exit
    BY <1>6 DEF Ended
  <2>6. Ended(reason) \in W!ProcessOutcome(exec.captures, command.action, command.limit)
    <3>1. W!AllComplete(exec.captures, command.action)
      BY <2>4, SameWords DEF W!AllComplete
    <3> QED
      BY <1>3, <2>5, <3>1 DEF W!ProcessOutcome, Exit
  <2>7. Honest(r)
    BY <1>1, <1>2, <1>3, <2>4, ClosedHonest DEF Honest
  <2>8. Allowed(r)
    BY <1>2, <1>3, <1>4, <2>6 DEF Allowed
  <2> QED
    BY <2>7, <2>8 DEF Truthful
<1>7. CASE reason # None
  <2>1. Ended(reason) = reason /\ reason \in Termination
    BY <1>1, <1>7 DEF Ended, Locals, Termination
  <2>2. reason \in W!ProcessOutcome(exec.captures, command.action, command.limit) \cup W!Stop
    BY <1>1, <1>7, <2>1, ReasonAllowed
  <2>3. Honest(r)
    BY <1>1, <1>2, <1>3, <2>1, ClosedHonest DEF Honest, Termination
  <2>4. Allowed(r)
    BY <1>2, <1>3, <1>4, <2>1, <2>2 DEF Allowed
  <2> QED
    BY <2>3, <2>4 DEF Truthful
<1> QED
  BY <1>6, <1>7

(* The time for cleaning up is over. *)
LEMMA OverdueTruthful ==
    ASSUME Inv, worker = "signalling", NEW absent \in BOOLEAN, absent => GroupAbsent,
           ~Done(absent), NEW reason \in {exec.reason, "CleanupFailure"},
           NEW confirmed, confirmed = (exec.exit # None /\ absent)
    PROVE  Truthful(Result(Overdue(reason, confirmed), [s \in Stream |-> FinalCapture(s)],
                           confirmed))
<1> DEFINE captures == [s \in Stream |-> FinalCapture(s)]
           outcome == Overdue(reason, confirmed)
           r == Result(outcome, captures, confirmed)
<1>1. worker \in Looping /\ exec \in Locals /\ exec.captures \in [Stream -> CaptureType]
  BY InvTypes DEF Looping
<1>2. r.outcome = outcome /\ r.captures = captures /\ r.confirmed = confirmed
  BY DEF Result
<1>3. ASSUME NEW s \in Stream
      PROVE  /\ captures[s] \in CaptureType
             /\ \/ captures[s] = exec.captures[s] /\ s \notin exec.open
                \/ s \in exec.open
                     /\ captures[s] = [exec.captures[s] EXCEPT !.completeness = "ReadFailed"]
  BY <1>1 DEF FinalCapture, CaptureType, Completeness
<1>4. captures \in [Stream -> CaptureType]
  BY <1>3
<1>5. \A s \in Stream : captures[s].bytes = exec.captures[s].bytes
  BY <1>1, <1>3 DEF CaptureType
<1>6. \A s \in Stream : s \in exec.open => captures[s].completeness = "ReadFailed"
  BY <1>1, <1>3 DEF CaptureType
<1>7. \A s \in Stream : s \notin exec.open => captures[s] = exec.captures[s]
  BY <1>3
<1> HIDE DEF captures
<1>8. Total(captures) = Total(exec.captures)
  BY <1>5, StreamsAre DEF Total
<1>9. captures \in W!Captures(command.action, command.limit)
  BY <1>1, <1>3, <1>4, CapturesAllowed
<1>10. \A s \in Stream : exec.captures[s].completeness = "ReadFailed"
                           => captures[s].completeness = "ReadFailed"
  BY <1>6, <1>7
<1>11. outcome \in W!ProcessOutcome(captures, command.action, command.limit) \cup W!Stop
       /\ outcome \notin {"success", "failure"}
  <2>1. CASE ~confirmed
    BY <2>1 DEF Overdue, W!ProcessOutcome
  <2>2. CASE confirmed /\ reason = None
    <3>1. exec.open # {} /\ exec.open \subseteq Stream
      BY <1>1, <2>2 DEF Done, Locals
    <3>2. \E s \in Stream : captures[s].completeness = "ReadFailed"
      BY <1>6, <3>1
    <3>3. outcome = "CaptureFailure"
      BY <2>2 DEF Overdue
    <3> QED
      BY <3>2, <3>3, SameWords DEF W!ProcessOutcome
  <2>3. CASE confirmed /\ reason # None
    <3>1. outcome = reason /\ reason \in Termination
      BY <1>1, <2>3 DEF Overdue, Locals, Termination
    <3> QED
      BY <1>1, <1>4, <1>8, <1>10, <2>3, <3>1, ReasonAllowed DEF Termination
  <2> QED
    BY <2>1, <2>2, <2>3
<1>12. confirmed \in BOOLEAN /\ (confirmed => group = {})
       /\ (~confirmed => outcome = "CleanupFailure")
  BY DEF GroupAbsent, Overdue
<1>13. Honest(r)
  <2>1. ASSUME NEW s \in Captured(command.action), captures[s].completeness = "Complete"
        PROVE  captures[s].bytes = produced[s]
    <3>1. s \in Stream
      BY DEF Captured, Stream
    <3>2. s \notin exec.open /\ captures[s] = exec.captures[s]
      BY <1>6, <1>7, <2>1, <3>1
    <3> QED
      BY <1>1, <2>1, <3>2, ClosedHonest
  <2> QED
    BY <1>2, <1>11, <2>1 DEF Honest
<1>14. Allowed(r)
  BY <1>2, <1>9, <1>11, <1>12 DEF Allowed
<1> QED
  BY <1>13, <1>14 DEF Truthful, captures

(* A turn either leaves the thread in its loop or returns the truth. *)
LEMMA SignalReturns ==
    ASSUME Inv, Signal
    PROVE  \/ worker' = "reading" /\ UNCHANGED <<result, reaper, group, escaped>>
           \/ \E r : /\ Truthful(r) /\ Return("returned", r) /\ UNCHANGED <<group, escaped>>
                     /\ reaper' = IF r.confirmed THEN "none" ELSE "working"
<1>1. worker = "signalling" /\ UNCHANGED <<group, escaped>>
  BY DEF Signal
<1>2. /\ reaper = "none" /\ (exec.absent => GroupAbsent) /\ exec.absent \in BOOLEAN
  BY <1>1, InvTypes DEF Inv, Watched, Looping, Locals
<1>3. ASSUME NEW absent, NEW reason, NEW confirmed,
             absent \in BOOLEAN, absent => GroupAbsent, reason \in {exec.reason, "CleanupFailure"},
             confirmed = (exec.exit # None /\ absent), ~Done(absent),
             Return("returned", Result(Overdue(reason, confirmed),
                                       [s \in Stream |-> FinalCapture(s)], confirmed)),
             reaper' = IF confirmed THEN "none" ELSE "working"
      PROVE  \E r : /\ Truthful(r) /\ Return("returned", r)
                    /\ reaper' = IF r.confirmed THEN "none" ELSE "working"
  <2> DEFINE r == Result(Overdue(reason, confirmed), [s \in Stream |-> FinalCapture(s)], confirmed)
  <2>1. Truthful(r)
    BY <1>1, <1>3, OverdueTruthful
  <2>2. r.confirmed = confirmed
    BY DEF Result
  <2> HIDE DEF r
  <2>3. reaper' = IF r.confirmed THEN "none" ELSE "working"
    BY <1>3, <2>2
  <2> QED
    BY <1>3, <2>1, <2>3 DEF r
<1>4. PICK killFails \in BOOLEAN, probeFails \in BOOLEAN :
        LET cleaning == exec.cleaning \/ exec.reason # None \/ exec.exit # None
            probe == cleaning /\ ~exec.absent
            absent == exec.absent \/ (probe /\ ~probeFails /\ GroupAbsent)
            reason == IF killFails \/ probeFails THEN "CleanupFailure" ELSE exec.reason
            confirmed == exec.exit # None /\ absent
        IN  \/ /\ Done(absent)
               /\ Return("returned", Result(Ended(reason), exec.captures, TRUE))
               /\ UNCHANGED reaper
            \/ /\ ~Done(absent)
               /\ Return("returned",
                         Result(Overdue(reason, confirmed),
                                [s \in Stream |-> FinalCapture(s)], confirmed))
               /\ reaper' = IF confirmed THEN "none" ELSE "working"
            \/ worker' = "reading" /\ UNCHANGED <<result, reaper>>
  BY DEF Signal
<1> DEFINE cleaning == exec.cleaning \/ exec.reason # None \/ exec.exit # None
           absent == exec.absent \/ ((cleaning /\ ~exec.absent) /\ ~probeFails /\ GroupAbsent)
           reason == IF killFails \/ probeFails THEN "CleanupFailure" ELSE exec.reason
           confirmed == exec.exit # None /\ absent
<1>5. absent \in BOOLEAN /\ (absent => GroupAbsent) /\ reason \in {exec.reason, "CleanupFailure"}
  BY <1>2
<1>6. \/ /\ Done(absent)
         /\ Return("returned", Result(Ended(reason), exec.captures, TRUE))
         /\ UNCHANGED reaper
      \/ /\ ~Done(absent)
         /\ Return("returned",
                   Result(Overdue(reason, confirmed),
                          [s \in Stream |-> FinalCapture(s)], confirmed))
         /\ reaper' = IF confirmed THEN "none" ELSE "working"
      \/ worker' = "reading" /\ UNCHANGED <<result, reaper>>
  BY <1>4, Zenon
<1>7. confirmed = (exec.exit # None /\ absent)
  OBVIOUS
<1> HIDE DEF cleaning, absent, reason, confirmed
<1>8. CASE /\ Done(absent)
           /\ Return("returned", Result(Ended(reason), exec.captures, TRUE))
           /\ UNCHANGED reaper
  <2> DEFINE r == Result(Ended(reason), exec.captures, TRUE)
  <2>1. Truthful(r)
    BY <1>1, <1>5, <1>8, DoneTruthful
  <2>2. r.confirmed = TRUE
    BY DEF Result
  <2>3. Return("returned", r) /\ UNCHANGED reaper
    BY <1>8
  <2> HIDE DEF r
  <2>4. reaper' = IF r.confirmed THEN "none" ELSE "working"
    BY <1>2, <2>2, <2>3
  <2> QED
    BY <1>1, <2>1, <2>3, <2>4
<1>9. CASE /\ ~Done(absent)
            /\ Return("returned",
                      Result(Overdue(reason, confirmed),
                             [s \in Stream |-> FinalCapture(s)], confirmed))
            /\ reaper' = IF confirmed THEN "none" ELSE "working"
  <2>1. \E r : /\ Truthful(r) /\ Return("returned", r)
              /\ reaper' = IF r.confirmed THEN "none" ELSE "working"
    BY <1>3, <1>5, <1>7, <1>9
  <2> QED
    BY <1>1, <2>1
<1>10. CASE worker' = "reading" /\ UNCHANGED <<result, reaper>>
  BY <1>1, <1>10
<1> QED
  BY <1>6, <1>8, <1>9, <1>10

(* What EnterCancelled, LaunchFails and an unwinding thread return. *)
LEMMA EmptyHonest ==
    ASSUME NEW outcome, outcome \notin {"success", "failure"}, Inv
    PROVE  Honest(Result(outcome, NoCapture, TRUE))
<1>1. \A s \in Captured(command.action) :
         Result(outcome, NoCapture, TRUE).captures[s].completeness = "Unavailable"
  BY DEF Result, NoCapture, Capture, Captured, Stream
<1>2. Result(outcome, NoCapture, TRUE).outcome = outcome
  BY DEF Result
<1> QED
  BY <1>1, <1>2 DEF Honest

(* A capture that claims to be complete holds every byte the program wrote,*)
(* and a command is only reported as exited when all its output was read,  *)
(* whatever the limit and however much the program writes.                 *)
THEOREM CapturesAlwaysHonest == Spec => CaptureHonest
<1>1. ASSUME Inv, [Next]_vars, result = None, result' # None PROVE Honest(result')
  <2>1. CASE Unasked(Signal)
    <3>1. ~UNCHANGED result
      BY <1>1
    <3>2. PICK r : Truthful(r) /\ Return("returned", r)
      BY <1>1, <2>1, <3>1, SignalReturns DEF Unasked
    <3> QED
      BY <3>2 DEF Return, Truthful
  <2>2. CASE EnterCancelled \/ LaunchFails \/ ConfirmCleanup \/ Panic
    <3>1. \E outcome \in {"Quit", "Cancelled", "LaunchFailed", "CleanupFailure"} :
             result' = Result(outcome, NoCapture, TRUE)
      BY <1>1, <2>2 DEF EnterCancelled, LaunchFails, ConfirmCleanup, Panic, Return, Unwound
    <3> QED
      BY <1>1, <3>1, EmptyHonest
  <2>3. CASE UNCHANGED result
    BY <1>1, <2>3
  <2> QED
    BY <1>1, <2>1, <2>2, <2>3
       DEF Next, Unasked, WorkerStep, ProgramStep, Launch, Drain, Watch, CleanUp, Write, Fork,
           Escape, EscapedExits, Die, TimePasses, Ask, vars, threads
<1>2. Inv /\ [Next]_vars => [result = None /\ result' # None => Honest(result')]_vars
  BY <1>1
<1> QED
  BY <1>2, InvAlways, PTL DEF Spec, CaptureHonest

-----------------------------------------------------------------------------
(***************************************************************************)
(* The contract, step by step.                                             *)
(***************************************************************************)
Over(state) == IF state \in {"returned", "panicked"} THEN state ELSE "working"

(* A step of this module that the session does not notice. *)
Unnoticed ==
    UNCHANGED <<Over(worker), result, reaper, group # {}, escaped, cancel, command>>

LEMMA UnnoticedStutters == Unnoticed => UNCHANGED W!ContractVars
  BY DEF Unnoticed, Over, W!ContractVars, W!workerVars

LEMMA InitKeepsContract == Init => W!ContractInit
  BY DEF Init, W!ContractInit

LEMMA ReturnKeepsContract ==
    ASSUME Inv, worker \notin {"returned", "panicked"}, NEW r, UNCHANGED <<group, escaped>>,
           UNCHANGED request,
           \/ Truthful(r) /\ Return("returned", r) /\ reaper' = IF r.confirmed THEN "none" ELSE "working"
           \/ /\ Return("returned", r) /\ group = {} /\ UNCHANGED reaper
              /\ \E outcome \in {"LaunchFailed"} \cup W!Stop : r = Result(outcome, NoCapture, TRUE)
           \/ Return("panicked", r) /\ group = {} /\ UNCHANGED reaper /\ r = Unwound
    PROVE  W!ContractNext
<1>1. W!Work /\ UNCHANGED <<cancel, command>>
  <2>1. UNCHANGED <<cancel, command>> /\ result' = r
    BY DEF request, Return
  <2>2. CASE /\ Truthful(r) /\ Return("returned", r)
             /\ reaper' = IF r.confirmed THEN "none" ELSE "working"
    <3>1. Allowed(r) /\ worker' = "returned"
      BY <2>2 DEF Truthful, Return
    <3>2. r = W!Result(r.outcome, r.captures, r.confirmed)
      BY <3>1, SameWords DEF Allowed
    <3>3. W!Finish
      BY <2>1, <2>2, <3>1, <3>2 DEF W!Finish, Allowed
    <3> QED
      BY <2>1, <3>3 DEF W!Work
  <2>3. CASE /\ Return("returned", r) /\ group = {} /\ UNCHANGED reaper
             /\ \E outcome \in {"LaunchFailed"} \cup W!Stop : r = Result(outcome, NoCapture, TRUE)
    <3>1. worker' = "returned"
      BY <2>3 DEF Return
    <3>2. W!GiveUp
      BY <2>1, <2>3, <3>1, SameWords DEF W!GiveUp
    <3> QED
      BY <2>1, <3>2 DEF W!Work
  <2>4. CASE Return("panicked", r) /\ group = {} /\ UNCHANGED reaper /\ r = Unwound
    <3>1. worker' = "panicked"
      BY <2>4 DEF Return
    <3>2. W!Unwind
      BY <2>1, <2>4, <3>1, SameWords DEF W!Unwind, Unwound
    <3> QED
      BY <2>1, <3>2 DEF W!Work
  <2> QED
    BY <2>1, <2>2, <2>3, <2>4
<1> QED
  BY <1>1 DEF W!ContractNext

LEMMA WorkerKeepsContract ==
    ASSUME Inv, WorkerStep, UNCHANGED request PROVE W!ContractNext \/ Unnoticed
<1>1. CASE EnterCancelled
  <2>1. group = {} /\ cancel \in {1, 2}
    BY <1>1 DEF EnterCancelled, Inv, Watched, TypeOK
  <2> DEFINE outcome == IF cancel = 2 THEN "Quit" ELSE "Cancelled"
             r == Result(outcome, NoCapture, TRUE)
  <2>2. outcome \in {"LaunchFailed"} \cup W!Stop
    BY <2>1 DEF W!Stop
  <2>3. Return("returned", r) /\ UNCHANGED <<reaper, group, escaped>> /\ worker = "entered"
    BY <1>1 DEF EnterCancelled
  <2>4. \E o \in {"LaunchFailed"} \cup W!Stop : r = Result(o, NoCapture, TRUE)
    BY <2>2
  <2> HIDE DEF r
  <2> QED
    BY <2>1, <2>3, <2>4, ReturnKeepsContract
<1>2. CASE LaunchFails
  <2>1. group = {}
    BY <1>2 DEF LaunchFails, Inv, Watched
  <2> DEFINE r == Result("LaunchFailed", NoCapture, TRUE)
  <2>2. Return("returned", r) /\ UNCHANGED <<reaper, group, escaped>> /\ worker = "entered"
    BY <1>2 DEF LaunchFails
  <2>3. \E o \in {"LaunchFailed"} \cup W!Stop : r = Result(o, NoCapture, TRUE)
    OBVIOUS
  <2> HIDE DEF r
  <2> QED
    BY <2>1, <2>2, <2>3, ReturnKeepsContract
<1>3. CASE Launch
  <2>1. W!Launch /\ UNCHANGED <<cancel, command>>
    BY <1>3 DEF Launch, W!Launch, Inv, Watched, request
  <2> QED
    BY <2>1 DEF W!ContractNext
<1>4. CASE Drain \/ Watch \/ CleanUp
  BY <1>4 DEF Drain, Watch, CleanUp, threads, Unnoticed, Over, request
<1>5. CASE Signal
  <2>1. CASE worker' = "reading" /\ UNCHANGED <<result, reaper, group, escaped>>
    BY <1>5, <2>1 DEF Signal, Unnoticed, Over, request
  <2>2. CASE \E r : /\ Truthful(r) /\ Return("returned", r) /\ UNCHANGED <<group, escaped>>
                    /\ reaper' = IF r.confirmed THEN "none" ELSE "working"
    <3>1. worker \notin {"returned", "panicked"}
      BY <1>5 DEF Signal
    <3> QED
      BY <2>2, <3>1, ReturnKeepsContract
  <2> QED
    BY <1>5, <2>1, <2>2, SignalReturns
<1>6. CASE ConfirmCleanup
  <2>1. group = {} /\ UNCHANGED <<group, escaped>>
    BY <1>6 DEF ConfirmCleanup, GroupAbsent
  <2>2. CASE reaper = "working"
    <3>1. W!Reap /\ UNCHANGED <<cancel, command>>
      BY <1>6, <2>1, <2>2 DEF ConfirmCleanup, W!Reap, request
    <3> QED
      BY <3>1 DEF W!ContractNext
  <2>3. CASE reaper # "working"
    <3>1. worker = "unwinding" /\ Return("panicked", Unwound) /\ UNCHANGED reaper
      BY <1>6, <2>3 DEF ConfirmCleanup, Cleaning
    <3> QED
      BY <2>1, <3>1, ReturnKeepsContract
  <2> QED
    BY <2>2, <2>3
<1> QED
  BY <1>1, <1>2, <1>3, <1>4, <1>5, <1>6 DEF WorkerStep

LEMMA StepKeepsContract == Inv /\ [Next]_vars => [W!ContractNext]_(W!ContractVars)
<1> SUFFICES ASSUME Inv, [Next]_vars PROVE W!ContractNext \/ Unnoticed
  BY UnnoticedStutters
<1>1. CASE Unasked(WorkerStep)
  BY <1>1, WorkerKeepsContract DEF Unasked
<1>2. CASE Unasked(ProgramStep)
  <2> USE DEF Unasked, request, threads
  <2>1. CASE \E s \in Stream : Write(s)
    BY <1>2, <2>1 DEF Write, Unnoticed
  <2>2. CASE Fork
    BY <1>2, <2>2 DEF Fork, Unnoticed
  <2>3. CASE Escape
    <3>1. W!Escape /\ UNCHANGED <<cancel, command>>
      BY <1>2, <2>3 DEF Escape, W!Escape
    <3> QED
      BY <3>1 DEF W!ContractNext
  <2>4. CASE EscapedExits
    <3>1. W!StraysEnd /\ UNCHANGED <<cancel, command>>
      BY <1>2, <2>4 DEF EscapedExits, W!StraysEnd
    <3> QED
      BY <3>1 DEF W!ContractNext
  <2>5. ASSUME NEW p \in group, Die(p) PROVE W!ContractNext \/ Unnoticed
    <3>1. CASE group' # {}
      BY <1>2, <2>5, <3>1 DEF Die, Unnoticed
    <3>2. CASE group' = {}
      <4>1. W!Die /\ UNCHANGED <<cancel, command>>
        BY <1>2, <2>5, <3>2 DEF Die, W!Die
      <4> QED
        BY <4>1 DEF W!ContractNext
    <3> QED
      BY <3>1, <3>2
  <2> QED
    BY <1>2, <2>1, <2>2, <2>3, <2>4, <2>5 DEF ProgramStep
<1>3. CASE Unasked(TimePasses)
  BY <1>3 DEF Unasked, TimePasses, threads, system, request, Unnoticed
<1>4. CASE Unasked(Panic)
  <2>1. CASE worker = "entered"
    <3>1. /\ group = {} /\ Return("panicked", Unwound)
          /\ UNCHANGED <<reaper, group, escaped>> /\ UNCHANGED request
      BY <1>4, <2>1 DEF Unasked, Panic, Inv, Watched, Looping
    <3> QED
      BY <2>1, <3>1, ReturnKeepsContract
  <2>2. CASE worker \in Looping
    BY <1>4, <2>2 DEF Unasked, Panic, Looping, system, request, Unnoticed, Over
  <2> QED
    BY <1>4, <2>1, <2>2 DEF Unasked, Panic
<1>5. CASE Ask
  <2>1. W!Environment
    BY <1>5 DEF Ask, W!Environment, W!workerVars, threads, system, Inv, TypeOK
  <2> QED
    BY <2>1 DEF W!ContractNext
<1>6. CASE UNCHANGED vars
  BY <1>6 DEF vars, threads, system, request, Unnoticed
<1> QED
  BY <1>1, <1>2, <1>3, <1>4, <1>5, <1>6 DEF Next, Unasked

(* The worker of src/command_process.rs, whatever the program, the signals *)
(* and the user do, only ever does what the session is written against: a  *)
(* result is truthful about the group, its captures keep the limit, and a  *)
(* reaper that took the group over says so when it is gone.                *)
THEOREM KeepsContract == Spec => W!ContractSafety
<1>1. Spec => [][W!ContractNext]_(W!ContractVars)
  BY InvAlways, StepKeepsContract, PTL DEF Spec
<1> QED
  BY <1>1, InitKeepsContract, PTL DEF Spec, W!ContractSafety
=============================================================================
