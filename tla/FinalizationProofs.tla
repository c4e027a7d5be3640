------------------------- MODULE FinalizationProofs -------------------------
(***************************************************************************)
(* What a submission freezes stays what the journal says, for any number   *)
(* of submitting and editing processes, of events and of faults.           *)
(*                                                                         *)
(* The argument is the one the code relies on: a process past the writer   *)
(* lock is alone there, so what it found when it took the lock - nothing   *)
(* captured, or a prepared marker - is still so at each of its steps, and  *)
(* whatever it published before a step failed agrees with the journal.     *)
(***************************************************************************)
EXTENDS Finalization, TLAPS

(* The steps of a process that holds writer.lock, in the order they come.  *)
Editing == {"open", "inspect"}
Capturing == {"events", "checkpoints", "retire", "capture"}
Preparing == {"ancestry", "complete", "prefix", "manifest", "sources", "prepared"}
Ending == {"finish", "end", "receipt"}
Leaving == {"failed", "incomplete", "unfinished", "finalized"}
Owning == Editing \cup Capturing \cup Preparing \cup Ending \cup Leaving
Label == Owning \cup {"idle", "probe", "resume", "recover"}

Prefix == Seq(Event)

TypeOK ==
    /\ log \in Prefix \ {<<>>} /\ ended \in BOOLEAN /\ told \in BOOLEAN
    /\ files \in [Artifact -> Prefix \cup {None}]
    /\ lock \in Process \cup {None}
    /\ pc \in [Process -> Label]
    /\ mine \in [Process -> Prefix]
    /\ rescue \in [Process -> {"failed", "incomplete"}]

(* Only the process that holds the lock is past it, and it is past it as   *)
(* long as it holds the lock.                                              *)
Exclusive == \A p \in Process : pc[p] \in Owning <=> lock = p

Open == ~Captured /\ ~ended /\ Last # "submitted"

(* What a process may rely on at each step: while it edits and captures,   *)
(* nothing is captured; the prefix it works on is the journal; and each    *)
(* file it has published describes that prefix.                            *)
Grounded(p) ==
    /\ pc[p] \in Editing \cup Capturing => Open
    /\ pc[p] \in Capturing \cup Preparing => mine[p] = log
    /\ pc[p] \in {"checkpoints", "retire", "capture"} => files["events"] = mine[p]
    /\ pc[p] \in {"retire", "capture"} => files["checkpoints"] = mine[p]
    /\ pc[p] \in Preparing =>
           files["capture"] = mine[p] /\ ~ended /\ Last # "submitted"
    /\ pc[p] \in {"prefix", "manifest", "sources", "prepared"} =>
           files["complete"] = Terminal(mine[p])
    /\ pc[p] \in {"manifest", "sources", "prepared"} => files["prefix"] = mine[p]
    /\ pc[p] \in {"sources", "prepared"} => files["manifest"] = mine[p]
    /\ pc[p] = "prepared" => files["sources"] = mine[p]
    /\ pc[p] \in Ending => files["prepared"] = mine[p]
    /\ pc[p] \in {"end", "receipt"} => log = Terminal(mine[p])
    /\ pc[p] = "receipt" => ended
    /\ pc[p] = "finalized" => Exists("receipt")

Inv == TypeOK /\ Exclusive /\ (\A p \in Process : Grounded(p)) /\ EvidenceAgrees

-----------------------------------------------------------------------------
USE FinalizationAssumption DEF Prefix, Artifact, Terminal, Last, Exists, Goto, At

(* A journal that grew by an event ends in it. *)
LEMMA Grows ==
    ASSUME NEW s \in Prefix, NEW e \in Event
    PROVE  /\ Append(s, e) \in Prefix \ {<<>>}
           /\ Append(s, e)[Len(Append(s, e))] = e
           /\ Append(s, e) # s
<1>1. Append(s, e) \in Prefix /\ Len(Append(s, e)) = Len(s) + 1 /\ Len(s) \in Nat
  OBVIOUS
<1>2. Append(s, e)[Len(s) + 1] = e
  OBVIOUS
<1>3. Len(Append(s, e)) # Len(s) /\ Append(s, e) # <<>>
  BY <1>1
<1> QED
  BY <1>1, <1>2, <1>3

(* A session starts with one event and no file. *)
LEMMA InitHolds == Init => Inv
<1> SUFFICES ASSUME Init PROVE Inv
  OBVIOUS
<1>1. TypeOK
  <2>1. <<"started">> \in Prefix \ {<<>>}
    BY DEF Event
  <2>2. files \in [Artifact -> Prefix \cup {None}] /\ mine \in [Process -> Prefix]
    BY DEF Init
  <2> QED
    BY <2>1, <2>2 DEF Init, TypeOK, Label
<1>4. Exclusive
  BY DEF Init, Exclusive, Owning, Editing, Capturing, Preparing, Ending, Leaving
<1>2. \A p \in Process : Grounded(p)
  BY DEF Init, Grounded, Editing, Capturing, Preparing, Ending
<1>3. EvidenceAgrees
  BY DEF Init, EvidenceAgrees, Candidate
<1> QED
  BY <1>1, <1>2, <1>3, <1>4 DEF Inv

(* A process that does not hold the lock relies on nothing, so a step of   *)
(* the one that does has only its own next step to answer for.             *)
LEMMA OthersRest ==
    ASSUME Inv, NEW p \in Process, NEW next \in Label,
           pc' = [pc EXCEPT ![p] = next],
           lock = p \/ lock = None,
           lock' = IF next \in Owning THEN p ELSE None,
           Grounded(p)'
    PROVE  Exclusive' /\ \A q \in Process : Grounded(q)'
<1> USE DEF Inv, TypeOK, Exclusive
<1>1. Exclusive'
  BY DEF Label, Owning, Editing, Capturing, Preparing, Ending, Leaving
<1>2. ASSUME NEW q \in Process, q # p PROVE Grounded(q)'
  <2>1. pc'[q] = pc[q] /\ pc[q] \notin Owning
    BY <1>2
  <2> QED
    BY <2>1 DEF Grounded, Owning, Editing, Capturing, Preparing, Ending, Leaving
<1> QED
  BY <1>1, <1>2

(* Steps outside the lock that change nothing but where the process is. *)
LEMMA Outside ==
    ASSUME Inv, NEW p \in Process, NEW next \in {"idle", "probe", "resume", "recover"},
           pc[p] \notin Owning, pc' = [pc EXCEPT ![p] = next],
           UNCHANGED <<journal, files, lock, mine, rescue>>,
           told' \in BOOLEAN, told' => told \/ Exists("receipt")
    PROVE  Inv'
<1> USE DEF Inv, TypeOK, journal
<1>1. TypeOK'
  BY DEF Label
<1>2. Exclusive'
  BY DEF Exclusive, Owning, Editing, Capturing, Preparing, Ending, Leaving
<1>3. ASSUME NEW q \in Process PROVE Grounded(q)'
  <2>1. pc'[q] = pc[q] \/ pc'[q] \in {"idle", "probe", "resume", "recover"}
    OBVIOUS
  <2>2. Open' = Open
    BY DEF Open, Captured
  <2> QED
    BY <2>1, <2>2 DEF Grounded, Editing, Capturing, Preparing, Ending
<1>4. EvidenceAgrees'
  BY DEF EvidenceAgrees, Candidate
<1> QED
  BY <1>1, <1>2, <1>3, <1>4

(* Looking whether a submission has started, and giving up, is done        *)
(* without the lock.                                                       *)
LEMMA LooksPreserve ==
    ASSUME Inv, NEW p \in Process, Submit(p) \/ Probe(p) \/ Work(p) PROVE Inv'
<1>1. PICK next \in {"idle", "probe", "resume", "recover"} : Goto(p, next)
  BY DEF Submit, Probe, Work
<1>2. pc[p] \notin Owning
  BY DEF Submit, Probe, Work, Owning, Editing, Capturing, Preparing, Ending, Leaving
<1>3. UNCHANGED <<journal, files, lock, mine, rescue, told>>
  BY DEF Submit, Probe, Work, memory
<1> QED
  BY <1>1, <1>2, <1>3, Outside DEF Inv, TypeOK

(* What a step of the process that holds the lock, or takes it, shows.     *)
LEMMA OwnerStep ==
    ASSUME Inv, NEW p \in Process, NEW next \in Label, Goto(p, next),
           lock = p \/ lock = None,
           lock' = IF next \in Owning THEN p ELSE None,
           log' \in Prefix \ {<<>>}, ended' \in BOOLEAN, told' \in BOOLEAN,
           files' \in [Artifact -> Prefix \cup {None}],
           mine' \in [Process -> Prefix],
           rescue' \in [Process -> {"failed", "incomplete"}],
           Grounded(p)', EvidenceAgrees'
    PROVE  Inv'
<1>1. TypeOK'
  BY DEF Inv, TypeOK
<1> QED
  BY <1>1, OthersRest DEF Inv

(* Resuming takes the lock when nothing is captured, and appends. *)
LEMMA ResumePreserves == ASSUME Inv, NEW p \in Process, Resume(p) PROVE Inv'
<1> USE DEF Inv, TypeOK
<1>1. /\ pc[p] = "resume" /\ pc[p] \notin Owning
      /\ UNCHANGED <<ended, files, mine, told>>
  BY DEF Resume, Owning, Editing, Capturing, Preparing, Ending, Leaving
<1>2. CASE lock = None /\ Resumable
  <2>1. Open /\ ~told
    BY <1>2 DEF Resumable, Open, EvidenceAgrees, Captured, CAPTURE_ARTIFACTS
  <2>2. log' = log \/ log' = Append(log, "resumed")
    BY DEF Resume
  <2>3. log' \in Prefix \ {<<>>} /\ log'[Len(log')] # "submitted"
    <3>1. "resumed" \in Event
      BY DEF Event
    <3> QED
      BY <2>1, <2>2, <3>1, Grows, ZenonT(30) DEF Open
  <2>4. Open' /\ EvidenceAgrees'
    BY <1>1, <2>1, <2>3 DEF Open, EvidenceAgrees, Captured, CAPTURE_ARTIFACTS
  <2>5. PICK next \in {"open", "idle"} :
            Goto(p, next) /\ lock' = IF next = "open" THEN p ELSE None
    BY <1>2, Zenon DEF Resume
  <2>6. Grounded(p)'
    BY <2>4, <2>5 DEF Grounded, Editing, Capturing, Preparing, Ending
  <2>7. rescue' \in [Process -> {"failed", "incomplete"}]
    BY DEF Resume
  <2> QED
    BY <1>1, <1>2, <2>3, <2>4, <2>5, <2>6, <2>7, OwnerStep
       DEF Label, Owning, Editing, Capturing, Preparing, Ending, Leaving
<1>3. CASE ~(lock = None /\ Resumable)
  <2>1. Goto(p, "idle") /\ UNCHANGED <<log, lock, rescue>>
    BY <1>3 DEF Resume
  <2> QED
    BY <1>1, <2>1, Outside DEF journal
<1> QED
  BY <1>2, <1>3

(* Before the capture the journal may grow. *)
LEMMA OpenPreserves ==
    ASSUME Inv, NEW p \in Process, Edit(p) \/ Quit(p) \/ Refuse(p) \/ Boundary(p) PROVE Inv'
<1> USE DEF Inv, TypeOK
<1>1. pc[p] = "open" /\ lock = p
  BY DEF Edit, Quit, Refuse, Boundary, Exclusive, Owning, Editing
<1>2. UNCHANGED <<ended, files, mine, rescue, told>>
  BY DEF Edit, Quit, Refuse, Boundary, journal, memory
<1>3. Open /\ ~told
  BY <1>1 DEF Grounded, Editing, Open, EvidenceAgrees, Captured, CAPTURE_ARTIFACTS
<1>4. log' = log \/ log' = Append(log, "edited") \/ log' = Append(log, "checkpointed")
  BY DEF Edit, Quit, Refuse, Boundary, Attempt, journal
<1>5. log' \in Prefix \ {<<>>} /\ log'[Len(log')] # "submitted"
  <2>1. "edited" \in Event /\ "checkpointed" \in Event
    BY DEF Event
  <2>2. CASE log' = log
    BY <1>3, <2>2 DEF Open
  <2>3. ASSUME NEW e \in {"edited", "checkpointed"}, log' = Append(log, e)
        PROVE  log' \in Prefix \ {<<>>} /\ log'[Len(log')] # "submitted"
    BY <2>1, <2>3, Grows
  <2> QED
    BY <1>4, <2>2, <2>3
<1>6. Open' /\ EvidenceAgrees'
  BY <1>2, <1>3, <1>5 DEF Open, EvidenceAgrees, Captured, CAPTURE_ARTIFACTS
<1>7. PICK next \in {"open", "idle", "inspect", "failed", "incomplete"} :
          Goto(p, next) /\ lock' = IF next = "idle" THEN None ELSE p
  <2>1. CASE Edit(p)
    BY <1>1, <2>1 DEF Edit
  <2>2. CASE Quit(p)
    BY <1>1, <2>2 DEF Quit
  <2>3. CASE Refuse(p) \/ Boundary(p)
    BY <1>1, <2>3 DEF Refuse, Boundary, Attempt, Fail
  <2> QED
    BY <2>1, <2>2, <2>3
<1>8. Grounded(p)'
  BY <1>6, <1>7 DEF Grounded, Editing, Capturing, Preparing, Ending
<1> QED
  BY <1>1, <1>2, <1>5, <1>6, <1>7, <1>8, OwnerStep
     DEF Label, Owning, Editing, Capturing, Preparing, Ending, Leaving

(* The prefix is captured from the journal, component by component. *)
LEMMA CapturePreserves ==
    ASSUME Inv, NEW p \in Process, Inspect(p) \/ Capture(p) \/ Retire(p) \/ Ancestry(p)
    PROVE  Inv'
<1> USE DEF Inv, TypeOK
<1>1. /\ pc[p] \in {"inspect", "events", "checkpoints", "retire", "capture", "ancestry"}
      /\ lock = p /\ UNCHANGED <<journal, lock, rescue, told>>
  BY DEF Inspect, Capture, Retire, Ancestry, memory, Exclusive, Owning, Editing,
         Capturing, Preparing
<1>2. mine' = IF pc[p] = "inspect" THEN [mine EXCEPT ![p] = log] ELSE mine
  BY DEF Inspect, Capture, Retire, Ancestry, memory
<1>4. CASE Inspect(p)
  <2>1. Goto(p, "events") /\ UNCHANGED files
    BY <1>4 DEF Inspect
  <2>2. Grounded(p)'
    BY <1>1, <1>2, <1>4, <2>1 DEF Inspect, Grounded, journal, Editing, Capturing,
       Preparing, Ending, Open, Captured
  <2>3. EvidenceAgrees'
    BY <1>1, <2>1 DEF EvidenceAgrees, Candidate, journal
  <2> QED
    BY <1>1, <1>2, <2>1, <2>2, <2>3, OwnerStep
       DEF journal, Label, Owning, Editing, Capturing, Preparing, Ending, Leaving
<1>5. CASE Capture(p)
  <2>1. PICK name \in {"events", "checkpoints", "capture"}, r \in {FALSE, partial[p]}, next \in
             {"checkpoints", "retire", "ancestry"} :
             /\ pc[p] = name /\ Publish(p, name, mine[p], r, next)
             /\ name = "events" => next = "checkpoints"
             /\ name = "checkpoints" => next = "retire"
             /\ name = "capture" => next = "ancestry"
    BY <1>5 DEF Capture
  <2>2. \/ files' = files /\ \E l \in {"failed", "incomplete"} : Goto(p, l)
        \/ /\ files' = [files EXCEPT ![name] = mine[p]]
           /\ \E l \in {"failed", "incomplete", next} : Goto(p, l)
    BY <2>1 DEF Publish, Attempt, Fail
  <2>3. PICK l \in {"failed", "incomplete", next} : Goto(p, l)
    BY <2>2
  <2>4. files' \in [Artifact -> Prefix \cup {None}]
    BY <2>2
  <2>5. Open' = Open \/ name = "capture"
    BY <1>1, <2>1, <2>2 DEF Open, Captured, CAPTURE_ARTIFACTS, journal
  <2>6. Grounded(p)'
    BY <1>1, <1>2, <2>1, <2>2, <2>3, <2>5
       DEF Grounded, journal, Editing, Capturing, Preparing, Ending, Open
  <2>7. EvidenceAgrees'
    BY <1>1, <1>2, <2>1, <2>2 DEF Grounded, EvidenceAgrees, Candidate, journal, Captured,
       CAPTURE_ARTIFACTS, Capturing, Open
  <2> QED
    BY <1>1, <1>2, <2>1, <2>3, <2>4, <2>6, <2>7, OwnerStep
       DEF journal, Label, Owning, Editing, Capturing, Preparing, Ending, Leaving
<1>6. CASE Retire(p) \/ Ancestry(p)
  <2>1. PICK l \in {"failed", "incomplete", "capture", "complete"} :
             /\ Goto(p, l)
             /\ l = "capture" => pc[p] = "retire"
             /\ l = "complete" => pc[p] = "ancestry"
    BY <1>6 DEF Retire, Ancestry, Attempt, Fail
  <2>2. files' = files \/ files' = [files EXCEPT !["incomplete"] = None]
    BY <1>6 DEF Retire, Ancestry, Attempt
  <2>3. pc[p] \in {"retire", "ancestry"}
    BY <1>6 DEF Retire, Ancestry
  <2>4. Open' = Open /\ files' \in [Artifact -> Prefix \cup {None}] /\ mine' = mine
    BY <1>1, <1>2, <2>2, <2>3 DEF Open, Captured, CAPTURE_ARTIFACTS, journal
  <2>5. Grounded(p)'
    BY <1>1, <1>2, <2>1, <2>2, <2>3, <2>4
       DEF Grounded, journal, Editing, Capturing, Preparing, Ending
  <2>6. EvidenceAgrees'
    BY <1>1, <2>2 DEF EvidenceAgrees, Candidate, journal
  <2> QED
    BY <1>1, <2>1, <2>4, <2>5, <2>6, OwnerStep
       DEF journal, Label, Owning, Editing, Capturing, Preparing, Ending, Leaving
<1> QED
  BY <1>4, <1>5, <1>6

(* What the receipt will bind is written down, the marker that says it is  *)
(* prepared last.                                                          *)
LEMMA PreparePreserves == ASSUME Inv, NEW p \in Process, Prepare(p) PROVE Inv'
<1> USE DEF Inv, TypeOK
<1>1. /\ pc[p] \in Preparing \ {"ancestry"} /\ lock = p
      /\ UNCHANGED <<journal, lock, mine, rescue, told>>
  BY DEF Prepare, memory, Exclusive, Owning, Preparing
<1>2. PICK content \in {mine[p], Terminal(mine[p])}, next \in (Preparing \cup {"finish"}) :
          /\ Publish(p, pc[p], content, FALSE, next)
          /\ content = IF pc[p] = "complete" THEN Terminal(mine[p]) ELSE mine[p]
          /\ pc[p] = "complete" => next = "prefix"
          /\ pc[p] = "prefix" => next = "manifest"
          /\ pc[p] = "manifest" => next = "sources"
          /\ pc[p] = "sources" => next = "prepared"
          /\ pc[p] = "prepared" => next = "finish"
  <2>1. CASE pc[p] = "complete"
    <3>1. Publish(p, "complete", Terminal(mine[p]), FALSE, "prefix")
      BY <2>1 DEF Prepare
    <3> QED
      BY <2>1, <3>1 DEF Preparing
  <2>2. CASE pc[p] = "prefix"
    <3>1. Publish(p, "prefix", mine[p], FALSE, "manifest")
      BY <2>2 DEF Prepare
    <3> QED
      BY <2>2, <3>1, ZenonT(30) DEF Preparing
  <2>3. CASE pc[p] = "manifest"
    <3>1. Publish(p, "manifest", mine[p], FALSE, "sources")
      BY <2>3 DEF Prepare
    <3> QED
      BY <2>3, <3>1, ZenonT(30) DEF Preparing
  <2>4. CASE pc[p] = "sources"
    <3>1. Publish(p, "sources", mine[p], FALSE, "prepared")
      BY <2>4 DEF Prepare
    <3> QED
      BY <2>4, <3>1, ZenonT(30) DEF Preparing
  <2>5. CASE pc[p] = "prepared"
    <3>1. Publish(p, "prepared", mine[p], FALSE, "finish")
      BY <2>5 DEF Prepare
    <3> QED
      BY <2>5, <3>1 DEF Preparing
  <2> QED
    BY <1>1, <2>1, <2>2, <2>3, <2>4, <2>5 DEF Preparing
<1>3. \/ files' = files /\ \E l \in {"failed", "incomplete"} : Goto(p, l)
      \/ /\ files[pc[p]] = None /\ files' = [files EXCEPT ![pc[p]] = content]
         /\ \E l \in {"failed", "incomplete", next} : Goto(p, l)
  BY <1>2 DEF Publish, Attempt, Fail
<1>4. PICK l \in {"failed", "incomplete", next} : Goto(p, l)
  BY <1>3
<1>5. content \in Prefix /\ content # None
  <2>1. "submitted" \in Event
    BY DEF Event
  <2>2. mine[p] \in Prefix /\ Terminal(mine[p]) \in Prefix
    BY <2>1, Grows
  <2> QED
    BY <1>2, <2>2
<1>6. files' \in [Artifact -> Prefix \cup {None}]
  BY <1>3, <1>5
<1>7. Grounded(p)'
  BY <1>1, <1>2, <1>3, <1>4
     DEF Grounded, journal, Editing, Capturing, Preparing, Ending, Open
<1>8. EvidenceAgrees'
  <2>1. CASE UNCHANGED files
    BY <1>1, <2>1 DEF EvidenceAgrees, Candidate, journal
  <2>2. CASE /\ files[pc[p]] = None /\ files' = [files EXCEPT ![pc[p]] = content]
             /\ pc[p] # "prepared"
    <3>1. pc[p] \in {"complete", "prefix", "manifest", "sources"}
      BY <1>1, <2>2 DEF Preparing
    <3>2. ~Exists("prepared")
      <4>1. SUFFICES ASSUME Exists("prepared") PROVE FALSE
        OBVIOUS
      <4>2. files["prepared"] \in Prefix /\ Candidate(files["prepared"])
        BY <4>1 DEF EvidenceAgrees
      <4>3. "submitted" \in Event
        BY DEF Event
      <4>4. Terminal(files["prepared"]) \in Prefix
        BY <4>2, <4>3, Grows
      <4> QED
        BY <2>2, <3>1, <4>1, <4>2, <4>4 DEF Candidate
    <3> QED
      BY <1>1, <2>2, <3>1, <3>2 DEF EvidenceAgrees, Candidate, journal
  <2>3. CASE files' = [files EXCEPT !["prepared"] = mine[p]] /\ pc[p] = "prepared"
    <3>1. Candidate(mine[p]) /\ files["capture"] = mine[p] /\ ~ended /\ Last # "submitted"
      BY <2>3 DEF Grounded, Candidate, Preparing, EvidenceAgrees
    <3> QED
      BY <1>1, <2>3, <3>1 DEF EvidenceAgrees, Candidate, journal
  <2> QED
    BY <1>2, <1>3, <2>1, <2>2, <2>3
<1> QED
  BY <1>1, <1>2, <1>4, <1>6, <1>7, <1>8, OwnerStep
     DEF journal, Label, Owning, Editing, Capturing, Preparing, Ending, Leaving

(* The terminal event, the end of the session, the receipt. *)
LEMMA EndingPreserves ==
    ASSUME Inv, NEW p \in Process, Finish(p) \/ EndSession(p) \/ PublishReceipt(p)
    PROVE  Inv'
<1> USE DEF Inv, TypeOK
<1>1. pc[p] \in Ending /\ lock = p /\ UNCHANGED <<mine, rescue>>
  BY DEF Finish, EndSession, PublishReceipt, memory, Exclusive, Owning, Ending
<1>2. files["prepared"] = mine[p] /\ mine[p] \in Prefix
  BY <1>1 DEF Grounded, Ending
<1>3. Exists("prepared") /\ Candidate(mine[p]) /\ files["capture"] = mine[p]
  BY <1>2 DEF EvidenceAgrees
<1>4. Terminal(mine[p]) \in Prefix \ {<<>>} /\ Terminal(mine[p])[Len(Terminal(mine[p]))] = "submitted"
  <2>1. "submitted" \in Event
    BY DEF Event
  <2> QED
    BY <1>2, <2>1, Grows
<1>5. CASE Finish(p)
  <2>1. UNCHANGED <<ended, files, lock, told>>
    BY <1>5 DEF Finish
  <2>2. log' = log \/ (log = mine[p] /\ ~ended /\ log' = Terminal(mine[p]))
    BY <1>5 DEF Finish, Attempt
  <2>3. PICK l \in {"failed", "incomplete", "end"} :
            Goto(p, l) /\ (l = "end" => log' = Terminal(mine[p]))
    BY <1>5 DEF Finish, Attempt, Fail
  <2>4. Grounded(p)'
    BY <1>1, <1>2, <2>1, <2>3 DEF Grounded, Editing, Capturing, Preparing, Ending
  <2>5. log' \in Prefix \ {<<>>}
    BY <1>4, <2>2
  <2>6. EvidenceAgrees'
    BY <1>2, <1>3, <1>4, <2>1, <2>2 DEF EvidenceAgrees, Candidate
  <2> QED
    BY <1>1, <2>1, <2>3, <2>4, <2>5, <2>6, OwnerStep
       DEF Label, Owning, Editing, Capturing, Preparing, Ending, Leaving
<1>6. CASE EndSession(p)
  <2>1. UNCHANGED <<log, files, lock, told>> /\ log = Terminal(mine[p])
    BY <1>6 DEF EndSession
  <2>2. ended' \in {ended, TRUE}
    BY <1>6 DEF EndSession, Attempt
  <2>3. PICK l \in {"failed", "incomplete", "receipt"} :
            Goto(p, l) /\ (l = "receipt" => ended')
    BY <1>6 DEF EndSession, Attempt, Fail
  <2>4. Grounded(p)'
    BY <1>1, <1>2, <2>1, <2>3 DEF Grounded, Editing, Capturing, Preparing, Ending
  <2>5. EvidenceAgrees'
    BY <1>4, <2>1, <2>2 DEF EvidenceAgrees, Candidate
  <2> QED
    BY <1>1, <2>1, <2>2, <2>3, <2>4, <2>5, OwnerStep
       DEF Label, Owning, Editing, Capturing, Preparing, Ending, Leaving
<1>7. CASE PublishReceipt(p)
  <2>1. UNCHANGED journal /\ pc[p] = "receipt"
    BY <1>7 DEF PublishReceipt
  <2>2. ended
    BY <2>1 DEF Grounded
  <2>3. /\ UNCHANGED <<lock, told>>
        /\ \/ files' = [files EXCEPT !["receipt"] = mine[p]] /\ Goto(p, "finalized")
           \/ UNCHANGED files /\ \E l \in {"failed", "incomplete"} : Goto(p, l)
    BY <1>7 DEF PublishReceipt, Fail
  <2>4. PICK l \in {"failed", "incomplete", "finalized"} :
            Goto(p, l) /\ (l = "finalized" => files' = [files EXCEPT !["receipt"] = mine[p]])
    BY <2>3
  <2>5. l = "finalized" => files'["receipt"] = mine[p] /\ mine[p] # None
    BY <1>2, <2>4
  <2>6. Grounded(p)'
    BY <2>4, <2>5 DEF Grounded, Editing, Capturing, Preparing, Ending
  <2>7. EvidenceAgrees'
    BY <1>2, <1>3, <2>1, <2>2, <2>3 DEF EvidenceAgrees, Candidate, journal
  <2>8. files' \in [Artifact -> Prefix \cup {None}] /\ told' \in BOOLEAN
    BY <1>2, <2>3
  <2> QED
    BY <1>1, <2>1, <2>3, <2>4, <2>6, <2>7, <2>8, OwnerStep
       DEF journal, Label, Owning, Editing, Capturing, Preparing, Ending, Leaving
<1> QED
  BY <1>5, <1>6, <1>7

(* What an attempt that stopped leaves, and who picks it up. *)
LEMMA RecoveryPreserves ==
    ASSUME Inv, NEW p \in Process,
           MarkIncomplete(p) \/ Release(p) \/ Certify(p) \/ Recover(p) \/ Busy(p) \/ Crash(p)
    PROVE  Inv'
<1> USE DEF Inv, TypeOK
<1>1. UNCHANGED journal
  BY DEF MarkIncomplete, Release, Certify, Recover, Busy, Crash
<1>2. CASE MarkIncomplete(p)
  <2>1. Goto(p, "unfinished") /\ UNCHANGED lock
    BY <1>2 DEF MarkIncomplete
  <2>2. lock = p
    BY <1>2 DEF MarkIncomplete, Exclusive, Owning, Leaving
  <2>3. /\ files' \in {files, [files EXCEPT !["incomplete"] = <<>>]}
        /\ UNCHANGED <<mine, rescue, told>>
    BY <1>2 DEF MarkIncomplete, memory
  <2>4. files' \in [Artifact -> Prefix \cup {None}]
    <3> DEFINE nothing == <<>>
    <3>1. nothing \in Prefix
      OBVIOUS
    <3>2. files' = files \/ files' = [files EXCEPT !["incomplete"] = nothing]
      BY <2>3
    <3> HIDE DEF nothing
    <3> QED
      BY <3>1, <3>2
  <2>5. Grounded(p)'
    BY <2>1 DEF Grounded, Editing, Capturing, Preparing, Ending
  <2>6. EvidenceAgrees'
    BY <1>1, <2>3 DEF EvidenceAgrees, Candidate, journal
  <2> QED
    BY <1>1, <2>1, <2>2, <2>3, <2>4, <2>5, <2>6, OwnerStep
       DEF journal, Label, Owning, Editing, Capturing, Preparing, Ending, Leaving
<1>3. CASE Release(p)
  <2>1. /\ pc[p] \in {"finalized", "unfinished"} /\ lock' = None
        /\ \E l \in {"probe", "idle"} : Goto(p, l)
        /\ told' \in BOOLEAN /\ (told' => told \/ pc[p] = "finalized")
        /\ UNCHANGED <<files, mine, rescue>>
    BY <1>3 DEF Release
  <2>2. PICK l \in {"probe", "idle"} : Goto(p, l)
    BY <2>1
  <2>3. lock = p /\ (told' => told \/ Exists("receipt"))
    BY <2>1 DEF Exclusive, Owning, Leaving, Grounded
  <2>4. Grounded(p)'
    BY <2>2 DEF Grounded, Editing, Capturing, Preparing, Ending
  <2>5. EvidenceAgrees'
    BY <1>1, <2>1, <2>3 DEF EvidenceAgrees, Candidate, journal
  <2> QED
    BY <1>1, <2>1, <2>2, <2>3, <2>4, <2>5, OwnerStep
       DEF journal, Label, Owning, Editing, Capturing, Preparing, Ending, Leaving
<1>4. CASE Certify(p) \/ Busy(p)
  <2>1. /\ pc[p] = "recover" /\ Goto(p, "idle") /\ UNCHANGED <<files, lock, mine, rescue>>
        /\ told' \in BOOLEAN /\ (told' => told \/ Exists("receipt"))
    BY <1>4 DEF Certify, Certified, Busy, memory
  <2>2. pc[p] \notin Owning
    BY <2>1 DEF Owning, Editing, Capturing, Preparing, Ending, Leaving
  <2> QED
    BY <1>1, <2>1, <2>2, Outside
<1>5. CASE Recover(p)
  <2>1. pc[p] = "recover" /\ UNCHANGED files
    BY <1>5 DEF Recover
  <2>2. /\ lock = None /\ lock' = p /\ UNCHANGED told
        /\ rescue' = [rescue EXCEPT ![p] = "incomplete"]
        /\ \/ /\ Exists("prepared") /\ mine' = [mine EXCEPT ![p] = files["prepared"]]
              /\ Goto(p, "finish")
           \/ UNCHANGED mine /\ Goto(p, "incomplete")
    BY <1>5 DEF Recover, Finishable
  <2>3. PICK next \in {"finish", "incomplete"} : Goto(p, next)
    BY <2>2
  <2>4. mine' \in [Process -> Prefix]
    BY <2>2
  <2>5. Grounded(p)'
    BY <2>1, <2>2 DEF Grounded, Editing, Capturing, Preparing, Ending
  <2>6. EvidenceAgrees'
    BY <1>1, <2>1, <2>2 DEF EvidenceAgrees, Candidate, journal
  <2> QED
    BY <1>1, <2>1, <2>2, <2>3, <2>4, <2>5, <2>6, OwnerStep
       DEF journal, Label, Owning, Editing, Capturing, Preparing, Ending, Leaving
<1>6. CASE Crash(p)
  <2>1. /\ Goto(p, "idle") /\ lock' = IF lock = p THEN None ELSE lock
        /\ UNCHANGED <<files, mine, rescue, told>>
    BY <1>6 DEF Crash, memory
  <2>2. CASE lock = p
    <3>1. Grounded(p)'
      BY <2>1 DEF Grounded, Editing, Capturing, Preparing, Ending
    <3>2. EvidenceAgrees'
      BY <1>1, <2>1 DEF EvidenceAgrees, Candidate, journal
    <3> QED
      BY <1>1, <2>1, <2>2, <3>1, <3>2, OwnerStep
         DEF journal, Label, Owning, Editing, Capturing, Preparing, Ending, Leaving
  <2>3. CASE lock # p
    BY <1>1, <2>1, <2>3, Outside DEF Exclusive
  <2> QED
    BY <2>2, <2>3
<1> QED
  BY <1>2, <1>3, <1>4, <1>5, <1>6

-----------------------------------------------------------------------------
(* Every step keeps the invariant. *)
LEMMA NextPreserves == Inv /\ [Next]_vars => Inv'
<1> SUFFICES ASSUME Inv, [Next]_vars PROVE Inv'
  OBVIOUS
<1>1. CASE UNCHANGED vars
  BY <1>1 DEF vars, Inv, TypeOK, Exclusive, Grounded, Open, Captured, EvidenceAgrees, Candidate
<1>2. ASSUME NEW p \in Process,
             Submission(p) \/ Work(p) \/ Edit(p) \/ Quit(p) \/ Refuse(p) \/ Crash(p)
      PROVE  Inv'
  BY <1>2, LooksPreserve, ResumePreserves, OpenPreserves, CapturePreserves,
     PreparePreserves, EndingPreserves, RecoveryPreserves DEF Submission
<1> QED
  BY <1>1, <1>2 DEF Next

(* From the capture on, the journal is the captured prefix or that prefix  *)
(* and its one terminal event; a prepared marker comes with everything it  *)
(* binds; and nobody is told "finalized" before the receipt, the terminal  *)
(* event and the end of the session are durable - for any number of        *)
(* processes submitting, recovering, editing and dying between any two     *)
(* steps (session/finalization.rs, submit_workspace, resume_inner).        *)
THEOREM EvidenceAlwaysAgrees == Spec => []EvidenceAgrees
<1>1. Inv => EvidenceAgrees
  BY DEF Inv
<1> QED
  BY <1>1, InitHolds, NextPreserves, PTL DEF Spec
=============================================================================
