--------------------------- MODULE AuthorityProofs ---------------------------
(***************************************************************************)
(* The Authority of a session and its journal agree, for any number of     *)
(* incarnations of the session, any budget of events, any queue and any    *)
(* crashes, failures of the writer and losses of ownership.                *)
(*                                                                         *)
(* Everything rests on one fact: of all the requests the Authority ever    *)
(* sends, at most one is under way, since whatever is appended first       *)
(* settles the checkpoint in flight.  The invariant says where that one    *)
(* request is, in the queue, with the worker, in the journal or answered,  *)
(* and that apart from it the journal holds exactly what was replayed.     *)
(***************************************************************************)
EXTENDS SessionAuthority, SequenceTheorems, FiniteSetTheorems, WellFoundedInduction, TLAPS

Events == [kind : Kind, sound : BOOLEAN]
Request == [attempt : Nat, writer : Writer, job : Seq(Events)]
Entry == [attempt : Nat, writer : Writer, event : Events]
Answer == [state : {"unsent", "pending", "persisted", "failed", "stopped"}, sequence : Nat]

In(phases) == call # None /\ call.phase \in phases

(* The request under way, from its place in the queue to its settlement. *)
Sent == checkpoint # None \/ In({"wait"})
SentAttempt == IF checkpoint # None THEN checkpoint.attempt ELSE call.attempt
SentJob == IF checkpoint # None THEN <<checkpoint.event>> ELSE call.job
SentRequest == [attempt |-> SentAttempt, writer |-> session, job |-> SentJob]
Written == worker[session] = "committed" \/ receipt[SentAttempt].state = "persisted"

TypeOK ==
    /\ counter \in 1 .. MaxAttempt
    /\ DOMAIN submitting = {Ui} /\ DOMAIN current = Writer
    /\ submitting = [c \in {Ui} |-> submitting[c]] /\ current = [w \in Writer |-> current[w]]
    /\ sender \in [Writer -> {"none", "open", "closed"}]
    /\ joined \in [Writer -> {"no", "ok", "error"}]
    /\ queue \in [Writer -> Seq(Request)]
    /\ worker \in [Writer -> {"none", "recv", "processing", "committed", "failed", "stopping",
                              "finished", "errored", "panicked"}]
    /\ receipt \in [W!Attempt -> Answer]
    /\ log \in Seq(Entry)
    /\ session \in Writer \cup {None} /\ lock = session
    /\ call \in Call \cup {None}
    /\ replayed \in Seq(Events)
    /\ poison \in BOOLEAN /\ changed \in BOOLEAN
    /\ schedule \in [baseline : Nat, edits : Nat, pending : Scheduled \cup {None},
                     retryDue : BOOLEAN]
    /\ checkpoint \in PendingCheckpoint \cup {None}

(* Only the session's own worker runs; the others have nothing left. *)
Owned ==
    /\ session = None => call = None /\ checkpoint = None
    /\ \A w \in Writer : w # session => worker[w] \in W!Ended \cup {"none"}
    /\ \A w \in Writer : worker[w] \in W!Ended \cup {"none"} => queue[w] = <<>>
    /\ session # None => (worker[session] = "none" <=> In({"spawn"}))
    /\ In({"release"}) => worker[session] \in W!Ended
    /\ log # <<>> => \E w \in Writer : worker[w] # "none"

(* Which calls can be at which step, and with what. *)
WellFormed(job) ==
    /\ job \in Seq(Events) /\ Len(job) \in 1 .. 2
    /\ job[1].kind # "compared"
    /\ Len(job) = 2 => job[1].kind = "finish" /\ job[2].kind = "compared"

Called ==
    /\ call # None =>
        /\ call.kind \in {"append", "compared", "checkpoint"} => WellFormed(call.job)
        /\ call.kind \in {"append", "compared"} => call.wait /\ call.job[1].kind # "checkpoint"
        /\ call.kind = "checkpoint" => Len(call.job) = 1 /\ call.job[1].kind = "checkpoint"
        /\ call.opening => call.kind \in {"append", "checkpoint"} /\ call.wait
                             /\ (call.kind = "append" => replayed # <<>>)
        /\ call.kind = "drop" => In({"close", "join", "release"})
    /\ session # None /\ replayed = <<>> => call # None /\ call.opening /\ call.kind = "checkpoint"
    /\ In({"spawn"}) => call.opening /\ ~poison
    /\ In({"check", "submit", "send", "wait", "confirm"}) =>
            call.kind \in {"append", "compared", "checkpoint"}
    /\ In({"check"}) /\ checkpoint # None => call.kind = "checkpoint" /\ ~call.wait
    /\ In({"spawn", "submit", "send", "wait"}) => checkpoint = None /\ ~poison
    /\ In({"wait"}) => call.kind # "checkpoint"
    /\ In({"confirm"}) => checkpoint # None /\ call.wait

(* A job whose place in the journal is reserved, and which replay of a     *)
(* command will not refuse.                                                *)
Admitted(job) ==
    /\ WellFormed(job)
    /\ Len(replayed) + Len(job) + 2 <= Budget
    /\ \A i \in DOMAIN job : job[i].kind \in {"finish", "compared"} => job[i].sound

Admission ==
    /\ In({"submit", "send"}) => Admitted(call.job)
    /\ Sent => Admitted(SentJob)
    /\ checkpoint # None => checkpoint.event.kind = "checkpoint"

(* Identities of requests are never used twice. *)
Fresh ==
    /\ \A a \in W!Attempt : a >= counter => receipt[a] = W!Unsent
    /\ In({"send"}) =>
        /\ submitting[Ui] = [attempt |-> submitting[Ui].attempt, writer |-> session,
                             job |-> call.job]
        /\ submitting[Ui].attempt \in W!Attempt /\ submitting[Ui].attempt < counter
        /\ receipt[submitting[Ui].attempt] = W!Unsent
    /\ Sent => SentAttempt \in W!Attempt /\ SentAttempt < counter

(* Where the one request under way is. *)
Waiting == queue[session] = <<SentRequest>> /\ worker[session] = "recv"
Processing == worker[session] = "processing" /\ current[session] = SentRequest
Refused == worker[session] = "failed" /\ current[session] = SentRequest
Committed ==
    /\ worker[session] = "committed"
    /\ current[session] = [attempt |-> SentAttempt, tail |-> Len(log)]
Idle == worker[session] \in {"recv", "stopping"} \cup W!Ended

Place ==
    /\ session # None /\ ~Sent => queue[session] = <<>> /\ (Idle \/ worker[session] = "none")
    /\ Sent =>
        \/ receipt[SentAttempt] = W!Pending /\ Waiting
        \/ receipt[SentAttempt] = W!Pending /\ queue[session] = <<>>
             /\ (Processing \/ Refused \/ Committed)
        \/ receipt[SentAttempt].state \in {"persisted", "failed", "stopped"}
             /\ queue[session] = <<>> /\ Idle
    /\ session # None /\ worker[session] = "stopping" =>
        poison \/ (Sent /\ receipt[SentAttempt].state = "failed")

(* What is durable, beside what was replayed. *)
Durably ==
    /\ session # None =>
        IF Sent THEN Durable = IF Written THEN replayed \o SentJob ELSE replayed
        ELSE IF poison THEN IsPrefix(replayed, Durable) ELSE Durable = replayed
    /\ Sent /\ receipt[SentAttempt].state = "persisted" =>
            receipt[SentAttempt].sequence = Len(log)
    /\ BudgetReserve
    /\ FinishesReplayable

(* The books: nothing is recorded while a checkpoint is in flight. *)
Books ==
    /\ session # None /\ ~poison =>
        /\ changed = ChangedSince(replayed)
        /\ schedule.edits = UncapturedEdits(replayed)
        /\ Len(replayed) <= Budget
    /\ checkpoint # None =>
        schedule.pending = [attempt |-> checkpoint.attempt, at |-> 0,
                            captured |-> schedule.edits, post |-> 0]
    /\ checkpoint = None => schedule.pending = None

Inv ==
    /\ TypeOK /\ Owned /\ Called /\ Admission /\ Fresh /\ Place /\ Durably /\ Books

-----------------------------------------------------------------------------
(***************************************************************************)
(* What resume computes of a prefix, event by event.                       *)
(***************************************************************************)
LastCheckpoint(r) == SelectLastInSeq(r, LAMBDA e : e.kind = "checkpoint")

IsLast(r, n) ==
    /\ n \in 0 .. Len(r)
    /\ n # 0 => r[n].kind = "checkpoint"
    /\ \A i \in n + 1 .. Len(r) : r[i].kind # "checkpoint"

LEMMA MaxExists ==
    ASSUME NEW n \in Nat, NEW I \in SUBSET (1 .. n), I # {}
    PROVE  \E m \in I : \A i \in I : m >= i
<1> DEFINE D == {n - i : i \in I}
<1>1. D \subseteq Nat /\ D # {}
  <2>1. \A i \in I : i \in 1 .. n
    OBVIOUS
  <2>2. \A i \in 1 .. n : n - i \in Nat
    OBVIOUS
  <2> QED
    BY <2>1, <2>2
<1>2. PICK d \in D : \A c \in D : <<c, d>> \notin OpToRel(<, Nat)
  <2> HIDE DEF D
  <2> QED
    BY <1>1, WFMin, NatLessThanWellFounded, Zenon
<1>3. \A c \in D : ~(c < d)
  <2> HIDE DEF D
  <2> QED
    BY <1>1, <1>2, Zenon DEF OpToRel
<1>4. PICK m \in I : d = n - m
  OBVIOUS
<1>5. \A i \in I : ~(n - i < n - m)
  BY <1>3, <1>4
<1> QED
  BY <1>5

LEMMA LastFound ==
    ASSUME NEW r \in Seq(Events)
    PROVE  IsLast(r, LastCheckpoint(r))
<1> DEFINE I == {i \in 1 .. Len(r) : r[i].kind = "checkpoint"}
<1>1. LastCheckpoint(r) = IF I # {} THEN Max(I) ELSE 0
  BY DEF LastCheckpoint, SelectLastInSeq
<1>2. Len(r) \in Nat /\ I \in SUBSET (1 .. Len(r))
  OBVIOUS
<1>3. CASE I = {}
  BY <1>1, <1>3 DEF IsLast
<1>4. CASE I # {}
  <2> HIDE DEF I
  <2>1. \E m \in I : \A i \in I : m >= i
    BY <1>2, <1>4, MaxExists
  <2>2. Max(I) \in I /\ \A i \in I : Max(I) >= i
    BY <2>1 DEF Max
  <2> DEFINE m == LastCheckpoint(r)
  <2>3. m \in I /\ m \in 1 .. Len(r) /\ \A i \in I : m >= i
    BY <1>1, <1>2, <1>4, <2>2
  <2> HIDE DEF m
  <2>4. \A i \in m + 1 .. Len(r) : i \in 1 .. Len(r) /\ ~(m >= i)
    BY <1>2, <2>3
  <2>5. \A i \in m + 1 .. Len(r) : i \notin I /\ i \in 1 .. Len(r)
    BY <2>3, <2>4
  <2> USE DEF I
  <2>6. r[m].kind = "checkpoint" /\ m \in 0 .. Len(r)
    BY <1>2, <2>3
  <2>7. \A i \in m + 1 .. Len(r) : r[i].kind # "checkpoint"
    BY <2>5
  <2> QED
    BY <2>6, <2>7 DEF IsLast, m
<1> QED
  BY <1>3, <1>4

LEMMA OnlyOneLast ==
    ASSUME NEW r \in Seq(Events), NEW m, NEW n, IsLast(r, m), IsLast(r, n)
    PROVE  m = n
BY DEF IsLast

LEMMA UncapturedIs ==
    ASSUME NEW r \in Seq(Events), NEW n, IsLast(r, n)
    PROVE  /\ Uncaptured(r) = SubSeq(r, n + 1, Len(r))
           /\ DOMAIN Uncaptured(r) = 1 .. Len(r) - n
           /\ \A i \in 1 .. Len(r) - n : Uncaptured(r)[i] = r[n + i]
<1>1. LastCheckpoint(r) = n
  BY LastFound, OnlyOneLast
<1>2. Uncaptured(r) = SubSeq(r, n + 1, Len(r))
  BY <1>1 DEF Uncaptured, LastCheckpoint
<1> QED
  BY <1>2 DEF IsLast

LEMMA ChangedOrNot == \A r : ChangedSince(r) \in BOOLEAN
BY DEF ChangedSince

Edits(r, n) == {i \in 1 .. Len(r) - n : r[n + i].kind = "edit"}

LEMMA EditsAre ==
    ASSUME NEW r \in Seq(Events), NEW n, IsLast(r, n)
    PROVE  /\ UncapturedEdits(r) = Cardinality(Edits(r, n))
           /\ IsFiniteSet(Edits(r, n))
           /\ UncapturedEdits(r) \in 0 .. Len(r)
           /\ ChangedSince(r) <=> \E i \in 1 .. Len(r) - n : r[n + i].kind \in {"edit", "track"}
<1>1. {i \in DOMAIN Uncaptured(r) : Uncaptured(r)[i].kind = "edit"} = Edits(r, n)
  BY UncapturedIs DEF Edits
<1>2. n \in 0 .. Len(r) /\ Len(r) \in Nat
  BY DEF IsLast
<1>3. IsFiniteSet(1 .. Len(r)) /\ Cardinality(1 .. Len(r)) = Len(r)
  <2> DEFINE k == Len(r)
  <2>1. k \in Nat /\ 1 \in Int /\ k \in Int
    BY <1>2
  <2> HIDE DEF k
  <2>2. IsFiniteSet(1 .. k) /\ Cardinality(1 .. k) = IF 1 > k THEN 0 ELSE k - 1 + 1
    BY <2>1, FS_Interval
  <2> QED
    BY <2>1, <2>2 DEF k
<1>4. Edits(r, n) \subseteq 1 .. Len(r)
  BY <1>2 DEF Edits
<1>5. /\ IsFiniteSet(Edits(r, n))
      /\ Cardinality(Edits(r, n)) \in Nat
      /\ Cardinality(Edits(r, n)) <= Len(r)
  BY <1>3, <1>4, FS_Subset, FS_CardinalityType
<1>6. ChangedSince(r) <=> \E i \in 1 .. Len(r) - n : r[n + i].kind \in {"edit", "track"}
  <2> DEFINE u == Uncaptured(r)
             D == 1 .. Len(r) - n
  <2>1. DOMAIN u = D /\ \A i \in D : u[i] = r[n + i]
    BY UncapturedIs, Zenon
  <2>2. ChangedSince(r) <=> \E i \in DOMAIN u : u[i].kind \in {"edit", "track"}
    BY Zenon DEF ChangedSince
  <2> HIDE DEF u, D
  <2>3. (\E i \in DOMAIN u : u[i].kind \in {"edit", "track"})
          <=> \E i \in D : r[n + i].kind \in {"edit", "track"}
    BY <2>1
  <2> QED
    BY <2>2, <2>3, Zenon DEF D
<1>7. UncapturedEdits(r) = Cardinality(Edits(r, n))
  BY <1>1, Zenon DEF UncapturedEdits
<1>8. UncapturedEdits(r) \in 0 .. Len(r)
  BY <1>2, <1>5, <1>7
<1> QED
  BY <1>5, <1>6, <1>7, <1>8, Zenon

LEMMA CheckpointClears ==
    ASSUME NEW r \in Seq(Events), NEW e \in Events, e.kind = "checkpoint"
    PROVE  UncapturedEdits(r \o <<e>>) = 0 /\ ~ChangedSince(r \o <<e>>)
<1> DEFINE t == r \o <<e>>
<1>1. t \in Seq(Events) /\ Len(t) = Len(r) + 1 /\ t[Len(r) + 1] = e
  OBVIOUS
<1> HIDE DEF t
<1>2. IsLast(t, Len(r) + 1)
  BY <1>1 DEF IsLast
<1>3. Edits(t, Len(r) + 1) = {}
  BY <1>1 DEF Edits
<1>4. UncapturedEdits(t) = 0
  BY <1>1, <1>2, <1>3, EditsAre, FS_EmptySet
<1>5. ~ChangedSince(t)
  BY <1>1, <1>2, EditsAre
<1> QED
  BY <1>4, <1>5 DEF t

LEMMA EventCounts ==
    ASSUME NEW r \in Seq(Events), NEW e \in Events, e.kind # "checkpoint"
    PROVE  /\ UncapturedEdits(r \o <<e>>)
                = UncapturedEdits(r) + (IF e.kind = "edit" THEN 1 ELSE 0)
           /\ ChangedSince(r \o <<e>>) <=> ChangedSince(r) \/ e.kind \in {"edit", "track"}
<1> DEFINE t == r \o <<e>>
           n == LastCheckpoint(r)
<1>1. /\ t \in Seq(Events) /\ Len(t) = Len(r) + 1 /\ t[Len(r) + 1] = e
      /\ \A i \in 1 .. Len(r) : t[i] = r[i]
  OBVIOUS
<1>2. IsLast(r, n)
  BY LastFound
<1> HIDE DEF t, n
<1>3. n \in 0 .. Len(r) /\ Len(r) \in Nat
  BY <1>2 DEF IsLast
<1>4. IsLast(t, n)
  <2>1. n # 0 => t[n].kind = "checkpoint"
    BY <1>1, <1>2, <1>3 DEF IsLast
  <2>2. \A i \in n + 1 .. Len(t) : t[i].kind # "checkpoint"
    BY <1>1, <1>2, <1>3 DEF IsLast
  <2> QED
    BY <1>1, <1>3, <2>1, <2>2 DEF IsLast
<1>5. Len(t) - n = (Len(r) - n) + 1 /\ Len(r) - n \in Nat /\ t[n + ((Len(r) - n) + 1)] = e
  BY <1>1, <1>3
<1>6. \A i \in 1 .. Len(r) - n : t[n + i] = r[n + i]
  <2>1. \A i \in 1 .. Len(r) - n : n + i \in 1 .. Len(r)
    BY <1>3
  <2> QED
    BY <1>1, <2>1
<1>7. Edits(t, n) = IF e.kind = "edit" THEN Edits(r, n) \cup {(Len(r) - n) + 1} ELSE Edits(r, n)
  <2> DEFINE k == Len(r) - n
  <2>1. k \in Nat /\ Edits(t, n) = {i \in 1 .. k + 1 : t[n + i].kind = "edit"}
        /\ Edits(r, n) = {i \in 1 .. k : r[n + i].kind = "edit"}
    BY <1>5 DEF Edits
  <2>2. t[n + (k + 1)] = e /\ \A i \in 1 .. k : t[n + i] = r[n + i]
    BY <1>5, <1>6
  <2> HIDE DEF k
  <2>3. Edits(t, n) = IF e.kind = "edit" THEN Edits(r, n) \cup {k + 1} ELSE Edits(r, n)
    BY <2>1, <2>2
  <2> QED
    BY <2>3 DEF k
<1>8. (Len(r) - n) + 1 \notin Edits(r, n)
  BY <1>5 DEF Edits
<1>9. /\ UncapturedEdits(r) = Cardinality(Edits(r, n)) /\ IsFiniteSet(Edits(r, n))
      /\ UncapturedEdits(t) = Cardinality(Edits(t, n))
  BY <1>1, <1>2, <1>4, EditsAre
<1>10. UncapturedEdits(t) = UncapturedEdits(r) + (IF e.kind = "edit" THEN 1 ELSE 0)
  <2>1. CASE e.kind = "edit"
    <3> DEFINE old == Edits(r, n)
               x == (Len(r) - n) + 1
    <3>1. x \notin old /\ IsFiniteSet(old) /\ Edits(t, n) = old \cup {x}
      BY <1>7, <1>8, <1>9, <2>1, Zenon
    <3>2. UncapturedEdits(r) = Cardinality(old) /\ UncapturedEdits(t) = Cardinality(Edits(t, n))
      BY <1>9, Zenon
    <3> HIDE DEF old, x
    <3>3. Cardinality(old \cup {x}) = Cardinality(old) + 1
      BY <3>1, FS_AddElement
    <3> QED
      BY <2>1, <3>1, <3>2, <3>3
  <2>2. CASE e.kind # "edit"
    <3>1. UncapturedEdits(r) \in 0 .. Len(r)
      BY <1>2, EditsAre
    <3> QED
      BY <1>7, <1>9, <2>2, <3>1
  <2> QED
    BY <2>1, <2>2
<1>11. ChangedSince(t) <=> ChangedSince(r) \/ e.kind \in {"edit", "track"}
  <2>1. ChangedSince(t) <=> \E i \in 1 .. Len(t) - n : t[n + i].kind \in {"edit", "track"}
    BY <1>1, <1>4, EditsAre
  <2>2. ChangedSince(r) <=> \E i \in 1 .. Len(r) - n : r[n + i].kind \in {"edit", "track"}
    BY <1>2, EditsAre
  <2>3. \A i \in 1 .. Len(t) - n : i \in 1 .. Len(r) - n \/ i = (Len(r) - n) + 1
    BY <1>5
  <2>4. (Len(r) - n) + 1 \in 1 .. Len(t) - n /\ \A i \in 1 .. Len(r) - n : i \in 1 .. Len(t) - n
    BY <1>5
  <2> QED
    BY <1>5, <1>6, <2>1, <2>2, <2>3, <2>4
<1> QED
  BY <1>10, <1>11 DEF t

LEMMA JobCounts ==
    ASSUME NEW r \in Seq(Events), NEW job, WellFormed(job), job[1].kind # "checkpoint"
    PROVE  /\ UncapturedEdits(r \o job)
                = UncapturedEdits(r) + (IF job[1].kind = "edit" THEN 1 ELSE 0)
           /\ ChangedSince(r \o job)
                <=> ChangedSince(r) \/ \E i \in DOMAIN job : job[i].kind \in {"edit", "track"}
<1>1. job \in Seq(Events) /\ Len(job) \in {1, 2} /\ job[1] \in Events
  BY DEF WellFormed
<1> DEFINE e == job[1]
           q == r \o <<e>>
<1>2. q \in Seq(Events) /\ e \in Events
  BY <1>1
<1>3. /\ UncapturedEdits(q) = UncapturedEdits(r) + (IF e.kind = "edit" THEN 1 ELSE 0)
      /\ ChangedSince(q) <=> ChangedSince(r) \/ e.kind \in {"edit", "track"}
  BY <1>2, EventCounts
<1>4. CASE Len(job) = 1
  <2>1. job = <<e>> /\ DOMAIN job = {1}
    BY <1>1, <1>4
  <2> QED
    BY <1>3, <2>1
<1>5. CASE Len(job) = 2
  <2> DEFINE f == job[2]
  <2>1. f \in Events /\ job = <<e, f>> /\ DOMAIN job = {1, 2}
    BY <1>1, <1>5
  <2>2. e.kind = "finish" /\ f.kind = "compared"
    BY <1>5 DEF WellFormed
  <2>3. r \o job = q \o <<f>>
    <3>1. <<e>> \in Seq(Events) /\ <<f>> \in Seq(Events) /\ job = <<e>> \o <<f>>
      BY <1>2, <2>1
    <3> HIDE DEF e, f
    <3> QED
      BY <3>1, ConcatAssociative
  <2>4. /\ UncapturedEdits(q \o <<f>>) = UncapturedEdits(q) + (IF f.kind = "edit" THEN 1 ELSE 0)
        /\ ChangedSince(q \o <<f>>) <=> ChangedSince(q) \/ f.kind \in {"edit", "track"}
    <3> HIDE DEF q, f
    <3> QED
      BY <1>2, <2>1, <2>2, EventCounts
  <2>5. UncapturedEdits(q) \in Nat
    <3> HIDE DEF q
    <3>1. UncapturedEdits(q) \in 0 .. Len(q)
      BY <1>2, LastFound, EditsAre
    <3> QED
      BY <1>2, <3>1
  <2> HIDE DEF q
  <2>6. UncapturedEdits(r \o job) = UncapturedEdits(q)
    BY <2>2, <2>3, <2>4, <2>5
  <2>7. ChangedSince(r \o job) <=> ChangedSince(q)
    BY <2>2, <2>3, <2>4
  <2>8. \A i \in DOMAIN job : job[i].kind \notin {"edit", "track"}
    BY <2>1, <2>2
  <2> QED
    BY <1>3, <2>2, <2>6, <2>7, <2>8
<1> QED
  BY <1>1, <1>4, <1>5

(* The events of a journal are those of its entries. *)
LEMMA DurableFacts ==
    ASSUME log \in Seq(Entry)
    PROVE  /\ Durable \in Seq(Events)
           /\ Len(Durable) = Len(log)
           /\ \A i \in 1 .. Len(log) : Durable[i] = log[i].event
<1>1. \A i \in 1 .. Len(log) : log[i].event \in Events
  <2>1. \A i \in 1 .. Len(log) : log[i] \in Entry
    OBVIOUS
  <2> QED
    BY <2>1 DEF Entry
<1>2. DOMAIN log = 1 .. Len(log) /\ Len(log) \in Nat
  OBVIOUS
<1>3. Durable \in [1 .. Len(log) -> Events]
  BY <1>1, <1>2 DEF Durable
<1> QED
  BY <1>2, <1>3 DEF Durable

LEMMA Continues ==
    ASSUME NEW r \in Seq(Events), NEW s \in Seq(Events)
    PROVE  /\ IsPrefix(r, r)
           /\ IsPrefix(r, r \o s)
           /\ Len(r \o s) = Len(r) + Len(s)
           /\ r \o s \in Seq(Events)
<1>1. Len(r) \in Nat /\ Len(s) \in Nat /\ Len(r \o s) = Len(r) + Len(s)
  OBVIOUS
<1>2. SubSeq(r \o s, 1, Len(r)) = r
  OBVIOUS
<1>3. SubSeq(r, 1, Len(r)) = r
  OBVIOUS
<1> QED
  BY <1>1, <1>2, <1>3 DEF IsPrefix

-----------------------------------------------------------------------------
(* Calls. *)
Phase ==
    {"spawn", "settle", "check", "submit", "send", "wait", "confirm", "close", "join",
     "release"}

LEMMA Constants ==
    /\ None \notin Writer /\ None \notin Call /\ None \notin PendingCheckpoint
    /\ None \notin Scheduled
    /\ Capacity \in Nat \ {0} /\ MaxAttempt \in Nat \ {0} /\ Threshold \in Nat \ {0}
    /\ Budget \in Nat
BY AuthorityAssumption

LEMMA Moved ==
    ASSUME NEW c \in Call, NEW p \in Phase, NEW d, d = [c EXCEPT !.phase = p]
    PROVE  /\ d \in Call /\ d # None
           /\ d.phase = p /\ d.kind = c.kind /\ d.job = c.job /\ d.wait = c.wait
           /\ d.opening = c.opening /\ d.attempt = c.attempt
BY Constants DEF Call, Phase, Events

LEMMA Returned ==
    ASSUME NEW ok \in BOOLEAN, call \in Call, Return(ok)
    PROVE  /\ call' \in Call \cup {None}
           /\ call' # None =>
                /\ call'.phase = "close" /\ call'.kind = call.kind /\ call'.job = call.job
                /\ call'.wait = call.wait /\ call'.opening = call.opening
           /\ call.opening /\ ~ok => call' # None
<1>1. CASE call.kind = "quit" \/ (call.opening /\ ~ok)
  <2>1. call' = [call EXCEPT !.phase = "close"]
    BY <1>1 DEF Return, ShutdownFirst
  <2> QED
    BY <2>1, Moved DEF Phase
<1>2. CASE ~(call.kind = "quit" \/ (call.opening /\ ~ok))
  BY <1>2 DEF Return
<1> QED
  BY <1>1, <1>2

(***************************************************************************)
(* Most steps of a call move it along and touch nothing else, but for a    *)
(* poisoning.                                                              *)
(***************************************************************************)
LEMMA SameRequest ==
    ASSUME UNCHANGED <<session, checkpoint>>,
           (~In({"wait"}) /\ ~In({"wait"})') \/ UNCHANGED call
    PROVE  /\ Sent' <=> Sent
           /\ Sent => SentAttempt' = SentAttempt /\ SentJob' = SentJob
                        /\ SentRequest' = SentRequest
BY DEF Sent, SentAttempt, SentJob, SentRequest, In

LEMMA CallMoves ==
    ASSUME Inv, session # None,
           UNCHANGED <<counter, submitting, queue, worker, current, receipt, log, lock,
                       session, replayed, changed, schedule, checkpoint>>,
           sender' \in [Writer -> {"none", "open", "closed"}],
           joined' \in [Writer -> {"no", "ok", "error"}],
           poison' \in BOOLEAN, poison => poison',
           call' \in Call \cup {None},
           ~In({"spawn", "wait"}), ~In({"spawn", "wait", "send"})',
           In({"release"})' => worker[session] \in W!Ended
    PROVE  TypeOK' /\ Owned' /\ Fresh' /\ Place' /\ Durably' /\ Books'
<1>1. ~In({"wait"}) /\ ~In({"wait"})'
  BY DEF In
<1>2. /\ Sent' <=> Sent
      /\ Sent => SentAttempt' = SentAttempt /\ SentJob' = SentJob
                   /\ SentRequest' = SentRequest
  BY <1>1, SameRequest
<1>3. TypeOK'
  BY DEF Inv, TypeOK
<1>4. Owned'
  <2>1. worker[session] # "none"
    BY DEF Inv, Owned, In
  <2>2. ~In({"spawn"})'
    BY DEF In
  <2> QED
    BY <2>1, <2>2 DEF Inv, Owned
<1>5. Fresh'
  <2>1. ~In({"send"})'
    BY DEF In
  <2> QED
    BY <1>2, <2>1 DEF Inv, Fresh
<1>6. Place'
  BY <1>2 DEF Inv, Place, Waiting, Processing, Refused, Committed, Idle
<1>7. Durably'
  <2>1. Durable' = Durable
    BY DEF Durable
  <2>2. Sent => (Written' <=> Written)
    BY <1>2 DEF Written
  <2>3. IsPrefix(replayed, replayed)
    <3>1. replayed \in Seq(Events) /\ <<>> \in Seq(Events)
      BY DEF Inv, TypeOK
    <3> QED
      BY <3>1, Continues
  <2>4. BudgetReserve' /\ FinishesReplayable'
    BY <2>1 DEF Inv, Durably, BudgetReserve, FinishesReplayable
  <2>5. IF Sent THEN Durable = IF Written THEN replayed \o SentJob ELSE replayed
        ELSE IF poison' THEN IsPrefix(replayed, Durable) ELSE Durable = replayed
    BY <2>3 DEF Inv, Durably
  <2>6. Sent /\ receipt[SentAttempt].state = "persisted" =>
            receipt[SentAttempt].sequence = Len(log)
    BY DEF Inv, Durably
  <2> QED
    BY <1>2, <2>1, <2>2, <2>4, <2>5, <2>6, Zenon DEF Durably
<1>8. Books'
  BY DEF Inv, Books
<1> QED
  BY <1>3, <1>4, <1>5, <1>6, <1>7, <1>8

-----------------------------------------------------------------------------
(* The parts of the invariant that only look at the call. *)
LEMMA BeginOne ==
    ASSUME Inv,
           NEW kind \in {"append", "compared", "checkpoint", "drain", "quit", "drop"},
           NEW job \in Seq(Events), NEW wait \in BOOLEAN, NEW phase \in {"settle", "close"},
           Begin(kind, job, wait, phase),
           kind \in {"append", "compared", "checkpoint"} => WellFormed(job),
           kind \in {"append", "compared"} => wait /\ job[1].kind # "checkpoint",
           kind = "checkpoint" => Len(job) = 1 /\ job[1].kind = "checkpoint",
           kind = "drop" => phase = "close"
    PROVE  Inv'
<1>1. /\ session # None /\ call = None
      /\ UNCHANGED <<writerVars, lock, session, liveVars>>
  BY DEF Begin
<1>2. /\ call' \in Call /\ call' # None
      /\ call'.kind = kind /\ call'.job = job /\ call'.wait = wait
      /\ call'.phase = phase /\ ~call'.opening
  <2>1. call' = [kind |-> kind, job |-> job, wait |-> wait, phase |-> phase,
                 opening |-> FALSE, attempt |-> 0]
    BY DEF Begin, NewCall
  <2>2. call' \in Call
    <3>1. job \in Seq([kind : Kind, sound : BOOLEAN])
      BY DEF Events
    <3> QED
      BY <2>1, <3>1 DEF Call
  <2> QED
    BY <2>1, <2>2, Constants
<1>3. TypeOK' /\ Owned' /\ Fresh' /\ Place' /\ Durably' /\ Books'
  <2>1. ~In({"spawn", "wait"}) /\ ~In({"spawn", "wait", "send"})' /\ ~In({"release"})'
    BY <1>1, <1>2 DEF In
  <2>2. /\ sender' \in [Writer -> {"none", "open", "closed"}]
        /\ joined' \in [Writer -> {"no", "ok", "error"}]
        /\ poison' \in BOOLEAN /\ (poison => poison')
    BY <1>1 DEF Inv, TypeOK, writerVars, liveVars
  <2> QED
    BY <1>1, <1>2, <2>1, <2>2, CallMoves DEF writerVars, liveVars
<1>4. replayed' # <<>>
  BY <1>1 DEF Inv, Called, liveVars
<1>5. Called'
  BY <1>1, <1>2, <1>4 DEF Called, In
<1>6. Admission'
  <2>1. ~In({"wait"}) /\ ~In({"wait", "submit", "send"})'
    BY <1>1, <1>2 DEF In
  <2>2. /\ Sent' <=> Sent
        /\ Sent => SentJob' = SentJob
    BY <1>1, <1>2 DEF Sent, SentJob, In, liveVars
  <2>3. Sent => Admitted(SentJob)
    BY DEF Inv, Admission
  <2>4. (Sent => Admitted(SentJob))'
    BY <1>1, <2>2, <2>3 DEF Admitted, WellFormed, liveVars
  <2>5. (checkpoint # None => checkpoint.event.kind = "checkpoint")'
    BY <1>1 DEF Inv, Admission, liveVars
  <2>6. ~In({"submit", "send"})'
    BY <2>1 DEF In
  <2> QED
    BY <2>4, <2>5, <2>6 DEF Admission
<1> QED
  BY <1>3, <1>5, <1>6 DEF Inv

LEMMA JobTypes ==
    ASSUME NEW kind \in Kind, NEW s1 \in BOOLEAN, NEW s2 \in BOOLEAN, kind # "compared"
    PROVE  /\ WellFormed(<<Event(kind, s1)>>)
           /\ <<Event(kind, s1)>>[1].kind = kind
           /\ WellFormed(<<Event("finish", s1), Event("compared", s2)>>)
           /\ <<Event("finish", s1), Event("compared", s2)>>[1].kind = "finish"
BY DEF WellFormed, Event, Events, Kind

LEMMA BeginPreserves ==
    ASSUME Inv, BeginCall
    PROVE  Inv'
<1>1. CASE \E kind \in AppendKind, sound \in BOOLEAN :
              Begin("append", <<Event(kind, sound)>>, TRUE, "settle")
  <2>1. PICK kind \in AppendKind, sound \in BOOLEAN :
            Begin("append", <<Event(kind, sound)>>, TRUE, "settle")
    BY <1>1
  <2>2. kind \in Kind /\ kind # "compared" /\ kind # "checkpoint"
    BY AuthorityAssumption DEF Kind
  <2> DEFINE job == <<Event(kind, sound)>>
  <2>3. WellFormed(job) /\ job[1].kind # "checkpoint" /\ job \in Seq(Events)
    BY <2>2, JobTypes DEF WellFormed
  <2> HIDE DEF job
  <2> QED
    BY <2>1, <2>3, BeginOne DEF job
<1>2. CASE \E s1, s2 \in BOOLEAN :
              /\ "finish" \in AppendKind
              /\ Begin("compared", <<Event("finish", s1), Event("compared", s2)>>, TRUE, "settle")
  <2>1. PICK s1 \in BOOLEAN, s2 \in BOOLEAN :
            Begin("compared", <<Event("finish", s1), Event("compared", s2)>>, TRUE, "settle")
    BY <1>2
  <2> DEFINE job == <<Event("finish", s1), Event("compared", s2)>>
  <2>2. WellFormed(job) /\ job[1].kind # "checkpoint" /\ job \in Seq(Events)
    BY JobTypes DEF WellFormed, Kind
  <2> HIDE DEF job
  <2> QED
    BY <2>1, <2>2, BeginOne DEF job
<1>3. CASE \E boundary, sound \in BOOLEAN :
              Begin("checkpoint", <<Event("checkpoint", sound)>>, boundary, "settle")
  <2>1. PICK boundary \in BOOLEAN, sound \in BOOLEAN :
            Begin("checkpoint", <<Event("checkpoint", sound)>>, boundary, "settle")
    BY <1>3
  <2> DEFINE job == <<Event("checkpoint", sound)>>
  <2>2. WellFormed(job) /\ job[1].kind = "checkpoint" /\ job \in Seq(Events) /\ Len(job) = 1
    BY JobTypes DEF WellFormed, Kind
  <2> HIDE DEF job
  <2> QED
    BY <2>1, <2>2, BeginOne DEF job
<1>4. CASE (\E wait \in BOOLEAN : Begin("drain", <<>>, wait, "settle"))
           \/ Begin("quit", <<>>, TRUE, "settle") \/ Begin("drop", <<>>, TRUE, "close")
  <2>1. <<>> \in Seq(Events)
    OBVIOUS
  <2> QED
    BY <1>4, <2>1, BeginOne
<1> QED
  BY <1>1, <1>2, <1>3, <1>4 DEF BeginCall

LEMMA AdmissionStays ==
    ASSUME Inv, UNCHANGED <<session, replayed, checkpoint>>,
           ~In({"wait"}), ~In({"wait"})',
           In({"submit", "send"})' => Admitted(call.job)'
    PROVE  Admission'
<1>1. /\ Sent' <=> Sent
      /\ Sent => SentJob' = SentJob
  BY DEF Sent, SentJob
<1>2. Sent => Admitted(SentJob)
  BY DEF Inv, Admission
<1>3. (Sent => Admitted(SentJob))'
  BY <1>1, <1>2 DEF Admitted, WellFormed
<1>4. (checkpoint # None => checkpoint.event.kind = "checkpoint")'
  BY DEF Inv, Admission
<1> QED
  BY <1>3, <1>4 DEF Admission

(* A call that returns, or shuts the session down instead. *)
LEMMA ReturnedCalled ==
    ASSUME Inv, call # None, NEW ok \in BOOLEAN, Return(ok), session' = session,
           replayed' = replayed \/ replayed' # <<>>, ok => replayed' # <<>>
    PROVE  /\ Called'
           /\ call' \in Call \cup {None}
           /\ ~In({"spawn", "check", "submit", "send", "wait", "confirm", "release"})'
<1>1. call \in Call
  BY DEF Inv, TypeOK
<1>2. /\ call' \in Call \cup {None}
      /\ call' # None =>
           /\ call'.phase = "close" /\ call'.kind = call.kind /\ call'.job = call.job
           /\ call'.wait = call.wait /\ call'.opening = call.opening
      /\ call.opening /\ ~ok => call' # None
  BY <1>1, Returned
<1>3. ~In({"spawn", "check", "submit", "send", "wait", "confirm", "release"})'
  BY <1>2 DEF In
<1>4. call' # None =>
        /\ call'.kind \in {"append", "compared", "checkpoint"} => WellFormed(call'.job)
        /\ call'.kind \in {"append", "compared"} =>
                call'.wait /\ call'.job[1].kind # "checkpoint"
        /\ call'.kind = "checkpoint" =>
                Len(call'.job) = 1 /\ call'.job[1].kind = "checkpoint"
        /\ call'.opening => call'.kind \in {"append", "checkpoint"} /\ call'.wait
                             /\ (call'.kind = "append" => replayed' # <<>>)
        /\ call'.kind = "drop" => In({"close", "join", "release"})'
  BY <1>2 DEF Inv, Called, In
<1>5. session' # None /\ replayed' = <<>> =>
        call' # None /\ call'.opening /\ call'.kind = "checkpoint"
  <2>1. SUFFICES ASSUME session # None, replayed' = <<>>, replayed = <<>>, ~ok
                 PROVE  call' # None /\ call'.opening /\ call'.kind = "checkpoint"
    BY Zenon
  <2>2. call.opening /\ call.kind = "checkpoint"
    BY <2>1 DEF Inv, Called
  <2> QED
    BY <1>2, <2>1, <2>2
<1>6. Called'
  BY <1>2, <1>3, <1>4, <1>5 DEF Called, In, WellFormed
<1> QED
  BY <1>2, <1>3, <1>6

LEMMA SessionOpen ==
    ASSUME Inv, call # None
    PROVE  session # None /\ session \in Writer /\ call \in Call
BY DEF Inv, TypeOK, Owned

(* Nothing to settle, or not yet. *)
LEMMA SettleQuiet ==
    ASSUME Inv, call # None, call.phase \in {"settle", "confirm"},
           ~MustSettle, ~MaySettle, Proceed,
           UNCHANGED <<writerVars, lock, session, liveVars>>
    PROVE  Inv'
<1>1. call.phase = "settle"
  BY DEF MustSettle, Waits, Inv, Called, In
<1>2. call.kind # "drop"
  BY <1>1 DEF Inv, Called, In
<1>3. session # None /\ call \in Call
  BY SessionOpen
<1>4. ~In({"spawn", "wait"}) /\ ~In({"wait"})
  BY <1>1 DEF In
<1>5. /\ sender' \in [Writer -> {"none", "open", "closed"}]
      /\ joined' \in [Writer -> {"no", "ok", "error"}]
      /\ poison' \in BOOLEAN /\ (poison => poison')
  BY DEF Inv, TypeOK, writerVars, liveVars
<1>6. CASE call.kind \in {"drain", "quit"}
  <2>1. Return(TRUE)
    BY <1>1, <1>6 DEF Proceed
  <2>2. replayed' # <<>>
    BY <1>3, <1>6 DEF Inv, Called, liveVars
  <2>3. /\ Called'
        /\ call' \in Call \cup {None}
        /\ ~In({"spawn", "check", "submit", "send", "wait", "confirm", "release"})'
    BY <2>1, <2>2, ReturnedCalled
  <2>4. ~In({"spawn", "wait", "send"})' /\ ~In({"wait"})' /\ ~In({"submit", "send"})'
        /\ ~In({"release"})'
    BY <2>3 DEF In
  <2>5. TypeOK' /\ Owned' /\ Fresh' /\ Place' /\ Durably' /\ Books'
    BY <1>3, <1>4, <1>5, <2>3, <2>4, CallMoves DEF writerVars, liveVars
  <2>6. Admission'
    BY <1>4, <2>4, AdmissionStays DEF liveVars
  <2> QED
    BY <2>3, <2>5, <2>6 DEF Inv
<1>7. CASE call.kind \notin {"drain", "quit"}
  <2>1. call' = [call EXCEPT !.phase = "check"]
    BY <1>1, <1>7 DEF Proceed
  <2>2. /\ call' \in Call /\ call' # None
        /\ call'.phase = "check" /\ call'.kind = call.kind /\ call'.job = call.job
        /\ call'.wait = call.wait /\ call'.opening = call.opening
    BY <1>3, <2>1, Moved DEF Phase
  <2>3. ~In({"spawn", "wait", "send"})' /\ ~In({"wait"})' /\ ~In({"submit", "send"})'
        /\ ~In({"release"})'
    BY <2>2 DEF In
  <2>4. TypeOK' /\ Owned' /\ Fresh' /\ Place' /\ Durably' /\ Books'
    BY <1>3, <1>4, <1>5, <2>2, <2>3, CallMoves DEF writerVars, liveVars
  <2>5. Admission'
    BY <1>4, <2>3, AdmissionStays DEF liveVars
  <2>6. call.kind \in {"append", "compared", "checkpoint"}
    BY <1>2, <1>3, <1>7 DEF Call
  <2>7. checkpoint # None => ~call.wait
    BY DEF MustSettle, Waits
  <2>8. Called'
    BY <1>3, <2>2, <2>6, <2>7 DEF Inv, Called, In, WellFormed, liveVars
  <2> QED
    BY <2>4, <2>5, <2>8 DEF Inv
<1> QED
  BY <1>6, <1>7

-----------------------------------------------------------------------------
(* Settling the request under way. *)
LEMMA SentTypes ==
    ASSUME Inv, Sent
    PROVE  /\ session # None /\ session \in Writer
           /\ WellFormed(SentJob) /\ SentJob \in Seq(Events) /\ Len(SentJob) \in {1, 2}
           /\ SentAttempt \in W!Attempt /\ SentAttempt < counter /\ SentAttempt \in Nat
           /\ receipt[SentAttempt] \in Answer
           /\ Len(replayed) + Len(SentJob) + 2 <= Budget
           /\ \A i \in DOMAIN SentJob :
                SentJob[i].kind \in {"finish", "compared"} => SentJob[i].sound
<1>1. session # None /\ session \in Writer
  BY DEF Inv, Owned, TypeOK, Sent, In
<1>2. Admitted(SentJob)
  BY DEF Inv, Admission
<1>3. WellFormed(SentJob) /\ SentJob \in Seq(Events) /\ Len(SentJob) \in {1, 2}
  BY <1>2 DEF Admitted, WellFormed
<1>4. SentAttempt \in W!Attempt /\ SentAttempt < counter
  BY DEF Inv, Fresh
<1>5. receipt[SentAttempt] \in Answer
  BY <1>4 DEF Inv, TypeOK
<1>6. SentAttempt \in Nat
  BY <1>4, Constants DEF W!Attempt
<1> QED
  BY <1>1, <1>2, <1>3, <1>4, <1>5, <1>6 DEF Admitted

LEMMA Settled ==
    ASSUME Inv, Sent, receipt[SentAttempt] # W!Pending
    PROVE  /\ queue[session] = <<>> /\ Idle
           /\ receipt[SentAttempt].state \in {"persisted", "failed", "stopped"}
           /\ Durable = IF receipt[SentAttempt].state = "persisted"
                        THEN replayed \o SentJob ELSE replayed
           /\ receipt[SentAttempt].state = "persisted" =>
                receipt[SentAttempt].sequence = Len(replayed) + Len(SentJob)
<1>1. /\ queue[session] = <<>> /\ Idle
      /\ receipt[SentAttempt].state \in {"persisted", "failed", "stopped"}
  BY DEF Inv, Place
<1>2. worker[session] # "committed"
  BY <1>1 DEF Idle, W!Ended
<1>3. Durable = IF receipt[SentAttempt].state = "persisted"
                THEN replayed \o SentJob ELSE replayed
  BY <1>2, SentTypes DEF Inv, Durably, Written
<1>4. ASSUME receipt[SentAttempt].state = "persisted"
      PROVE  receipt[SentAttempt].sequence = Len(replayed) + Len(SentJob)
  <2>1. receipt[SentAttempt].sequence = Len(log) /\ Durable = replayed \o SentJob
    BY <1>3, <1>4 DEF Inv, Durably
  <2>2. Len(Durable) = Len(log)
    BY DurableFacts DEF Inv, TypeOK
  <2>3. Len(replayed \o SentJob) = Len(replayed) + Len(SentJob)
    BY SentTypes, Continues DEF Inv, TypeOK
  <2> QED
    BY <2>1, <2>2, <2>3
<1> QED
  BY <1>1, <1>3, <1>4

LEMMA Settles ==
    ASSUME Inv, Sent, receipt[SentAttempt] # W!Pending,
           UNCHANGED <<writerVars, lock, session>>,
           call' \in Call \cup {None}, checkpoint' = None,
           ~In({"spawn", "submit", "send", "wait", "release"})', ~In({"spawn"}),
           changed' \in BOOLEAN,
           schedule' \in [baseline : Nat, edits : Nat, pending : Scheduled \cup {None},
                          retryDue : BOOLEAN],
           \/ /\ receipt[SentAttempt].state = "persisted"
              /\ replayed' = replayed \o SentJob /\ poison' = poison
           \/ replayed' = replayed /\ poison' = TRUE
    PROVE  TypeOK' /\ Owned' /\ Admission' /\ Fresh' /\ Place' /\ Durably'
<1>1. ~Sent' /\ ~In({"spawn"})' /\ ~In({"submit", "send"})' /\ ~In({"send"})'
      /\ ~In({"release"})'
  BY DEF Sent, In
<1>2. session # None
  BY SentTypes
<1>3. replayed' \in Seq(Events) /\ poison' \in BOOLEAN
  <2>1. replayed \in Seq(Events) /\ poison \in BOOLEAN
    BY DEF Inv, TypeOK
  <2> QED
    BY <2>1, SentTypes, Continues
<1>4. TypeOK'
  BY <1>3 DEF Inv, TypeOK, writerVars
<1>5. Owned'
  BY <1>1, <1>2 DEF Inv, Owned, writerVars
<1>6. Admission'
  BY <1>1 DEF Admission
<1>7. Fresh'
  BY <1>1 DEF Inv, Fresh, writerVars
<1>8. Place'
  <2>1. queue[session] = <<>> /\ Idle
    BY Settled
  <2>2. worker[session] = "stopping" => poison'
    <3>1. worker[session] = "stopping" => poison \/ receipt[SentAttempt].state = "failed"
      BY <1>2 DEF Inv, Place
    <3>2. poison => poison'
      BY Zenon
    <3>3. receipt[SentAttempt].state = "failed" => poison'
      OBVIOUS
    <3> QED
      BY <3>1, <3>2, <3>3
  <2> QED
    BY <1>1, <1>2, <2>1, <2>2 DEF Place, Idle, writerVars
<1>9. Durably'
  <2>1. Durable' = Durable
    BY DEF Durable, writerVars
  <2>2. BudgetReserve' /\ FinishesReplayable'
    BY <2>1 DEF Inv, Durably, BudgetReserve, FinishesReplayable, writerVars
  <2>3. replayed' = Durable \/ (poison' /\ replayed' = replayed)
    BY Settled
  <2>4. IsPrefix(replayed, replayed) /\ IsPrefix(replayed, replayed \o SentJob)
    BY SentTypes, Continues DEF Inv, TypeOK
  <2>5. IsPrefix(replayed, Durable)
    BY <2>4, Settled
  <2>6. IsPrefix(Durable, Durable)
    <3>1. Durable \in Seq(Events) /\ <<>> \in Seq(Events)
      BY DurableFacts DEF Inv, TypeOK
    <3> QED
      BY <3>1, Continues
  <2> QED
    BY <1>1, <2>1, <2>2, <2>3, <2>5, <2>6 DEF Durably
<1> QED
  BY <1>4, <1>5, <1>6, <1>7, <1>8, <1>9

LEMMA ScheduleType ==
    ASSUME Inv
    PROVE  schedule \in [baseline : Nat, edits : Nat, pending : Scheduled \cup {None},
                         retryDue : BOOLEAN]
BY DEF Inv, TypeOK

LEMMA ScheduleApplied ==
    ASSUME Inv, checkpoint # None,
           NEW s, s = S!Applied(schedule, AnswerOf(checkpoint.attempt))
    PROVE  /\ s \in [baseline : Nat, edits : Nat, pending : Scheduled \cup {None},
                     retryDue : BOOLEAN]
           /\ s.pending = None
           /\ receipt[checkpoint.attempt].state = "persisted" => s.edits = 0
<1> DEFINE answer == AnswerOf(checkpoint.attempt)
           pending == [attempt |-> checkpoint.attempt, at |-> 0,
                       captured |-> schedule.edits, post |-> 0]
<1>1. /\ schedule.pending = pending /\ schedule.edits \in Nat
      /\ checkpoint.attempt \in Nat /\ schedule.baseline \in Nat
  BY DEF Inv, TypeOK, Books, PendingCheckpoint
<1>2. pending \in Scheduled
  BY <1>1 DEF Scheduled
<1>3. pending # None
  BY <1>2, Constants
<1>4. answer.kind = "checkpoint" /\ answer.attempt = checkpoint.attempt
      /\ answer.outcome = receipt[checkpoint.attempt].state
  BY DEF AnswerOf
<1>5. pending.attempt = checkpoint.attempt /\ pending.at = 0
      /\ pending.captured = schedule.edits /\ pending.post = 0
  OBVIOUS
<1> HIDE DEF answer, pending
<1>6. S!Matches(schedule, answer)
  BY <1>1, <1>3, <1>4, <1>5 DEF S!Matches
<1>7. S!Remaining(schedule) = 0
  BY <1>1, <1>5 DEF S!Remaining, S!Larger, S!SaturatingSub
<1>8. CASE answer.outcome = "persisted"
  <2>1. s = [baseline |-> 0, edits |-> 0, pending |-> None, retryDue |-> FALSE]
    BY <1>1, <1>5, <1>6, <1>7, <1>8 DEF S!Applied, answer
  <2> QED
    BY <2>1
<1>9. CASE answer.outcome # "persisted"
  <2>1. s = [schedule EXCEPT !.pending = None, !.retryDue = TRUE]
    BY <1>6, <1>9 DEF S!Applied, answer
  <2>2. s = [baseline |-> schedule.baseline, edits |-> schedule.edits, pending |-> None,
             retryDue |-> TRUE]
    BY <2>1, ScheduleType
  <2> QED
    BY <1>1, <1>4, <1>9, <2>2
<1> QED
  BY <1>8, <1>9

LEMMA SettleNow ==
    ASSUME Inv, NEW owned \in BOOLEAN, Settle(owned), MaySettle
    PROVE  Inv'
<1>1. /\ call # None /\ call.phase \in {"settle", "confirm"} /\ checkpoint # None
      /\ receipt[checkpoint.attempt] # W!Pending
      /\ UNCHANGED <<writerVars, lock, session>>
      /\ checkpoint' = None
      /\ schedule' = S!Applied(schedule, AnswerOf(checkpoint.attempt))
  BY DEF Settle, MaySettle, Taken
<1>2. /\ session # None /\ session \in Writer /\ call \in Call
      /\ changed \in BOOLEAN /\ poison \in BOOLEAN /\ replayed \in Seq(Events)
  BY <1>1, SessionOpen DEF Inv, TypeOK
<1>3. Sent /\ SentAttempt = checkpoint.attempt /\ SentJob = <<checkpoint.event>>
  BY <1>1 DEF Sent, SentAttempt, SentJob
<1>4. /\ schedule' \in [baseline : Nat, edits : Nat, pending : Scheduled \cup {None},
                        retryDue : BOOLEAN]
      /\ schedule'.pending = None
      /\ receipt[checkpoint.attempt].state = "persisted" => schedule'.edits = 0
  <2>1. \A s : s = S!Applied(schedule, AnswerOf(checkpoint.attempt)) =>
            /\ s \in [baseline : Nat, edits : Nat, pending : Scheduled \cup {None},
                      retryDue : BOOLEAN]
            /\ s.pending = None
            /\ receipt[checkpoint.attempt].state = "persisted" => s.edits = 0
    BY <1>1, ScheduleApplied
  <2> QED
    BY <1>1, <2>1
<1>5. ~In({"spawn"})
  BY <1>1 DEF In
<1>6. checkpoint.event \in Events /\ checkpoint.event.kind = "checkpoint"
  BY <1>1 DEF Inv, TypeOK, PendingCheckpoint, Admission, Events
<1>7. CASE /\ receipt[checkpoint.attempt].state = "persisted" /\ owned
           /\ Fits(<<checkpoint.event>>, receipt[checkpoint.attempt].sequence)
  <2>1. Adopt(<<checkpoint.event>>) /\ poison' = poison /\ Proceed
    BY <1>7 DEF Settle, MaySettle
  <2>2. replayed' = replayed \o <<checkpoint.event>> /\ changed' = FALSE
    BY <1>6, <2>1 DEF Adopt, Changed
  <2>3. replayed' # <<>>
    BY <1>2, <1>6, <2>2
  <2>4. Books'
    <3>1. UncapturedEdits(replayed') = 0 /\ ChangedSince(replayed') = FALSE
      BY <1>2, <1>6, <2>2, CheckpointClears, ChangedOrNot
    <3>2. Len(replayed') <= Budget
      <4>1. Len(replayed) + Len(<<checkpoint.event>>) + 2 <= Budget
        BY <1>3, SentTypes
      <4>2. Len(replayed') = Len(replayed) + 1 /\ Len(<<checkpoint.event>>) = 1
        BY <1>2, <1>6, <2>2
      <4> QED
        BY <1>2, <4>1, <4>2, Constants
    <3> QED
      BY <1>1, <1>4, <1>7, <2>2, <3>1, <3>2 DEF Books
  <2>5. CASE call.phase = "confirm" \/ call.kind \in {"drain", "quit"}
    <3>1. Return(TRUE)
      BY <2>1, <2>5 DEF Proceed
    <3>2. /\ Called' /\ call' \in Call \cup {None}
          /\ ~In({"spawn", "check", "submit", "send", "wait", "confirm", "release"})'
      BY <1>1, <2>3, <3>1, ReturnedCalled
    <3>3. ~In({"spawn", "submit", "send", "wait", "release"})'
      BY <3>2 DEF In
    <3>4. TypeOK' /\ Owned' /\ Admission' /\ Fresh' /\ Place' /\ Durably'
      BY <1>1, <1>3, <1>4, <1>5, <1>7, <2>1, <2>2, <3>2, <3>3, Settles
    <3> QED
      BY <2>4, <3>2, <3>4 DEF Inv
  <2>6. CASE ~(call.phase = "confirm" \/ call.kind \in {"drain", "quit"})
    <3>1. call' = [call EXCEPT !.phase = "check"]
      BY <2>1, <2>6 DEF Proceed
    <3>2. /\ call' \in Call /\ call' # None
          /\ call'.phase = "check" /\ call'.kind = call.kind /\ call'.job = call.job
          /\ call'.wait = call.wait /\ call'.opening = call.opening
      BY <1>2, <3>1, Moved DEF Phase
    <3>3. ~In({"spawn", "submit", "send", "wait", "release"})'
      BY <3>2 DEF In
    <3>4. TypeOK' /\ Owned' /\ Admission' /\ Fresh' /\ Place' /\ Durably'
      BY <1>1, <1>3, <1>4, <1>5, <1>7, <2>1, <2>2, <3>2, <3>3, Settles
    <3>5. call.kind \in {"append", "compared", "checkpoint"}
      BY <1>1, <1>2, <2>6 DEF Inv, Called, In, Call
    <3>6. Called'
      BY <1>1, <1>2, <2>3, <3>2, <3>5 DEF Inv, Called, In, WellFormed
    <3> QED
      BY <2>4, <3>4, <3>6 DEF Inv
  <2> QED
    BY <2>5, <2>6
<1>8. CASE ~(/\ receipt[checkpoint.attempt].state = "persisted" /\ owned
             /\ Fits(<<checkpoint.event>>, receipt[checkpoint.attempt].sequence))
  <2>1. poison' = TRUE /\ Return(FALSE) /\ replayed' = replayed /\ changed' = changed
    BY <1>8 DEF Settle, MaySettle, Fail
  <2>2. /\ Called' /\ call' \in Call \cup {None}
        /\ ~In({"spawn", "check", "submit", "send", "wait", "confirm", "release"})'
    BY <1>1, <2>1, ReturnedCalled
  <2>3. ~In({"spawn", "submit", "send", "wait", "release"})'
    BY <2>2 DEF In
  <2>4. TypeOK' /\ Owned' /\ Admission' /\ Fresh' /\ Place' /\ Durably'
    BY <1>1, <1>2, <1>3, <1>4, <1>5, <2>1, <2>2, <2>3, Settles
  <2>5. Books'
    BY <1>1, <1>4, <2>1 DEF Books
  <2> QED
    BY <2>2, <2>4, <2>5 DEF Inv
<1> QED
  BY <1>7, <1>8

LEMMA SettlePreserves ==
    ASSUME Inv, NEW owned \in BOOLEAN, Settle(owned)
    PROVE  Inv'
<1>1. CASE MaySettle
  BY <1>1, SettleNow
<1>2. CASE ~MaySettle
  BY <1>2, SettleQuiet DEF Settle
<1> QED
  BY <1>1, <1>2

-----------------------------------------------------------------------------
(* A call that ends without having changed anything but the poison. *)
LEMMA EndPreserves ==
    ASSUME Inv, call # None, ~In({"spawn", "wait"}),
           NEW ok \in BOOLEAN, Return(ok), ok => replayed # <<>>,
           poison' \in BOOLEAN, poison => poison',
           UNCHANGED <<writerVars, lock, session, replayed, changed, schedule, checkpoint>>
    PROVE  Inv'
<1>1. session # None
  BY SessionOpen
<1>2. /\ Called' /\ call' \in Call \cup {None}
      /\ ~In({"spawn", "check", "submit", "send", "wait", "confirm", "release"})'
  <2>1. replayed' = replayed /\ (ok => replayed' # <<>>) /\ session' = session
    OBVIOUS
  <2> QED
    BY <2>1, ReturnedCalled
<1>3. ~In({"spawn", "wait", "send"})' /\ ~In({"wait"})' /\ ~In({"submit", "send"})'
      /\ ~In({"release"})' /\ ~In({"wait"})
  BY <1>2 DEF In
<1>4. /\ sender' \in [Writer -> {"none", "open", "closed"}]
      /\ joined' \in [Writer -> {"no", "ok", "error"}]
  BY DEF Inv, TypeOK, writerVars
<1>5. TypeOK' /\ Owned' /\ Fresh' /\ Place' /\ Durably' /\ Books'
  BY <1>1, <1>2, <1>3, <1>4, CallMoves DEF writerVars
<1>6. Admission'
  BY <1>3, AdmissionStays
<1> QED
  BY <1>2, <1>5, <1>6 DEF Inv

LEMMA CheckPreserves ==
    ASSUME Inv, NEW owned \in BOOLEAN, NEW elapsed \in BOOLEAN, Check(owned, elapsed)
    PROVE  Inv'
<1>1. /\ call # None /\ call.phase = "check" /\ In({"check"})
      /\ UNCHANGED <<writerVars, lock, session, replayed, changed, schedule, checkpoint>>
  BY DEF Check, In
<1>2. /\ session # None /\ call \in Call /\ poison \in BOOLEAN /\ replayed \in Seq(Events)
  BY <1>1, SessionOpen DEF Inv, TypeOK
<1>3. ~In({"spawn", "wait"})
  BY <1>1 DEF In
<1>4. CASE Healthy(owned) /\ NotDue(elapsed)
  <2>1. Return(TRUE) /\ poison' = poison
    BY <1>4 DEF Check
  <2>2. replayed # <<>>
    BY <1>4 DEF NotDue
  <2> QED
    BY <1>1, <1>2, <1>3, <2>1, <2>2, EndPreserves
<1>5. CASE ~(Healthy(owned) /\ NotDue(elapsed)) /\ Healthy(owned) /\ Headroom /\ Prevalidated
  <2>1. call' = [call EXCEPT !.phase = "submit"] /\ poison' = poison
    BY <1>5 DEF Check
  <2>2. /\ call' \in Call /\ call' # None
        /\ call'.phase = "submit" /\ call'.kind = call.kind /\ call'.job = call.job
        /\ call'.wait = call.wait /\ call'.opening = call.opening
    BY <1>2, <2>1, Moved DEF Phase
  <2>3. ~In({"spawn", "wait", "send"})' /\ ~In({"wait"})' /\ ~In({"release"})'
        /\ ~In({"wait"})
    BY <1>1, <2>2 DEF In
  <2>4. /\ sender' \in [Writer -> {"none", "open", "closed"}]
        /\ joined' \in [Writer -> {"no", "ok", "error"}]
        /\ poison' \in BOOLEAN /\ (poison => poison')
    BY <1>1, <1>2, <2>1 DEF Inv, TypeOK, writerVars
  <2>5. TypeOK' /\ Owned' /\ Fresh' /\ Place' /\ Durably' /\ Books'
    BY <1>1, <1>2, <1>3, <2>2, <2>3, <2>4, CallMoves DEF writerVars
  <2>6. call.kind \in {"append", "compared", "checkpoint"}
    BY <1>1 DEF Inv, Called, In
  <2>7. ~poison
    BY <1>5 DEF Healthy
  <2>8. checkpoint = None
    <3>1. SUFFICES ASSUME checkpoint # None PROVE FALSE
      OBVIOUS
    <3>2. call.kind = "checkpoint" /\ ~call.wait
      BY <1>1, <3>1 DEF Inv, Called
    <3>3. replayed # <<>>
      BY <1>1, <1>2, <3>2 DEF Inv, Called
    <3>4. schedule.pending # None
      <4>1. schedule.pending = [attempt |-> checkpoint.attempt, at |-> 0,
                                captured |-> schedule.edits, post |-> 0]
        BY <3>1 DEF Inv, Books
      <4>2. schedule.edits \in Nat /\ checkpoint.attempt \in Nat
        BY <3>1 DEF Inv, TypeOK, PendingCheckpoint
      <4>3. schedule.pending \in Scheduled
        BY <4>1, <4>2 DEF Scheduled
      <4> QED
        BY <4>3, Constants
    <3>5. NotDue(elapsed)
      BY <3>2, <3>3, <3>4 DEF NotDue, S!ShouldSubmit
    <3> QED
      BY <1>5, <3>5
  <2>9. Admitted(call.job)
    <3>1. WellFormed(call.job)
      BY <1>1, <2>6 DEF Inv, Called
    <3>2. Len(replayed) \in Nat /\ Len(call.job) \in Nat
      BY <1>2, <3>1 DEF WellFormed
    <3>3. Len(replayed) + Len(call.job) + 2 <= Budget
      BY <1>5, <3>2, Constants DEF Headroom, EventCount
    <3>4. ASSUME NEW i \in DOMAIN call.job, call.job[i].kind \in {"finish", "compared"}
          PROVE  call.job[i].sound
      <4>1. i \in 1 .. Len(call.job) /\ Len(call.job) \in {1, 2} /\ (i = 1 \/ i = 2)
        BY <3>1, <3>4 DEF WellFormed
      <4>2. call.job[1].kind = "finish"
        BY <3>1, <3>4, <4>1 DEF WellFormed
      <4>3. AllSound(call.job)
        BY <1>5, <4>2 DEF Prevalidated
      <4> QED
        BY <3>4, <4>3 DEF AllSound
    <3> QED
      BY <3>1, <3>3, <3>4 DEF Admitted
  <2>10. Admission'
    <3>1. Admitted(call.job)'
      BY <1>1, <2>2, <2>9 DEF Admitted, WellFormed
    <3> QED
      BY <1>1, <2>3, <3>1, AdmissionStays
  <2>11. Called'
    BY <1>1, <2>1, <2>2, <2>6, <2>7, <2>8 DEF Inv, Called, In, WellFormed
  <2> QED
    BY <2>5, <2>10, <2>11 DEF Inv
<1>6. CASE ~(Healthy(owned) /\ NotDue(elapsed)) /\ ~(Healthy(owned) /\ Headroom /\ Prevalidated)
  <2>1. Return(FALSE) /\ poison' = TRUE
    BY <1>6 DEF Check, Fail
  <2> QED
    BY <1>1, <1>2, <1>3, <2>1, EndPreserves
<1> QED
  BY <1>4, <1>5, <1>6

LEMMA SubmitPreserves ==
    ASSUME Inv, Submit
    PROVE  Inv'
<1>1. /\ call # None /\ call.phase = "submit" /\ In({"submit"}) /\ ~In({"spawn", "wait"})
      /\ UNCHANGED <<lock, session>>
  BY DEF Submit, In
<1>2. /\ session # None /\ session \in Writer /\ call \in Call
      /\ poison \in BOOLEAN /\ replayed \in Seq(Events)
  BY <1>1, SessionOpen DEF Inv, TypeOK
<1>3. CASE counter = MaxAttempt /\ Fail
           /\ UNCHANGED <<writerVars, replayed, changed, schedule, checkpoint>>
  <2>1. Return(FALSE) /\ poison' = TRUE
    BY <1>3 DEF Fail
  <2> QED
    BY <1>1, <1>2, <1>3, <2>1, EndPreserves
<1>4. CASE /\ W!BeginSubmit(Ui, session, call.job)
           /\ call' = [call EXCEPT !.phase = "send"]
           /\ UNCHANGED liveVars
  <2>1. /\ counter < MaxAttempt /\ counter' = counter + 1
        /\ submitting' = [submitting EXCEPT ![Ui] = [attempt |-> counter,
                            writer |-> session, job |-> call.job]]
        /\ UNCHANGED <<sender, queue, worker, current, receipt, joined, log>>
    BY <1>4 DEF W!BeginSubmit, W!NextCounter
  <2>2. /\ call' \in Call /\ call' # None
        /\ call'.phase = "send" /\ call'.kind = call.kind /\ call'.job = call.job
        /\ call'.wait = call.wait /\ call'.opening = call.opening
    BY <1>2, <1>4, Moved DEF Phase
  <2>3. UNCHANGED <<replayed, poison, changed, schedule, checkpoint>>
    BY <1>4 DEF liveVars
  <2>4. checkpoint = None /\ ~poison /\ ~Sent /\ ~Sent' /\ ~In({"wait"})' /\ ~In({"wait"})
        /\ ~In({"spawn"})' /\ ~In({"release"})' /\ ~In({"spawn"})
    BY <1>1, <2>2, <2>3 DEF Inv, Called, In, Sent
  <2>5. counter \in W!Attempt /\ counter' \in 1 .. MaxAttempt /\ counter \in Nat
    BY <2>1, Constants DEF Inv, TypeOK, W!Attempt
  <2>6. DOMAIN submitting = {Ui} /\ submitting' = [c \in {Ui} |-> submitting'[c]]
        /\ DOMAIN submitting' = {Ui}
        /\ submitting'[Ui] = [attempt |-> counter, writer |-> session, job |-> call.job]
    BY <2>1 DEF Inv, TypeOK
  <2>7. TypeOK'
    BY <1>1, <2>1, <2>2, <2>3, <2>5, <2>6 DEF Inv, TypeOK
  <2>8. Owned'
    BY <1>1, <2>1, <2>2, <2>3, <2>4 DEF Inv, Owned
  <2>9. Called'
    BY <1>1, <2>2, <2>3, <2>4 DEF Inv, Called, In, WellFormed
  <2>10. Admission'
    <3>1. Admitted(call.job)
      BY <1>1 DEF Inv, Admission, In
    <3>2. Admitted(call.job)'
      BY <2>2, <2>3, <3>1 DEF Admitted, WellFormed
    <3> QED
      BY <1>1, <2>3, <2>4, <3>2, AdmissionStays
  <2>11. Fresh'
    <3>1. receipt[counter] = W!Unsent
      BY <2>5 DEF Inv, Fresh
    <3>2. \A a \in W!Attempt : a >= counter' => receipt'[a] = W!Unsent
      BY <2>1, <2>5, Constants DEF Inv, Fresh, W!Attempt
    <3>3. submitting'[Ui].attempt = counter /\ counter < counter'
          /\ submitting'[Ui] = [attempt |-> submitting'[Ui].attempt, writer |-> session',
                                job |-> call'.job]
      BY <1>1, <2>1, <2>2, <2>5, <2>6
    <3> QED
      BY <2>1, <2>4, <2>5, <3>1, <3>2, <3>3 DEF Fresh
  <2>12. Place'
    BY <1>1, <2>1, <2>3, <2>4 DEF Inv, Place, Idle
  <2>13. Durably'
    <3>1. Durable' = Durable
      BY <2>1 DEF Durable
    <3>2. BudgetReserve' /\ FinishesReplayable'
      BY <2>1, <3>1 DEF Inv, Durably, BudgetReserve, FinishesReplayable
    <3> QED
      BY <1>1, <2>3, <2>4, <3>1, <3>2 DEF Inv, Durably
  <2>14. Books'
    BY <1>1, <2>3 DEF Inv, Books
  <2> QED
    BY <2>7, <2>8, <2>9, <2>10, <2>11, <2>12, <2>13, <2>14 DEF Inv
<1> QED
  BY <1>3, <1>4 DEF Submit

LEMMA AcknowledgePreserves ==
    ASSUME Inv, NEW owned \in BOOLEAN, Acknowledge(owned)
    PROVE  Inv'
<1>1. /\ call # None /\ call.phase = "wait" /\ In({"wait"}) /\ ~In({"spawn"})
      /\ receipt[call.attempt] # W!Pending
      /\ UNCHANGED <<writerVars, lock, session, checkpoint>>
  BY DEF Acknowledge, In
<1>2. /\ session # None /\ session \in Writer /\ call \in Call
      /\ changed \in BOOLEAN /\ poison \in BOOLEAN /\ replayed \in Seq(Events)
  BY <1>1, SessionOpen DEF Inv, TypeOK
<1>3. checkpoint = None /\ ~poison /\ call.kind # "checkpoint"
      /\ call.kind \in {"append", "compared", "checkpoint"}
  BY <1>1 DEF Inv, Called, In
<1>4. Sent /\ SentAttempt = call.attempt /\ SentJob = call.job
  BY <1>1, <1>3 DEF Sent, SentAttempt, SentJob
<1>5. WellFormed(call.job) /\ call.job[1].kind # "checkpoint"
  BY <1>1, <1>3 DEF Inv, Called
<1>6. Len(replayed) \in Nat /\ Len(call.job) \in Nat \ {0}
      /\ Len(replayed) + Len(call.job) + 2 <= Budget
  BY <1>2, <1>4, <1>5, SentTypes DEF WellFormed
<1>7. schedule.pending = None /\ checkpoint' = None /\ schedule.edits = UncapturedEdits(replayed)
      /\ changed = ChangedSince(replayed)
  BY <1>1, <1>2, <1>3 DEF Inv, Books
<1>8. CASE /\ receipt[call.attempt].state = "persisted" /\ owned
           /\ Fits(call.job, receipt[call.attempt].sequence)
  <2>1. /\ Adopt(call.job) /\ poison' = poison /\ Return(TRUE)
        /\ schedule' = IF call.job[1].kind = "edit" THEN S!RecordEdits(schedule, 1)
                       ELSE schedule
    BY <1>8 DEF Acknowledge
  <2>2. /\ replayed' = replayed \o call.job
        /\ changed' = (changed \/ \E i \in DOMAIN call.job :
                                    call.job[i].kind \in {"edit", "track"})
    BY <1>5, <2>1 DEF Adopt, Changed
  <2>3. replayed' # <<>> /\ replayed' \in Seq(Events)
        /\ Len(replayed') = Len(replayed) + Len(call.job)
    BY <1>2, <1>5, <1>6, <2>2, Continues DEF WellFormed
  <2>4. /\ Called' /\ call' \in Call \cup {None}
        /\ ~In({"spawn", "check", "submit", "send", "wait", "confirm", "release"})'
    BY <1>1, <2>1, <2>3, ReturnedCalled
  <2>5. ~In({"spawn", "submit", "send", "wait", "release"})'
    BY <2>4 DEF In
  <2>6. UncapturedEdits(replayed) \in 0 .. Len(replayed)
    BY <1>2, LastFound, EditsAre
  <2>7. schedule.edits + 1 <= Budget + Threshold /\ schedule.edits \in Nat
    BY <1>6, <1>7, <2>6, Constants
  <2>8. /\ schedule' \in [baseline : Nat, edits : Nat, pending : Scheduled \cup {None},
                          retryDue : BOOLEAN]
        /\ schedule'.pending = None
        /\ schedule'.edits = schedule.edits + (IF call.job[1].kind = "edit" THEN 1 ELSE 0)
    <3>1. CASE call.job[1].kind = "edit"
      <4>1. S!Saturating(schedule.edits + 1) = schedule.edits + 1
        BY <2>7, Constants DEF S!Saturating
      <4>2. schedule' = [baseline |-> schedule.baseline, edits |-> schedule.edits + 1,
                         pending |-> None, retryDue |-> schedule.retryDue]
        BY <1>7, <2>1, <3>1, <4>1 DEF S!RecordEdits
      <4> QED
        BY <2>7, <3>1, <4>2, ScheduleType
    <3>2. CASE call.job[1].kind # "edit"
      BY <1>7, <2>1, <2>7, <3>2, ScheduleType
    <3> QED
      BY <3>1, <3>2
  <2>9. changed' \in BOOLEAN
    BY <2>2
  <2>10. TypeOK' /\ Owned' /\ Admission' /\ Fresh' /\ Place' /\ Durably'
    BY <1>1, <1>4, <1>7, <1>8, <2>1, <2>2, <2>4, <2>5, <2>8, <2>9, Settles
  <2>11. Books'
    <3>1. UncapturedEdits(replayed') = schedule'.edits
      BY <1>2, <1>5, <1>7, <2>2, <2>8, JobCounts
    <3>2. changed' = ChangedSince(replayed')
      <4>1. ChangedSince(replayed') <=> changed \/ \E i \in DOMAIN call.job :
                                    call.job[i].kind \in {"edit", "track"}
        BY <1>2, <1>5, <1>7, <2>2, JobCounts
      <4>2. ChangedSince(replayed') \in BOOLEAN
        BY ChangedOrNot
      <4> QED
        BY <2>2, <2>9, <4>1, <4>2, Zenon
    <3>3. Len(replayed') <= Budget
      BY <1>6, <2>3, Constants
    <3> QED
      BY <1>7, <2>8, <3>1, <3>2, <3>3 DEF Books
  <2> QED
    BY <2>4, <2>10, <2>11 DEF Inv
<1>9. CASE ~(/\ receipt[call.attempt].state = "persisted" /\ owned
             /\ Fits(call.job, receipt[call.attempt].sequence))
  <2>1. /\ poison' = TRUE /\ Return(FALSE)
        /\ UNCHANGED <<replayed, changed, schedule>>
    BY <1>9 DEF Acknowledge, Fail
  <2>2. /\ Called' /\ call' \in Call \cup {None}
        /\ ~In({"spawn", "check", "submit", "send", "wait", "confirm", "release"})'
    BY <1>1, <2>1, ReturnedCalled
  <2>3. ~In({"spawn", "submit", "send", "wait", "release"})'
    BY <2>2 DEF In
  <2>4. schedule' \in [baseline : Nat, edits : Nat, pending : Scheduled \cup {None},
                       retryDue : BOOLEAN]
    BY <2>1, ScheduleType
  <2>5. TypeOK' /\ Owned' /\ Admission' /\ Fresh' /\ Place' /\ Durably'
    BY <1>1, <1>2, <1>4, <1>7, <2>1, <2>2, <2>3, <2>4, Settles
  <2>6. Books'
    BY <1>1, <1>7, <2>1 DEF Books
  <2> QED
    BY <2>2, <2>5, <2>6 DEF Inv
<1> QED
  BY <1>8, <1>9

LEMMA ClosePreserves ==
    ASSUME Inv, call # None, call.phase = "close", W!Close(session),
           call' = [call EXCEPT !.phase = AfterClose], UNCHANGED <<lock, session, liveVars>>
    PROVE  Inv'
<1>1. /\ session # None /\ session \in Writer /\ call \in Call /\ poison \in BOOLEAN
  BY SessionOpen DEF Inv, TypeOK
<1>2. /\ call' \in Call /\ call' # None
      /\ call'.phase = "join" /\ call'.kind = call.kind /\ call'.job = call.job
      /\ call'.wait = call.wait /\ call'.opening = call.opening
  BY <1>1, Moved DEF Phase, AfterClose
<1>3. ~In({"spawn", "wait", "send"})' /\ ~In({"wait"})' /\ ~In({"submit", "send"})'
      /\ ~In({"release"})' /\ ~In({"spawn", "wait"}) /\ ~In({"wait"})
  BY <1>2 DEF In
<1>4. /\ sender' = [sender EXCEPT ![session] = "closed"]
      /\ UNCHANGED <<counter, submitting, queue, worker, current, receipt, joined, log>>
  BY DEF W!Close
<1>5. /\ sender' \in [Writer -> {"none", "open", "closed"}]
      /\ joined' \in [Writer -> {"no", "ok", "error"}]
      /\ poison' \in BOOLEAN /\ (poison => poison')
  BY <1>1, <1>4 DEF Inv, TypeOK, liveVars
<1>6. TypeOK' /\ Owned' /\ Fresh' /\ Place' /\ Durably' /\ Books'
  BY <1>1, <1>2, <1>3, <1>4, <1>5, CallMoves DEF liveVars
<1>7. Admission'
  BY <1>3, AdmissionStays DEF liveVars
<1>8. Called'
  BY <1>1, <1>2 DEF Inv, Called, In, WellFormed, liveVars
<1> QED
  BY <1>6, <1>7, <1>8 DEF Inv

LEMMA JoinPreserves ==
    ASSUME Inv, call # None, call.phase = "join", W!Join(session),
           call' = [call EXCEPT !.phase = "release"], UNCHANGED <<lock, session, liveVars>>
    PROVE  Inv'
<1>1. /\ session # None /\ session \in Writer /\ call \in Call /\ poison \in BOOLEAN
  BY SessionOpen DEF Inv, TypeOK
<1>2. /\ call' \in Call /\ call' # None
      /\ call'.phase = "release" /\ call'.kind = call.kind /\ call'.job = call.job
      /\ call'.wait = call.wait /\ call'.opening = call.opening
  BY <1>1, Moved DEF Phase
<1>3. ~In({"spawn", "wait", "send"})' /\ ~In({"wait"})' /\ ~In({"submit", "send"})'
      /\ ~In({"spawn", "wait"}) /\ ~In({"wait"})
  BY <1>2 DEF In
<1>4. /\ joined' = [joined EXCEPT ![session] =
                    IF worker[session] = "finished" THEN "ok" ELSE "error"]
      /\ worker[session] \in W!Ended
      /\ UNCHANGED <<counter, submitting, queue, worker, current, receipt, sender, log>>
  BY DEF W!Join
<1>5. /\ sender' \in [Writer -> {"none", "open", "closed"}]
      /\ joined' \in [Writer -> {"no", "ok", "error"}]
      /\ poison' \in BOOLEAN /\ (poison => poison')
  BY <1>1, <1>4 DEF Inv, TypeOK, liveVars
<1>6. TypeOK' /\ Owned' /\ Fresh' /\ Place' /\ Durably' /\ Books'
  BY <1>1, <1>2, <1>3, <1>4, <1>5, CallMoves DEF liveVars
<1>7. Admission'
  BY <1>3, AdmissionStays DEF liveVars
<1>8. Called'
  BY <1>1, <1>2 DEF Inv, Called, In, WellFormed, liveVars
<1> QED
  BY <1>6, <1>7, <1>8 DEF Inv

-----------------------------------------------------------------------------
(* Opening and giving up a session. *)
LEMMA NoLiveTypes ==
    ASSUME NoLiveState
    PROVE  /\ replayed' = <<>> /\ replayed' \in Seq(Events) /\ poison' = FALSE /\ changed' = FALSE
           /\ schedule' = [baseline |-> 0, edits |-> 0, pending |-> None, retryDue |-> FALSE]
           /\ schedule' \in [baseline : Nat, edits : Nat, pending : Scheduled \cup {None},
                             retryDue : BOOLEAN]
           /\ checkpoint' = None
BY DEF NoLiveState, S!Fresh

(* Whatever is left behind when there is no session is what resume reads.  *)
LEMMA Abandons ==
    ASSUME Inv, session' = None, lock' = None, call' = None, NoLiveState, log' = log,
           counter' \in 1 .. MaxAttempt, DOMAIN submitting' = {Ui}, DOMAIN current' = Writer,
           submitting' = [c \in {Ui} |-> submitting'[c]],
           current' = [w \in Writer |-> current'[w]],
           sender' \in [Writer -> {"none", "open", "closed"}],
           joined' \in [Writer -> {"no", "ok", "error"}],
           queue' \in [Writer -> Seq(Request)],
           worker' \in [Writer -> {"none", "recv", "processing", "committed", "failed",
                                   "stopping", "finished", "errored", "panicked"}],
           receipt' \in [W!Attempt -> Answer],
           \A a \in W!Attempt : a >= counter' => receipt'[a] = W!Unsent,
           \A w \in Writer : worker'[w] \in W!Ended \cup {"none"} /\ queue'[w] = <<>>,
           \A w \in Writer : worker[w] # "none" => worker'[w] # "none"
    PROVE  Inv'
<1>1. ~Sent' /\ \A phases : ~In(phases)'
  BY NoLiveTypes DEF Sent, In
<1>2. TypeOK'
  BY NoLiveTypes DEF Inv, TypeOK
<1>3. Owned'
  BY <1>1, NoLiveTypes DEF Inv, Owned
<1>4. Called'
  BY <1>1 DEF Called
<1>5. Admission' /\ Fresh'
  BY <1>1, NoLiveTypes DEF Admission, Fresh
<1>6. Place'
  BY <1>1 DEF Place
<1>7. Durably'
  <2>1. Durable' = Durable
    BY DEF Durable
  <2>2. BudgetReserve' /\ FinishesReplayable'
    BY <2>1 DEF Inv, Durably, BudgetReserve, FinishesReplayable
  <2> QED
    BY <1>1, <2>2 DEF Durably
<1>8. Books'
  BY NoLiveTypes DEF Books
<1> QED
  BY <1>2, <1>3, <1>4, <1>5, <1>6, <1>7, <1>8 DEF Inv

LEMMA ReleasePreserves ==
    ASSUME Inv, call # None, call.phase = "release", lock' = None, session' = None,
           call' = None, NoLiveState, UNCHANGED writerVars
    PROVE  Inv'
<1>1. In({"release"})
  BY DEF In
<1>2. \A w \in Writer : worker[w] \in W!Ended \cup {"none"}
  BY <1>1 DEF Inv, Owned
<1>3. \A w \in Writer : worker'[w] \in W!Ended \cup {"none"} /\ queue'[w] = <<>>
  BY <1>2 DEF Inv, Owned, writerVars
<1>4. \A a \in W!Attempt : a >= counter' => receipt'[a] = W!Unsent
  BY DEF Inv, Fresh, writerVars
<1>5. /\ counter' \in 1 .. MaxAttempt /\ DOMAIN submitting' = {Ui} /\ DOMAIN current' = Writer
      /\ submitting' = [c \in {Ui} |-> submitting'[c]]
      /\ current' = [w \in Writer |-> current'[w]]
      /\ sender' \in [Writer -> {"none", "open", "closed"}]
      /\ joined' \in [Writer -> {"no", "ok", "error"}]
      /\ queue' \in [Writer -> Seq(Request)]
      /\ worker' \in [Writer -> {"none", "recv", "processing", "committed", "failed",
                                 "stopping", "finished", "errored", "panicked"}]
      /\ receipt' \in [W!Attempt -> Answer]
  BY DEF Inv, TypeOK, writerVars
<1>6. log' = log /\ worker' = worker
  BY DEF writerVars
<1> QED
  BY <1>3, <1>4, <1>5, <1>6, Abandons

LEMMA CrashPreserves ==
    ASSUME Inv, Crash
    PROVE  Inv'
<1>1. /\ session # None /\ lock' = None /\ session' = None /\ call' = None /\ NoLiveState
      /\ counter' = 1
      /\ submitting' = [submitting EXCEPT ![Ui] = None]
      /\ sender' = [sender EXCEPT ![session] = "closed"]
      /\ queue' = [queue EXCEPT ![session] = <<>>]
      /\ worker' = [worker EXCEPT ![session] = "panicked"]
      /\ current' = [current EXCEPT ![session] = None]
      /\ receipt' = [a \in W!Attempt |-> W!Unsent]
      /\ joined' = [joined EXCEPT ![session] = "error"]
      /\ log' = log
  BY DEF Crash
<1>2. session \in Writer
  BY <1>1 DEF Inv, TypeOK
<1>3. DOMAIN submitting' = {Ui} /\ submitting' = [c \in {Ui} |-> submitting'[c]]
      /\ DOMAIN current' = Writer /\ current' = [w \in Writer |-> current'[w]]
  BY <1>1 DEF Inv, TypeOK
<1>4. /\ sender' \in [Writer -> {"none", "open", "closed"}]
      /\ joined' \in [Writer -> {"no", "ok", "error"}]
      /\ worker' \in [Writer -> {"none", "recv", "processing", "committed", "failed",
                                 "stopping", "finished", "errored", "panicked"}]
  BY <1>1, <1>2 DEF Inv, TypeOK
<1>5. queue' \in [Writer -> Seq(Request)]
  BY <1>1, <1>2 DEF Inv, TypeOK
<1>6. receipt' \in [W!Attempt -> Answer]
  BY <1>1 DEF W!Unsent, W!Answer, Answer
<1>7. \A w \in Writer : worker'[w] \in W!Ended \cup {"none"} /\ queue'[w] = <<>>
  BY <1>1, <1>2 DEF Inv, Owned, TypeOK, W!Ended
<1>8. \A w \in Writer : worker[w] # "none" => worker'[w] # "none"
  BY <1>1, <1>2 DEF Inv, TypeOK
<1>9. counter' \in 1 .. MaxAttempt
  BY <1>1, Constants
<1> QED
  BY <1>1, <1>3, <1>4, <1>5, <1>6, <1>7, <1>8, <1>9, Abandons

LEMMA ShutdownPreserves ==
    ASSUME Inv, Shutdown
    PROVE  Inv'
BY ClosePreserves, JoinPreserves, ReleasePreserves DEF Shutdown

(* Either opening makes one first call, and its worker is not yet there. *)
LEMMA Opens ==
    ASSUME Inv, session = None, NEW w \in Writer, worker[w] = "none", lock' = w, session' = w,
           UNCHANGED writerVars,
           call' \in Call, call'.phase = "spawn", call'.opening, call'.wait,
           WellFormed(call'.job),
           \/ call'.kind = "append" /\ call'.job[1].kind # "checkpoint" /\ replayed' # <<>>
           \/ /\ call'.kind = "checkpoint" /\ Len(call'.job) = 1
              /\ call'.job[1].kind = "checkpoint",
           replayed' = <<>> => call'.kind = "checkpoint",
           replayed' = Durable, poison' = FALSE, changed' = ChangedSince(replayed'),
           Len(replayed') <= Budget, checkpoint' = None, schedule'.pending = None,
           schedule'.edits = UncapturedEdits(replayed'),
           schedule' \in [baseline : Nat, edits : Nat, pending : Scheduled \cup {None},
                          retryDue : BOOLEAN]
    PROVE  Inv'
<1>1. call' # None /\ w # None
  BY Constants
<1>2. ~Sent' /\ In({"spawn"})' /\ ~In({"release"})' /\ ~In({"submit", "send"})' /\ ~In({"send"})'
  BY <1>1 DEF Sent, In
<1>3. Durable \in Seq(Events) /\ changed' \in BOOLEAN
  BY DurableFacts, ChangedOrNot DEF Inv, TypeOK
<1>4. TypeOK'
  BY <1>3, ZenonT(30) DEF Inv, TypeOK, writerVars
<1>5. Owned'
  <2>1. \A v \in Writer : worker[v] \in W!Ended \cup {"none"} /\ queue[v] = <<>>
    <3>1. \A v \in Writer : v # None
      BY Constants
    <3> QED
      BY <3>1 DEF Inv, Owned
  <2>2. worker'[session'] = "none"
    BY DEF writerVars
  <2>3. \A v \in Writer : worker'[v] = worker[v] /\ queue'[v] = queue[v]
    BY DEF writerVars
  <2>4. log # <<>> => \E v \in Writer : worker[v] # "none"
    BY DEF Inv, Owned
  <2>5. log' = log
    BY DEF writerVars
  <2> QED
    BY <1>1, <1>2, <2>1, <2>2, <2>3, <2>4, <2>5 DEF Owned
<1>6. Called'
  BY <1>1 DEF Called, In, WellFormed
<1>7. Admission' /\ Fresh'
  BY <1>2 DEF Inv, Admission, Fresh, writerVars
<1>8. Place'
  BY <1>2 DEF Inv, Owned, Place, writerVars
<1>9. Durably'
  <2>1. Durable' = Durable
    BY DEF Durable, writerVars
  <2>2. BudgetReserve' /\ FinishesReplayable'
    BY <2>1 DEF Inv, Durably, BudgetReserve, FinishesReplayable, writerVars
  <2> QED
    BY <1>2, <2>1, <2>2 DEF Durably
<1>10. Books'
  BY DEF Books
<1> QED
  BY <1>4, <1>5, <1>6, <1>7, <1>8, <1>9, <1>10 DEF Inv

LEMMA EmptyBooks == UncapturedEdits(<<>>) = 0 /\ ChangedSince(<<>>) = FALSE
<1> DEFINE n == LastCheckpoint(<<>>)
<1>1. <<>> \in Seq(Events) /\ Len(<<>>) = 0
  OBVIOUS
<1>2. IsLast(<<>>, n)
  BY <1>1, LastFound
<1> HIDE DEF n
<1>3. n = 0
  BY <1>1, <1>2 DEF IsLast
<1>4. UncapturedEdits(<<>>) \in 0 .. Len(<<>>)
  BY <1>1, <1>2, EditsAre
<1>5. ~ChangedSince(<<>>)
  <2>1. ChangedSince(<<>>) <=>
          \E i \in 1 .. Len(<<>>) - n : <<>>[n + i].kind \in {"edit", "track"}
    BY <1>1, <1>2, EditsAre
  <2>2. 1 .. Len(<<>>) - n = {}
    BY <1>1, <1>3
  <2> QED
    BY <2>1, <2>2
<1> QED
  BY <1>1, <1>4, <1>5, ChangedOrNot

LEMMA StartPreserves ==
    ASSUME Inv, NEW w \in Writer, Start(w)
    PROVE  Inv'
<1>1. /\ lock = None /\ lock' = w /\ session' = w /\ NoLiveState /\ UNCHANGED writerVars
      /\ \A v \in Writer : worker[v] = "none"
      /\ call' = NewCall("checkpoint", <<Event("checkpoint", TRUE)>>, TRUE, "spawn", TRUE)
  BY DEF Start
<1>2. session = None /\ log = <<>> /\ worker[w] = "none"
  BY <1>1 DEF Inv, TypeOK, Owned
<1> DEFINE job == <<Event("checkpoint", TRUE)>>
<1>3. WellFormed(job) /\ Len(job) = 1 /\ job[1].kind = "checkpoint"
      /\ job \in Seq([kind : Kind, sound : BOOLEAN])
  BY JobTypes DEF WellFormed, Kind, Events
<1>4. call' = [kind |-> "checkpoint", job |-> job, wait |-> TRUE, phase |-> "spawn",
               opening |-> TRUE, attempt |-> 0]
  BY <1>1 DEF NewCall
<1> HIDE DEF job
<1>5. /\ call' \in Call /\ call'.phase = "spawn" /\ call'.opening /\ call'.wait
      /\ call'.job = job /\ call'.kind = "checkpoint"
  BY <1>3, <1>4 DEF Call
<1>6. Durable = <<>>
  BY <1>2 DEF Durable
<1>7. /\ replayed' = <<>> /\ poison' = FALSE /\ changed' = FALSE /\ checkpoint' = None
      /\ schedule'.pending = None /\ schedule'.edits = 0 /\ Len(replayed') = 0
      /\ schedule' \in [baseline : Nat, edits : Nat, pending : Scheduled \cup {None},
                        retryDue : BOOLEAN]
  BY <1>1, NoLiveTypes
<1>8. /\ replayed' = Durable /\ changed' = ChangedSince(replayed')
      /\ schedule'.edits = UncapturedEdits(replayed') /\ Len(replayed') <= Budget
  <2>1. replayed' = Durable
    BY <1>6, <1>7
  <2>2. changed' = ChangedSince(replayed') /\ schedule'.edits = UncapturedEdits(replayed')
    BY <1>7, EmptyBooks, Zenon
  <2>3. Len(replayed') <= Budget
    BY <1>7, Constants
  <2> QED
    BY <2>1, <2>2, <2>3
<1> QED
  BY <1>1, <1>2, <1>3, <1>5, <1>7, <1>8, Opens

LEMMA ResumePreserves ==
    ASSUME Inv, NEW w \in Writer, Resume(w)
    PROVE  Inv'
<1>1. /\ lock = None /\ worker[w] = "none" /\ log # <<>> /\ Len(log) <= Budget
      /\ lock' = w /\ session' = w /\ UNCHANGED writerVars
      /\ call' = NewCall("append", <<Event("resumed", TRUE)>>, TRUE, "spawn", TRUE)
      /\ replayed' = Durable /\ poison' = FALSE /\ changed' = ChangedSince(Durable)
      /\ schedule' = S!RecordEdits(S!Fresh(0), UncapturedEdits(Durable))
      /\ checkpoint' = None
  BY DEF Resume
<1>2. session = None /\ log \in Seq(Entry)
  BY <1>1 DEF Inv, TypeOK
<1> DEFINE job == <<Event("resumed", TRUE)>>
<1>3. WellFormed(job) /\ job[1].kind # "checkpoint" /\ job \in Seq([kind : Kind, sound : BOOLEAN])
  BY JobTypes DEF WellFormed, Kind, Events
<1>4. call' = [kind |-> "append", job |-> job, wait |-> TRUE, phase |-> "spawn",
               opening |-> TRUE, attempt |-> 0]
  BY <1>1 DEF NewCall
<1> HIDE DEF job
<1>5. /\ call' \in Call /\ call'.phase = "spawn" /\ call'.opening /\ call'.wait
      /\ call'.job = job /\ call'.kind = "append"
  BY <1>3, <1>4 DEF Call
<1>6. Durable \in Seq(Events) /\ Len(Durable) = Len(log) /\ Len(log) \in Nat /\ Durable # <<>>
  BY <1>1, <1>2, DurableFacts
<1> DEFINE n == UncapturedEdits(Durable)
<1>7. n \in 0 .. Len(Durable)
  BY <1>6, LastFound, EditsAre
<1> HIDE DEF n
<1>8. n \in Nat /\ S!Saturating(0 + n) = n
  BY <1>1, <1>6, <1>7, Constants DEF S!Saturating
<1>9. schedule' = [baseline |-> 0, edits |-> n, pending |-> None, retryDue |-> FALSE]
  BY <1>1, <1>8 DEF S!RecordEdits, S!Fresh, n
<1>10. /\ schedule' \in [baseline : Nat, edits : Nat, pending : Scheduled \cup {None},
                         retryDue : BOOLEAN]
       /\ schedule'.pending = None /\ schedule'.edits = UncapturedEdits(replayed')
  <2>1. /\ schedule' \in [baseline : Nat, edits : Nat, pending : Scheduled \cup {None},
                           retryDue : BOOLEAN]
        /\ schedule'.pending = None /\ schedule'.edits = n
    BY <1>8, <1>9
  <2>2. n = UncapturedEdits(replayed')
    BY <1>1, Zenon DEF n
  <2> QED
    BY <2>1, <2>2
<1>11. changed' = ChangedSince(replayed') /\ Len(replayed') <= Budget /\ replayed' # <<>>
  BY <1>1, <1>6
<1> QED
  BY <1>1, <1>2, <1>3, <1>5, <1>10, <1>11, Opens

LEMMA SpawnPreserves ==
    ASSUME Inv, SpawnWriter
    PROVE  Inv'
<1>1. /\ call # None /\ call.phase = "spawn" /\ In({"spawn"}) /\ ~In({"wait"})
      /\ worker' = [worker EXCEPT ![session] = "recv"]
      /\ sender' = [sender EXCEPT ![session] = "open"]
      /\ UNCHANGED <<counter, submitting, queue, current, receipt, joined, log>>
      /\ UNCHANGED <<lock, session, replayed, poison, changed, schedule, checkpoint>>
      /\ call' = [call EXCEPT !.phase = "settle"]
  BY DEF SpawnWriter, W!Spawn, In, liveVars
<1>2. session # None /\ session \in Writer /\ call \in Call
  BY <1>1, SessionOpen
<1>3. /\ call' \in Call /\ call' # None
      /\ call'.phase = "settle" /\ call'.kind = call.kind /\ call'.job = call.job
      /\ call'.wait = call.wait /\ call'.opening = call.opening
  BY <1>1, <1>2, Moved DEF Phase
<1>4. ~In({"wait"})' /\ ~In({"submit", "send"})' /\ ~In({"send"})' /\ ~In({"release"})'
      /\ ~In({"spawn"})'
  BY <1>3 DEF In
<1>5. checkpoint = None /\ ~poison /\ ~Sent /\ ~Sent'
  BY <1>1, <1>4 DEF Inv, Called, Sent, In
<1>6. worker[session] = "none" /\ worker'[session] = "recv" /\ queue[session] = <<>>
  BY <1>1, <1>2 DEF Inv, Owned, TypeOK
<1>7. TypeOK'
  BY <1>1, <1>2, <1>3 DEF Inv, TypeOK
<1>8. Owned'
  <2>1. \A w \in Writer : w # session => worker'[w] = worker[w]
    BY <1>1 DEF Inv, TypeOK
  <2>2. \A w \in Writer : worker'[w] \in W!Ended \cup {"none"} => queue'[w] = <<>>
    BY <1>1, <1>6, <2>1 DEF Inv, Owned
  <2> QED
    BY <1>1, <1>2, <1>3, <1>4, <1>6, <2>1, <2>2 DEF Inv, Owned
<1>9. Called'
  BY <1>1, <1>3 DEF Inv, Called, In, WellFormed
<1>10. Admission'
  BY <1>1, <1>4, AdmissionStays
<1>11. Fresh'
  BY <1>1, <1>4, <1>5 DEF Inv, Fresh
<1>12. Place'
  BY <1>1, <1>5, <1>6 DEF Place, Idle
<1>13. Durably'
  <2>1. Durable' = Durable
    BY <1>1 DEF Durable
  <2>2. BudgetReserve' /\ FinishesReplayable'
    BY <1>1, <2>1 DEF Inv, Durably, BudgetReserve, FinishesReplayable
  <2> QED
    BY <1>1, <1>5, <2>1, <2>2 DEF Inv, Durably
<1>14. Books'
  BY <1>1 DEF Inv, Books
<1> QED
  BY <1>7, <1>8, <1>9, <1>10, <1>11, <1>12, <1>13, <1>14 DEF Inv

-----------------------------------------------------------------------------
(* Sending: the request either takes its place in an empty queue or is     *)
(* handed back and poisons the Authority.                                  *)
LEMMA SendTypes ==
    ASSUME Inv, call # None, call.phase = "send"
    PROVE  /\ session # None /\ session \in Writer /\ call \in Call
           /\ ~poison /\ checkpoint = None /\ ~Sent /\ Admitted(call.job)
           /\ call.kind \in {"append", "compared", "checkpoint"} /\ replayed \in Seq(Events)
           /\ submitting[Ui].attempt \in W!Attempt /\ submitting[Ui].attempt < counter
           /\ submitting[Ui].attempt \in Nat
           /\ receipt[submitting[Ui].attempt] = W!Unsent
           /\ submitting[Ui].writer = session /\ submitting[Ui].job = call.job
           /\ submitting[Ui] = [attempt |-> submitting[Ui].attempt, writer |-> session,
                                job |-> call.job]
           /\ submitting[Ui] \in Request
           /\ queue[session] = <<>> /\ worker[session] \in {"recv"} \cup W!Ended
           /\ schedule.pending = None /\ Durable = replayed
<1>1. In({"send"}) /\ In({"submit", "send"}) /\ In({"spawn", "submit", "send", "wait"})
      /\ In({"check", "submit", "send", "wait", "confirm"}) /\ ~In({"spawn"}) /\ ~In({"wait"})
  BY DEF In
<1>2. session # None /\ session \in Writer /\ call \in Call
  BY SessionOpen
<1>3. ~poison /\ checkpoint = None /\ call.kind \in {"append", "compared", "checkpoint"}
  BY <1>1 DEF Inv, Called
<1>4. ~Sent
  BY <1>1, <1>3 DEF Sent
<1>5. Admitted(call.job) /\ call.job \in Seq(Events)
  BY <1>1 DEF Inv, Admission, Admitted, WellFormed
<1>6. /\ submitting[Ui].attempt \in W!Attempt /\ submitting[Ui].attempt < counter
      /\ receipt[submitting[Ui].attempt] = W!Unsent
      /\ submitting[Ui] = [attempt |-> submitting[Ui].attempt, writer |-> session,
                           job |-> call.job]
  BY <1>1 DEF Inv, Fresh
<1> DEFINE a == submitting[Ui].attempt
<1>7. a \in Nat
  BY <1>6, Constants DEF W!Attempt
<1>8. submitting[Ui].writer = session /\ submitting[Ui].job = call.job
      /\ submitting[Ui] \in Request
  <2>1. PICK r : r = [attempt |-> a, writer |-> session, job |-> call.job]
    OBVIOUS
  <2>2. submitting[Ui] = r
    BY <1>6, <2>1, Zenon
  <2> HIDE DEF a
  <2>3. r.writer = session /\ r.job = call.job /\ r \in Request
    BY <1>2, <1>5, <1>7, <2>1 DEF Request
  <2> QED
    BY <2>2, <2>3, Zenon
<1>9. queue[session] = <<>> /\ worker[session] \in {"recv", "stopping"} \cup W!Ended
  BY <1>1, <1>2, <1>4 DEF Inv, Place, Idle, Owned
<1>10. worker[session] # "stopping"
  BY <1>2, <1>3, <1>4 DEF Inv, Place
<1>11. schedule.pending = None
  BY <1>3 DEF Inv, Books
<1>12. Durable = replayed
  BY <1>2, <1>3, <1>4 DEF Inv, Durably
<1>13. replayed \in Seq(Events)
  BY DEF Inv, TypeOK
<1> QED
  BY <1>2, <1>3, <1>4, <1>5, <1>6, <1>7, <1>8, <1>9, <1>10, <1>11, <1>12, <1>13

LEMMA Sends ==
    ASSUME Inv, call # None, call.phase = "send", worker[session] = "recv",
           UNCHANGED <<lock, session, replayed, poison, changed>>,
           UNCHANGED <<counter, sender, worker, current, joined, log>>,
           queue' = [queue EXCEPT ![session] = Append(@, submitting[Ui])],
           receipt' = [receipt EXCEPT ![submitting[Ui].attempt] = W!Pending],
           submitting' = [submitting EXCEPT ![Ui] = None],
           call' \in Call \cup {None}, checkpoint' \in PendingCheckpoint \cup {None},
           schedule' \in [baseline : Nat, edits : Nat, pending : Scheduled \cup {None},
                          retryDue : BOOLEAN],
           Sent', SentAttempt' = submitting[Ui].attempt, SentJob' = call.job,
           checkpoint' # None => checkpoint'.event.kind = "checkpoint",
           ~In({"spawn", "submit", "send", "release"})'
    PROVE  TypeOK' /\ Owned' /\ Admission' /\ Fresh' /\ Place' /\ Durably'
<1> DEFINE a == submitting[Ui].attempt
           r == submitting[Ui]
<1>1. /\ session # None /\ session \in Writer /\ a \in W!Attempt /\ a < counter
      /\ r = [attempt |-> a, writer |-> session, job |-> call.job] /\ r \in Request
      /\ queue[session] = <<>> /\ Admitted(call.job) /\ Durable = replayed /\ ~poison
  BY SendTypes
<1>2. ~In({"spawn"})' /\ ~In({"submit", "send"})' /\ ~In({"send"})' /\ ~In({"release"})'
      /\ ~In({"spawn"}) /\ ~In({"release"})
  BY DEF In
<1>3. SentRequest' = r
  BY <1>1 DEF SentRequest
<1>4. queue'[session] = <<r>> /\ \A w \in Writer : w # session => queue'[w] = queue[w]
  BY <1>1 DEF Inv, TypeOK
<1>5. receipt'[a] = W!Pending /\ \A b \in W!Attempt : b # a => receipt'[b] = receipt[b]
  BY <1>1 DEF Inv, TypeOK
<1>6. TypeOK'
  <2>1. DOMAIN submitting' = {Ui} /\ submitting' = [c \in {Ui} |-> submitting'[c]]
    BY DEF Inv, TypeOK
  <2>2. queue' \in [Writer -> Seq(Request)]
    <3> HIDE DEF r
    <3>1. Append(queue[session], r) \in Seq(Request)
      BY <1>1
    <3> QED
      BY <1>1, <3>1 DEF Inv, TypeOK, r
  <2>3. receipt' \in [W!Attempt -> Answer]
    <3>1. W!Pending \in Answer
      BY DEF W!Pending, W!Answer, Answer
    <3> QED
      BY <1>1, <3>1 DEF Inv, TypeOK
  <2> QED
    BY <2>1, <2>2, <2>3 DEF Inv, TypeOK
<1>7. Owned'
  <2>1. \A w \in Writer : worker'[w] \in W!Ended \cup {"none"} => queue'[w] = <<>>
    BY <1>1, <1>4 DEF Inv, Owned, W!Ended
  <2> QED
    BY <1>1, <1>2, <2>1 DEF Inv, Owned
<1>8. Admission'
  <2>1. Admitted(SentJob)'
    BY <1>1 DEF Admitted, WellFormed
  <2> QED
    BY <1>2, <2>1 DEF Admission
<1>9. Fresh'
  <2>1. \A b \in W!Attempt : b >= counter' => receipt'[b] = W!Unsent
    <3>1. counter \in Nat /\ a \in Nat
      BY SendTypes, Constants DEF Inv, TypeOK
    <3> QED
      BY <1>1, <1>5, <3>1, Constants DEF Inv, Fresh, W!Attempt
  <2> QED
    BY <1>1, <1>2, <2>1 DEF Fresh
<1>10. Place'
  BY <1>3, <1>4, <1>5 DEF Place, Waiting
<1>11. Durably'
  <2>1. Durable' = Durable
    BY DEF Durable
  <2>2. BudgetReserve' /\ FinishesReplayable'
    BY <2>1 DEF Inv, Durably, BudgetReserve, FinishesReplayable
  <2>3. receipt'[SentAttempt'].state # "persisted"
    BY <1>5 DEF W!Pending, W!Answer
  <2>4. ~Written'
    BY <2>3 DEF Written
  <2> QED
    BY <1>1, <2>1, <2>2, <2>3, <2>4 DEF Durably
<1> QED
  BY <1>6, <1>7, <1>8, <1>9, <1>10, <1>11

LEMMA SendRefused ==
    ASSUME Inv, call # None, call.phase = "send", Fail,
           UNCHANGED <<lock, session, replayed, changed, schedule, checkpoint>>,
           UNCHANGED <<counter, sender, queue, worker, current, receipt, joined, log>>,
           submitting' = [submitting EXCEPT ![Ui] = None]
    PROVE  Inv'
<1>1. session # None /\ checkpoint = None /\ ~Sent /\ Durable = replayed /\ ~poison
      /\ replayed \in Seq(Events)
  BY SendTypes
<1>2. /\ Called' /\ call' \in Call \cup {None}
      /\ ~In({"spawn", "check", "submit", "send", "wait", "confirm", "release"})'
  BY ReturnedCalled DEF Fail
<1>3. ~In({"submit", "send"})' /\ ~In({"send"})' /\ ~In({"wait"})' /\ ~In({"release"})'
      /\ ~In({"spawn"})' /\ ~In({"spawn"}) /\ ~In({"wait"})
  BY <1>2 DEF In
<1>4. ~Sent' /\ poison' = TRUE
  BY <1>1, <1>3 DEF Sent, Fail
<1>5. TypeOK'
  BY <1>2, <1>4 DEF Inv, TypeOK
<1>6. Owned'
  BY <1>1, <1>3 DEF Inv, Owned
<1>7. Admission' /\ Fresh'
  BY <1>1, <1>3, <1>4 DEF Inv, Admission, Fresh
<1>8. Place'
  BY <1>1, <1>4 DEF Inv, Place, Idle
<1>9. Durably'
  <2>1. Durable' = Durable
    BY DEF Durable
  <2>2. BudgetReserve' /\ FinishesReplayable'
    BY <2>1 DEF Inv, Durably, BudgetReserve, FinishesReplayable
  <2>3. IsPrefix(replayed, replayed)
    <3>1. <<>> \in Seq(Events)
      OBVIOUS
    <3> QED
      BY <1>1, <3>1, Continues
  <2> QED
    BY <1>1, <1>4, <2>1, <2>2, <2>3 DEF Durably
<1>10. Books'
  BY <1>4 DEF Inv, Books
<1> QED
  BY <1>2, <1>5, <1>6, <1>7, <1>8, <1>9, <1>10 DEF Inv

LEMMA SendPreserves ==
    ASSUME Inv, Send
    PROVE  Inv'
<1> DEFINE a == submitting[Ui].attempt
<1>1. /\ call # None /\ call.phase = "send"
      /\ UNCHANGED <<lock, session, replayed, changed>>
      /\ UNCHANGED <<counter, sender, worker, current, joined, log>>
      /\ submitting' = [submitting EXCEPT ![Ui] = None]
  BY DEF Send, W!TrySend
<1>2. /\ session # None /\ session \in Writer /\ call \in Call /\ a \in W!Attempt /\ a \in Nat
      /\ receipt[a] = W!Unsent /\ submitting[Ui].writer = session
      /\ queue[session] = <<>> /\ worker[session] \in {"recv"} \cup W!Ended
      /\ schedule.pending = None /\ checkpoint = None /\ ~poison /\ Admitted(call.job)
      /\ call.kind \in {"append", "compared", "checkpoint"}
      /\ DOMAIN receipt = W!Attempt
  BY <1>1, SendTypes DEF Inv, TypeOK
<1>3. W!Pending # W!Unsent
  BY DEF W!Pending, W!Unsent, W!Answer
<1>4. Len(queue[session]) < Capacity
  <2>1. Len(queue[session]) = 0
    BY <1>2
  <2> QED
    BY <2>1, Constants
<1>5. CASE worker[session] \in W!Ended
  <2>1. UNCHANGED <<queue, receipt>>
    BY <1>2, <1>5 DEF Send, W!TrySend
  <2>2. receipt'[a] # W!Pending
    BY <1>2, <1>3, <2>1
  <2>3. Fail /\ UNCHANGED <<schedule, checkpoint>>
    BY <2>2 DEF Send
  <2> QED
    BY <1>1, <2>1, <2>3, SendRefused
<1>6. CASE worker[session] \notin W!Ended
  <2>1. /\ queue' = [queue EXCEPT ![session] = Append(@, submitting[Ui])]
        /\ receipt' = [receipt EXCEPT ![a] = W!Pending]
    BY <1>2, <1>4, <1>6 DEF Send, W!TrySend
  <2>2. receipt'[a] = W!Pending
    BY <1>2, <2>1
  <2>3. worker[session] = "recv"
    BY <1>2, <1>6
  <2>4. WellFormed(call.job) /\ call.job \in Seq(Events)
    BY <1>2 DEF Admitted, WellFormed
  <2>5. replayed = <<>> => call.opening /\ call.kind = "checkpoint"
    BY <1>1, <1>2 DEF Inv, Called
  <2>6. CASE call.kind = "checkpoint"
    <3>1. /\ schedule' = S!Queued(schedule, 0, a)
          /\ checkpoint' = [attempt |-> a, event |-> call.job[1]]
          /\ IF call.wait THEN call' = [call EXCEPT !.phase = "confirm"] ELSE Return(TRUE)
          /\ poison' = poison
      BY <1>2, <2>2, <2>6 DEF Send
    <3>2. Len(call.job) = 1 /\ call.job[1].kind = "checkpoint" /\ call.job[1] \in Events
          /\ call.job = <<call.job[1]>>
      BY <1>1, <2>4, <2>6 DEF Inv, Called
    <3>3. /\ checkpoint' \in PendingCheckpoint /\ checkpoint' # None
          /\ checkpoint'.attempt = a /\ checkpoint'.event = call.job[1]
      BY <1>2, <3>1, <3>2, Constants DEF PendingCheckpoint, Events
    <3>4. Sent' /\ SentAttempt' = a /\ SentJob' = call.job
      BY <3>2, <3>3 DEF Sent, SentAttempt, SentJob
    <3>5. /\ schedule' \in [baseline : Nat, edits : Nat, pending : Scheduled \cup {None},
                            retryDue : BOOLEAN]
          /\ schedule'.edits = schedule.edits
          /\ schedule'.pending = [attempt |-> a, at |-> 0, captured |-> schedule.edits,
                                  post |-> 0]
      <4> DEFINE p == [attempt |-> a, at |-> 0, captured |-> schedule.edits, post |-> 0]
      <4>1. p \in Scheduled
        BY <1>2, ScheduleType DEF Scheduled
      <4>2. schedule' = [schedule EXCEPT !.pending = p]
        BY <3>1 DEF S!Queued
      <4> HIDE DEF p
      <4>3. schedule' = [baseline |-> schedule.baseline, edits |-> schedule.edits,
                         pending |-> p, retryDue |-> schedule.retryDue]
        BY <4>2, ScheduleType
      <4>4. /\ schedule' \in [baseline : Nat, edits : Nat, pending : Scheduled \cup {None},
                              retryDue : BOOLEAN]
            /\ schedule'.edits = schedule.edits /\ schedule'.pending = p
        BY <4>1, <4>3, ScheduleType
      <4> QED
        BY <4>4 DEF p
    <3>6. Books'
      BY <1>1, <1>2, <3>1, <3>3, <3>5 DEF Inv, Books
    <3>7. /\ Called' /\ call' \in Call \cup {None}
          /\ ~In({"spawn", "submit", "send", "release"})'
      <4>1. CASE call.wait
        <5>1. /\ call' \in Call /\ call' # None
              /\ call'.phase = "confirm" /\ call'.kind = call.kind /\ call'.job = call.job
              /\ call'.wait = call.wait /\ call'.opening = call.opening
          <6>1. call' = [call EXCEPT !.phase = "confirm"] /\ call \in Call
            BY <1>2, <3>1, <4>1, Zenon
          <6>2. "confirm" \in Phase
            BY DEF Phase
          <6> QED
            BY <6>1, <6>2, Moved
        <5>2. Called'
          BY <1>1, <1>2, <2>6, <3>1, <3>3, <4>1, <5>1 DEF Inv, Called, In, WellFormed
        <5> QED
          BY <5>1, <5>2 DEF In
      <4>2. CASE ~call.wait
        <5>1. Return(TRUE)
          BY <3>1, <4>2
        <5>2. replayed' # <<>>
          BY <1>1, <1>2, <2>5, <4>2 DEF Inv, Called
        <5>3. /\ Called' /\ call' \in Call \cup {None}
              /\ ~In({"spawn", "check", "submit", "send", "wait", "confirm", "release"})'
          BY <1>1, <5>1, <5>2, ReturnedCalled
        <5> QED
          BY <5>3 DEF In
      <4> QED
        BY <4>1, <4>2
    <3>8. TypeOK' /\ Owned' /\ Admission' /\ Fresh' /\ Place' /\ Durably'
      <4> HIDE DEF a
      <4>1. UNCHANGED <<lock, session, replayed, poison, changed>>
        BY <1>1, <3>1
      <4>2. checkpoint' # None => checkpoint'.event.kind = "checkpoint"
        BY <3>2, <3>3
      <4> QED
        BY <1>1, <2>1, <2>3, <3>3, <3>4, <3>5, <3>7, <4>1, <4>2, Sends DEF a
    <3> QED
      BY <3>6, <3>7, <3>8 DEF Inv
  <2>7. CASE call.kind # "checkpoint"
    <3>1. call' = [call EXCEPT !.phase = "wait", !.attempt = a]
          /\ UNCHANGED <<schedule, checkpoint, poison>>
      BY <1>2, <2>2, <2>7 DEF Send
    <3>2. /\ call' \in Call /\ call' # None /\ call'.attempt = a
          /\ call'.phase = "wait" /\ call'.kind = call.kind /\ call'.job = call.job
          /\ call'.wait = call.wait /\ call'.opening = call.opening
      <4>1. call' = [kind |-> call.kind, job |-> call.job, wait |-> call.wait,
                     opening |-> call.opening, phase |-> "wait", attempt |-> a]
        BY <1>2, <3>1 DEF Call
      <4> HIDE DEF a
      <4>2. call' \in Call
        BY <1>2, <4>1 DEF Call, a
      <4> QED
        BY <4>1, <4>2, Constants
    <3>3. Sent' /\ SentAttempt' = a /\ SentJob' = call.job
      BY <1>2, <3>1, <3>2 DEF Sent, SentAttempt, SentJob, In
    <3>4. ~In({"spawn", "submit", "send", "release"})'
      BY <3>2 DEF In
    <3>5. Called'
      BY <1>1, <1>2, <2>4, <2>7, <3>1, <3>2 DEF Inv, Called, In, WellFormed
    <3>6. Books'
      BY <1>1, <3>1 DEF Inv, Books
    <3>7. TypeOK' /\ Owned' /\ Admission' /\ Fresh' /\ Place' /\ Durably'
      <4>1. checkpoint' \in PendingCheckpoint \cup {None} /\ checkpoint' = None
        BY <1>2, <3>1
      <4>2. schedule' \in [baseline : Nat, edits : Nat, pending : Scheduled \cup {None},
                           retryDue : BOOLEAN]
        BY <3>1, ScheduleType
      <4> QED
        BY <1>1, <2>1, <2>3, <3>1, <3>2, <3>3, <3>4, <4>1, <4>2, Sends
    <3> QED
      BY <3>5, <3>6, <3>7 DEF Inv
  <2> QED
    BY <2>6, <2>7
<1> QED
  BY <1>5, <1>6

-----------------------------------------------------------------------------
(***************************************************************************)
(* The worker thread, beside any call.  Only the session's own worker runs.*)
(***************************************************************************)
Statuses ==
    {"recv", "processing", "committed", "failed", "stopping", "finished", "errored",
     "panicked"}

LEMMA WorkerIsOurs ==
    ASSUME Inv, NEW w \in Writer, worker[w] \notin W!Ended \cup {"none"}
    PROVE  w = session /\ session # None /\ session \in Writer
BY Constants DEF Inv, Owned

LEMMA WorkerFrame ==
    ASSUME Inv, UNCHANGED <<lock, session, call, liveVars>>
    PROVE  /\ Called' /\ Admission' /\ Books'
           /\ (Sent' <=> Sent) /\ SentAttempt' = SentAttempt /\ SentJob' = SentJob
           /\ SentRequest' = SentRequest /\ session' = session
<1>1. UNCHANGED <<lock, session, call, replayed, poison, changed, schedule, checkpoint>>
  BY DEF liveVars
<1>2. \A phases : In(phases)' <=> In(phases)
  BY <1>1 DEF In
<1>3. (Sent' <=> Sent) /\ SentAttempt' = SentAttempt /\ SentJob' = SentJob
      /\ SentRequest' = SentRequest
  BY <1>1, <1>2 DEF Sent, SentAttempt, SentJob, SentRequest
<1>4. Called'
  BY <1>1, <1>2 DEF Inv, Called, WellFormed
<1>5. Admission'
  <2>1. Sent => Admitted(SentJob)'
    BY <1>1, <1>3 DEF Inv, Admission, Admitted, WellFormed
  <2>2. In({"submit", "send"}) => Admitted(call.job)'
    BY <1>1 DEF Inv, Admission, Admitted, WellFormed
  <2> QED
    BY <1>1, <1>2, <1>3, <2>1, <2>2 DEF Inv, Admission
<1>6. Books'
  BY <1>1 DEF Inv, Books
<1> QED
  BY <1>1, <1>3, <1>4, <1>5, <1>6

LEMMA WorkerOwned ==
    ASSUME Inv, UNCHANGED <<lock, session, call, liveVars>>,
           session \in Writer, worker[session] \notin W!Ended \cup {"none"},
           NEW status \in Statuses, worker' = [worker EXCEPT ![session] = status],
           status \in W!Ended => queue'[session] = <<>>,
           \A w \in Writer : w # session => queue'[w] = queue[w]
    PROVE  /\ Owned'
           /\ worker'[session] = status
           /\ worker' \in [Writer -> {"none", "recv", "processing", "committed", "failed",
                                      "stopping", "finished", "errored", "panicked"}]
<1>1. /\ worker'[session] = status
      /\ \A w \in Writer : w # session => worker'[w] = worker[w]
      /\ worker' \in [Writer -> {"none", "recv", "processing", "committed", "failed",
                                 "stopping", "finished", "errored", "panicked"}]
  BY DEF Inv, TypeOK, Statuses
<1>2. status # "none" /\ session # None
  BY Constants DEF Statuses
<1>3. ~In({"spawn"}) /\ ~In({"release"})
  BY <1>2 DEF Inv, Owned
<1>4. ~In({"spawn"})' /\ ~In({"release"})'
  BY <1>3 DEF In
<1>5. checkpoint' = checkpoint /\ call' = call /\ session' = session
  BY DEF liveVars
<1>6. \A w \in Writer : worker'[w] \in W!Ended \cup {"none"} => queue'[w] = <<>>
  BY <1>1, <1>2 DEF Inv, Owned
<1>7. \A w \in Writer : w # session => worker'[w] \in W!Ended \cup {"none"}
  BY <1>1 DEF Inv, Owned
<1>8. Owned'
  BY <1>1, <1>2, <1>4, <1>5, <1>6, <1>7 DEF Owned
<1> QED
  BY <1>1, <1>8

LEMMA WorkerFresh ==
    ASSUME Inv, UNCHANGED <<lock, session, call, liveVars>>, UNCHANGED <<counter, submitting>>,
           \A a \in W!Attempt : receipt'[a] = receipt[a] \/ (Sent /\ a = SentAttempt)
    PROVE  Fresh'
<1>1. (Sent' <=> Sent) /\ SentAttempt' = SentAttempt
  BY WorkerFrame
<1>2. Sent => SentAttempt \in W!Attempt /\ SentAttempt < counter /\ SentAttempt \in Nat
  BY SentTypes
<1>3. counter \in Nat /\ \A a \in W!Attempt : a \in Nat
  BY Constants DEF Inv, TypeOK, W!Attempt
<1>4. \A a \in W!Attempt : a >= counter => receipt'[a] = W!Unsent
  BY <1>2, <1>3 DEF Inv, Fresh
<1>5. In({"send"})' => In({"send"}) /\ ~Sent
  BY DEF In, Sent, Inv, Called
<1>6. In({"send"})' =>
        /\ submitting[Ui] = [attempt |-> submitting[Ui].attempt, writer |-> session,
                             job |-> call.job]
        /\ submitting[Ui].attempt \in W!Attempt /\ submitting[Ui].attempt < counter
        /\ receipt'[submitting[Ui].attempt] = W!Unsent
  BY <1>5 DEF Inv, Fresh
<1> QED
  BY <1>1, <1>2, <1>4, <1>6 DEF Fresh

LEMMA WorkerDurably ==
    ASSUME Inv, UNCHANGED <<lock, session, call, liveVars>>, log' = log,
           Sent => (Written' <=> Written),
           Sent /\ receipt'[SentAttempt].state = "persisted" =>
                receipt'[SentAttempt].sequence = Len(log)
    PROVE  Durably'
<1>1. (Sent' <=> Sent) /\ SentAttempt' = SentAttempt /\ SentJob' = SentJob
      /\ session' = session /\ replayed' = replayed /\ poison' = poison
  BY WorkerFrame DEF liveVars
<1>2. Durable' = Durable
  BY DEF Durable
<1>3. BudgetReserve' /\ FinishesReplayable'
  BY <1>2 DEF Inv, Durably, BudgetReserve, FinishesReplayable
<1>4. (session # None =>
        IF Sent THEN Durable = IF Written THEN replayed \o SentJob ELSE replayed
        ELSE IF poison THEN IsPrefix(replayed, Durable) ELSE Durable = replayed)'
  <2>1. session # None =>
        IF Sent THEN Durable = IF Written THEN replayed \o SentJob ELSE replayed
        ELSE IF poison THEN IsPrefix(replayed, Durable) ELSE Durable = replayed
    BY DEF Inv, Durably
  <2>2. CASE Sent
    BY <1>1, <1>2, <2>1, <2>2
  <2>3. CASE ~Sent
    BY <1>1, <1>2, <2>1, <2>3
  <2> QED
    BY <2>2, <2>3
<1>5. (Sent /\ receipt[SentAttempt].state = "persisted" =>
            receipt[SentAttempt].sequence = Len(log))'
  BY <1>1
<1> QED
  BY <1>3, <1>4, <1>5 DEF Durably

LEMMA AnswerTypes ==
    /\ W!Pending \in Answer /\ W!Failed \in Answer /\ W!WorkerStopped \in Answer
    /\ W!Pending.state = "pending" /\ W!Failed.state = "failed"
    /\ W!WorkerStopped.state = "stopped"
    /\ \A n \in Nat : /\ W!Answer("persisted", n) \in Answer
                      /\ W!Answer("persisted", n).state = "persisted"
                      /\ W!Answer("persisted", n).sequence = n
BY DEF W!Pending, W!Failed, W!WorkerStopped, W!Answer, Answer

LEMMA WorkerType ==
    ASSUME Inv, UNCHANGED <<lock, session, call, liveVars>>,
           UNCHANGED <<counter, submitting, sender, joined>>,
           NEW x, current' = [current EXCEPT ![session] = x],
           queue' \in [Writer -> Seq(Request)],
           worker' \in [Writer -> {"none", "recv", "processing", "committed", "failed",
                                   "stopping", "finished", "errored", "panicked"}],
           receipt' \in [W!Attempt -> Answer], log' \in Seq(Entry)
    PROVE  TypeOK'
<1>1. DOMAIN current' = Writer /\ current' = [w \in Writer |-> current'[w]]
  BY DEF Inv, TypeOK
<1> QED
  BY <1>1 DEF Inv, TypeOK, liveVars

LEMMA ReceivePreserves ==
    ASSUME Inv, UNCHANGED <<lock, session, call, liveVars>>, W!Receive(session),
           session \in Writer
    PROVE  Inv'
<1>1. /\ worker[session] = "recv" /\ queue[session] # <<>>
      /\ current' = [current EXCEPT ![session] = Head(queue[session])]
      /\ queue' = [queue EXCEPT ![session] = Tail(@)]
      /\ worker' = [worker EXCEPT ![session] = "processing"]
      /\ UNCHANGED <<counter, submitting, sender, receipt, joined, log>>
  BY DEF W!Receive
<1>2. worker[session] \notin W!Ended \cup {"none"} /\ "processing" \in Statuses
      /\ "processing" \notin W!Ended
  BY <1>1 DEF W!Ended, Statuses
<1>3. Sent /\ queue[session] = <<SentRequest>> /\ receipt[SentAttempt] = W!Pending
      /\ session # None
  BY <1>1, <1>2, WorkerIsOurs DEF Inv, Place, Waiting
<1>4. /\ queue'[session] = <<>> /\ current'[session] = SentRequest
      /\ \A w \in Writer : w # session => queue'[w] = queue[w]
      /\ queue' \in [Writer -> Seq(Request)]
  <2>1. Head(<<SentRequest>>) = SentRequest /\ Tail(<<SentRequest>>) = <<>>
    OBVIOUS
  <2>2. <<>> \in Seq(Request)
    OBVIOUS
  <2> QED
    BY <1>1, <1>3, <2>1, <2>2 DEF Inv, TypeOK
<1>5. /\ Owned' /\ worker'[session] = "processing"
      /\ worker' \in [Writer -> {"none", "recv", "processing", "committed", "failed",
                                 "stopping", "finished", "errored", "panicked"}]
  BY <1>1, <1>2, <1>4, WorkerOwned
<1>6. TypeOK'
  <2>1. receipt' \in [W!Attempt -> Answer] /\ log' \in Seq(Entry)
    BY <1>1 DEF Inv, TypeOK
  <2> QED
    BY <1>1, <1>4, <1>5, <2>1, WorkerType
<1>7. Fresh'
  BY <1>1, WorkerFresh
<1>8. Place'
  BY <1>1, <1>3, <1>4, <1>5, WorkerFrame DEF Place, Processing
<1>9. Durably'
  <2>1. receipt'[SentAttempt].state # "persisted"
    BY <1>1, <1>3, AnswerTypes
  <2>2. Written' <=> Written
    BY <1>1, <1>5, <2>1, WorkerFrame DEF Written
  <2> QED
    BY <1>1, <2>1, <2>2, WorkerDurably
<1> QED
  BY <1>5, <1>6, <1>7, <1>8, <1>9, WorkerFrame DEF Inv

LEMMA AtWork ==
    ASSUME Inv, session \in Writer, worker[session] \in {"processing", "failed", "committed"}
    PROVE  /\ Sent /\ session # None /\ receipt[SentAttempt] = W!Pending
           /\ queue[session] = <<>>
           /\ worker[session] \in {"processing", "failed"} => current[session] = SentRequest
           /\ worker[session] = "committed" =>
                current[session] = [attempt |-> SentAttempt, tail |-> Len(log)]
           /\ worker[session] \notin W!Ended \cup {"none"}
           /\ receipt[SentAttempt].state # "persisted"
<1>1. worker[session] \notin W!Ended \cup {"none"} /\ ~Idle /\ worker[session] # "recv"
  BY DEF W!Ended, Idle
<1>2. session # None
  BY <1>1, WorkerIsOurs
<1>3. Sent
  BY <1>1, <1>2 DEF Inv, Place
<1>4. /\ receipt[SentAttempt] = W!Pending /\ queue[session] = <<>>
      /\ Processing \/ Refused \/ Committed
  BY <1>1, <1>3 DEF Inv, Place, Waiting
<1> QED
  BY <1>1, <1>2, <1>3, <1>4, AnswerTypes DEF Processing, Refused, Committed

LEMMA PersistPreserves ==
    ASSUME Inv, UNCHANGED <<lock, session, call, liveVars>>, W!Persist(session),
           session \in Writer
    PROVE  Inv'
<1> DEFINE entries == W!Entries(SentRequest)
<1>1. worker[session] = "processing"
  BY DEF W!Persist
<1>2. /\ Sent /\ session # None /\ receipt[SentAttempt] = W!Pending /\ queue[session] = <<>>
      /\ current[session] = SentRequest /\ worker[session] \notin W!Ended \cup {"none"}
      /\ receipt[SentAttempt].state # "persisted"
  BY <1>1, AtWork
<1>3. /\ log' = log \o entries
      /\ current' = [current EXCEPT ![session] =
                        [attempt |-> SentAttempt, tail |-> Len(log) + Len(SentJob)]]
      /\ worker' = [worker EXCEPT ![session] = "committed"]
      /\ UNCHANGED <<counter, submitting, sender, queue, receipt, joined>>
  BY <1>2 DEF W!Persist, SentRequest
<1>4. /\ SentJob \in Seq(Events) /\ Len(SentJob) \in {1, 2} /\ SentAttempt \in Nat
      /\ Len(replayed) + Len(SentJob) + 2 <= Budget
      /\ \A i \in DOMAIN SentJob :
            SentJob[i].kind \in {"finish", "compared"} => SentJob[i].sound
  BY <1>2, SentTypes
<1>5. /\ entries \in Seq(Entry) /\ Len(entries) = Len(SentJob)
      /\ \A i \in 1 .. Len(SentJob) : entries[i].event = SentJob[i]
  <2>1. entries = [i \in DOMAIN SentJob |->
                    [attempt |-> SentAttempt, writer |-> session, event |-> SentJob[i]]]
    BY DEF W!Entries, SentRequest
  <2>2. DOMAIN SentJob = 1 .. Len(SentJob) /\ Len(SentJob) \in Nat
        /\ \A i \in 1 .. Len(SentJob) : SentJob[i] \in Events
    BY <1>4
  <2>3. \A i \in 1 .. Len(SentJob) :
            [attempt |-> SentAttempt, writer |-> session, event |-> SentJob[i]] \in Entry
    BY <1>4, <2>2 DEF Entry
  <2> HIDE DEF entries
  <2>4. entries \in [1 .. Len(SentJob) -> Entry]
    BY <2>1, <2>2, <2>3, Zenon
  <2>5. entries \in Seq(Entry) /\ Len(entries) = Len(SentJob)
    BY <2>2, <2>4
  <2> QED
    BY <2>1, <2>2, <2>5
<1> HIDE DEF entries
<1>6. log \in Seq(Entry) /\ Durable = replayed /\ replayed \in Seq(Events)
      /\ Len(log) = Len(replayed) /\ Len(log) \in Nat
  <2>1. Durable = replayed
    BY <1>1, <1>2 DEF Inv, Durably, Written
  <2> QED
    BY <2>1, DurableFacts DEF Inv, TypeOK
<1>7. /\ log' \in Seq(Entry) /\ Len(log') = Len(log) + Len(SentJob)
      /\ \A i \in 1 .. Len(log') : log'[i] = IF i <= Len(log) THEN log[i]
                                             ELSE entries[i - Len(log)]
  BY <1>3, <1>5, <1>6, ConcatProperties
<1>8. Durable' = replayed \o SentJob
  <2>1. /\ Durable' \in Seq(Events) /\ Len(Durable') = Len(log')
        /\ \A i \in 1 .. Len(log') : Durable'[i] = log'[i].event
    <3>1. \A l \in Seq(Entry) : LET d == [i \in DOMAIN l |-> l[i].event]
                                IN  /\ d \in Seq(Events) /\ Len(d) = Len(l)
                                    /\ \A i \in 1 .. Len(l) : d[i] = l[i].event
      <4>1. TAKE l \in Seq(Entry)
      <4> DEFINE d == [i \in DOMAIN l |-> l[i].event]
      <4>2. \A i \in 1 .. Len(l) : l[i] \in Entry
        OBVIOUS
      <4>3. DOMAIN l = 1 .. Len(l) /\ Len(l) \in Nat /\ \A i \in 1 .. Len(l) : l[i].event \in Events
        BY <4>2 DEF Entry
      <4>4. d \in [1 .. Len(l) -> Events]
        BY <4>3
      <4>5. \A i \in 1 .. Len(l) : d[i] = l[i].event
        BY <4>3
      <4> HIDE DEF d
      <4>6. d \in Seq(Events) /\ Len(d) = Len(l)
        BY <4>3, <4>4
      <4> QED
        BY <4>5, <4>6 DEF d
    <3> QED
      BY <1>7, <3>1 DEF Durable
  <2>2. /\ replayed \o SentJob \in Seq(Events)
        /\ Len(replayed \o SentJob) = Len(replayed) + Len(SentJob)
        /\ \A i \in 1 .. Len(replayed) + Len(SentJob) : (replayed \o SentJob)[i] =
                IF i <= Len(replayed) THEN replayed[i] ELSE SentJob[i - Len(replayed)]
    BY <1>4, <1>6, ConcatProperties
  <2>3. \A i \in 1 .. Len(log) : replayed[i] = log[i].event
    BY <1>6, DurableFacts
  <2>4. \A i \in 1 .. Len(log) + Len(SentJob) : Durable'[i] = (replayed \o SentJob)[i]
    <3>1. TAKE i \in 1 .. Len(log) + Len(SentJob)
    <3>2. CASE i <= Len(log)
      <4>1. i \in 1 .. Len(log)
        BY <1>6, <3>2
      <4> QED
        BY <1>6, <1>7, <2>1, <2>2, <2>3, <3>2, <4>1
    <3>3. CASE ~(i <= Len(log))
      <4>1. i - Len(log) \in 1 .. Len(SentJob)
        BY <1>4, <1>6, <3>3
      <4>2. Durable'[i] = entries[i - Len(log)].event
        BY <1>7, <2>1, <3>3
      <4> QED
        BY <1>5, <1>6, <2>2, <3>3, <4>1, <4>2
    <3> QED
      BY <3>2, <3>3
  <2> DEFINE d == Durable'
             t == replayed \o SentJob
  <2>5. d \in Seq(Events) /\ t \in Seq(Events) /\ Len(d) = Len(t)
        /\ \A i \in 1 .. Len(t) : d[i] = t[i]
    BY <1>6, <1>7, <2>1, <2>2, <2>4
  <2> HIDE DEF d, t
  <2>6. d = t
    BY <2>5
  <2> QED
    BY <2>6 DEF d, t
<1>9. /\ Owned' /\ worker'[session] = "committed"
      /\ worker' \in [Writer -> {"none", "recv", "processing", "committed", "failed",
                                 "stopping", "finished", "errored", "panicked"}]
  <2>1. "committed" \in Statuses /\ "committed" \notin W!Ended
    BY DEF Statuses, W!Ended
  <2> QED
    BY <1>2, <1>3, <2>1, WorkerOwned
<1>10. TypeOK'
  <2>1. receipt' \in [W!Attempt -> Answer] /\ queue' \in [Writer -> Seq(Request)]
    BY <1>3 DEF Inv, TypeOK
  <2> QED
    BY <1>3, <1>7, <1>9, <2>1, WorkerType
<1>11. Fresh'
  BY <1>3, WorkerFresh
<1>12. Place'
  <2>1. current'[session] = [attempt |-> SentAttempt, tail |-> Len(log')]
    BY <1>3, <1>7 DEF Inv, TypeOK
  <2> QED
    BY <1>2, <1>3, <1>9, <2>1, WorkerFrame DEF Place, Committed
<1>13. Durably'
  <2>1. Sent' /\ Written' /\ SentJob' = SentJob /\ replayed' = replayed
        /\ receipt'[SentAttempt'].state # "persisted"
    BY <1>2, <1>3, <1>9, WorkerFrame DEF Written, liveVars
  <2>2. BudgetReserve'
    BY <1>4, <1>6, <1>7, Constants DEF BudgetReserve
  <2>3. FinishesReplayable'
    <3>1. \A i \in 1 .. Len(replayed) :
            replayed[i].kind \in {"finish", "compared"} => replayed[i].sound
      BY <1>6 DEF Inv, Durably, FinishesReplayable
    <3> DEFINE t == replayed \o SentJob
    <3>2. \A i \in DOMAIN t : t[i].kind \in {"finish", "compared"} => t[i].sound
      BY <1>4, <1>6, <3>1
    <3> HIDE DEF t
    <3> QED
      BY <1>8, <3>2 DEF FinishesReplayable, t
  <2> QED
    BY <1>8, <2>1, <2>2, <2>3 DEF Durably
<1> QED
  BY <1>9, <1>10, <1>11, <1>12, <1>13, WorkerFrame DEF Inv

LEMMA RefusePreserves ==
    ASSUME Inv, UNCHANGED <<lock, session, call, liveVars>>, W!Refuse(session),
           session \in Writer
    PROVE  Inv'
<1>1. /\ worker[session] = "processing"
      /\ worker' = [worker EXCEPT ![session] = "failed"]
      /\ UNCHANGED <<counter, submitting, sender, queue, current, receipt, joined, log>>
  BY DEF W!Refuse
<1>2. /\ Sent /\ session # None /\ receipt[SentAttempt] = W!Pending /\ queue[session] = <<>>
      /\ current[session] = SentRequest /\ worker[session] \notin W!Ended \cup {"none"}
      /\ receipt[SentAttempt].state # "persisted"
  BY <1>1, AtWork
<1>3. /\ Owned' /\ worker'[session] = "failed"
      /\ worker' \in [Writer -> {"none", "recv", "processing", "committed", "failed",
                                 "stopping", "finished", "errored", "panicked"}]
  <2>1. "failed" \in Statuses /\ "failed" \notin W!Ended
    BY DEF Statuses, W!Ended
  <2> QED
    BY <1>1, <1>2, <2>1, WorkerOwned
<1>4. TypeOK'
  BY <1>1, <1>3 DEF Inv, TypeOK, liveVars
<1>5. Fresh'
  BY <1>1, WorkerFresh
<1>6. Place'
  BY <1>1, <1>2, <1>3, WorkerFrame DEF Place, Refused
<1>7. Durably'
  <2>1. Written' <=> Written
    BY <1>1, <1>2, <1>3, WorkerFrame DEF Written
  <2> QED
    BY <1>1, <1>2, <2>1, WorkerDurably
<1> QED
  BY <1>3, <1>4, <1>5, <1>6, <1>7, WorkerFrame DEF Inv

LEMMA AnswerPersistedPreserves ==
    ASSUME Inv, UNCHANGED <<lock, session, call, liveVars>>, W!AnswerPersisted(session),
           session \in Writer
    PROVE  Inv'
<1>1. worker[session] = "committed"
  BY DEF W!AnswerPersisted
<1>2. /\ Sent /\ session # None /\ queue[session] = <<>>
      /\ current[session] = [attempt |-> SentAttempt, tail |-> Len(log)]
      /\ worker[session] \notin W!Ended \cup {"none"}
  BY <1>1, AtWork
<1>3. SentAttempt \in W!Attempt /\ log \in Seq(Entry) /\ Len(log) \in Nat
  BY <1>2, SentTypes DEF Inv, TypeOK
<1>4. /\ receipt' = [receipt EXCEPT ![SentAttempt] = W!Answer("persisted", Len(log))]
      /\ current' = [current EXCEPT ![session] = None]
      /\ worker' = [worker EXCEPT ![session] = "recv"]
      /\ UNCHANGED <<counter, submitting, sender, queue, joined, log>>
  BY <1>2 DEF W!AnswerPersisted, W!AssignedTail
<1>5. /\ Owned' /\ worker'[session] = "recv"
      /\ worker' \in [Writer -> {"none", "recv", "processing", "committed", "failed",
                                 "stopping", "finished", "errored", "panicked"}]
  <2>1. "recv" \in Statuses /\ "recv" \notin W!Ended
    BY DEF Statuses, W!Ended
  <2> QED
    BY <1>2, <1>3, <1>4, <2>1, WorkerOwned
<1>6. /\ receipt' \in [W!Attempt -> Answer]
      /\ receipt'[SentAttempt] = W!Answer("persisted", Len(log))
      /\ \A a \in W!Attempt : a # SentAttempt => receipt'[a] = receipt[a]
  BY <1>3, <1>4, AnswerTypes DEF Inv, TypeOK
<1>7. receipt'[SentAttempt].state = "persisted" /\ receipt'[SentAttempt].sequence = Len(log)
  BY <1>3, <1>6, AnswerTypes
<1>8. TypeOK'
  <2>1. queue' \in [Writer -> Seq(Request)] /\ log' \in Seq(Entry)
    BY <1>3, <1>4 DEF Inv, TypeOK
  <2> QED
    BY <1>4, <1>5, <1>6, <2>1, WorkerType
<1>9. Fresh'
  BY <1>2, <1>4, <1>6, WorkerFresh
<1>10. Place'
  BY <1>2, <1>4, <1>5, <1>7, WorkerFrame DEF Place, Idle
<1>11. Durably'
  <2>1. Written /\ Written'
    BY <1>1, <1>7, WorkerFrame DEF Written
  <2> QED
    BY <1>4, <1>7, <2>1, WorkerDurably
<1> QED
  BY <1>5, <1>8, <1>9, <1>10, <1>11, WorkerFrame DEF Inv

LEMMA AnswerFailedPreserves ==
    ASSUME Inv, UNCHANGED <<lock, session, call, liveVars>>, W!AnswerFailed(session),
           session \in Writer
    PROVE  Inv'
<1>1. worker[session] = "failed"
  BY DEF W!AnswerFailed
<1>2. /\ Sent /\ session # None /\ queue[session] = <<>>
      /\ current[session] = SentRequest /\ receipt[SentAttempt].state # "persisted"
      /\ worker[session] \notin W!Ended \cup {"none"}
  BY <1>1, AtWork
<1>3. SentAttempt \in W!Attempt /\ log \in Seq(Entry)
  BY <1>2, SentTypes DEF Inv, TypeOK
<1>4. /\ receipt' = [receipt EXCEPT ![SentAttempt] = W!Failed]
      /\ current' = [current EXCEPT ![session] = None]
      /\ worker' = [worker EXCEPT ![session] = "stopping"]
      /\ UNCHANGED <<counter, submitting, sender, queue, joined, log>>
  BY <1>2 DEF W!AnswerFailed, W!AfterFailure, SentRequest
<1>5. /\ Owned' /\ worker'[session] = "stopping"
      /\ worker' \in [Writer -> {"none", "recv", "processing", "committed", "failed",
                                 "stopping", "finished", "errored", "panicked"}]
  <2>1. "stopping" \in Statuses /\ "stopping" \notin W!Ended
    BY DEF Statuses, W!Ended
  <2> QED
    BY <1>2, <1>3, <1>4, <2>1, WorkerOwned
<1>6. /\ receipt' \in [W!Attempt -> Answer]
      /\ receipt'[SentAttempt] = W!Failed
      /\ \A a \in W!Attempt : a # SentAttempt => receipt'[a] = receipt[a]
  BY <1>3, <1>4, AnswerTypes DEF Inv, TypeOK
<1>7. receipt'[SentAttempt].state = "failed"
  BY <1>6, AnswerTypes
<1>8. TypeOK'
  <2>1. queue' \in [Writer -> Seq(Request)] /\ log' \in Seq(Entry)
    BY <1>3, <1>4 DEF Inv, TypeOK
  <2> QED
    BY <1>4, <1>5, <1>6, <2>1, WorkerType
<1>9. Fresh'
  BY <1>2, <1>4, <1>6, WorkerFresh
<1>10. Place'
  BY <1>2, <1>4, <1>5, <1>7, WorkerFrame DEF Place, Idle
<1>11. Durably'
  <2>1. ~Written /\ ~Written'
    BY <1>1, <1>2, <1>5, <1>7, WorkerFrame DEF Written
  <2> QED
    BY <1>4, <1>7, <2>1, WorkerDurably
<1> QED
  BY <1>5, <1>8, <1>9, <1>10, <1>11, WorkerFrame DEF Inv

LEMMA PanicPreserves ==
    ASSUME Inv, UNCHANGED <<lock, session, call, liveVars>>, W!Panic(session),
           session \in Writer
    PROVE  Inv'
<1>1. worker[session] = "processing"
  BY DEF W!Panic
<1>2. /\ Sent /\ session # None /\ queue[session] = <<>>
      /\ current[session] = SentRequest /\ receipt[SentAttempt].state # "persisted"
      /\ worker[session] \notin W!Ended \cup {"none"}
  BY <1>1, AtWork
<1>3. SentAttempt \in W!Attempt /\ log \in Seq(Entry)
  BY <1>2, SentTypes DEF Inv, TypeOK
<1>4. /\ receipt' = [a \in W!Attempt |-> IF a \in {current[session].attempt} \cup W!Discarded(session)
                                         THEN W!WorkerStopped ELSE receipt[a]]
      /\ current' = [current EXCEPT ![session] = None]
      /\ worker' = [worker EXCEPT ![session] = "panicked"]
      /\ queue' = [queue EXCEPT ![session] = <<>>]
      /\ UNCHANGED <<counter, submitting, sender, joined, log>>
  BY DEF W!Panic, W!DropReceiver
<1>5. current[session].attempt = SentAttempt /\ W!Discarded(session) = {}
  BY <1>2 DEF W!Discarded, SentRequest
<1>6. /\ queue'[session] = <<>> /\ queue' \in [Writer -> Seq(Request)]
      /\ \A w \in Writer : w # session => queue'[w] = queue[w]
  <2>1. <<>> \in Seq(Request)
    OBVIOUS
  <2> QED
    BY <1>4, <2>1 DEF Inv, TypeOK
<1>7. /\ Owned' /\ worker'[session] = "panicked"
      /\ worker' \in [Writer -> {"none", "recv", "processing", "committed", "failed",
                                 "stopping", "finished", "errored", "panicked"}]
  <2>1. "panicked" \in Statuses
    BY DEF Statuses
  <2> QED
    BY <1>2, <1>3, <1>4, <1>6, <2>1, WorkerOwned
<1>8. /\ receipt' \in [W!Attempt -> Answer]
      /\ receipt'[SentAttempt] = W!WorkerStopped
      /\ \A a \in W!Attempt : a # SentAttempt => receipt'[a] = receipt[a]
  BY <1>3, <1>4, <1>5, AnswerTypes DEF Inv, TypeOK
<1>9. receipt'[SentAttempt].state = "stopped"
  BY <1>8, AnswerTypes
<1>10. TypeOK'
  BY <1>3, <1>4, <1>6, <1>7, <1>8, WorkerType
<1>11. Fresh'
  BY <1>2, <1>4, <1>8, WorkerFresh
<1>12. Place'
  BY <1>2, <1>6, <1>7, <1>9, WorkerFrame DEF Place, Idle, W!Ended
<1>13. Durably'
  <2>1. ~Written /\ ~Written'
    BY <1>1, <1>2, <1>7, <1>9, WorkerFrame DEF Written
  <2> QED
    BY <1>4, <1>9, <2>1, WorkerDurably
<1> QED
  BY <1>7, <1>10, <1>11, <1>12, <1>13, WorkerFrame DEF Inv

(* The thread returns, with nothing left in its queue. *)
LEMMA ReturnsPreserves ==
    ASSUME Inv, UNCHANGED <<lock, session, call, liveVars>>, session \in Writer,
           NEW end \in {"finished", "errored"}, W!DropReceiver(session, end, {}),
           worker[session] \in {"recv", "stopping"}, queue[session] = <<>>,
           UNCHANGED <<counter, submitting, sender, joined, log>>
    PROVE  Inv'
<1>1. worker[session] \notin W!Ended \cup {"none"} /\ end \in Statuses /\ end \in W!Ended
      /\ worker[session] # "committed" /\ end # "committed" /\ end # "stopping"
  BY DEF W!Ended, Statuses
<1>2. session # None
  BY <1>1, WorkerIsOurs
<1>3. W!Discarded(session) = {}
  BY DEF W!Discarded
<1>4. /\ receipt' = [a \in W!Attempt |-> receipt[a]]
      /\ current' = [current EXCEPT ![session] = None]
      /\ worker' = [worker EXCEPT ![session] = end]
      /\ queue' = [queue EXCEPT ![session] = <<>>]
  BY <1>3 DEF W!DropReceiver
<1>5. receipt' = receipt
  BY <1>4 DEF Inv, TypeOK
<1>6. /\ queue'[session] = <<>> /\ queue' \in [Writer -> Seq(Request)]
      /\ \A w \in Writer : w # session => queue'[w] = queue[w]
  <2>1. <<>> \in Seq(Request)
    OBVIOUS
  <2> QED
    BY <1>4, <2>1 DEF Inv, TypeOK
<1>7. /\ Owned' /\ worker'[session] = end
      /\ worker' \in [Writer -> {"none", "recv", "processing", "committed", "failed",
                                 "stopping", "finished", "errored", "panicked"}]
  BY <1>1, <1>4, <1>6, WorkerOwned
<1>8. TypeOK'
  <2>1. receipt' \in [W!Attempt -> Answer] /\ log' \in Seq(Entry)
    BY <1>5 DEF Inv, TypeOK
  <2> QED
    BY <1>4, <1>6, <1>7, <2>1, WorkerType
<1>9. Fresh'
  BY <1>5, WorkerFresh
<1>10. Sent => receipt[SentAttempt].state \in {"persisted", "failed", "stopped"}
  BY DEF Inv, Place, Waiting, Processing, Refused, Committed
<1>11. Place'
  BY <1>1, <1>5, <1>6, <1>7, <1>10, WorkerFrame DEF Place, Idle
<1>12. Durably'
  <2>1. Written' <=> Written
    BY <1>1, <1>5, <1>7, WorkerFrame DEF Written
  <2>2. Sent /\ receipt'[SentAttempt].state = "persisted" =>
            receipt'[SentAttempt].sequence = Len(log)
    BY <1>5 DEF Inv, Durably
  <2> QED
    BY <2>1, <2>2, WorkerDurably
<1> QED
  BY <1>7, <1>8, <1>9, <1>11, <1>12, WorkerFrame DEF Inv

LEMMA WorkerPreserves ==
    ASSUME Inv, WorkerRuns
    PROVE  Inv'
<1>1. PICK w \in Writer : W!WorkerStep(w) /\ UNCHANGED <<lock, session, call, liveVars>>
  BY DEF WorkerRuns
<1>2. worker[w] \notin W!Ended \cup {"none"}
  BY <1>1 DEF W!WorkerStep, W!Receive, W!Persist, W!Refuse, W!Panic, W!AnswerPersisted,
              W!AnswerFailed, W!ReturnError, W!Finish, W!Ended
<1>3. w = session /\ session \in Writer /\ session # None
  BY <1>2, WorkerIsOurs
<1>4. ASSUME W!ReturnError(session) PROVE Inv'
  <2>1. /\ W!DropReceiver(session, "errored", {}) /\ worker[session] = "stopping"
        /\ UNCHANGED <<counter, submitting, sender, joined, log>>
    BY <1>4 DEF W!ReturnError
  <2>2. queue[session] = <<>>
    BY <1>3, <2>1 DEF Inv, Place, Waiting
  <2> QED
    BY <1>1, <1>3, <2>1, <2>2, ReturnsPreserves
<1>5. ASSUME W!Finish(session) PROVE Inv'
  <2>1. /\ W!DropReceiver(session, "finished", {}) /\ worker[session] = "recv"
        /\ queue[session] = <<>>
        /\ UNCHANGED <<counter, submitting, sender, joined, log>>
    BY <1>5 DEF W!Finish, W!Drained
  <2> QED
    BY <1>1, <1>3, <2>1, ReturnsPreserves
<1> QED
  BY <1>1, <1>3, <1>4, <1>5, ReceivePreserves, PersistPreserves, RefusePreserves,
     PanicPreserves, AnswerPersistedPreserves, AnswerFailedPreserves DEF W!WorkerStep

-----------------------------------------------------------------------------
LEMMA InvInit == Init => Inv
<1> SUFFICES ASSUME Init PROVE Inv
  OBVIOUS
<1>1. /\ W!WriterInit /\ lock = None /\ session = None /\ call = None /\ replayed = <<>>
      /\ poison = FALSE /\ changed = FALSE /\ schedule = S!Fresh(0) /\ checkpoint = None
  BY DEF Init
<1>2. /\ counter = 1 /\ submitting = [c \in {Ui} |-> None]
      /\ sender = [w \in Writer |-> "none"] /\ queue = [w \in Writer |-> <<>>]
      /\ worker = [w \in Writer |-> "none"] /\ current = [w \in Writer |-> None]
      /\ receipt = [a \in W!Attempt |-> W!Unsent] /\ joined = [w \in Writer |-> "no"]
      /\ log = <<>>
  BY <1>1 DEF W!WriterInit
<1>3. ~Sent /\ \A phases : ~In(phases)
  BY <1>1 DEF Sent, In
<1>4. schedule = [baseline |-> 0, edits |-> 0, pending |-> None, retryDue |-> FALSE]
  BY <1>1 DEF S!Fresh
<1>5. TypeOK
  <2>1. W!Unsent \in Answer
    BY DEF W!Unsent, W!Answer, Answer
  <2>2. counter \in 1 .. MaxAttempt
    BY <1>2, Constants
  <2>3. /\ DOMAIN submitting = {Ui} /\ DOMAIN current = Writer
        /\ submitting = [c \in {Ui} |-> submitting[c]]
        /\ current = [w \in Writer |-> current[w]]
    BY <1>2
  <2>4. receipt \in [W!Attempt -> Answer]
    BY <1>2, <2>1
  <2>5. queue \in [Writer -> Seq(Request)] /\ log \in Seq(Entry) /\ replayed \in Seq(Events)
    <3>1. <<>> \in Seq(Request) /\ <<>> \in Seq(Entry) /\ <<>> \in Seq(Events)
      OBVIOUS
    <3> QED
      BY <1>1, <1>2, <3>1
  <2>6. /\ sender \in [Writer -> {"none", "open", "closed"}]
        /\ joined \in [Writer -> {"no", "ok", "error"}]
        /\ worker \in [Writer -> {"none", "recv", "processing", "committed", "failed",
                                  "stopping", "finished", "errored", "panicked"}]
    BY <1>2
  <2>7. schedule \in [baseline : Nat, edits : Nat, pending : Scheduled \cup {None},
                      retryDue : BOOLEAN]
    BY <1>4
  <2> QED
    BY <1>1, <2>2, <2>3, <2>4, <2>5, <2>6, <2>7 DEF TypeOK
<1>6. Owned
  BY <1>1, <1>2, <1>3 DEF Owned
<1>7. Called
  BY <1>1, <1>3 DEF Called
<1>8. Admission
  BY <1>1, <1>3 DEF Admission
<1>9. Fresh
  BY <1>2, <1>3 DEF Fresh
<1>10. Place
  BY <1>1, <1>3 DEF Place
<1>11. Durably
  <2>1. Durable = <<>>
    BY <1>2 DEF Durable
  <2> QED
    BY <1>1, <1>2, <1>3, <2>1 DEF Durably, BudgetReserve, FinishesReplayable
<1>12. Books
  BY <1>1, <1>4 DEF Books
<1> QED
  BY <1>5, <1>6, <1>7, <1>8, <1>9, <1>10, <1>11, <1>12 DEF Inv

LEMMA InvStutters ==
    ASSUME Inv, UNCHANGED vars
    PROVE  Inv'
<1>1. UNCHANGED <<lock, session, call, replayed, poison, changed, schedule, checkpoint>>
      /\ UNCHANGED <<counter, submitting, sender, queue, worker, current, receipt, joined, log>>
      /\ UNCHANGED <<lock, session, call, liveVars>>
  BY DEF vars, writerVars, liveVars
<1>2. TypeOK'
  BY <1>1 DEF Inv, TypeOK
<1>3. Owned'
  BY <1>1 DEF Inv, Owned, In
<1>4. Fresh'
  BY <1>1, WorkerFresh
<1>5. Place'
  BY <1>1, WorkerFrame DEF Inv, Place, Waiting, Processing, Refused, Committed, Idle
<1>6. Durably'
  <2>1. Sent => (Written' <=> Written)
    BY <1>1, WorkerFrame DEF Written
  <2>2. Sent /\ receipt'[SentAttempt].state = "persisted" =>
            receipt'[SentAttempt].sequence = Len(log)
    BY <1>1 DEF Inv, Durably
  <2> QED
    BY <1>1, <2>1, <2>2, WorkerDurably
<1> QED
  BY <1>1, <1>2, <1>3, <1>4, <1>5, <1>6, WorkerFrame DEF Inv

LEMMA NextPreserves == Inv /\ [Next]_vars => Inv'
<1> SUFFICES ASSUME Inv, [Next]_vars PROVE Inv'
  OBVIOUS
<1>1. CASE \E w \in Writer : Start(w) \/ Resume(w)
  BY <1>1, StartPreserves, ResumePreserves
<1>2. CASE BeginCall
  BY <1>2, BeginPreserves
<1>3. CASE CallStep
  BY <1>3, SpawnPreserves, SettlePreserves, AcknowledgePreserves, CheckPreserves,
     SubmitPreserves, SendPreserves, ShutdownPreserves DEF CallStep
<1>4. CASE WorkerRuns
  BY <1>4, WorkerPreserves
<1>5. CASE Crash
  BY <1>5, CrashPreserves
<1>6. CASE UNCHANGED vars
  BY <1>6, InvStutters
<1> QED
  BY <1>1, <1>2, <1>3, <1>4, <1>5, <1>6 DEF Next

THEOREM InvAlways == Spec => []Inv
<1>1. Init => Inv
  BY InvInit
<1>2. Inv /\ [Next]_vars => Inv'
  BY NextPreserves
<1> QED
  BY <1>1, <1>2, PTL DEF Spec

-----------------------------------------------------------------------------
(***************************************************************************)
(* The live replay is always a prefix of the journal, and while the        *)
(* session is healthy it lacks nothing but the request under way: after    *)
(* any history of crashes, resumptions, failures and checkpoints in flight,*)
(* an idle healthy session shows exactly what a resume would read.         *)
(***************************************************************************)
THEOREM LiveAlwaysDurable == Spec => []LiveIsDurable
<1>1. Inv => LiveIsDurable
  <2> SUFFICES ASSUME Inv, session # None
               PROVE  /\ IsPrefix(replayed, Durable)
                      /\ ~poison => Len(Durable) <= Len(replayed) + Outstanding
    BY DEF LiveIsDurable
  <2>1. replayed \in Seq(Events) /\ <<>> \in Seq(Events) /\ Len(replayed) \in Nat
    BY DEF Inv, TypeOK
  <2>2. IsPrefix(replayed, replayed)
    BY <2>1, Continues
  <2>3. Outstanding \in Nat
    <3>1. call # None => call.job \in Seq([kind : Kind, sound : BOOLEAN])
      BY DEF Inv, TypeOK, Call
    <3>2. call # None => Len(call.job) \in Nat
      BY <3>1
    <3> DEFINE settling == IF checkpoint # None THEN 1 ELSE 0
               waiting == IF call # None /\ call.phase = "wait" THEN Len(call.job) ELSE 0
    <3>3. settling \in Nat /\ waiting \in Nat
      BY <3>2
    <3>4. Outstanding = settling + waiting
      BY DEF Outstanding
    <3> HIDE DEF settling, waiting
    <3> QED
      BY <3>3, <3>4
  <2>4. CASE ~Sent
    BY <2>1, <2>2, <2>3, <2>4 DEF Inv, Durably
  <2>5. CASE Sent
    <3>1. SentJob \in Seq(Events) /\ Len(SentJob) \in Nat
      BY <2>5, SentTypes
    <3>2. Durable = replayed \/ Durable = replayed \o SentJob
      BY <2>5 DEF Inv, Durably
    <3>3. IsPrefix(replayed, replayed \o SentJob)
          /\ Len(replayed \o SentJob) = Len(replayed) + Len(SentJob)
      BY <2>1, <3>1, Continues
    <3>4. Outstanding >= Len(SentJob)
      <4>1. call # None /\ call.phase = "wait" => checkpoint = None
        BY DEF Inv, Called, In
      <4>2. CASE checkpoint # None
        BY <4>1, <4>2 DEF Outstanding, SentJob
      <4>3. CASE checkpoint = None
        BY <2>5, <3>1, <4>3 DEF Outstanding, SentJob, Sent, In
      <4> QED
        BY <4>2, <4>3
    <3>5. CASE Durable = replayed
      BY <2>1, <2>2, <2>3, <3>5
    <3>6. CASE Durable = replayed \o SentJob
      BY <2>1, <2>3, <3>1, <3>3, <3>4, <3>6
    <3> QED
      BY <3>2, <3>5, <3>6
  <2> QED
    BY <2>4, <2>5
<1> QED
  BY <1>1, InvAlways, PTL

(***************************************************************************)
(* Every receipt the Authority waits for names the sequence after its own, *)
(* so that no order of checkpoints and events makes it poison itself.      *)
(***************************************************************************)
THEOREM AlwaysAcknowledgedInOrder == Spec => []AcknowledgedInOrder
<1>1. Inv => AcknowledgedInOrder
  <2> SUFFICES ASSUME Inv PROVE AcknowledgedInOrder
    OBVIOUS
  <2>1. ASSUME checkpoint # None, receipt[checkpoint.attempt].state = "persisted"
        PROVE  receipt[checkpoint.attempt].sequence = Len(replayed) + 1
    <3>1. Sent /\ SentAttempt = checkpoint.attempt /\ SentJob = <<checkpoint.event>>
      BY <2>1 DEF Sent, SentAttempt, SentJob
    <3>2. receipt[SentAttempt] # W!Pending /\ Len(SentJob) = 1
      BY <2>1, <3>1, AnswerTypes
    <3> QED
      BY <2>1, <3>1, <3>2, Settled
  <2>2. ASSUME call # None, call.phase = "wait", receipt[call.attempt].state = "persisted"
        PROVE  receipt[call.attempt].sequence = Len(replayed) + Len(call.job)
    <3>1. In({"wait"}) /\ checkpoint = None
      BY <2>2 DEF Inv, Called, In
    <3>2. Sent /\ SentAttempt = call.attempt /\ SentJob = call.job
      BY <3>1 DEF Sent, SentAttempt, SentJob
    <3>3. receipt[SentAttempt] # W!Pending
      BY <2>2, <3>2, AnswerTypes
    <3> QED
      BY <2>2, <3>2, <3>3, Settled
  <2> QED
    BY <2>1, <2>2 DEF AcknowledgedInOrder
<1> QED
  BY <1>1, InvAlways, PTL

(***************************************************************************)
(* The journal itself never holds more events than the budget less its     *)
(* reserve, whatever crashed or was resumed, and never half a command's    *)
(* finish, nor one replay would refuse.                                    *)
(***************************************************************************)
THEOREM BudgetAlwaysReserved == Spec => []BudgetReserve
<1>1. Inv => BudgetReserve
  BY DEF Inv, Durably
<1> QED
  BY <1>1, InvAlways, PTL

THEOREM FinishesAlwaysReplayable == Spec => []FinishesReplayable
<1>1. Inv => FinishesReplayable
  BY DEF Inv, Durably
<1> QED
  BY <1>1, InvAlways, PTL

(***************************************************************************)
(* What the Authority counts call by call is what resume would compute     *)
(* from the events, and its schedule waits for its own checkpoint.         *)
(***************************************************************************)
THEOREM BooksAlwaysMatchReplay == Spec => []BooksMatchReplay
<1>1. Inv => BooksMatchReplay
  <2> SUFFICES ASSUME Inv PROVE BooksMatchReplay
    OBVIOUS
  <2>1. session # None /\ ~poison =>
            changed = ChangedSince(replayed) /\ schedule.edits = UncapturedEdits(replayed)
    BY DEF Inv, Books
  <2>2. CASE checkpoint = None
    BY <2>1, <2>2 DEF Inv, Books, BooksMatchReplay
  <2>3. CASE checkpoint # None
    <3> DEFINE p == [attempt |-> checkpoint.attempt, at |-> 0, captured |-> schedule.edits,
                     post |-> 0]
    <3>1. schedule.pending = p
      BY <2>3 DEF Inv, Books
    <3>2. checkpoint.attempt \in Nat /\ schedule.edits \in Nat
      BY <2>3 DEF Inv, TypeOK, PendingCheckpoint
    <3>3. p \in Scheduled /\ p.attempt = checkpoint.attempt
      BY <3>2 DEF Scheduled
    <3> HIDE DEF p
    <3>4. schedule.pending # None /\ schedule.pending.attempt = checkpoint.attempt
      BY <3>1, <3>3, Constants
    <3> QED
      BY <2>1, <2>3, <3>4 DEF BooksMatchReplay
  <2> QED
    BY <2>2, <2>3
<1> QED
  BY <1>1, InvAlways, PTL

(***************************************************************************)
(* While a worker thread can still write, its own session holds the        *)
(* ownership lock.                                                         *)
(***************************************************************************)
THEOREM LockAlwaysCoversWorker == Spec => []LockCoversWorker
<1>1. Inv => LockCoversWorker
  BY DEF Inv, Owned, TypeOK, LockCoversWorker
<1> QED
  BY <1>1, InvAlways, PTL

(***************************************************************************)
(* A poisoned Authority stays poisoned, and nothing more of it reaches the *)
(* writer, until the session is opened again.                              *)
(***************************************************************************)
THEOREM PoisonAlwaysFinal == Spec => PoisonFinal
<1> DEFINE Final == poison /\ session' = session => poison' /\ accepted' = accepted
<1>1. Inv /\ [Next]_vars => [Final]_vars
  <2> SUFFICES ASSUME Inv, Next, poison, session' = session
               PROVE  poison' /\ accepted' = accepted
    BY Zenon
  <2>1. ASSUME NEW w \in Writer, Start(w) \/ Resume(w) PROVE FALSE
    BY <2>1, Constants DEF Start, Resume, Inv, TypeOK
  <2>2. CASE BeginCall
    BY <2>2 DEF BeginCall, Begin, writerVars, liveVars
  <2>3. CASE SpawnWriter
    BY <2>3 DEF SpawnWriter, W!Spawn, liveVars
  <2>4. ASSUME NEW owned \in BOOLEAN, Settle(owned) PROVE poison' /\ accepted' = accepted
    <3>1. accepted' = accepted
      BY <2>4 DEF Settle, writerVars
    <3>2. poison'
      BY <2>4, Zenon DEF Settle, Fail, liveVars
    <3> QED
      BY <3>1, <3>2
  <2>5. ASSUME NEW owned \in BOOLEAN, Acknowledge(owned)
        PROVE  poison' /\ accepted' = accepted
    <3>1. accepted' = accepted
      BY <2>5 DEF Acknowledge, writerVars
    <3>2. poison'
      BY <2>5, Zenon DEF Acknowledge, Fail
    <3> QED
      BY <3>1, <3>2
  <2>6. ASSUME NEW owned \in BOOLEAN, NEW elapsed \in BOOLEAN, Check(owned, elapsed)
        PROVE  poison' /\ accepted' = accepted
    <3>1. accepted' = accepted
      BY <2>6 DEF Check, writerVars
    <3>2. poison'
      BY <2>6, Zenon DEF Check, Fail
    <3> QED
      BY <3>1, <3>2
  <2>7. CASE Submit
    <3>1. accepted' = accepted
      BY <2>7 DEF Submit, W!BeginSubmit, writerVars
    <3>2. poison'
      BY <2>7, Zenon DEF Submit, Fail, liveVars
    <3> QED
      BY <3>1, <3>2
  <2>8. CASE Send
    <3>1. call # None /\ call.phase = "send"
      BY <2>8 DEF Send
    <3> QED
      BY <3>1, SendTypes
  <2>9. CASE Shutdown
    <3>1. session # None
      BY <2>9, SessionOpen DEF Shutdown
    <3>2. ~(session' = None)
      BY <3>1
    <3> QED
      BY <2>9, <3>2 DEF Shutdown, W!Close, W!Join, liveVars
  <2>10. CASE WorkerRuns
    BY <2>10 DEF WorkerRuns, liveVars, W!WorkerStep, W!Receive, W!Persist, W!Refuse, W!Panic,
                 W!AnswerPersisted, W!AnswerFailed, W!ReturnError, W!Finish
  <2>11. CASE Crash
    BY <2>11 DEF Crash
  <2> QED
    BY <2>1, <2>2, <2>3, <2>4, <2>5, <2>6, <2>7, <2>8, <2>9, <2>10, <2>11 DEF Next, CallStep
<1> QED
  BY <1>1, InvAlways, PTL DEF Spec, PoisonFinal
=============================================================================
