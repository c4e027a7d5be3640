---------------------------- MODULE JournalWriter ----------------------------
(***************************************************************************)
(* crates/journal/src/worker.rs: the thread that owns a journal connection *)
(* and the bounded FIFO in front of it.                                    *)
(*                                                                         *)
(* Any thread holding a JournalWriter may submit: it takes an attempt      *)
(* identity from a counter shared by every writer of the process, then     *)
(* offers the job to the queue without blocking.  The worker takes one job *)
(* at a time, commits it and only then answers on the job's own receipt    *)
(* channel.  After one failed job the thread returns; dropping its         *)
(* receiver drops the queued requests, and with them the sending halves of *)
(* their receipts, which their holders observe as WorkerStopped.           *)
(*                                                                         *)
(* One commit is one step here, and `log' is what it leaves behind: that a *)
(* transaction takes effect whole or not at all is Journal.tla's subject.  *)
(***************************************************************************)
EXTENDS Naturals, Sequences

CONSTANTS
    Client,         \* threads that submit jobs
    Writer,         \* JournalWriter values, one worker thread each
    Job,            \* JournalWriteJob: the events it appends, one or two
    None,           \* no submission under way, no current job, no answer
    Capacity,       \* slots of the sync_channel
    MaxAttempt      \* u64::MAX, past which no attempt identity is given out

ASSUME WriterAssumption ==
    /\ Capacity \in Nat \ {0}
    /\ MaxAttempt \in Nat \ {0}
    /\ \A j \in Job : j # <<>> /\ j \in Seq({j[i] : i \in DOMAIN j})
    /\ None \notin Writer

VARIABLES
    counter,        \* NEXT_JOURNAL_WRITE_ATTEMPT
    submitting,     \* [Client -> the request between its identity and try_send]
    sender,         \* [Writer -> {"none", "open", "closed"}]: the SyncSender
    queue,          \* [Writer -> Seq(Request)]: the channel's contents
    worker,         \* [Writer -> state]: where the thread is
    current,        \* [Writer -> Request or None]: the job it has taken
    receipt,        \* [Attempt -> what the receipt of that attempt answers]
    joined,         \* [Writer -> {"no", "ok", "error"}]: result of shutdown
    log,            \* durable events, each with the attempt that wrote it
    accepted        \* [Writer -> Seq(Request)]: jobs try_submit said Ok to

writerVars ==
    <<counter, submitting, sender, queue, worker, current, receipt, joined, log,
      accepted>>

-----------------------------------------------------------------------------
(* checked_add refuses at u64::MAX, so that value itself is never given out. *)
Attempt == 1 .. (MaxAttempt - 1)

Request == [attempt : Attempt, writer : Writer, job : Job]

(***************************************************************************)
(* none: not spawned; recv: blocked on the channel; processing: in         *)
(* process_job; committed: job durable, receipt not answered; failed:      *)
(* Failed not answered; stopping: answered, thread about to return;        *)
(* finished, errored, panicked: the thread's end, its receiver dropped.    *)
(***************************************************************************)
Ended == {"finished", "errored", "panicked"}

(* What a receipt answers; `sequence' is that of the job's last event. *)
Answer(state, sequence) == [state |-> state, sequence |-> sequence]
Unsent == Answer("unsent", 0)
Pending == Answer("pending", 0)
Failed == Answer("failed", 0)
WorkerStopped == Answer("stopped", 0)

WriterInit ==
    /\ counter = 1
    /\ submitting = [c \in Client |-> None]
    /\ sender = [w \in Writer |-> "none"]
    /\ queue = [w \in Writer |-> <<>>]
    /\ worker = [w \in Writer |-> "none"]
    /\ current = [w \in Writer |-> None]
    /\ receipt = [a \in Attempt |-> Unsent]
    /\ joined = [w \in Writer |-> "no"]
    /\ log = <<>>
    /\ accepted = [w \in Writer |-> <<>>]

(* JournalWriter::spawn *)
Spawn(w) ==
    /\ worker[w] = "none"
    /\ worker' = [worker EXCEPT ![w] = "recv"]
    /\ sender' = [sender EXCEPT ![w] = "open"]
    /\ UNCHANGED <<counter, submitting, queue, current, receipt, joined, log, accepted>>

(***************************************************************************)
(* try_submit, first half: a closed writer returns the job without taking  *)
(* an identity; an exhausted counter refuses; otherwise fetch_update gives *)
(* this thread the counter's value and nobody else.                        *)
(***************************************************************************)
NextCounter == counter + 1

BeginSubmit(c, w, job) ==
    /\ submitting[c] = None
    /\ sender[w] = "open"
    /\ counter < MaxAttempt
    /\ submitting' =
        [submitting EXCEPT ![c] = [attempt |-> counter, writer |-> w, job |-> job]]
    /\ counter' = NextCounter
    /\ UNCHANGED <<sender, queue, worker, current, receipt, joined, log, accepted>>

(***************************************************************************)
(* try_submit, second half: try_send.  A full queue or a dropped receiver  *)
(* hands the job back, and its identity is lost; success only means        *)
(* queued.                                                                 *)
(***************************************************************************)
TrySend(c) ==
    /\ submitting[c] # None
    /\ LET request == submitting[c]
           w == request.writer
       IN  IF worker[w] \notin Ended /\ Len(queue[w]) < Capacity
           THEN /\ queue' = [queue EXCEPT ![w] = Append(@, request)]
                /\ receipt' = [receipt EXCEPT ![request.attempt] = Pending]
                /\ accepted' = [accepted EXCEPT ![w] = Append(@, request)]
           ELSE UNCHANGED <<queue, receipt, accepted>>
    /\ submitting' = [submitting EXCEPT ![c] = None]
    /\ UNCHANGED <<counter, sender, worker, current, joined, log>>

-----------------------------------------------------------------------------
(* The worker thread. *)

Receive(w) ==
    /\ worker[w] = "recv"
    /\ queue[w] # <<>>
    /\ current' = [current EXCEPT ![w] = Head(queue[w])]
    /\ queue' = [queue EXCEPT ![w] = Tail(@)]
    /\ worker' = [worker EXCEPT ![w] = "processing"]
    /\ UNCHANGED <<counter, submitting, sender, receipt, joined, log, accepted>>

(* process_job succeeds: all events of the job are durable, in order. *)
Entries(request) ==
    [i \in DOMAIN request.job |->
        [attempt |-> request.attempt, writer |-> request.writer,
         event |-> request.job[i]]]

Persist(w) ==
    /\ worker[w] = "processing"
    /\ log' = log \o Entries(current[w])
    /\ current' = [current EXCEPT ![w] =
                    [attempt |-> @.attempt, tail |-> Len(log) + Len(@.job)]]
    /\ worker' = [worker EXCEPT ![w] = "committed"]
    /\ UNCHANGED <<counter, submitting, sender, queue, receipt, joined, accepted>>

(* ... or returns an error, and nothing of the job is durable. *)
Refuse(w) ==
    /\ worker[w] = "processing"
    /\ worker' = [worker EXCEPT ![w] = "failed"]
    /\ UNCHANGED <<counter, submitting, sender, queue, current, receipt, joined, log,
                   accepted>>

(* The sequence in the receipt is the one the transaction assigned. *)
LogTail(w) == Len(log)                                              \* mutant
AssignedTail(w) == current[w].tail

AnswerPersisted(w) ==
    /\ worker[w] = "committed"
    /\ receipt' = [receipt EXCEPT ![current[w].attempt] =
                    Answer("persisted", AssignedTail(w))]
    /\ current' = [current EXCEPT ![w] = None]
    /\ worker' = [worker EXCEPT ![w] = "recv"]
    /\ UNCHANGED <<counter, submitting, sender, queue, joined, log, accepted>>

(* The thread answers Failed and returns the error. *)
AfterFailureContinue == "recv"                                      \* mutant
AfterFailure == "stopping"

AnswerFailed(w) ==
    /\ worker[w] = "failed"
    /\ receipt' = [receipt EXCEPT ![current[w].attempt] = Failed]
    /\ current' = [current EXCEPT ![w] = None]
    /\ worker' = [worker EXCEPT ![w] = AfterFailure]
    /\ UNCHANGED <<counter, submitting, sender, queue, joined, log, accepted>>

(***************************************************************************)
(* The thread is gone: its receiver drops, the channel discards what was   *)
(* queued, and every receipt whose sending half was in it disconnects.     *)
(***************************************************************************)
Discarded(w) == {queue[w][i].attempt : i \in DOMAIN queue[w]}

DropNothing(w, end, lost) ==                                        \* mutant
    /\ worker' = [worker EXCEPT ![w] = end]
    /\ UNCHANGED <<current, queue, receipt>>

DropReceiver(w, end, lost) ==
    /\ worker' = [worker EXCEPT ![w] = end]
    /\ current' = [current EXCEPT ![w] = None]
    /\ queue' = [queue EXCEPT ![w] = <<>>]
    /\ receipt' = [a \in Attempt |->
                    IF a \in lost \cup Discarded(w) THEN WorkerStopped ELSE receipt[a]]

ReturnError(w) ==
    /\ worker[w] = "stopping"
    /\ DropReceiver(w, "errored", {})
    /\ UNCHANGED <<counter, submitting, sender, joined, log, accepted>>

(* process_job panics: its transaction unwinds uncommitted, and the job's  *)
(* own receipt disconnects with the rest.                                  *)
Panic(w) ==
    /\ worker[w] = "processing"
    /\ DropReceiver(w, "panicked", {current[w].attempt})
    /\ UNCHANGED <<counter, submitting, sender, joined, log, accepted>>

(* recv reports disconnection only once the queue is drained. *)
SenderGone(w) == sender[w] = "closed"                               \* mutant
Drained(w) == sender[w] = "closed" /\ queue[w] = <<>>

Finish(w) ==
    /\ worker[w] = "recv"
    /\ Drained(w)
    /\ DropReceiver(w, "finished", {})
    /\ UNCHANGED <<counter, submitting, sender, joined, log, accepted>>

-----------------------------------------------------------------------------
(***************************************************************************)
(* close, shutdown and drop need the writer exclusively (`&mut', by value) *)
(* so no submission is under way.  shutdown then joins the thread; drop    *)
(* detaches it, and the thread still works off what was accepted.          *)
(***************************************************************************)
Close(w) ==
    /\ sender[w] = "open"
    /\ \A c \in Client : submitting[c] # None => submitting[c].writer # w
    /\ sender' = [sender EXCEPT ![w] = "closed"]
    /\ UNCHANGED <<counter, submitting, queue, worker, current, receipt, joined, log,
                   accepted>>

Join(w) ==
    /\ sender[w] = "closed"
    /\ joined[w] = "no"
    /\ worker[w] \in Ended
    /\ joined' = [joined EXCEPT ![w] =
                    IF worker[w] = "finished" THEN "ok" ELSE "error"]
    /\ UNCHANGED <<counter, submitting, sender, queue, worker, current, receipt, log,
                   accepted>>

WorkerStep(w) ==
    \/ Receive(w)
    \/ Persist(w)
    \/ Refuse(w)
    \/ Panic(w)
    \/ AnswerPersisted(w)
    \/ AnswerFailed(w)
    \/ ReturnError(w)
    \/ Finish(w)

WriterNext ==
    \/ \E c \in Client :
        \/ TrySend(c)
        \/ \E w \in Writer, job \in Job : BeginSubmit(c, w, job)
    \/ \E w \in Writer :
        \/ Spawn(w)
        \/ WorkerStep(w)
        \/ Close(w)
        \/ Join(w)

(***************************************************************************)
(* Fairness: the operating system runs a worker thread that can run, and a *)
(* journal operation ends (SQLite gives up on a lock after BUSY_TIMEOUT).  *)
(* Nothing is assumed of the clients.                                      *)
(***************************************************************************)
WriterSpec ==
    /\ WriterInit /\ [][WriterNext]_writerVars
    /\ \A w \in Writer : WF_writerVars(WorkerStep(w))

-----------------------------------------------------------------------------
(* Where the journal holds the events of an attempt. *)
Positions(attempt) == {i \in DOMAIN log : log[i].attempt = attempt}

(* The job of a request is durable whole: all its events, in order and on  *)
(* end, from position s.                                                   *)
WrittenAt(request, s) ==
    /\ Positions(request.attempt) = s .. (s + Len(request.job) - 1)
    /\ \A i \in DOMAIN request.job : log[s + i - 1] = Entries(request)[i]

(* The durable events of a writer are those of its first n accepted jobs,  *)
(* for some n, each written whole, in the order it accepted them: nothing  *)
(* overtakes, no job is written in part or twice, and nothing queued       *)
(* behind a failed job is written.                                         *)
InAcceptanceOrder ==
    \A w \in Writer : \E n \in 0 .. Len(accepted[w]) :
        LET At(k) == Positions(accepted[w][k].attempt)
        IN  /\ {i \in DOMAIN log : log[i].writer = w} = UNION {At(k) : k \in 1 .. n}
            /\ \A k \in 1 .. n : \E s \in DOMAIN log : WrittenAt(accepted[w][k], s)
            /\ \A k, l \in 1 .. n : k < l => \A i \in At(k), j \in At(l) : i < j

(* A receipt never lies.  Persisted means the job's last event is durable  *)
(* at the sequence it names; Failed or WorkerStopped means that none of    *)
(* the job's events is durable, so the caller may submit it again.         *)
ReceiptsTruthful ==
    \A a \in Attempt :
        /\ receipt[a].state = "persisted" =>
            /\ receipt[a].sequence \in DOMAIN log
            /\ log[receipt[a].sequence].attempt = a
            /\ \A i \in DOMAIN log :
                log[i].attempt = a => i <= receipt[a].sequence
        /\ receipt[a].state \in {"failed", "stopped"} =>
            \A i \in DOMAIN log : log[i].attempt # a

(* shutdown returns Ok exactly when every accepted job is durable: a       *)
(* failure or panic anywhere in the queue is reported to the caller.       *)
ShutdownReports ==
    \A w \in Writer : joined[w] # "no" =>
        (joined[w] = "ok" <=>
            \A k \in DOMAIN accepted[w] : Positions(accepted[w][k].attempt) # {})

(* Every accepted job's receipt is answered in the end, if only with       *)
(* WorkerStopped, also after a failure or panic ahead of it: a caller that *)
(* waits on a receipt is never left hanging.                               *)
EveryReceiptAnswered ==
    \A a \in Attempt : receipt[a] = Pending ~> receipt[a] # Pending

=============================================================================
