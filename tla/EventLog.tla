------------------------------ MODULE EventLog ------------------------------
(***************************************************************************)
(* What the journal promises its callers, with no database in sight: each  *)
(* session is an append-only log of event bodies.  A session is absent,    *)
(* open or ended; at most one is open at a time; a batch is appended whole *)
(* or not at all; an ended session never changes again.                    *)
(*                                                                         *)
(* Journal.tla implements this specification with an SQLite transaction    *)
(* per operation.                                                          *)
(***************************************************************************)
EXTENDS Naturals, Sequences

CONSTANTS
    Session,        \* session identities
    Payload,        \* what an ordinary event says; the log never looks inside
    MaxSequence     \* MAX_JOURNAL_SEQUENCE: the largest event sequence number

VARIABLES
    log,            \* [Session -> Seq(Body)]: the durable events of a session
    status          \* [Session -> {"absent", "open", "ended"}]

logVars == <<log, status>>

(***************************************************************************)
(* A body is an ordinary event, one half of a pair committed together, or  *)
(* the event that owns a workspace checkpoint.                             *)
(***************************************************************************)
Body ==
    [kind : {"event", "first", "second", "checkpoint"}, payload : Payload]

(***************************************************************************)
(* What one operation may append: a single ordinary event, the two events  *)
(* of a pair, or one checkpoint event.                                     *)
(***************************************************************************)
Batches ==
    {<<[kind |-> k, payload |-> p]>> :
        k \in {"event", "checkpoint"}, p \in Payload}
    \cup {<<[kind |-> "first", payload |-> p],
            [kind |-> "second", payload |-> q]>> : p \in Payload, q \in Payload}

LogInit ==
    /\ log = [s \in Session |-> <<>>]
    /\ status = [s \in Session |-> "absent"]

Create(s) ==
    /\ status[s] = "absent"
    /\ \A t \in Session : status[t] # "open"
    /\ status' = [status EXCEPT ![s] = "open"]
    /\ UNCHANGED log

AppendBatch(s, batch) ==
    /\ status[s] = "open"
    /\ Len(log[s]) + Len(batch) <= MaxSequence
    /\ log' = [log EXCEPT ![s] = @ \o batch]
    /\ UNCHANGED status

End(s) ==
    /\ status[s] = "open"
    /\ status' = [status EXCEPT ![s] = "ended"]
    /\ UNCHANGED log

LogNext ==
    \E s \in Session :
        \/ Create(s)
        \/ \E batch \in Batches : AppendBatch(s, batch)
        \/ End(s)

LogSpec == LogInit /\ [][LogNext]_logVars

=============================================================================
