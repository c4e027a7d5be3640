------------------------------- MODULE Journal -------------------------------
(***************************************************************************)
(* crates/journal/src/lib.rs: the SQLite file that holds every event and   *)
(* checkpoint of a session.                                                *)
(*                                                                         *)
(* Several connections may have the file open.  Every mutation is one      *)
(* IMMEDIATE transaction: SQLite grants the write lock to one connection   *)
(* at a time (`holder'), the statements change a private copy (`work') and *)
(* only COMMIT publishes it.  An error or a killed process before COMMIT   *)
(* rolls the copy back, whichever statement it interrupts.  Between the    *)
(* lock and COMMIT each SQL statement is a step of its own, so that other  *)
(* connections, rollbacks and crashes fall between any two of them.        *)
(*                                                                         *)
(* Readers do not take the lock: a DEFERRED transaction sees the database  *)
(* as it was at its first read (SQLite's WAL snapshot), and an autocommit  *)
(* read such as inspect_session sees the database at one instant and may   *)
(* be stale by the time its result is used.                                *)
(*                                                                         *)
(* A refused operation (ended session, wrong sequence, broken chain) rolls *)
(* back before its first statement: it is the absence of a step.           *)
(***************************************************************************)
EXTENDS Naturals, Sequences

CONSTANTS
    Conn,           \* connections, each used by one thread at a time
    Session,        \* session identities
    Payload,        \* what an ordinary event says
    Absent,         \* no connection, no inspection, no snapshot
    MaxSequence     \* MAX_JOURNAL_SEQUENCE

ASSUME JournalAssumption ==
    /\ MaxSequence \in Nat \ {0}
    /\ Absent \notin Conn

VARIABLES
    db,         \* committed tables: [Session -> Table]
    holder,     \* connection inside an IMMEDIATE transaction, or Absent
    op,         \* the append, create or end that transaction performs
    work,       \* op.session's tables as the transaction sees them
    open,       \* [Conn -> BOOLEAN]: initialised and usable
    inspected,  \* [Conn -> [session, next]]: process_job's stale read, or Absent
    snapshot    \* [Conn -> [session, table]]: a verifier's read snapshot

storeVars == <<db, holder, op, work, open, inspected, snapshot>>
readers == <<inspected, snapshot>>

-----------------------------------------------------------------------------
(***************************************************************************)
(* Event hashes.  A hash covers the previous hash and the event's own      *)
(* content (compute_event_hash), so it is modelled by what it identifies:  *)
(* the sequence of bodies up to and including this one.  Collisions are    *)
(* assumed away with it.                                                   *)
(***************************************************************************)
Body == [kind : {"event", "first", "second", "checkpoint"}, payload : Payload]
Hash == Seq(Body)
ZeroHash == <<>>
Digest(prev, body) == Append(prev, body)

Sequence == 1 .. MaxSequence

(***************************************************************************)
(* The rows of one session in the tables sessions, events and checkpoints. *)
(* An event row is the envelope it stores; a checkpoint row holds the      *)
(* event_sequence its snapshot was built for.                              *)
(***************************************************************************)
Row == [sequence : Sequence, prev : Hash, hash : Hash, body : Body]
StoredCheckpoint == [sequence : Sequence, snapshot : Sequence]
Table == [exists : BOOLEAN, ended : BOOLEAN, next : 1 .. MaxSequence + 1,
          rows : SUBSET Row, stored : SUBSET StoredCheckpoint]

NoTable ==
    [exists |-> FALSE, ended |-> FALSE, next |-> 1, rows |-> {}, stored |-> {}]

Seal(n, prev, body) ==
    [sequence |-> n, prev |-> prev, hash |-> Digest(prev, body), body |-> body]

(***************************************************************************)
(* authoritative_previous_hash: the zero hash before sequence 1, otherwise *)
(* the hash stored in the row before; empty when that row is missing.      *)
(***************************************************************************)
HashesBefore(rows, n) ==
    IF n = 1 THEN {ZeroHash}
    ELSE {r.hash : r \in {q \in rows : q.sequence = n - 1}}

(* verify_chain_link, against the rows a transaction sees *)
ChainLink(rows, row) ==
    /\ row.prev \in HashesBefore(rows, row.sequence)
    /\ row.hash = Digest(row.prev, row.body)

(* enforce_append_chain, which every append runs before each INSERT *)
OwnHashOnly(rows, row) == row.hash = Digest(row.prev, row.body)     \* mutant
EnforceAppendChain(rows, row) == ChainLink(rows, row)

(* The sequences an append of `count' events would use are storable. *)
FirstFits(table, count) == table.next <= MaxSequence                \* mutant
RoomFor(table, count) == table.next + count - 1 <= MaxSequence

NoOp == [kind |-> "none", session |-> Absent, batch |-> <<>>, snapshot |-> 1]

Ops == [kind : {"append", "checkpoint", "create", "end"}, session : Session,
        batch : Seq(Row), snapshot : 1 .. MaxSequence + 1]

-----------------------------------------------------------------------------
StoreInit ==
    /\ db = [s \in Session |-> NoTable]
    /\ holder = Absent
    /\ op = NoOp
    /\ work = NoTable
    /\ open = [c \in Conn |-> FALSE]
    /\ inspected = [c \in Conn |-> Absent]
    /\ snapshot = [c \in Conn |-> Absent]

(***************************************************************************)
(* validate_session_sequences: next_sequence describes one contiguous      *)
(* event prefix.  Every open runs it and refuses the file otherwise.       *)
(***************************************************************************)
OnePrefix(table) ==
    /\ {r.sequence : r \in table.rows} = 1 .. (table.next - 1)
    /\ \A r, q \in table.rows : r.sequence = q.sequence => r = q

(***************************************************************************)
(* Opening runs the schema bootstrap in an IMMEDIATE transaction, so it    *)
(* needs the lock free, and then validates the whole file.                 *)
(***************************************************************************)
Open(c) ==
    /\ ~open[c]
    /\ holder = Absent
    /\ \A s \in Session : OnePrefix(db[s])
    /\ open' = [open EXCEPT ![c] = TRUE]
    /\ UNCHANGED <<db, holder, op, work, readers>>

(* A connection runs one call at a time (`&mut self'). *)
Ready(c) == open[c] /\ snapshot[c] = Absent

Begin(c, operation, table) ==
    /\ holder = Absent
    /\ holder' = c
    /\ op' = operation
    /\ work' = table
    /\ UNCHANGED <<db, open, snapshot>>

Operation(kind, s, batch, n) ==
    [kind |-> kind, session |-> s, batch |-> batch, snapshot |-> n]

(***************************************************************************)
(* create_or_resume_session.  With one unfinished session the call resumes *)
(* that one, whatever identity was proposed, and writes nothing; with none *)
(* it inserts the proposed session, unless that identity exists already.   *)
(***************************************************************************)
Unfinished == {s \in Session : db[s].exists /\ ~db[s].ended}

CreateIfUnknown(s) == ~db[s].exists                                \* mutant
CreateIfNoneOpen(s) == Unfinished = {}                              \* mutant
MayCreate(s) == Unfinished = {} /\ ~db[s].exists

BeginCreate(c, s) ==
    /\ Ready(c)
    /\ MayCreate(s)
    /\ Begin(c, Operation("create", s, <<>>, 1), [NoTable EXCEPT !.exists = TRUE])
    /\ UNCHANGED inspected

(***************************************************************************)
(* append_event: the caller has already sealed the envelope, against       *)
(* whatever tail it last saw.  It must sit at next_sequence, and the chain *)
(* check before the INSERT must accept it.                                 *)
(***************************************************************************)
BeginAppend(c, s, row) ==
    /\ Ready(c)
    /\ row.body.kind = "event"
    /\ db[s].exists /\ ~db[s].ended
    /\ row.sequence = db[s].next
    /\ Begin(c, Operation("append", s, <<row>>, 1), db[s])
    /\ UNCHANGED inspected

(***************************************************************************)
(* append_submitted_event: sequence and hashes are assigned under the lock *)
(***************************************************************************)
BeginSubmitted(c, s, payload) ==
    /\ Ready(c)
    /\ db[s].exists /\ ~db[s].ended
    /\ RoomFor(db[s], 1)
    /\ \E prev \in HashesBefore(db[s].rows, db[s].next) :
        LET row == Seal(db[s].next, prev, [kind |-> "event", payload |-> payload])
        IN  Begin(c, Operation("append", s, <<row>>, 1), db[s])
    /\ UNCHANGED inspected

(***************************************************************************)
(* append_submitted_event_pair: two consecutive ordinary events            *)
(***************************************************************************)
BeginPair(c, s, p, q) ==
    /\ Ready(c)
    /\ db[s].exists /\ ~db[s].ended
    /\ RoomFor(db[s], 2)
    /\ \E prev \in HashesBefore(db[s].rows, db[s].next) :
        LET first == Seal(db[s].next, prev, [kind |-> "first", payload |-> p])
            second == Seal(db[s].next + 1, first.hash,
                           [kind |-> "second", payload |-> q])
        IN  Begin(c, Operation("append", s, <<first, second>>, 1), db[s])
    /\ UNCHANGED inspected

(***************************************************************************)
(* process_job reads next_sequence with inspect_session, outside any       *)
(* transaction, and builds the snapshot for that sequence; compression     *)
(* comes between that read and append_checkpoint.                          *)
(***************************************************************************)
Inspect(c, s) ==
    /\ Ready(c)
    /\ holder # c
    /\ inspected[c] = Absent
    /\ db[s].exists
    /\ inspected' = [inspected EXCEPT ![c] = [session |-> s, next |-> db[s].next]]
    /\ UNCHANGED <<db, holder, op, work, open, snapshot>>

(***************************************************************************)
(* append_checkpoint: the snapshot's event_sequence must still be          *)
(* next_sequence once the lock is held.                                    *)
(***************************************************************************)
SnapshotNotAhead(table, n) == n <= table.next                       \* mutant
SnapshotIsCurrent(table, n) == n = table.next

BeginCheckpoint(c, payload) ==
    /\ Ready(c)
    /\ inspected[c] # Absent
    /\ LET s == inspected[c].session
           n == inspected[c].next
       IN  /\ db[s].exists /\ ~db[s].ended
           /\ SnapshotIsCurrent(db[s], n)
           /\ RoomFor(db[s], 1)
           /\ \E prev \in HashesBefore(db[s].rows, db[s].next) :
                LET row == Seal(db[s].next, prev,
                                [kind |-> "checkpoint", payload |-> payload])
                IN  Begin(c, Operation("checkpoint", s, <<row>>, n), db[s])
    /\ inspected' = [inspected EXCEPT ![c] = Absent]

(* Any refusal of append_checkpoint drops the snapshot with the job. *)
RefuseCheckpoint(c) ==
    /\ Ready(c)
    /\ holder = Absent
    /\ inspected[c] # Absent
    /\ LET table == db[inspected[c].session]
       IN  \/ table.ended
           \/ ~SnapshotIsCurrent(table, inspected[c].next)
           \/ ~RoomFor(table, 1)
    /\ inspected' = [inspected EXCEPT ![c] = Absent]
    /\ UNCHANGED <<db, holder, op, work, open, snapshot>>

(* end_session; repeating the call on an ended session writes nothing *)
BeginEnd(c, s) ==
    /\ Ready(c)
    /\ db[s].exists /\ ~db[s].ended
    /\ Begin(c, Operation("end", s, <<>>, 1), [db[s] EXCEPT !.ended = TRUE])
    /\ UNCHANGED inspected

-----------------------------------------------------------------------------
(* The statements of an append, each on the transaction's private copy. *)

Inserted(rows, batch) == {i \in DOMAIN batch : batch[i] \in rows}
SomeInserted == Inserted(work.rows, op.batch) # {} \/ op.batch = <<>> \* mutant
AllInserted == DOMAIN op.batch \subseteq Inserted(work.rows, op.batch)
CheckpointStored ==
    op.kind = "checkpoint" =>
        \E k \in work.stored : k.sequence = op.batch[1].sequence

(* INSERT INTO events, after enforce_append_chain; PRIMARY KEY refuses reuse *)
InsertRow(c) ==
    /\ holder = c
    /\ \E i \in DOMAIN op.batch :
        /\ \A j \in 1 .. (i - 1) : op.batch[j] \in work.rows
        /\ \A r \in work.rows : r.sequence # op.batch[i].sequence
        /\ EnforceAppendChain(work.rows, op.batch[i])
        /\ work' = [work EXCEPT !.rows = @ \cup {op.batch[i]}]
    /\ UNCHANGED <<db, holder, op, open, readers>>

(* INSERT INTO checkpoints, in the same transaction as its owning event *)
StorePayload(c) ==
    /\ holder = c
    /\ op.kind = "checkpoint"
    /\ AllInserted
    /\ ~CheckpointStored
    /\ op.snapshot <= MaxSequence
    /\ work' = [work EXCEPT !.stored =
                    @ \cup {[sequence |-> op.batch[1].sequence,
                             snapshot |-> op.snapshot]}]
    /\ UNCHANGED <<db, holder, op, open, readers>>

(* UPDATE sessions SET next_sequence ... AND ended = 0, exactly one row *)
Advance(c) ==
    /\ holder = c
    /\ op.batch # <<>>
    /\ AllInserted /\ CheckpointStored
    /\ work.next = op.batch[1].sequence /\ ~work.ended
    /\ work' = [work EXCEPT !.next = @ + Len(op.batch)]
    /\ UNCHANGED <<db, holder, op, open, readers>>

(***************************************************************************)
(* verify_append, then COMMIT.  COMMIT publishes the copy and frees the    *)
(* lock in one indivisible step; the caller learns of success only then.   *)
(***************************************************************************)
Verified ==
    op.batch # <<>> =>
        /\ AllInserted /\ CheckpointStored
        /\ work.next = op.batch[1].sequence + Len(op.batch)
        /\ ~work.ended

EndTransaction ==
    /\ holder' = Absent
    /\ op' = NoOp
    /\ work' = NoTable

Commit(c) ==
    /\ holder = c
    /\ Verified
    /\ db' = [db EXCEPT ![op.session] = work]
    /\ EndTransaction
    /\ UNCHANGED <<open, readers>>

(* The transaction dropped with its statements committed. *)
DropCommits(c) ==                                                   \* mutant
    /\ holder = c
    /\ db' = [db EXCEPT ![op.session] = work]
    /\ EndTransaction
    /\ UNCHANGED <<open, readers>>

(* Any statement may fail (disk full, I/O error): Transaction's drop. *)
Rollback(c) ==
    /\ holder = c
    /\ EndTransaction
    /\ UNCHANGED <<db, open, readers>>

(* The process of connection c is killed between any two statements. *)
Crash(c) ==
    /\ open[c]
    /\ open' = [open EXCEPT ![c] = FALSE]
    /\ inspected' = [inspected EXCEPT ![c] = Absent]
    /\ snapshot' = [snapshot EXCEPT ![c] = Absent]
    /\ IF holder = c THEN EndTransaction ELSE UNCHANGED <<holder, op, work>>
    /\ UNCHANGED db

-----------------------------------------------------------------------------
(***************************************************************************)
(* verify_session_chain and verify_session_checkpoints read the session    *)
(* row first and page through the event rows afterwards, all inside one    *)
(* DEFERRED transaction.                                                   *)
(***************************************************************************)
BeginVerify(c, s) ==
    /\ Ready(c)
    /\ holder # c
    /\ inspected[c] = Absent
    /\ db[s].exists
    /\ snapshot' = [snapshot EXCEPT ![c] = [session |-> s, table |-> db[s]]]
    /\ UNCHANGED <<db, holder, op, work, open, inspected>>

(* Rows are read from the snapshot the transaction fixed at its first read. *)
LiveRows(c) == db[snapshot[c].session].rows                         \* mutant
RowsSeen(c) == snapshot[c].table.rows

ChainVerifies(next, rows) ==
    /\ {r.sequence : r \in rows} = 1 .. (next - 1)
    /\ \A r \in rows : ChainLink(rows, r)

CheckpointsVerify(next, rows, stored) ==
    /\ \A k \in stored :
        \E r \in rows :
            /\ r.sequence = k.sequence /\ r.sequence < next
            /\ r.body.kind = "checkpoint" /\ k.snapshot = r.sequence
    /\ \A r \in rows : r.body.kind = "checkpoint" =>
        \E k \in stored : k.sequence = r.sequence

Verifies(c) ==
    LET table == snapshot[c].table
    IN  /\ ChainVerifies(table.next, RowsSeen(c))
        /\ CheckpointsVerify(table.next, RowsSeen(c), table.stored)

(* The transaction ends; `Verifies' is the verdict it returns. *)
FinishVerify(c) ==
    /\ open[c]
    /\ snapshot[c] # Absent
    /\ snapshot' = [snapshot EXCEPT ![c] = Absent]
    /\ UNCHANGED <<db, holder, op, work, open, inspected>>

-----------------------------------------------------------------------------
(***************************************************************************)
(* Envelopes a caller of append_event may present: sealed on any hash some *)
(* session ever stored (another session's, a stale tail) or on the hash of *)
(* an envelope that was sealed but never stored, at any sequence, possibly *)
(* with a wrong event hash.                                                *)
(***************************************************************************)
Ordinary(p) == [kind |-> "event", payload |-> p]

StoredHashes ==
    {ZeroHash} \cup UNION {{r.hash : r \in db[s].rows} : s \in Session}

SealedHashes ==
    StoredHashes \cup {Digest(h, Ordinary(p)) : h \in StoredHashes, p \in Payload}

Envelopes ==
    UNION {{Seal(n, h, Ordinary(p)), [Seal(n, h, Ordinary(p)) EXCEPT !.hash = h]} :
              n \in Sequence, h \in SealedHashes, p \in Payload}

StoreNext ==
    \E c \in Conn :
        \/ Open(c)
        \/ Crash(c)
        \/ Rollback(c)
        \/ Commit(c)
        \/ InsertRow(c)
        \/ StorePayload(c)
        \/ Advance(c)
        \/ FinishVerify(c)
        \/ RefuseCheckpoint(c)
        \/ \E p \in Payload : BeginCheckpoint(c, p)
        \/ \E s \in Session :
            \/ BeginCreate(c, s)
            \/ BeginEnd(c, s)
            \/ Inspect(c, s)
            \/ BeginVerify(c, s)
            \/ \E row \in Envelopes : BeginAppend(c, s, row)
            \/ \E p \in Payload : BeginSubmitted(c, s, p)
            \/ \E p, q \in Payload : BeginPair(c, s, p, q)

StoreSpec == StoreInit /\ [][StoreNext]_storeVars

-----------------------------------------------------------------------------
(***************************************************************************)
(* Properties.                                                             *)
(***************************************************************************)

(* Type invariant of the store, the running transaction and its readers. *)
TypeOK ==
    /\ db \in [Session -> Table]
    /\ holder \in Conn \cup {Absent}
    /\ op \in Ops \cup {NoOp}
    /\ work \in Table
    /\ open \in [Conn -> BOOLEAN]
    /\ inspected \in
        [Conn -> [session : Session, next : 1 .. MaxSequence + 1] \cup {Absent}]
    /\ snapshot \in [Conn -> [session : Session, table : Table] \cup {Absent}]

(* Whatever transaction a crash or an error interrupts, the committed rows *)
(* of a session are exactly the sequences below next_sequence, each once:  *)
(* the condition every later open of the file insists on.                  *)
ContiguousPrefix == \A s \in Session : OnePrefix(db[s])

(* Every committed event continues the hash chain of the event before it,  *)
(* however many connections append and whatever envelopes callers present. *)
ChainIntact ==
    \A s \in Session : \A r \in db[s].rows : ChainLink(db[s].rows, r)

(* Checkpoint payloads and checkpoint events come in pairs, and a snapshot *)
(* built for one sequence is never stored under another, although the      *)
(* writer reads next_sequence before it takes the lock.                    *)
CheckpointsOwned ==
    \A s \in Session :
        CheckpointsVerify(db[s].next, db[s].rows, db[s].stored)

(* The two events of a submitted pair are committed next to each other or  *)
(* not at all, wherever the transaction is cut.                            *)
PairsWhole ==
    \A s \in Session : \A r \in db[s].rows :
        /\ r.body.kind = "first" =>
            \E q \in db[s].rows :
                q.sequence = r.sequence + 1 /\ q.body.kind = "second"
        /\ r.body.kind = "second" =>
            \E q \in db[s].rows :
                q.sequence = r.sequence - 1 /\ q.body.kind = "first"

(* create_or_resume_session never leaves two unfinished sessions behind,   *)
(* even when two connections race to create one, so resuming is never      *)
(* ambiguous.                                                              *)
SingleUnfinished ==
    \A s, t \in Unfinished : s = t

(* A verifier that runs while another connection commits reports no        *)
(* corruption: the session row and the event rows it reads belong to the   *)
(* same instant.                                                           *)
NoFalseAlarm == \A c \in Conn : snapshot[c] # Absent => Verifies(c)

(* No step removes or rewrites a committed event or checkpoint, and an     *)
(* ended session never changes again.                                      *)
AppendOnlyStep ==
    \A s \in Session :
        /\ db[s].rows \subseteq db'[s].rows
        /\ db[s].stored \subseteq db'[s].stored
        /\ db[s].exists => db'[s].exists
        /\ db[s].ended => db'[s] = db[s]
AppendOnly == [][AppendOnlyStep]_storeVars

(* The log a session's committed rows spell out. *)
LogOf(table) ==
    [i \in 1 .. (table.next - 1) |->
        (CHOOSE r \in table.rows : r.sequence = i).body]

StatusOf(table) ==
    IF ~table.exists THEN "absent" ELSE IF table.ended THEN "ended" ELSE "open"

Abstract == INSTANCE EventLog WITH
    log <- [s \in Session |-> LogOf(db[s])],
    status <- [s \in Session |-> StatusOf(db[s])]

(* With its transactions, lock and crashes the store implements the        *)
(* append-only log of EventLog.tla: each operation takes effect whole, at  *)
(* its COMMIT, or not at all.                                              *)
ImplementsEventLog == Abstract!LogSpec

=============================================================================
