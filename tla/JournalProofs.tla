---------------------------- MODULE JournalProofs ----------------------------
(***************************************************************************)
(* What the journal keeps, what its writer says of it, and when a snapshot *)
(* goes into it.                                                           *)
(*                                                                         *)
(* First the store, for any number of connections, sessions and payloads   *)
(* and any MaxSequence: its invariants, then that it implements            *)
(* EventLog.tla.  Then what a receipt, a shutdown and the journal itself   *)
(* say of the jobs a writer accepted, for any number of writers and        *)
(* submitting threads, any jobs and any queue.  Last what the checkpoint   *)
(* schedule makes of receipts, for any interval, threshold, counter width  *)
(* and history.                                                            *)
(***************************************************************************)
EXTENDS Journal, JournalWriter, CheckpointAccounting, SequenceTheorems, TLAPS

(***************************************************************************)
(* Hashes read back from stored rows are hashes, and sealing an envelope   *)
(* with one gives a row.                                                   *)
(***************************************************************************)
LEMMA HashesBeforeType ==
    ASSUME NEW rows \in SUBSET Row, NEW n
    PROVE  HashesBefore(rows, n) \subseteq Hash
<1>1. ZeroHash \in Hash
  BY DEF ZeroHash, Hash
<1>2. \A r \in rows : r.hash \in Hash
  BY DEF Row
<1>3. QED
  BY <1>1, <1>2 DEF HashesBefore

LEMMA SealType ==
    ASSUME NEW n \in Sequence, NEW prev \in Hash, NEW body \in Body
    PROVE  /\ Seal(n, prev, body) \in Row
           /\ Seal(n, prev, body).sequence = n
           /\ Seal(n, prev, body).hash \in Hash
           /\ Seal(n, prev, body).body = body
<1>1. Digest(prev, body) \in Hash
  BY DEF Digest, Hash
<1>2. QED
  BY <1>1 DEF Seal, Row

LEMMA NoTableType == NoTable \in Table
  BY JournalAssumption DEF NoTable, Table, Sequence

(***************************************************************************)
(* Every envelope a caller may present is a row.                           *)
(***************************************************************************)
LEMMA EnvelopesType ==
    ASSUME TypeOK
    PROVE  Envelopes \subseteq Row
<1>1. \A s \in Session : db[s].rows \subseteq Row
  BY DEF TypeOK, Table
<1>2. \A s \in Session : \A r \in db[s].rows : r.hash \in Hash
  BY <1>1 DEF Row
<1>3. StoredHashes \subseteq Hash
  <2>1. ZeroHash \in Hash
    BY DEF ZeroHash, Hash
  <2>2. SUFFICES ASSUME NEW h \in StoredHashes, h # ZeroHash
                 PROVE  h \in Hash
    BY <2>1
  <2>3. PICK s \in Session : h \in {r.hash : r \in db[s].rows}
    BY <2>2 DEF StoredHashes
  <2>4. QED
    BY <1>2, <2>3
<1>4. \A p \in Payload : Ordinary(p) \in Body
  BY DEF Ordinary, Body
<1>5. SealedHashes \subseteq Hash
  BY <1>3, <1>4 DEF SealedHashes, Digest, Hash
<1>6. ASSUME NEW n \in Sequence, NEW h \in SealedHashes, NEW p \in Payload
      PROVE  /\ Seal(n, h, Ordinary(p)) \in Row
             /\ [Seal(n, h, Ordinary(p)) EXCEPT !.hash = h] \in Row
  <2>1. h \in Hash /\ Ordinary(p) \in Body
    BY <1>4, <1>5
  <2>2. Seal(n, h, Ordinary(p)) \in Row
    BY <2>1, SealType
  <2>3. QED
    BY <2>1, <2>2 DEF Row
<1>7. SUFFICES ASSUME NEW row \in Envelopes
               PROVE  row \in Row
  OBVIOUS
<1>8. PICK n \in Sequence, h \in SealedHashes, p \in Payload :
        row \in {Seal(n, h, Ordinary(p)),
                [Seal(n, h, Ordinary(p)) EXCEPT !.hash = h]}
  BY <1>7 DEF Envelopes
<1>9. QED
  BY <1>6, <1>8

-----------------------------------------------------------------------------
(***************************************************************************)
(* The inductive invariant.  TypeOK alone is not inductive: the cursor of  *)
(* a transaction stays in range because its batch holds consecutive        *)
(* sequences.  TableGood says what is right about the tables of a session; *)
(* WorkGood relates the tables a transaction sees (w) to the committed     *)
(* ones (t) for the operation (o) it performs.                             *)
(***************************************************************************)
PairsIn(rows) ==
    \A r \in rows :
        /\ r.body.kind = "first" =>
            \E q \in rows : q.sequence = r.sequence + 1 /\ q.body.kind = "second"
        /\ r.body.kind = "second" =>
            \E q \in rows : q.sequence = r.sequence - 1 /\ q.body.kind = "first"

TableGood(t) ==
    /\ OnePrefix(t)
    /\ \A r \in t.rows : ChainLink(t.rows, r)
    /\ CheckpointsVerify(t.next, t.rows, t.stored)
    /\ PairsIn(t.rows)
    /\ ~t.exists => t = NoTable

(* What the batch of an append consists of. *)
BatchGood(t, o) ==
    LET n == Len(o.batch)
    IN  /\ n \in {1, 2}
        /\ \A i \in 1 .. n : o.batch[i].sequence = t.next + i - 1
        /\ o.kind = "append" /\ n = 1 => o.batch[1].body.kind = "event"
        /\ o.kind = "append" /\ n = 2 =>
            o.batch[1].body.kind = "first" /\ o.batch[2].body.kind = "second"
        /\ o.kind = "checkpoint" =>
            /\ n = 1
            /\ o.batch[1].body.kind = "checkpoint"
            /\ o.snapshot = o.batch[1].sequence

CheckpointRow(o) == [sequence |-> o.batch[1].sequence, snapshot |-> o.snapshot]

AppendGood(t, w, o) ==
    LET n == Len(o.batch)
    IN  /\ BatchGood(t, o)
        /\ t.exists /\ ~t.ended /\ w.exists /\ ~w.ended
        /\ t.rows \subseteq w.rows
        /\ \A r \in w.rows : r \in t.rows \/ \E i \in 1 .. n : r = o.batch[i]
        /\ \A r \in w.rows : ChainLink(w.rows, r)
        /\ w.next \in {t.next, t.next + n}
        /\ o.kind = "append" => w.stored = t.stored
        /\ o.kind = "checkpoint" => w.stored \in {t.stored, t.stored \cup {CheckpointRow(o)}}

WorkGood(t, w, o) ==
    /\ o.kind \in {"append", "checkpoint"} => AppendGood(t, w, o)
    /\ o.kind = "create" =>
        o.batch = <<>> /\ ~t.exists /\ w = [NoTable EXCEPT !.exists = TRUE]
    /\ o.kind = "end" =>
        o.batch = <<>> /\ t.exists /\ ~t.ended /\ w = [t EXCEPT !.ended = TRUE]

IInv ==
    /\ TypeOK
    /\ \A s \in Session : TableGood(db[s])
    /\ \A c \in Conn : snapshot[c] # Absent => TableGood(snapshot[c].table)
    /\ holder # Absent =>
        /\ op \in Ops
        /\ WorkGood(db[op.session], work, op)
        /\ op.kind = "create" => Unfinished = {}
    /\ SingleUnfinished

-----------------------------------------------------------------------------
(***************************************************************************)
(* Facts about tables, free of the state.                                  *)
(***************************************************************************)
LEMMA ChainLinkMonotone ==
    ASSUME NEW rows, NEW more, rows \subseteq more, NEW r, ChainLink(rows, r)
    PROVE  ChainLink(more, r)
  BY DEF ChainLink, HashesBefore

LEMMA NoTableGood ==
    /\ TableGood(NoTable)
    /\ TableGood([NoTable EXCEPT !.exists = TRUE])
  BY DEF TableGood, NoTable, OnePrefix, CheckpointsVerify, PairsIn

LEMMA EndGood ==
    ASSUME NEW t \in Table, TableGood(t), t.exists
    PROVE  TableGood([t EXCEPT !.ended = TRUE])
  BY DEF TableGood, OnePrefix, CheckpointsVerify, PairsIn, Table

(* A sequence at or past next_sequence is not yet stored, and conversely. *)
LEMMA RowsBelowNext ==
    ASSUME NEW t \in Table, OnePrefix(t)
    PROVE  /\ \A r \in t.rows : r.sequence < t.next
           /\ \A n \in 1 .. (t.next - 1) : \E r \in t.rows : r.sequence = n
  BY DEF OnePrefix, Table, Row, Sequence

(***************************************************************************)
(* Once every row of the batch is inserted, the cursor advanced and the    *)
(* checkpoint payload stored, the transaction's tables are good again.     *)
(***************************************************************************)
LEMMA CommittedAppendGood ==
    ASSUME NEW t \in Table, NEW w \in Table, NEW o \in Ops,
           TableGood(t), AppendGood(t, w, o),
           o.kind \in {"append", "checkpoint"},
           \A i \in 1 .. Len(o.batch) : o.batch[i] \in w.rows,
           o.kind = "checkpoint" => CheckpointRow(o) \in w.stored,
           w.next = t.next + Len(o.batch)
    PROVE  TableGood(w)
<1> DEFINE n == Len(o.batch)
<1> USE JournalAssumption
<1>1. /\ n \in {1, 2}
      /\ t.next \in Nat /\ t.next >= 1
      /\ \A i \in 1 .. n : o.batch[i].sequence = t.next + i - 1
      /\ \A r \in t.rows : r.sequence < t.next /\ r.sequence >= 1 /\ r.sequence \in Nat
      /\ \A k \in 1 .. (t.next - 1) : \E r \in t.rows : r.sequence = k
      /\ \A r, q \in t.rows : r.sequence = q.sequence => r = q
  BY RowsBelowNext DEF AppendGood, BatchGood, TableGood, OnePrefix, Table, Row, Sequence
<1>2. /\ t.rows \subseteq w.rows
      /\ \A r \in w.rows : r \in t.rows \/ \E i \in 1 .. n : r = o.batch[i]
      /\ \A r \in w.rows : ChainLink(w.rows, r)
      /\ w.exists
  BY DEF AppendGood
<1>3. OnePrefix(w)
  <2>1. ASSUME NEW r \in w.rows
        PROVE  r.sequence \in 1 .. (w.next - 1)
    BY <1>1, <1>2
  <2>2. ASSUME NEW k \in 1 .. (w.next - 1)
        PROVE  \E r \in w.rows : r.sequence = k
    <3>1. CASE k < t.next
      BY <1>1, <1>2, <3>1
    <3>2. CASE k >= t.next
      <4>1. k - t.next + 1 \in 1 .. n
        BY <1>1, <3>2
      <4>2. o.batch[k - t.next + 1] \in w.rows
        BY <4>1
      <4>3. o.batch[k - t.next + 1].sequence = k
        BY <1>1, <4>1
      <4>4. QED
        BY <4>2, <4>3
    <3>3. QED
      BY <1>1, <3>1, <3>2
  <2>3. ASSUME NEW r \in w.rows, NEW q \in w.rows, r.sequence = q.sequence
        PROVE  r = q
    <3>1. CASE r \in t.rows /\ q \in t.rows
      BY <1>1, <2>3, <3>1
    <3>2. CASE r \in t.rows /\ q \notin t.rows
      <4>1. PICK j \in 1 .. n : q = o.batch[j]
        BY <1>2, <3>2
      <4>2. q.sequence >= t.next
        BY <1>1, <4>1
      <4>3. QED
        BY <1>1, <2>3, <3>2, <4>2
    <3>3. CASE r \notin t.rows /\ q \in t.rows
      <4>1. PICK i \in 1 .. n : r = o.batch[i]
        BY <1>2, <3>3
      <4>2. r.sequence >= t.next
        BY <1>1, <4>1
      <4>3. QED
        BY <1>1, <2>3, <3>3, <4>2
    <3>4. CASE r \notin t.rows /\ q \notin t.rows
      <4>1. PICK i \in 1 .. n : r = o.batch[i]
        BY <1>2, <3>4
      <4>2. PICK j \in 1 .. n : q = o.batch[j]
        BY <1>2, <3>4
      <4>3. t.next + i - 1 = t.next + j - 1
        BY <1>1, <2>3, <4>1, <4>2
      <4>4. QED
        BY <1>1, <4>1, <4>2, <4>3
    <3>5. QED
      BY <3>1, <3>2, <3>3, <3>4
  <2>4. {r.sequence : r \in w.rows} = 1 .. (w.next - 1)
    BY <2>1, <2>2
  <2>5. QED
    BY <2>3, <2>4 DEF OnePrefix
<1>4. CheckpointsVerify(w.next, w.rows, w.stored)
  <2>1. CheckpointsVerify(t.next, t.rows, t.stored)
    BY DEF TableGood
  <2>2. CASE o.kind = "append"
    <3>1. w.stored = t.stored
      BY <2>2 DEF AppendGood
    <3>2. \A i \in 1 .. n : o.batch[i].body.kind # "checkpoint"
      BY <1>1, <2>2, SMTT(30) DEF AppendGood, BatchGood
    <3>3. QED
      BY <1>1, <1>2, <2>1, <3>1, <3>2 DEF CheckpointsVerify
  <2>3. CASE o.kind = "checkpoint"
    <3>1. w.stored = t.stored \cup {CheckpointRow(o)}
      BY <2>3 DEF AppendGood
    <3>2. /\ n = 1 /\ o.batch[1] \in w.rows
          /\ o.batch[1].body.kind = "checkpoint"
          /\ o.snapshot = o.batch[1].sequence
          /\ o.batch[1].sequence = t.next
      BY <1>1, <2>3 DEF AppendGood, BatchGood
    <3>3. /\ CheckpointRow(o).sequence = t.next
          /\ CheckpointRow(o).snapshot = t.next
      BY <3>2 DEF CheckpointRow
    <3>4. \A r \in w.rows : r \in t.rows \/ r = o.batch[1]
      BY <1>2, <3>2
    <3>5. \A k \in w.stored :
            \E r \in w.rows :
                /\ r.sequence = k.sequence /\ r.sequence < w.next
                /\ r.body.kind = "checkpoint" /\ k.snapshot = r.sequence
      BY <1>1, <1>2, <2>1, <3>1, <3>2, <3>3 DEF CheckpointsVerify
    <3>6. \A r \in w.rows : r.body.kind = "checkpoint" =>
            \E k \in w.stored : k.sequence = r.sequence
      BY <2>1, <3>1, <3>2, <3>3, <3>4 DEF CheckpointsVerify
    <3>7. QED
      BY <3>5, <3>6 DEF CheckpointsVerify
  <2>4. QED
    BY <2>2, <2>3
<1>5. PairsIn(w.rows)
  <2>1. PairsIn(t.rows)
    BY DEF TableGood
  <2>2. ASSUME NEW r \in w.rows
        PROVE  /\ r.body.kind = "first" =>
                   \E q \in w.rows : q.sequence = r.sequence + 1 /\ q.body.kind = "second"
               /\ r.body.kind = "second" =>
                   \E q \in w.rows : q.sequence = r.sequence - 1 /\ q.body.kind = "first"
    <3>1. CASE r \in t.rows
      BY <1>2, <2>1, <3>1 DEF PairsIn
    <3>2. CASE n = 1 /\ r = o.batch[1]
      BY <3>2 DEF AppendGood, BatchGood
    <3>3. CASE n = 2
      <4>1. /\ o.batch[1] \in w.rows /\ o.batch[2] \in w.rows
            /\ o.batch[1].body.kind = "first" /\ o.batch[2].body.kind = "second"
            /\ o.batch[1].sequence = t.next /\ o.batch[2].sequence = t.next + 1
        BY <1>1, <3>3 DEF AppendGood, BatchGood
      <4>2. r \in t.rows \/ r = o.batch[1] \/ r = o.batch[2]
        BY <1>2, <3>3
      <4>3. CASE r = o.batch[1]
        BY <1>1, <4>1, <4>3
      <4>4. CASE r = o.batch[2]
        <5>1. o.batch[1].sequence = r.sequence - 1
          BY <1>1, <4>1, <4>4
        <5>2. r.body.kind = "second"
          BY <4>1, <4>4
        <5>3. QED
          BY <4>1, <5>1, <5>2
      <4>5. QED
        BY <3>1, <4>2, <4>3, <4>4
    <3>4. QED
      BY <1>1, <1>2, <3>1, <3>2, <3>3
  <2>3. QED
    BY <2>2 DEF PairsIn
<1>6. QED
  BY <1>2, <1>3, <1>4, <1>5 DEF TableGood

(***************************************************************************)
(* The statements of an append keep the transaction's tables good.         *)
(***************************************************************************)
LEMMA InsertKeepsWork ==
    ASSUME NEW t, NEW w \in Table, NEW o \in Ops, AppendGood(t, w, o),
           NEW i \in 1 .. Len(o.batch), EnforceAppendChain(w.rows, o.batch[i])
    PROVE  AppendGood(t, [w EXCEPT !.rows = @ \cup {o.batch[i]}], o)
<1> DEFINE v == [w EXCEPT !.rows = @ \cup {o.batch[i]}]
<1>1. /\ v.rows = w.rows \cup {o.batch[i]}
      /\ v.exists = w.exists /\ v.ended = w.ended
      /\ v.next = w.next /\ v.stored = w.stored
  BY DEF Table
<1>2. \A r \in v.rows : ChainLink(v.rows, r)
  <2>1. \A r \in v.rows : ChainLink(w.rows, r)
    BY <1>1 DEF AppendGood, EnforceAppendChain
  <2>2. w.rows \subseteq v.rows
    BY <1>1
  <2>3. QED
    BY <2>1, <2>2, ChainLinkMonotone
<1>3. \A r \in v.rows : r \in t.rows \/ \E j \in 1 .. Len(o.batch) : r = o.batch[j]
  BY <1>1 DEF AppendGood
<1> HIDE DEF v
<1>4. QED
  BY <1>1, <1>2, <1>3 DEF AppendGood, v

LEMMA StoreKeepsWork ==
    ASSUME NEW t, NEW w \in Table, NEW o \in Ops, AppendGood(t, w, o),
           o.kind = "checkpoint"
    PROVE  AppendGood(t, [w EXCEPT !.stored = @ \cup {CheckpointRow(o)}], o)
  BY DEF AppendGood, Table

LEMMA AdvanceKeepsWork ==
    ASSUME NEW t \in Table, NEW w \in Table, NEW o \in Ops, AppendGood(t, w, o),
           w.next = o.batch[1].sequence
    PROVE  /\ AppendGood(t, [w EXCEPT !.next = @ + Len(o.batch)], o)
           /\ w.next + Len(o.batch) \in 1 .. MaxSequence + 1
<1> USE JournalAssumption
<1>1. /\ Len(o.batch) \in {1, 2}
      /\ \A i \in 1 .. Len(o.batch) : o.batch[i].sequence = t.next + i - 1
      /\ t.next \in 1 .. MaxSequence + 1
  BY DEF AppendGood, BatchGood, Table
<1>2. w.next = t.next
  BY <1>1
<1>3. o.batch[Len(o.batch)] \in Row
  BY <1>1 DEF Ops
<1>4. t.next + Len(o.batch) - 1 \in Sequence
  BY <1>1, <1>3 DEF Row
<1>5. w.next + Len(o.batch) \in 1 .. MaxSequence + 1
  BY <1>1, <1>2, <1>4 DEF Sequence
<1>6. AppendGood(t, [w EXCEPT !.next = @ + Len(o.batch)], o)
  BY <1>2 DEF AppendGood, Table
<1>7. QED
  BY <1>5, <1>6

(***************************************************************************)
(* An append that has inserted nothing yet sees the committed tables.      *)
(***************************************************************************)
LEMMA FreshWork ==
    ASSUME NEW t \in Table, TableGood(t), NEW o \in Ops,
           t.exists, ~t.ended, BatchGood(t, o)
    PROVE  AppendGood(t, t, o)
  BY DEF AppendGood, TableGood

-----------------------------------------------------------------------------
(***************************************************************************)
(* The invariant is inductive.                                             *)
(***************************************************************************)
LEMMA InitIInv == StoreInit => IInv
<1> SUFFICES ASSUME StoreInit PROVE IInv
  OBVIOUS
<1>1. NoTable \in Table /\ TableGood(NoTable) /\ ~NoTable.exists
  BY NoTableType, NoTableGood DEF NoTable
<1>2. TypeOK
  BY <1>1 DEF StoreInit, TypeOK
<1>3. QED
  BY <1>1, <1>2 DEF StoreInit, IInv, SingleUnfinished, Unfinished

(* Beginning a transaction with the right batch and tables *)
LEMMA BeginStep ==
    ASSUME IInv, NEW c \in Conn, NEW o \in Ops, NEW w \in Table,
           Begin(c, o, w), WorkGood(db[o.session], w, o),
           o.kind = "create" => Unfinished = {},
           inspected' \in
             [Conn -> [session : Session, next : 1 .. MaxSequence + 1] \cup {Absent}]
    PROVE  IInv'
<1>1. TypeOK'
  BY DEF IInv, TypeOK, Begin
<1>2. UNCHANGED <<db, snapshot>> /\ op' = o /\ work' = w
  BY DEF Begin
<1>3. Unfinished' = Unfinished
  BY <1>2 DEF Unfinished
<1>4. QED
  BY <1>1, <1>2, <1>3 DEF IInv, SingleUnfinished

(* Steps of readers, of opening and of a refusal leave the store alone. *)
LEMMA ReaderStep ==
    ASSUME IInv, TypeOK', UNCHANGED <<db, holder, op, work>>,
           \A c \in Conn : snapshot'[c] # Absent => TableGood(snapshot'[c].table)
    PROVE  IInv'
<1>1. Unfinished' = Unfinished
  BY DEF Unfinished
<1>2. QED
  BY <1>1 DEF IInv, SingleUnfinished

(* A transaction that disappears leaves the committed tables as they were. *)
LEMMA DroppedStep ==
    ASSUME IInv, EndTransaction, UNCHANGED db, TypeOK',
           \A c \in Conn : snapshot'[c] # Absent => snapshot'[c] = snapshot[c]
    PROVE  IInv'
<1>1. Unfinished' = Unfinished
  BY DEF Unfinished
<1>2. QED
  BY <1>1 DEF IInv, SingleUnfinished, EndTransaction

(* The facts every step of a running transaction starts from. *)
LEMMA InTransaction ==
    ASSUME IInv, NEW c \in Conn, holder = c
    PROVE  /\ op \in Ops /\ op.session \in Session
           /\ WorkGood(db[op.session], work, op)
           /\ op.kind = "create" => Unfinished = {}
           /\ work \in Table /\ db[op.session] \in Table
           /\ TableGood(db[op.session])
<1>1. holder # Absent
  BY JournalAssumption
<1>2. op \in Ops
  BY <1>1 DEF IInv
<1>3. QED
  BY <1>1, <1>2 DEF IInv, TypeOK, Ops

(* A statement that keeps the transaction's tables good keeps IInv. *)
LEMMA StatementStep ==
    ASSUME IInv, NEW c \in Conn, holder = c,
           work' \in Table, WorkGood(db[op.session], work', op),
           UNCHANGED <<db, holder, op, open, readers>>
    PROVE  IInv'
<1>1. Unfinished' = Unfinished
  BY DEF Unfinished
<1>2. QED
  BY <1>1, InTransaction DEF IInv, SingleUnfinished, TypeOK, readers

LEMMA CreateStep ==
    ASSUME IInv, NEW c \in Conn, NEW s \in Session, BeginCreate(c, s)
    PROVE  IInv'
<1> DEFINE o == Operation("create", s, <<>>, 1)
           w == [NoTable EXCEPT !.exists = TRUE]
<1>1. o \in Ops /\ o.session = s /\ o.kind = "create" /\ o.batch = <<>>
  BY JournalAssumption DEF Operation, Ops
<1>2. w \in Table
  BY NoTableType DEF Table
<1>3. ~db[s].exists /\ Unfinished = {} /\ Begin(c, o, w) /\ UNCHANGED inspected
  BY DEF BeginCreate, MayCreate
<1>4. WorkGood(db[o.session], w, o)
  BY <1>1, <1>3 DEF WorkGood
<1> HIDE DEF o, w
<1>5. QED
  BY <1>1, <1>2, <1>3, <1>4, BeginStep DEF IInv, TypeOK

LEMMA EndStep ==
    ASSUME IInv, NEW c \in Conn, NEW s \in Session, BeginEnd(c, s)
    PROVE  IInv'
<1> DEFINE o == Operation("end", s, <<>>, 1)
           w == [db[s] EXCEPT !.ended = TRUE]
<1>1. o \in Ops /\ o.session = s /\ o.kind = "end" /\ o.batch = <<>>
  BY JournalAssumption DEF Operation, Ops
<1>2. w \in Table
  BY DEF IInv, TypeOK, Table
<1>3. db[s].exists /\ ~db[s].ended /\ Begin(c, o, w) /\ UNCHANGED inspected
  BY DEF BeginEnd
<1>4. WorkGood(db[o.session], w, o)
  BY <1>1, <1>3 DEF WorkGood
<1> HIDE DEF o, w
<1>5. QED
  BY <1>1, <1>2, <1>3, <1>4, BeginStep DEF IInv, TypeOK

(***************************************************************************)
(* Every append, however it obtained its batch, begins alike.              *)
(***************************************************************************)
LEMMA AppendStep ==
    ASSUME IInv, NEW c \in Conn, NEW o \in Ops,
           o.kind \in {"append", "checkpoint"},
           db[o.session].exists, ~db[o.session].ended,
           BatchGood(db[o.session], o), Begin(c, o, db[o.session]),
           inspected' \in
             [Conn -> [session : Session, next : 1 .. MaxSequence + 1] \cup {Absent}]
    PROVE  IInv'
<1>1. /\ o.session \in Session
      /\ db[o.session] \in Table
      /\ TableGood(db[o.session])
  BY DEF Ops, IInv, TypeOK
<1>2. AppendGood(db[o.session], db[o.session], o)
  BY <1>1, FreshWork
<1>3. WorkGood(db[o.session], db[o.session], o)
  BY <1>2 DEF WorkGood
<1>4. QED
  BY <1>1, <1>3, BeginStep

LEMMA OneRowBatch ==
    ASSUME NEW t, NEW kind \in {"append", "checkpoint"}, NEW s \in Session,
           NEW row \in Row, NEW n \in 1 .. MaxSequence + 1,
           row.sequence = t.next, t.next \in Nat,
           kind = "append" => row.body.kind = "event",
           kind = "checkpoint" => row.body.kind = "checkpoint" /\ n = row.sequence
    PROVE  /\ Operation(kind, s, <<row>>, n) \in Ops
           /\ BatchGood(t, Operation(kind, s, <<row>>, n))
           /\ Operation(kind, s, <<row>>, n).session = s
           /\ Operation(kind, s, <<row>>, n).kind = kind
<1> DEFINE o == Operation(kind, s, <<row>>, n)
<1>1. <<row>> \in Seq(Row) /\ Len(<<row>>) = 1 /\ <<row>>[1] = row
  OBVIOUS
<1>2. /\ o.session = s /\ o.kind = kind /\ o.batch = <<row>> /\ o.snapshot = n
      /\ o \in Ops
  BY <1>1 DEF Operation, Ops
<1> HIDE DEF o
<1>3. BatchGood(t, o)
  BY <1>1, <1>2 DEF BatchGood
<1>4. QED
  BY <1>2, <1>3 DEF o

LEMMA TwoRowBatch ==
    ASSUME NEW t, NEW s \in Session, NEW first \in Row, NEW second \in Row,
           t.next \in Nat, first.sequence = t.next, second.sequence = t.next + 1,
           first.body.kind = "first", second.body.kind = "second"
    PROVE  /\ Operation("append", s, <<first, second>>, 1) \in Ops
           /\ BatchGood(t, Operation("append", s, <<first, second>>, 1))
           /\ Operation("append", s, <<first, second>>, 1).session = s
           /\ Operation("append", s, <<first, second>>, 1).kind = "append"
<1> DEFINE o == Operation("append", s, <<first, second>>, 1)
           b == <<first, second>>
<1>1. b \in Seq(Row) /\ Len(b) = 2 /\ b[1] = first /\ b[2] = second
  OBVIOUS
<1>2. /\ o.session = s /\ o.kind = "append" /\ o.batch = b
      /\ o \in Ops
  BY <1>1, JournalAssumption DEF Operation, Ops
<1> HIDE DEF o, b
<1>3. ASSUME NEW i \in 1 .. Len(o.batch)
      PROVE  o.batch[i].sequence = t.next + i - 1
  <2>1. CASE i = 1
    BY <1>1, <1>2, <2>1
  <2>2. CASE i = 2
    <3>1. o.batch[i] = second
      BY <1>1, <1>2, <2>2
    <3>2. t.next + i - 1 = t.next + 1
      BY <2>2
    <3>3. QED
      BY <3>1, <3>2
  <2>3. i \in 1 .. 2
    BY <1>1, <1>2
  <2>4. QED
    BY <2>1, <2>2, <2>3
<1>4. BatchGood(t, o)
  BY <1>1, <1>2, <1>3 DEF BatchGood
<1>5. QED
  BY <1>2, <1>4 DEF o, b

LEMMA CallerAppendStep ==
    ASSUME IInv, NEW c \in Conn, NEW s \in Session, NEW row \in Envelopes,
           BeginAppend(c, s, row)
    PROVE  IInv'
<1> USE JournalAssumption
<1>1. row \in Row
  BY EnvelopesType DEF IInv
<1>2. /\ db[s] \in Table /\ db[s].next \in Nat
      /\ row.sequence = db[s].next /\ row.body.kind = "event"
      /\ db[s].exists /\ ~db[s].ended
      /\ Begin(c, Operation("append", s, <<row>>, 1), db[s])
      /\ UNCHANGED inspected
  BY DEF BeginAppend, IInv, TypeOK, Table
<1> DEFINE o == Operation("append", s, <<row>>, 1)
<1>3. /\ o \in Ops /\ BatchGood(db[s], o) /\ o.session = s /\ o.kind = "append"
  BY <1>1, <1>2, OneRowBatch
<1> HIDE DEF o
<1>4. Begin(c, o, db[o.session])
  BY <1>2, <1>3 DEF o
<1>5. QED
  BY <1>2, <1>3, <1>4, AppendStep DEF IInv, TypeOK

LEMMA SubmittedStep ==
    ASSUME IInv, NEW c \in Conn, NEW s \in Session, NEW p \in Payload,
           BeginSubmitted(c, s, p)
    PROVE  IInv'
<1> USE JournalAssumption
<1>1. /\ db[s] \in Table /\ db[s].exists /\ ~db[s].ended
      /\ db[s].next \in Sequence /\ db[s].next \in Nat
      /\ UNCHANGED inspected
  BY DEF BeginSubmitted, RoomFor, IInv, TypeOK, Table, Sequence
<1> DEFINE body == [kind |-> "event", payload |-> p]
<1>2. PICK prev \in HashesBefore(db[s].rows, db[s].next) :
        Begin(c, Operation("append", s, <<Seal(db[s].next, prev, body)>>, 1), db[s])
  BY DEF BeginSubmitted
<1>3. prev \in Hash
  BY <1>1, HashesBeforeType DEF Table
<1>4. body \in Body /\ body.kind = "event"
  BY DEF Body
<1> HIDE DEF body
<1> DEFINE row == Seal(db[s].next, prev, body)
<1>5. row \in Row /\ row.sequence = db[s].next /\ row.body = body
  BY <1>1, <1>3, <1>4, SealType
<1> DEFINE o == Operation("append", s, <<row>>, 1)
<1>6. Begin(c, o, db[s])
  BY <1>2
<1> HIDE DEF row
<1>7. o \in Ops /\ BatchGood(db[s], o) /\ o.session = s /\ o.kind = "append"
  BY <1>1, <1>4, <1>5, OneRowBatch
<1> HIDE DEF o
<1>8. QED
  BY <1>1, <1>6, <1>7, AppendStep DEF IInv, TypeOK

LEMMA PairStep ==
    ASSUME IInv, NEW c \in Conn, NEW s \in Session, NEW p \in Payload,
           NEW q \in Payload, BeginPair(c, s, p, q)
    PROVE  IInv'
<1> USE JournalAssumption
<1>1. /\ db[s] \in Table /\ db[s].exists /\ ~db[s].ended
      /\ db[s].next \in Sequence /\ db[s].next \in Nat
      /\ db[s].next + 1 \in Sequence
      /\ UNCHANGED inspected
  BY DEF BeginPair, RoomFor, IInv, TypeOK, Table, Sequence
<1> DEFINE b1 == [kind |-> "first", payload |-> p]
           b2 == [kind |-> "second", payload |-> q]
<1>2. PICK prev \in HashesBefore(db[s].rows, db[s].next) :
        Begin(c, Operation("append", s,
                 <<Seal(db[s].next, prev, b1),
                   Seal(db[s].next + 1, Seal(db[s].next, prev, b1).hash, b2)>>, 1),
              db[s])
  BY DEF BeginPair
<1>3. prev \in Hash
  BY <1>1, HashesBeforeType DEF Table
<1>4. b1 \in Body /\ b1.kind = "first" /\ b2 \in Body /\ b2.kind = "second"
  BY DEF Body
<1> HIDE DEF b1, b2
<1> DEFINE first == Seal(db[s].next, prev, b1)
           second == Seal(db[s].next + 1, first.hash, b2)
<1>5. first \in Row /\ first.sequence = db[s].next /\ first.body = b1 /\ first.hash \in Hash
  BY <1>1, <1>3, <1>4, SealType
<1>6. second \in Row /\ second.sequence = db[s].next + 1 /\ second.body = b2
  <2> HIDE DEF first
  <2> QED
    BY <1>1, <1>4, <1>5, SealType
<1> DEFINE o == Operation("append", s, <<first, second>>, 1)
<1>7. Begin(c, o, db[s])
  BY <1>2
<1> HIDE DEF first, second
<1>8. o \in Ops /\ BatchGood(db[s], o) /\ o.session = s /\ o.kind = "append"
  BY <1>1, <1>4, <1>5, <1>6, TwoRowBatch
<1> HIDE DEF o
<1>9. QED
  BY <1>1, <1>7, <1>8, AppendStep DEF IInv, TypeOK

LEMMA CheckpointStep ==
    ASSUME IInv, NEW c \in Conn, NEW p \in Payload, BeginCheckpoint(c, p)
    PROVE  IInv'
<1> USE JournalAssumption
<1> DEFINE s == inspected[c].session
           n == inspected[c].next
           body == [kind |-> "checkpoint", payload |-> p]
<1>1. s \in Session /\ n \in 1 .. MaxSequence + 1
  BY DEF BeginCheckpoint, IInv, TypeOK
<1>2. /\ db[s].exists /\ ~db[s].ended
      /\ SnapshotIsCurrent(db[s], n) /\ RoomFor(db[s], 1)
      /\ \E prev \in HashesBefore(db[s].rows, db[s].next) :
            Begin(c, Operation("checkpoint", s,
                               <<Seal(db[s].next, prev, body)>>, n), db[s])
      /\ inspected' = [inspected EXCEPT ![c] = Absent]
  BY DEF BeginCheckpoint
<1>3. body \in Body /\ body.kind = "checkpoint"
  BY DEF Body
<1> HIDE DEF s, n, body
<1>4. PICK prev \in HashesBefore(db[s].rows, db[s].next) :
        Begin(c, Operation("checkpoint", s, <<Seal(db[s].next, prev, body)>>, n), db[s])
  BY <1>2
<1>5. /\ db[s] \in Table /\ db[s].next \in Sequence /\ db[s].next \in Nat
      /\ n = db[s].next
  BY <1>1, <1>2 DEF RoomFor, SnapshotIsCurrent, IInv, TypeOK, Table, Sequence
<1>6. prev \in Hash
  BY <1>4, <1>5, HashesBeforeType DEF Table
<1> DEFINE row == Seal(db[s].next, prev, body)
<1>7. row \in Row /\ row.sequence = db[s].next /\ row.body = body
  BY <1>3, <1>5, <1>6, SealType
<1> DEFINE o == Operation("checkpoint", s, <<row>>, n)
<1>8. Begin(c, o, db[s])
  BY <1>4
<1> HIDE DEF row
<1>9. o \in Ops /\ BatchGood(db[s], o) /\ o.session = s /\ o.kind = "checkpoint"
  BY <1>1, <1>3, <1>5, <1>7, OneRowBatch
<1> HIDE DEF o
<1>10. inspected' \in
         [Conn -> [session : Session, next : 1 .. MaxSequence + 1] \cup {Absent}]
  BY <1>2 DEF IInv, TypeOK
<1>11. QED
  BY <1>2, <1>8, <1>9, <1>10, AppendStep

LEMMA InsertStep ==
    ASSUME IInv, NEW c \in Conn, InsertRow(c)
    PROVE  IInv'
<1>1. holder = c /\ UNCHANGED <<db, holder, op, open, readers>>
  BY DEF InsertRow
<1>2. /\ op \in Ops /\ work \in Table
      /\ WorkGood(db[op.session], work, op)
  BY <1>1, InTransaction
<1>3. PICK i \in DOMAIN op.batch :
        /\ EnforceAppendChain(work.rows, op.batch[i])
        /\ work' = [work EXCEPT !.rows = @ \cup {op.batch[i]}]
  BY DEF InsertRow
<1>4. i \in 1 .. Len(op.batch) /\ op.batch[i] \in Row
  BY <1>2, <1>3 DEF Ops
<1>5. op.kind \in {"append", "checkpoint"}
  BY <1>2, <1>4 DEF Ops, WorkGood
<1>6. AppendGood(db[op.session], work', op)
  BY <1>2, <1>3, <1>4, <1>5, InsertKeepsWork DEF WorkGood
<1>7. WorkGood(db[op.session], work', op)
  BY <1>5, <1>6 DEF WorkGood
<1>8. work' \in Table
  BY <1>2, <1>3, <1>4 DEF Table
<1>9. QED
  BY <1>1, <1>7, <1>8, StatementStep

LEMMA StoreStep ==
    ASSUME IInv, NEW c \in Conn, StorePayload(c)
    PROVE  IInv'
<1>1. /\ holder = c /\ op.kind = "checkpoint" /\ op.snapshot <= MaxSequence
      /\ work' = [work EXCEPT !.stored = @ \cup {CheckpointRow(op)}]
      /\ UNCHANGED <<db, holder, op, open, readers>>
  BY DEF StorePayload, CheckpointRow
<1>2. /\ op \in Ops /\ work \in Table
      /\ AppendGood(db[op.session], work, op)
  BY <1>1, InTransaction DEF WorkGood
<1>3. WorkGood(db[op.session], work', op)
  BY <1>1, <1>2, StoreKeepsWork DEF WorkGood
<1>4. op.batch[1] \in Row /\ op.snapshot \in Sequence
  <2>1. Len(op.batch) = 1
    BY <1>1, <1>2 DEF AppendGood, BatchGood
  <2>2. op.batch[1] \in Row
    BY <1>2, <2>1 DEF Ops
  <2>3. QED
    BY <1>1, <1>2, <2>2, JournalAssumption DEF Ops, Sequence
<1>5. CheckpointRow(op) \in StoredCheckpoint
  BY <1>4 DEF CheckpointRow, StoredCheckpoint, Row
<1>6. work' \in Table
  BY <1>1, <1>2, <1>5 DEF Table
<1>7. QED
  BY <1>1, <1>3, <1>6, StatementStep

LEMMA AdvanceStep ==
    ASSUME IInv, NEW c \in Conn, Advance(c)
    PROVE  IInv'
<1>1. /\ holder = c /\ op.batch # <<>> /\ work.next = op.batch[1].sequence
      /\ work' = [work EXCEPT !.next = @ + Len(op.batch)]
      /\ UNCHANGED <<db, holder, op, open, readers>>
  BY DEF Advance
<1>2. /\ op \in Ops /\ work \in Table /\ db[op.session] \in Table
      /\ WorkGood(db[op.session], work, op)
  BY <1>1, InTransaction
<1>3. op.kind \in {"append", "checkpoint"}
  BY <1>1, <1>2 DEF Ops, WorkGood
<1>4. AppendGood(db[op.session], work, op)
  BY <1>2, <1>3 DEF WorkGood
<1>5. /\ AppendGood(db[op.session], work', op)
      /\ work.next + Len(op.batch) \in 1 .. MaxSequence + 1
  BY <1>1, <1>2, <1>4, AdvanceKeepsWork
<1>6. work' \in Table
  BY <1>1, <1>2, <1>5 DEF Table
<1>7. WorkGood(db[op.session], work', op)
  BY <1>3, <1>5 DEF WorkGood
<1>8. QED
  BY <1>1, <1>6, <1>7, StatementStep

(* What COMMIT publishes is a good table, and extends the one before it. *)
LEMMA CommitTable ==
    ASSUME IInv, NEW c \in Conn, Commit(c)
    PROVE  /\ TableGood(work) /\ work.exists
           /\ ~db[op.session].ended
           /\ db[op.session].rows \subseteq work.rows
           /\ db[op.session].stored \subseteq work.stored
           /\ op.kind # "create" => db[op.session].exists
<1>1. holder = c /\ Verified
  BY DEF Commit
<1>2. /\ op \in Ops /\ work \in Table /\ db[op.session] \in Table
      /\ WorkGood(db[op.session], work, op)
      /\ TableGood(db[op.session])
  BY <1>1, InTransaction
<1>3. CASE op.kind = "create"
  <2>1. ~db[op.session].exists /\ work = [NoTable EXCEPT !.exists = TRUE]
    BY <1>2, <1>3 DEF WorkGood
  <2>2. db[op.session] = NoTable
    BY <1>2, <2>1 DEF TableGood
  <2>3. QED
    BY <1>3, <2>1, <2>2, NoTableGood DEF NoTable
<1>4. CASE op.kind = "end"
  <2>1. /\ db[op.session].exists /\ ~db[op.session].ended
        /\ work = [db[op.session] EXCEPT !.ended = TRUE]
    BY <1>2, <1>4 DEF WorkGood
  <2>2. /\ work.exists /\ work.rows = db[op.session].rows
        /\ work.stored = db[op.session].stored
    BY <1>2, <2>1 DEF Table
  <2>3. QED
    BY <1>2, <1>4, <2>1, <2>2, EndGood
<1>5. CASE op.kind \in {"append", "checkpoint"}
  <2>1. AppendGood(db[op.session], work, op)
    BY <1>2, <1>5 DEF WorkGood
  <2>2. /\ Len(op.batch) \in {1, 2} /\ op.batch # <<>>
        /\ op.batch[1].sequence = db[op.session].next + 1 - 1
        /\ DOMAIN op.batch = 1 .. Len(op.batch)
    BY <1>2, <2>1 DEF AppendGood, BatchGood, Ops
  <2>3. /\ AllInserted /\ CheckpointStored
        /\ work.next = op.batch[1].sequence + Len(op.batch)
    BY <1>1, <2>2 DEF Verified
  <2>4. work.next = db[op.session].next + Len(op.batch)
    BY <1>2, <2>2, <2>3 DEF Table
  <2>5. \A i \in 1 .. Len(op.batch) : op.batch[i] \in work.rows
    BY <2>2, <2>3 DEF AllInserted, Inserted
  <2>6. op.kind = "checkpoint" => CheckpointRow(op) \in work.stored
    <3> SUFFICES ASSUME op.kind = "checkpoint"
                 PROVE  CheckpointRow(op) \in work.stored
      OBVIOUS
    <3>1. work.stored \in {db[op.session].stored,
                           db[op.session].stored \cup {CheckpointRow(op)}}
      BY <2>1 DEF AppendGood
    <3>2. PICK k \in work.stored : k.sequence = op.batch[1].sequence
      BY <2>3 DEF CheckpointStored
    <3>3. k \notin db[op.session].stored
      <4>1. ASSUME k \in db[op.session].stored
            PROVE  \E r \in db[op.session].rows : r.sequence = k.sequence
        BY <1>2, <4>1 DEF TableGood, CheckpointsVerify
      <4>2. \A r \in db[op.session].rows : r.sequence < db[op.session].next
        BY <1>2, RowsBelowNext DEF TableGood
      <4>3. k.sequence = db[op.session].next
        BY <1>2, <2>2, <3>2 DEF Table
      <4>4. db[op.session].next \in Nat
        BY <1>2 DEF Table
      <4>5. QED
        BY <4>1, <4>2, <4>3, <4>4
    <3>4. QED
      BY <3>1, <3>2, <3>3
  <2>7. TableGood(work)
    BY <1>2, <1>5, <2>1, <2>4, <2>5, <2>6, CommittedAppendGood
  <2>8. QED
    BY <1>5, <2>1, <2>7 DEF AppendGood
<1>6. QED
  BY <1>2, <1>3, <1>4, <1>5 DEF Ops

LEMMA CommitStep ==
    ASSUME IInv, NEW c \in Conn, Commit(c)
    PROVE  IInv'
<1>1. /\ op \in Ops /\ op.session \in Session /\ work \in Table
      /\ op.kind = "create" => Unfinished = {}
  BY InTransaction DEF Commit
<1>2. /\ db' = [db EXCEPT ![op.session] = work]
      /\ holder' = Absent /\ op' = NoOp /\ work' = NoTable
      /\ UNCHANGED <<open, inspected, snapshot>>
  BY DEF Commit, EndTransaction, readers
<1>3. TypeOK'
  BY <1>1, <1>2, NoTableType DEF IInv, TypeOK
<1>4. \A s \in Session : TableGood(db'[s])
  BY <1>1, <1>2, CommitTable DEF IInv, TypeOK
<1>5. SingleUnfinished'
  <2>1. SingleUnfinished
    BY DEF IInv
  <2>2. \A s \in Unfinished' : s \in Unfinished \/ s = op.session
    BY <1>1, <1>2 DEF Unfinished, IInv, TypeOK
  <2>3. CASE op.kind = "create"
    BY <1>1, <2>2, <2>3 DEF SingleUnfinished
  <2>4. CASE op.kind # "create"
    <3>1. op.session \in Unfinished
      BY <1>1, <2>4, CommitTable DEF Unfinished
    <3>2. QED
      BY <2>1, <2>2, <3>1 DEF SingleUnfinished
  <2>5. QED
    BY <2>3, <2>4
<1>6. QED
  BY <1>2, <1>3, <1>4, <1>5 DEF IInv

LEMMA StepIInv == IInv /\ [StoreNext]_storeVars => IInv'
<1> SUFFICES ASSUME IInv, [StoreNext]_storeVars
             PROVE  IInv'
  OBVIOUS
<1>0. /\ TypeOK
      /\ \A c \in Conn : snapshot[c] # Absent => TableGood(snapshot[c].table)
      /\ NoTable \in Table
      /\ \A s \in Session : TableGood(db[s])
  BY NoTableType DEF IInv
<1>1. ASSUME NEW c \in Conn, Open(c)
      PROVE  IInv'
  <2>1. TypeOK'
    BY <1>0, <1>1 DEF Open, TypeOK, readers
  <2>2. QED
    BY <1>0, <1>1, <2>1, ReaderStep DEF Open, readers
<1>2. ASSUME NEW c \in Conn, Crash(c)
      PROVE  IInv'
  <2>1. TypeOK'
    BY <1>0, <1>2 DEF Crash, EndTransaction, TypeOK
  <2>2. \A d \in Conn : snapshot'[d] # Absent => snapshot'[d] = snapshot[d]
    BY <1>0, <1>2 DEF Crash, TypeOK
  <2>3. CASE holder = c
    BY <1>2, <2>1, <2>2, <2>3, DroppedStep DEF Crash
  <2>4. CASE holder # c
    BY <1>0, <1>2, <2>1, <2>2, <2>4, ReaderStep DEF Crash
  <2>5. QED
    BY <2>3, <2>4
<1>3. ASSUME NEW c \in Conn, Rollback(c)
      PROVE  IInv'
  <2>1. TypeOK'
    BY <1>0, <1>3 DEF Rollback, EndTransaction, TypeOK, readers
  <2>2. QED
    BY <1>3, <2>1, DroppedStep DEF Rollback, readers
<1>4. ASSUME NEW c \in Conn, FinishVerify(c)
      PROVE  IInv'
  <2>1. TypeOK'
    BY <1>0, <1>4 DEF FinishVerify, TypeOK
  <2>2. \A d \in Conn : snapshot'[d] # Absent => snapshot'[d] = snapshot[d]
    BY <1>0, <1>4 DEF FinishVerify, TypeOK
  <2>3. QED
    BY <1>0, <1>4, <2>1, <2>2, ReaderStep DEF FinishVerify
<1>5. ASSUME NEW c \in Conn, RefuseCheckpoint(c)
      PROVE  IInv'
  <2>1. TypeOK'
    BY <1>0, <1>5 DEF RefuseCheckpoint, TypeOK
  <2>2. QED
    BY <1>0, <1>5, <2>1, ReaderStep DEF RefuseCheckpoint
<1>6. ASSUME NEW c \in Conn, NEW s \in Session, Inspect(c, s)
      PROVE  IInv'
  <2>1. db[s].next \in 1 .. MaxSequence + 1
    BY <1>0 DEF TypeOK, Table
  <2>2. TypeOK'
    BY <1>0, <1>6, <2>1 DEF Inspect, TypeOK
  <2>3. QED
    BY <1>0, <1>6, <2>2, ReaderStep DEF Inspect
<1>7. ASSUME NEW c \in Conn, NEW s \in Session, BeginVerify(c, s)
      PROVE  IInv'
  <2>1. TypeOK'
    BY <1>0, <1>7 DEF BeginVerify, TypeOK
  <2>2. \A d \in Conn : snapshot'[d] # Absent => TableGood(snapshot'[d].table)
    BY <1>0, <1>7 DEF BeginVerify, TypeOK
  <2>3. QED
    BY <1>0, <1>7, <2>1, <2>2, ReaderStep DEF BeginVerify
<1>8. CASE UNCHANGED storeVars
  <2>1. TypeOK'
    BY <1>0, <1>8 DEF storeVars, TypeOK
  <2>2. QED
    BY <1>0, <1>8, <2>1, ReaderStep DEF storeVars
<1>9. QED
  BY <1>1, <1>2, <1>3, <1>4, <1>5, <1>6, <1>7, <1>8, CommitStep, InsertStep,
     StoreStep, AdvanceStep, CheckpointStep, CreateStep, EndStep,
     CallerAppendStep, SubmittedStep, PairStep DEF StoreNext

THEOREM IInvHolds == StoreSpec => []IInv
  BY InitIInv, StepIInv, PTL DEF StoreSpec

-----------------------------------------------------------------------------
(***************************************************************************)
(* What follows from it.                                                   *)
(***************************************************************************)

(* Every variable keeps its type in every reachable state. *)
THEOREM TypeCorrect == StoreSpec => []TypeOK
<1>1. IInv => TypeOK
  BY DEF IInv
<1>2. QED
  BY <1>1, IInvHolds, PTL

(* Whatever is interrupted, the committed events of each session are one   *)
(* contiguous prefix, so no open of the file is ever refused.              *)
THEOREM PrefixAlways == StoreSpec => []ContiguousPrefix
<1>1. IInv => ContiguousPrefix
  BY DEF IInv, TableGood, ContiguousPrefix
<1>2. QED
  BY <1>1, IInvHolds, PTL

(* The committed events of each session form one unbroken hash chain. *)
THEOREM ChainAlways == StoreSpec => []ChainIntact
<1>1. IInv => ChainIntact
  BY DEF IInv, TableGood, ChainIntact
<1>2. QED
  BY <1>1, IInvHolds, PTL

(* Checkpoint payloads and checkpoint events always come in pairs that     *)
(* agree on their sequence.                                                *)
THEOREM CheckpointsAlways == StoreSpec => []CheckpointsOwned
<1>1. IInv => CheckpointsOwned
  BY DEF IInv, TableGood, CheckpointsOwned
<1>2. QED
  BY <1>1, IInvHolds, PTL

(* The two events of a pair are committed together or not at all. *)
THEOREM PairsAlways == StoreSpec => []PairsWhole
<1>1. IInv => PairsWhole
  BY DEF IInv, TableGood, PairsIn, PairsWhole
<1>2. QED
  BY <1>1, IInvHolds, PTL

(* At most one session is unfinished, whichever connections race. *)
THEOREM SingleAlways == StoreSpec => []SingleUnfinished
<1>1. IInv => SingleUnfinished
  BY DEF IInv
<1>2. QED
  BY <1>1, IInvHolds, PTL

(* A verifier never reports corruption of a store these operations wrote. *)
THEOREM NoFalseAlarmAlways == StoreSpec => []NoFalseAlarm
<1>1. IInv => NoFalseAlarm
  BY DEF IInv, TableGood, OnePrefix, NoFalseAlarm, Verifies, RowsSeen, ChainVerifies
<1>2. QED
  BY <1>1, IInvHolds, PTL

(* No step removes or rewrites a committed row, and an ended session never *)
(* changes again.                                                          *)
THEOREM AppendOnlyAlways == StoreSpec => AppendOnly
<1>1. IInv /\ [StoreNext]_storeVars => [AppendOnlyStep]_storeVars
  <2> SUFFICES ASSUME IInv, [StoreNext]_storeVars
               PROVE  AppendOnlyStep
    OBVIOUS
  <2>1. CASE UNCHANGED db
    BY <2>1 DEF AppendOnlyStep
  <2>2. ASSUME NEW c \in Conn, Commit(c)
        PROVE  AppendOnlyStep
    <3>1. op.session \in Session /\ db' = [db EXCEPT ![op.session] = work]
      BY <2>2, InTransaction DEF Commit
    <3>2. \A s \in Session : s # op.session => db'[s] = db[s]
      BY <3>1 DEF IInv, TypeOK
    <3>3. db'[op.session] = work
      BY <3>1 DEF IInv, TypeOK
    <3>4. QED
      BY <2>2, <3>1, <3>2, <3>3, CommitTable DEF AppendOnlyStep
  <2>3. ASSUME NEW c \in Conn,
               \/ Open(c) \/ Crash(c) \/ Rollback(c) \/ InsertRow(c)
               \/ StorePayload(c) \/ Advance(c) \/ FinishVerify(c)
               \/ RefuseCheckpoint(c)
        PROVE  UNCHANGED db
    BY <2>3 DEF Open, Crash, Rollback, InsertRow, StorePayload, Advance,
                FinishVerify, RefuseCheckpoint
  <2>4. ASSUME NEW c \in Conn, NEW p \in Payload, BeginCheckpoint(c, p)
        PROVE  UNCHANGED db
    BY <2>4 DEF BeginCheckpoint, Begin
  <2>5. ASSUME NEW c \in Conn, NEW s \in Session,
               \/ BeginCreate(c, s) \/ BeginEnd(c, s)
               \/ Inspect(c, s) \/ BeginVerify(c, s)
        PROVE  UNCHANGED db
    BY <2>5 DEF BeginCreate, BeginEnd, Inspect, BeginVerify, Begin
  <2>6. ASSUME NEW c \in Conn, NEW s \in Session, NEW row, BeginAppend(c, s, row)
        PROVE  UNCHANGED db
    BY <2>6 DEF BeginAppend, Begin
  <2>7. ASSUME NEW c \in Conn, NEW s \in Session, NEW p, BeginSubmitted(c, s, p)
        PROVE  UNCHANGED db
    BY <2>7 DEF BeginSubmitted, Begin
  <2>8. ASSUME NEW c \in Conn, NEW s \in Session, NEW p, NEW q, BeginPair(c, s, p, q)
        PROVE  UNCHANGED db
    BY <2>8 DEF BeginPair, Begin
  <2>9. CASE UNCHANGED storeVars
    BY <2>1, <2>9 DEF storeVars
  <2>10. CASE StoreNext
    <3>1. PICK c \in Conn :
            \/ Open(c) \/ Crash(c) \/ Rollback(c) \/ Commit(c) \/ InsertRow(c)
            \/ StorePayload(c) \/ Advance(c) \/ FinishVerify(c)
            \/ RefuseCheckpoint(c)
            \/ \E p \in Payload : BeginCheckpoint(c, p)
            \/ \E s \in Session :
                \/ BeginCreate(c, s) \/ BeginEnd(c, s)
                \/ Inspect(c, s) \/ BeginVerify(c, s)
                \/ \E row \in Envelopes : BeginAppend(c, s, row)
                \/ \E p \in Payload : BeginSubmitted(c, s, p)
                \/ \E p, q \in Payload : BeginPair(c, s, p, q)
      BY <2>10 DEF StoreNext
    <3>2. Commit(c) \/ UNCHANGED db
      BY <2>3, <2>4, <2>5, <2>6, <2>7, <2>8, <3>1
    <3>3. QED
      BY <2>1, <2>2, <3>2
  <2>11. QED
    BY <2>1, <2>9, <2>10
<1>2. QED
  BY <1>1, IInvHolds, PTL DEF StoreSpec, AppendOnly

-----------------------------------------------------------------------------
(***************************************************************************)
(* The SQLite store of Journal.tla implements the append-only log of       *)
(* EventLog.tla, for every number of connections, sessions and payloads.   *)
(* COMMIT is the only step the abstract log sees: the inductive invariant  *)
(* says what the transaction then holds, and the lemmas below what that    *)
(* makes of the log the committed rows spell out.                          *)
(***************************************************************************)

(* The bodies of a batch, as the abstract log appends them. *)
Bodies(batch) == [i \in 1 .. Len(batch) |-> batch[i].body]

(* In a contiguous prefix the row of a sequence is the only one there. *)
LEMMA RowAt ==
    ASSUME NEW t \in Table, OnePrefix(t), NEW r \in t.rows
    PROVE  (CHOOSE q \in t.rows : q.sequence = r.sequence) = r
  BY DEF OnePrefix

LEMMA LogOfType ==
    ASSUME NEW t \in Table, OnePrefix(t)
    PROVE  LogOf(t) \in Seq(Body) /\ Len(LogOf(t)) = t.next - 1
<1>1. t.next - 1 \in Nat
  BY JournalAssumption DEF Table
<1>2. ASSUME NEW i \in 1 .. (t.next - 1)
      PROVE  (CHOOSE r \in t.rows : r.sequence = i).body \in Body
  <2>1. PICK r \in t.rows : r.sequence = i
    BY RowsBelowNext
  <2>2. (CHOOSE q \in t.rows : q.sequence = i) = r
    BY <2>1, RowAt
  <2>3. QED
    BY <2>2 DEF Table, Row
<1>3. QED
  BY <1>1, <1>2 DEF LogOf

(***************************************************************************)
(* Rows added past the end of a contiguous prefix are appended to its log. *)
(***************************************************************************)
LEMMA LogOfAppend ==
    ASSUME NEW t \in Table, NEW w \in Table, NEW batch \in Seq(Row),
           OnePrefix(t), OnePrefix(w), t.rows \subseteq w.rows,
           \A i \in 1 .. Len(batch) :
               batch[i] \in w.rows /\ batch[i].sequence = t.next + i - 1,
           w.next = t.next + Len(batch)
    PROVE  LogOf(w) = LogOf(t) \o Bodies(batch)
<1> DEFINE n == Len(batch)
<1> DEFINE m == t.next - 1
<1>1. n \in Nat /\ m \in Nat /\ t.next = m + 1 /\ w.next - 1 = m + n
  BY JournalAssumption DEF Table
<1>2. /\ LogOf(w) \in Seq(Body) /\ Len(LogOf(w)) = m + n
      /\ LogOf(t) \in Seq(Body) /\ Len(LogOf(t)) = m
  BY <1>1, LogOfType
<1>3. Bodies(batch) \in Seq(Body) /\ Len(Bodies(batch)) = n
  <2>1. \A i \in 1 .. n : batch[i] \in Row
    OBVIOUS
  <2>2. \A i \in 1 .. n : batch[i].body \in Body
    BY <2>1 DEF Row
  <2>3. QED
    BY <1>1, <2>2 DEF Bodies
<1>4. ASSUME NEW i \in 1 .. (m + n)
      PROVE  LogOf(w)[i] = (LogOf(t) \o Bodies(batch))[i]
  <2>1. LogOf(w)[i] = (CHOOSE r \in w.rows : r.sequence = i).body
    BY <1>1 DEF LogOf
  <2>2. CASE i <= m
    <3>1. PICK r \in t.rows : r.sequence = i
      BY <1>1, <2>2, RowsBelowNext
    <3>2. /\ (CHOOSE q \in t.rows : q.sequence = i) = r
          /\ (CHOOSE q \in w.rows : q.sequence = i) = r
      BY <3>1, RowAt
    <3>3. LogOf(t)[i] = (CHOOSE q \in t.rows : q.sequence = i).body
      BY <1>1, <2>2 DEF LogOf
    <3>4. (LogOf(t) \o Bodies(batch))[i] = LogOf(t)[i]
      BY <1>1, <1>2, <1>3, <2>2
    <3>5. QED
      BY <2>1, <3>2, <3>3, <3>4
  <2>3. CASE i > m
    <3>1. i - m \in 1 .. n
      BY <1>1, <2>3
    <3>2. batch[i - m] \in w.rows /\ batch[i - m].sequence = i
      BY <1>1, <3>1
    <3>3. (CHOOSE q \in w.rows : q.sequence = i) = batch[i - m]
      BY <3>2, RowAt
    <3>4. (LogOf(t) \o Bodies(batch))[i] = Bodies(batch)[i - m]
      BY <1>1, <1>2, <1>3, <2>3, SMTT(30)
    <3>5. Bodies(batch)[i - m] = batch[i - m].body
      BY <3>1 DEF Bodies
    <3>6. QED
      BY <2>1, <3>3, <3>4, <3>5
  <2>4. i <= m \/ i > m
    BY <1>1
  <2>5. QED
    BY <2>2, <2>3, <2>4
<1>5. /\ LogOf(t) \o Bodies(batch) \in Seq(Body)
      /\ Len(LogOf(t) \o Bodies(batch)) = m + n
  BY <1>1, <1>2, <1>3
<1>6. QED
  BY <1>2, <1>4, <1>5, SeqEqual

(* What an append or a checkpoint hands the log is one of its batches. *)
LEMMA BodiesOfBatch ==
    ASSUME NEW t \in Table, NEW o \in Ops, BatchGood(t, o),
           o.kind \in {"append", "checkpoint"}
    PROVE  Bodies(o.batch) \in Abstract!Batches
<1>1. o.batch \in Seq(Row) /\ Len(o.batch) \in {1, 2}
  BY DEF Ops, BatchGood
<1>2. \A i \in 1 .. Len(o.batch) : o.batch[i].body \in Body
  <2>1. \A i \in 1 .. Len(o.batch) : o.batch[i] \in Row
    BY <1>1
  <2>2. QED
    BY <2>1 DEF Row
<1>3. \A b \in Body : b = [kind |-> b.kind, payload |-> b.payload] /\ b.payload \in Payload
  BY DEF Body
<1>4. CASE Len(o.batch) = 1
  <2>1. Bodies(o.batch) = <<o.batch[1].body>>
    BY <1>4 DEF Bodies
  <2>2. o.batch[1].body.kind \in {"event", "checkpoint"}
    BY <1>4 DEF BatchGood
  <2>3. QED
    BY <1>2, <1>3, <1>4, <2>1, <2>2 DEF Abstract!Batches
<1>5. CASE Len(o.batch) = 2
  <2>1. Bodies(o.batch) = <<o.batch[1].body, o.batch[2].body>>
    BY <1>5 DEF Bodies
  <2>2. o.batch[1].body.kind = "first" /\ o.batch[2].body.kind = "second"
    BY <1>5 DEF BatchGood
  <2>3. QED
    BY <1>2, <1>3, <1>5, <2>1, <2>2 DEF Abstract!Batches
<1>6. QED
  BY <1>1, <1>4, <1>5

-----------------------------------------------------------------------------
(* A step that commits nothing is invisible in the abstract log. *)
LEMMA OnlyCommit ==
    ASSUME [StoreNext]_storeVars
    PROVE  UNCHANGED db \/ \E c \in Conn : Commit(c)
<1>1. CASE UNCHANGED storeVars
  BY <1>1 DEF storeVars
<1>2. CASE StoreNext
  <2>1. PICK c \in Conn :
          \/ Open(c) \/ Crash(c) \/ Rollback(c) \/ Commit(c) \/ InsertRow(c)
          \/ StorePayload(c) \/ Advance(c) \/ FinishVerify(c)
          \/ RefuseCheckpoint(c)
          \/ \E p \in Payload : BeginCheckpoint(c, p)
          \/ \E s \in Session :
              \/ BeginCreate(c, s) \/ BeginEnd(c, s)
              \/ Inspect(c, s) \/ BeginVerify(c, s)
              \/ \E row \in Envelopes : BeginAppend(c, s, row)
              \/ \E p \in Payload : BeginSubmitted(c, s, p)
              \/ \E p, q \in Payload : BeginPair(c, s, p, q)
    BY <1>2 DEF StoreNext
  <2>2. CASE Commit(c)
    BY <2>2
  <2>3. CASE \/ Open(c) \/ Crash(c) \/ Rollback(c) \/ InsertRow(c)
             \/ StorePayload(c) \/ Advance(c) \/ FinishVerify(c)
             \/ RefuseCheckpoint(c)
    BY <2>3 DEF Open, Crash, Rollback, InsertRow, StorePayload, Advance,
                FinishVerify, RefuseCheckpoint
  <2>4. CASE \E p \in Payload : BeginCheckpoint(c, p)
    BY <2>4 DEF BeginCheckpoint, Begin
  <2>5. ASSUME NEW s \in Session,
               \/ BeginCreate(c, s) \/ BeginEnd(c, s)
               \/ Inspect(c, s) \/ BeginVerify(c, s)
        PROVE  UNCHANGED db
    BY <2>5 DEF BeginCreate, BeginEnd, Inspect, BeginVerify, Begin
  <2>6. ASSUME NEW s \in Session, NEW row, BeginAppend(c, s, row)
        PROVE  UNCHANGED db
    BY <2>6 DEF BeginAppend, Begin
  <2>7. ASSUME NEW s \in Session, NEW p, BeginSubmitted(c, s, p)
        PROVE  UNCHANGED db
    BY <2>7 DEF BeginSubmitted, Begin
  <2>8. ASSUME NEW s \in Session, NEW p, NEW q, BeginPair(c, s, p, q)
        PROVE  UNCHANGED db
    BY <2>8 DEF BeginPair, Begin
  <2>9. QED
    BY <2>1, <2>2, <2>3, <2>4, <2>5, <2>6, <2>7, <2>8
<1>3. QED
  BY <1>1, <1>2

(***************************************************************************)
(* What COMMIT does to the log and the status of the transaction's         *)
(* session, by the kind of operation.                                      *)
(***************************************************************************)
LEMMA CommitCreates ==
    ASSUME IInv, NEW c \in Conn, Commit(c), op.kind = "create"
    PROVE  /\ StatusOf(db[op.session]) = "absent"
           /\ StatusOf(work) = "open"
           /\ LogOf(work) = LogOf(db[op.session])
           /\ \A t \in Session : StatusOf(db[t]) # "open"
<1>1. /\ WorkGood(db[op.session], work, op)
      /\ Unfinished = {}
      /\ TableGood(db[op.session])
  BY InTransaction DEF Commit
<1>2. ~db[op.session].exists /\ work = [NoTable EXCEPT !.exists = TRUE]
  BY <1>1 DEF WorkGood
<1>3. db[op.session] = NoTable
  BY <1>1, <1>2 DEF TableGood
<1>4. LogOf(work) = LogOf(db[op.session])
  BY <1>2, <1>3 DEF LogOf, NoTable
<1>5. StatusOf(db[op.session]) = "absent" /\ StatusOf(work) = "open"
  BY <1>2, <1>3 DEF StatusOf, NoTable
<1>6. \A t \in Session : StatusOf(db[t]) # "open"
  BY <1>1 DEF Unfinished, StatusOf
<1>7. QED
  BY <1>4, <1>5, <1>6

LEMMA CommitEnds ==
    ASSUME IInv, NEW c \in Conn, Commit(c), op.kind = "end"
    PROVE  /\ StatusOf(db[op.session]) = "open"
           /\ StatusOf(work) = "ended"
           /\ LogOf(work) = LogOf(db[op.session])
<1>1. WorkGood(db[op.session], work, op) /\ db[op.session] \in Table
  BY InTransaction DEF Commit
<1>2. /\ db[op.session].exists /\ ~db[op.session].ended
      /\ work = [db[op.session] EXCEPT !.ended = TRUE]
  BY <1>1 DEF WorkGood
<1>3. /\ work.exists /\ work.ended
      /\ work.rows = db[op.session].rows /\ work.next = db[op.session].next
  BY <1>1, <1>2 DEF Table
<1>4. QED
  BY <1>2, <1>3 DEF StatusOf, LogOf

LEMMA CommitAppends ==
    ASSUME IInv, NEW c \in Conn, Commit(c), op.kind \in {"append", "checkpoint"}
    PROVE  /\ StatusOf(db[op.session]) = "open"
           /\ StatusOf(work) = "open"
           /\ Bodies(op.batch) \in Abstract!Batches
           /\ LogOf(work) = LogOf(db[op.session]) \o Bodies(op.batch)
           /\ Len(LogOf(db[op.session])) + Len(Bodies(op.batch)) <= MaxSequence
<1>1. /\ op \in Ops /\ work \in Table /\ db[op.session] \in Table
      /\ WorkGood(db[op.session], work, op)
      /\ TableGood(db[op.session])
      /\ Verified
  BY InTransaction DEF Commit
<1>2. AppendGood(db[op.session], work, op) /\ BatchGood(db[op.session], op)
  BY <1>1 DEF WorkGood, AppendGood
<1>3. /\ Len(op.batch) \in {1, 2} /\ op.batch # <<>>
      /\ op.batch \in Seq(Row) /\ DOMAIN op.batch = 1 .. Len(op.batch)
      /\ op.batch[1].sequence = db[op.session].next + 1 - 1
      /\ \A i \in 1 .. Len(op.batch) :
            op.batch[i].sequence = db[op.session].next + i - 1
  BY <1>1, <1>2 DEF BatchGood, Ops
<1>4. AllInserted /\ work.next = op.batch[1].sequence + Len(op.batch)
  BY <1>1, <1>3 DEF Verified
<1>5. work.next = db[op.session].next + Len(op.batch)
  BY <1>1, <1>3, <1>4 DEF Table
<1>6. \A i \in 1 .. Len(op.batch) : op.batch[i] \in work.rows
  BY <1>3, <1>4 DEF AllInserted, Inserted
<1>7. /\ OnePrefix(db[op.session]) /\ OnePrefix(work)
      /\ db[op.session].rows \subseteq work.rows
  BY <1>1, CommitTable DEF TableGood
<1>8. LogOf(work) = LogOf(db[op.session]) \o Bodies(op.batch)
  BY <1>1, <1>3, <1>5, <1>6, <1>7, LogOfAppend
<1>9. Bodies(op.batch) \in Abstract!Batches
  BY <1>1, <1>2, BodiesOfBatch
<1>10. Len(LogOf(db[op.session])) + Len(Bodies(op.batch)) <= MaxSequence
  <2>1. Len(LogOf(db[op.session])) = db[op.session].next - 1
    BY <1>1, <1>7, LogOfType
  <2>2. Len(Bodies(op.batch)) = Len(op.batch)
    BY <1>3 DEF Bodies
  <2>3. work.next \in 1 .. MaxSequence + 1 /\ db[op.session].next \in Nat
    BY <1>1 DEF Table
  <2>4. QED
    BY <1>3, <1>5, <2>1, <2>2, <2>3, JournalAssumption, SMTT(30)
<1>11. /\ db[op.session].exists /\ ~db[op.session].ended
       /\ work.exists /\ ~work.ended
  BY <1>2 DEF AppendGood
<1>12. QED
  BY <1>8, <1>9, <1>10, <1>11 DEF StatusOf

-----------------------------------------------------------------------------
LEMMA InitImplements == StoreInit => Abstract!LogInit
<1> SUFFICES ASSUME StoreInit PROVE Abstract!LogInit
  OBVIOUS
<1>1. LogOf(NoTable) = <<>> /\ StatusOf(NoTable) = "absent"
  BY DEF LogOf, StatusOf, NoTable
<1>2. QED
  BY <1>1 DEF StoreInit, Abstract!LogInit

LEMMA CommitImplements ==
    ASSUME IInv, NEW c \in Conn, Commit(c)
    PROVE  Abstract!LogNext
<1> DEFINE before == db[op.session]
<1> DEFINE logs == [s \in Session |-> LogOf(db[s])]
<1> DEFINE status == [s \in Session |-> StatusOf(db[s])]
<1>1. op \in Ops /\ op.session \in Session
  BY InTransaction DEF Commit
<1>2. /\ db \in [Session -> Table]
      /\ db' = [db EXCEPT ![op.session] = work]
  BY DEF IInv, TypeOK, Commit
<1>3. /\ logs' = [logs EXCEPT ![op.session] = LogOf(work)]
      /\ status' = [status EXCEPT ![op.session] = StatusOf(work)]
  BY <1>1, <1>2
<1>4. CASE op.kind = "create"
  <2>1. /\ status[op.session] = "absent"
        /\ \A t \in Session : status[t] # "open"
        /\ StatusOf(work) = "open" /\ LogOf(work) = logs[op.session]
    BY <1>1, <1>4, CommitCreates
  <2>2. logs' = logs
    BY <1>1, <1>3, <2>1
  <2>3. Abstract!Create(op.session)
    BY <1>3, <2>1, <2>2 DEF Abstract!Create
  <2>4. QED
    BY <1>1, <2>3 DEF Abstract!LogNext
<1>5. CASE op.kind = "end"
  <2>1. /\ status[op.session] = "open"
        /\ StatusOf(work) = "ended" /\ LogOf(work) = logs[op.session]
    BY <1>1, <1>5, CommitEnds
  <2>2. logs' = logs
    BY <1>1, <1>3, <2>1
  <2>3. Abstract!End(op.session)
    BY <1>3, <2>1, <2>2 DEF Abstract!End
  <2>4. QED
    BY <1>1, <2>3 DEF Abstract!LogNext
<1>6. CASE op.kind \in {"append", "checkpoint"}
  <2>1. /\ status[op.session] = "open" /\ StatusOf(work) = "open"
        /\ Bodies(op.batch) \in Abstract!Batches
        /\ LogOf(work) = logs[op.session] \o Bodies(op.batch)
        /\ Len(logs[op.session]) + Len(Bodies(op.batch)) <= MaxSequence
    BY <1>1, <1>6, CommitAppends
  <2>2. status' = status
    BY <1>1, <1>3, <2>1
  <2>3. logs' = [logs EXCEPT ![op.session] = @ \o Bodies(op.batch)]
    BY <1>1, <1>3, <2>1
  <2>4. Abstract!AppendBatch(op.session, Bodies(op.batch))
    BY <2>1, <2>2, <2>3 DEF Abstract!AppendBatch
  <2>5. QED
    BY <1>1, <2>1, <2>4 DEF Abstract!LogNext
<1>7. QED
  BY <1>1, <1>4, <1>5, <1>6 DEF Ops

(* Every step of the store is a step of the abstract log or invisible. *)
LEMMA StepImplements ==
    ASSUME IInv, [StoreNext]_storeVars
    PROVE  [Abstract!LogNext]_(Abstract!logVars)
<1>1. CASE UNCHANGED db
  BY <1>1 DEF Abstract!logVars
<1>2. ASSUME NEW c \in Conn, Commit(c)
      PROVE  Abstract!LogNext
  BY <1>2, CommitImplements
<1>3. QED
  BY <1>1, <1>2, OnlyCommit

(* With its transactions, its lock, refusals, rollbacks and crashes the    *)
(* journal store implements the append-only log: every operation takes     *)
(* effect whole, at its COMMIT, or not at all.                             *)
THEOREM RefinesEventLog == StoreSpec => ImplementsEventLog
<1>1. IInv /\ [StoreNext]_storeVars => [Abstract!LogNext]_(Abstract!logVars)
  BY StepImplements
<1>2. QED
  BY <1>1, InitImplements, IInvHolds, PTL
     DEF StoreSpec, ImplementsEventLog, Abstract!LogSpec

-----------------------------------------------------------------------------
(***************************************************************************)
(* The writer.  An attempt identity is given out once, so the events of an *)
(* attempt are those of one accepted job; and each writer's accepted jobs  *)
(* fall in two, the first n durable in order, the others not at all.       *)
(* Where the thread is says where that line runs.                          *)
(***************************************************************************)
Event == UNION {{j[i] : i \in DOMAIN j} : j \in Job}
Entry == [attempt : Attempt, writer : Writer, event : Event]
State == {"unsent", "pending", "persisted", "failed", "stopped"}

WriterTypeOK ==
    /\ counter \in 1 .. MaxAttempt
    /\ submitting \in [Client -> Request \cup {None}]
    /\ sender \in [Writer -> {"none", "open", "closed"}]
    /\ queue \in [Writer -> Seq(Request)]
    /\ worker \in [Writer -> {"none", "recv", "processing", "committed", "failed",
                              "stopping", "finished", "errored", "panicked"}]
    /\ current \in [Writer -> Request \cup {None} \cup [attempt : Attempt, tail : Nat]]
    /\ receipt \in [Attempt -> [state : State, sequence : Nat]]
    /\ joined \in [Writer -> {"no", "ok", "error"}]
    /\ log \in Seq(Entry)
    /\ accepted \in [Writer -> Seq(Request)]

At(w, k) == accepted[w][k].attempt

(* A request between its identity and try_send: nobody else has heard of   *)
(* its identity.                                                           *)
Underway ==
    \A c \in Client : submitting[c] # None =>
        /\ submitting[c].attempt < counter
        /\ receipt[submitting[c].attempt] = Unsent
        /\ \A d \in Client : submitting[d] # None /\ submitting[d].attempt = submitting[c].attempt
                => d = c

(* An identity the counter has not reached is nobody's; one with a receipt *)
(* or an event is that of one job one writer accepted.                     *)
Identities ==
    /\ \A a \in Attempt : a >= counter => receipt[a] = Unsent
    /\ \A w \in Writer : \A k \in DOMAIN accepted[w] :
        /\ receipt[At(w, k)] # Unsent
        /\ accepted[w][k].writer = w
        /\ \A v \in Writer : \A l \in DOMAIN accepted[v] :
            At(v, l) = At(w, k) => v = w /\ l = k
    /\ \A a \in Attempt : receipt[a] # Unsent =>
        \E w \in Writer : \E k \in DOMAIN accepted[w] : a = At(w, k)
    /\ \A i \in DOMAIN log : \E k \in DOMAIN accepted[log[i].writer] :
        log[i].attempt = At(log[i].writer, k)

(* The first n jobs of w are durable, in order; the others are not.        *)
Split(w, n) ==
    /\ n \in 0 .. Len(accepted[w])
    /\ \A k \in 1 .. n : \E s \in DOMAIN log : WrittenAt(accepted[w][k], s)
    /\ \A k, l \in 1 .. n : k < l =>
        \A i \in Positions(At(w, k)), j \in Positions(At(w, l)) : i < j
    /\ \A k \in DOMAIN accepted[w] : k > n => Positions(At(w, k)) = {}

IsTail(a, t) == t \in Positions(a) /\ \A i \in Positions(a) : i <= t

Halted == Ended \cup {"stopping"}

(* What the receipts of w say, with n jobs durable. *)
Told(w, n, k) ==
    LET r == receipt[At(w, k)]
    IN  IF k <= n
        THEN r = Pending \/ (r.state = "persisted" /\ IsTail(At(w, k), r.sequence))
        ELSE r = Pending \/ (worker[w] \in Halted /\ r.state \in {"failed", "stopped"})

Answers(w, n) == \A k \in DOMAIN accepted[w] : Told(w, n, k)

(* The queue holds the jobs accepted after the first m. *)
Behind(w, m) ==
    /\ Len(accepted[w]) = m + Len(queue[w])
    /\ \A i \in DOMAIN queue[w] : queue[w][i] = accepted[w][m + i]

Stage(w, n) ==
    /\ worker[w] \in {"none", "recv"} => Behind(w, n)
    /\ worker[w] \in {"processing", "failed"} =>
        n + 1 \in DOMAIN accepted[w] /\ current[w] = accepted[w][n + 1] /\ Behind(w, n + 1)
    /\ worker[w] = "committed" =>
        n > 0 /\ current[w].attempt = At(w, n) /\ IsTail(At(w, n), current[w].tail) /\ Behind(w, n)
    /\ worker[w] = "stopping" => n + 1 \in DOMAIN accepted[w] /\ Behind(w, n + 1)
    /\ worker[w] = "finished" => n = Len(accepted[w])
    /\ worker[w] \in {"errored", "panicked"} => n < Len(accepted[w])
    /\ joined[w] # "no" =>
        worker[w] \in Ended /\ (joined[w] = "ok" <=> worker[w] = "finished")

Lane(w) == \E n \in 0 .. Len(accepted[w]) : Split(w, n) /\ Answers(w, n) /\ Stage(w, n)

Lanes == \A w \in Writer : Lane(w)

Inv == WriterTypeOK /\ Underway /\ Identities /\ Lanes

-----------------------------------------------------------------------------
(* Reading the state. *)

LEMMA AcceptedIs ==
    ASSUME WriterTypeOK, NEW w \in Writer
    PROVE  /\ accepted[w] \in Seq(Request) /\ Len(accepted[w]) \in Nat
           /\ DOMAIN accepted[w] = 1 .. Len(accepted[w])
           /\ \A k \in DOMAIN accepted[w] : accepted[w][k] \in Request /\ At(w, k) \in Attempt
<1>1. accepted[w] \in Seq(Request)
  BY DEF WriterTypeOK
<1> HIDE DEF WriterTypeOK
<1>2. \A r \in Request : r.attempt \in Attempt
  BY DEF Request
<1>3. \A k \in DOMAIN accepted[w] : accepted[w][k] \in Request
  BY <1>1
<1> QED
  BY <1>1, <1>2, <1>3 DEF At

LEMMA QueueIs ==
    ASSUME WriterTypeOK, NEW w \in Writer
    PROVE  /\ queue[w] \in Seq(Request) /\ Len(queue[w]) \in Nat
           /\ DOMAIN queue[w] = 1 .. Len(queue[w])
           /\ \A i \in DOMAIN queue[w] : queue[w][i] \in Request
<1>1. queue[w] \in Seq(Request)
  BY DEF WriterTypeOK
<1> QED
  BY <1>1

LEMMA LogIs ==
    ASSUME WriterTypeOK
    PROVE  /\ log \in Seq(Entry) /\ Len(log) \in Nat /\ DOMAIN log = 1 .. Len(log)
           /\ \A i \in DOMAIN log : log[i].attempt \in Attempt /\ log[i].writer \in Writer
<1>1. log \in Seq(Entry)
  BY DEF WriterTypeOK
<1>2. \A e \in Entry : e.attempt \in Attempt /\ e.writer \in Writer
  BY DEF Entry
<1> HIDE DEF Entry
<1> QED
  BY <1>1, <1>2

LEMMA PositionsAre ==
    ASSUME WriterTypeOK, NEW a
    PROVE  Positions(a) \subseteq 1 .. Len(log) /\ Len(log) \in Nat
BY LogIs, Zenon DEF Positions

LEMMA JobIs ==
    ASSUME NEW j \in Job
    PROVE  /\ Len(j) \in Nat \ {0} /\ DOMAIN j = 1 .. Len(j)
           /\ \A i \in DOMAIN j : j[i] \in Event
<1>1. j # <<>> /\ j \in Seq({j[i] : i \in DOMAIN j})
  BY WriterAssumption
<1>2. Len(j) \in Nat /\ DOMAIN j = 1 .. Len(j)
  BY <1>1
<1>3. Len(j) # 0
  BY <1>1
<1>4. ASSUME NEW i \in DOMAIN j PROVE j[i] \in Event
  <2> DEFINE range == {j[x] : x \in DOMAIN j}
  <2>1. j[i] \in range
    OBVIOUS
  <2>2. range \in {{k[x] : x \in DOMAIN k} : k \in Job}
    OBVIOUS
  <2> HIDE DEF range
  <2> QED
    BY <2>1, <2>2, Zenon DEF Event
<1> QED
  BY <1>2, <1>3, <1>4

(* An identity with a receipt or an event was accepted, and an accepted    *)
(* one has no receipt that is unsent.                                      *)
LEMMA UnsentIsNowhere ==
    ASSUME WriterTypeOK, Identities, NEW a \in Attempt, receipt[a] = Unsent
    PROVE  /\ Positions(a) = {}
           /\ \A w \in Writer : \A k \in DOMAIN accepted[w] : At(w, k) # a
<1>1. \A w \in Writer : \A k \in DOMAIN accepted[w] : At(w, k) # a
  BY Zenon DEF Identities
<1>2. ASSUME NEW i \in DOMAIN log PROVE log[i].attempt # a
  <2>1. PICK k \in DOMAIN accepted[log[i].writer] : log[i].attempt = At(log[i].writer, k)
    BY Zenon DEF Identities
  <2>2. log[i].writer \in Writer
    BY LogIs
  <2> QED
    BY <1>1, <2>1, <2>2, Zenon
<1> QED
  BY <1>1, <1>2 DEF Positions

-----------------------------------------------------------------------------
(* What a step leaves alone. *)

(* The jobs, the thread and the shutdown of a writer. *)
Untouched(w) ==
    /\ accepted'[w] = accepted[w] /\ queue'[w] = queue[w] /\ worker'[w] = worker[w]
    /\ current'[w] = current[w] /\ joined'[w] = joined[w]

SameAnswers(w) == \A k \in DOMAIN accepted[w] : receipt'[At(w, k)] = receipt[At(w, k)]

(* A step that leaves a writer, its receipts and the journal alone. *)
LEMMA LaneSame ==
    ASSUME NEW w \in Writer, Lane(w), log' = log, Untouched(w), SameAnswers(w)
    PROVE  Lane(w)'
<1>1. PICK n \in 0 .. Len(accepted[w]) : Split(w, n) /\ Answers(w, n) /\ Stage(w, n)
  BY DEF Lane
<1>2. /\ \A k : At(w, k)' = At(w, k)
      /\ \A a : Positions(a)' = Positions(a)
      /\ \A r, s : WrittenAt(r, s)' = WrittenAt(r, s)
      /\ \A a, t : IsTail(a, t)' = IsTail(a, t)
      /\ \A m : Behind(w, m)' = Behind(w, m)
  BY DEF Untouched, At, Positions, WrittenAt, IsTail, Behind, Entries
<1>3. Split(w, n)'
  BY <1>1, <1>2 DEF Split, Untouched
<1>4. Answers(w, n)'
  BY <1>1, <1>2 DEF Answers, Told, Untouched, SameAnswers, Halted, Ended, Pending, Answer
<1>5. Stage(w, n)'
  BY <1>1, <1>2 DEF Stage, Untouched
<1>6. n \in 0 .. Len(accepted[w])'
  BY <1>1 DEF Untouched
<1> QED
  BY <1>3, <1>4, <1>5, <1>6, Zenon DEF Lane

(* The other writers, when a step is one writer's and touches only the     *)
(* receipts of its jobs.                                                   *)
LEMMA OtherLanes ==
    ASSUME Lanes, NEW w \in Writer, Lane(w)', log' = log,
           \A v \in Writer \ {w} : Untouched(v) /\ SameAnswers(v)
    PROVE  Lanes'
<1>1. ASSUME NEW v \in Writer PROVE Lane(v)'
  <2>1. CASE v = w
    BY <2>1
  <2>2. CASE v # w
    BY <2>2, LaneSame DEF Lanes
  <2> QED
    BY <2>1, <2>2
<1> QED
  BY <1>1 DEF Lanes

(* A receipt answered again is still the receipt of an accepted job. *)
LEMMA IdentitiesSame ==
    ASSUME Underway, Identities, UNCHANGED <<counter, submitting, accepted, log>>,
           \A a \in Attempt : receipt'[a] = receipt[a] \/ (receipt'[a] # Unsent /\ receipt[a] # Unsent),
           WriterTypeOK
    PROVE  Underway' /\ Identities'
<1>1. \A a \in Attempt : receipt'[a] = Unsent <=> receipt[a] = Unsent
  OBVIOUS
<1>2. Underway'
  <2>1. \A c \in Client : submitting[c] # None => submitting[c].attempt \in Attempt
    BY DEF WriterTypeOK, Request
  <2> QED
    BY <1>1, <2>1 DEF Underway, Unsent, Answer
<1>3. Identities'
  <2>1. \A w, k : At(w, k)' = At(w, k)
    BY DEF At
  <2>2. \A w \in Writer : \A k \in DOMAIN accepted[w] : receipt'[At(w, k)] # Unsent
    BY <1>1, AcceptedIs DEF Identities
  <2> QED
    BY <1>1, <2>1, <2>2 DEF Identities, Unsent, Answer
<1> QED
  BY <1>2, <1>3

(* What a step that moves the thread leaves of where its jobs are. *)
LEMMA WrittenSame ==
    ASSUME NEW w \in Writer, NEW n \in Nat, log' = log, accepted'[w] = accepted[w]
    PROVE  /\ Split(w, n) => Split(w, n)'
           /\ Answers(w, n) /\ SameAnswers(w) /\ (worker[w] \in Halted => worker'[w] \in Halted)
                => Answers(w, n)'
           /\ \A k : At(w, k)' = At(w, k)
           /\ \A a, t : IsTail(a, t)' = IsTail(a, t)
<1>1. /\ \A k : At(w, k)' = At(w, k)
      /\ \A a : Positions(a)' = Positions(a)
      /\ \A r, s : WrittenAt(r, s)' = WrittenAt(r, s)
      /\ \A a, t : IsTail(a, t)' = IsTail(a, t)
  BY DEF At, Positions, WrittenAt, IsTail, Entries
<1>2. Split(w, n) => Split(w, n)'
  BY <1>1 DEF Split
<1>3. Answers(w, n) /\ SameAnswers(w) /\ (worker[w] \in Halted => worker'[w] \in Halted)
        => Answers(w, n)'
  BY <1>1 DEF Answers, Told, SameAnswers, Halted, Ended, Pending, Answer
<1> QED
  BY <1>1, <1>2, <1>3, Zenon

(* A step of one writer that answers only receipts of its own jobs. *)
LEMMA OneLane ==
    ASSUME Inv, NEW w \in Writer, WriterTypeOK', Lane(w)',
           UNCHANGED <<counter, submitting, accepted, log>>,
           \A v \in Writer \ {w} : Untouched(v),
           \A a \in Attempt : \/ receipt'[a] = receipt[a]
                              \/ \E k \in DOMAIN accepted[w] : a = At(w, k) /\ receipt'[a] # Unsent
    PROVE  Inv'
<1>1. Underway' /\ Identities'
  <2>1. \A k \in DOMAIN accepted[w] : receipt[At(w, k)] # Unsent
    BY DEF Inv, Identities
  <2>2. \A a \in Attempt : receipt'[a] = receipt[a] \/ (receipt'[a] # Unsent /\ receipt[a] # Unsent)
    BY <2>1, Zenon
  <2> QED
    BY <2>2, IdentitiesSame DEF Inv
<1>2. ASSUME NEW v \in Writer \ {w} PROVE SameAnswers(v)
  <2>1. ASSUME NEW k \in DOMAIN accepted[v] PROVE receipt'[At(v, k)] = receipt[At(v, k)]
    <3>1. At(v, k) \in Attempt
      BY AcceptedIs DEF Inv
    <3>2. \A l \in DOMAIN accepted[w] : At(w, l) # At(v, k)
      BY Zenon DEF Inv, Identities
    <3> QED
      BY <3>1, <3>2, Zenon
  <2> QED
    BY <2>1, Zenon DEF SameAnswers
<1>3. Lanes'
  BY <1>2, OtherLanes, Zenon DEF Inv
<1> QED
  BY <1>1, <1>3 DEF Inv

-----------------------------------------------------------------------------
(* The steps of the clients, but for the offer to the queue. *)

LEMMA SpawnSteps == ASSUME Inv, NEW w \in Writer, Spawn(w) PROVE Inv'
<1>1. PICK n \in 0 .. Len(accepted[w]) : Split(w, n) /\ Answers(w, n) /\ Stage(w, n)
  BY DEF Inv, Lanes, Lane
<1>2. /\ worker[w] = "none" /\ worker'[w] = "recv"
      /\ UNCHANGED <<counter, submitting, queue, current, receipt, joined, log, accepted>>
      /\ \A v \in Writer \ {w} : worker'[v] = worker[v]
  BY DEF Inv, WriterTypeOK, Spawn
<1>3. WriterTypeOK'
  BY DEF Inv, WriterTypeOK, Spawn
<1>4. n \in Nat /\ Split(w, n)' /\ Answers(w, n)'
  BY <1>1, <1>2, WrittenSame DEF SameAnswers, Halted, Ended
<1>5. Stage(w, n)'
  BY <1>1, <1>2 DEF Stage, Behind, Ended
<1>6. Lane(w)'
  BY <1>1, <1>2, <1>4, <1>5, Zenon DEF Lane
<1> QED
  BY <1>2, <1>3, <1>6, OneLane DEF Untouched

LEMMA BeginSubmitSteps ==
    ASSUME Inv, NEW c \in Client, NEW w \in Writer, NEW job \in Job, BeginSubmit(c, w, job)
    PROVE  Inv'
<1> DEFINE request == [attempt |-> counter, writer |-> w, job |-> job]
<1>1. /\ submitting[c] = None /\ counter < MaxAttempt /\ counter' = counter + 1
      /\ submitting' = [submitting EXCEPT ![c] = request]
      /\ UNCHANGED <<sender, queue, worker, current, receipt, joined, log, accepted>>
  BY DEF BeginSubmit, NextCounter
<1>2. counter \in Attempt /\ request \in Request /\ counter \in Nat /\ MaxAttempt \in Nat
  BY <1>1, WriterAssumption DEF Inv, WriterTypeOK, Attempt, Request
<1>3. WriterTypeOK'
  BY <1>1, <1>2 DEF Inv, WriterTypeOK
<1>4. Underway'
  <2>1. receipt[counter] = Unsent
    BY <1>2 DEF Inv, Identities
  <2>2. \A d \in Client \ {c} : submitting'[d] = submitting[d]
    BY <1>1 DEF Inv, WriterTypeOK
  <2>3. submitting'[c].attempt = counter
    BY <1>1 DEF Inv, WriterTypeOK
  <2>4. \A d \in Client : submitting[d] # None => submitting[d].attempt \in Attempt
    BY DEF Inv, WriterTypeOK, Request
  <2>5. \A d \in Client : submitting[d] # None =>
            submitting[d].attempt < counter + 1 /\ submitting[d].attempt # counter
    BY <1>2, <2>4 DEF Inv, Underway, Attempt
  <2> QED
    BY <1>1, <1>2, <2>1, <2>2, <2>3, <2>5 DEF Inv, Underway, Unsent, Answer
<1>5. Identities'
  <2>1. \A a \in Attempt : a >= counter + 1 => a >= counter
    BY <1>2 DEF Attempt
  <2>2. \A v, k : At(v, k)' = At(v, k)
    BY <1>1 DEF At
  <2> QED
    BY <1>1, <2>1, <2>2 DEF Inv, Identities, Unsent, Answer
<1>6. Lanes'
  <2>1. \A v \in Writer : Untouched(v) /\ SameAnswers(v)
    BY <1>1 DEF Untouched, SameAnswers
  <2> QED
    BY <1>1, <2>1, LaneSame DEF Inv, Lanes
<1> QED
  BY <1>3, <1>4, <1>5, <1>6 DEF Inv

LEMMA CloseSteps == ASSUME Inv, NEW w \in Writer, Close(w) PROVE Inv'
<1>1. /\ UNCHANGED <<counter, submitting, queue, worker, current, receipt, joined, log, accepted>>
      /\ sender' = [sender EXCEPT ![w] = "closed"]
  BY DEF Close
<1>2. WriterTypeOK'
  BY <1>1 DEF Inv, WriterTypeOK
<1>3. \A v \in Writer : Untouched(v) /\ SameAnswers(v)
  BY <1>1 DEF Untouched, SameAnswers
<1>4. Lane(w)'
  BY <1>1, <1>3, LaneSame DEF Inv, Lanes
<1> QED
  BY <1>1, <1>2, <1>3, <1>4, OneLane

LEMMA JoinSteps == ASSUME Inv, NEW w \in Writer, Join(w) PROVE Inv'
<1>1. PICK n \in 0 .. Len(accepted[w]) : Split(w, n) /\ Answers(w, n) /\ Stage(w, n)
  BY DEF Inv, Lanes, Lane
<1>2. /\ worker[w] \in Ended
      /\ joined'[w] = IF worker[w] = "finished" THEN "ok" ELSE "error"
      /\ UNCHANGED <<counter, submitting, queue, worker, current, receipt, log, accepted>>
      /\ \A v \in Writer \ {w} : joined'[v] = joined[v]
  BY DEF Inv, WriterTypeOK, Join
<1>3. WriterTypeOK'
  BY DEF Inv, WriterTypeOK, Join
<1>4. n \in Nat /\ Split(w, n)' /\ Answers(w, n)'
  BY <1>1, <1>2, WrittenSame DEF SameAnswers, Halted, Ended
<1>5. Stage(w, n)'
  BY <1>1, <1>2 DEF Stage, Behind, Ended, At, IsTail, Positions
<1>6. Lane(w)'
  BY <1>1, <1>2, <1>4, <1>5, Zenon DEF Lane
<1> QED
  BY <1>2, <1>3, <1>6, OneLane DEF Untouched

-----------------------------------------------------------------------------
(* The offer to the queue. *)

LEMMA TrySendFails ==
    ASSUME Inv, NEW c \in Client, submitting' = [submitting EXCEPT ![c] = None],
           UNCHANGED <<counter, sender, worker, current, joined, log, queue, receipt, accepted>>
    PROVE  Inv'
<1>1. WriterTypeOK'
  BY DEF Inv, WriterTypeOK
<1>2. Underway'
  <2>1. /\ submitting'[c] = None
        /\ \A d \in Client \ {c} : submitting'[d] = submitting[d]
    BY DEF Inv, WriterTypeOK
  <2> QED
    BY <2>1 DEF Inv, Underway, Unsent, Answer
<1>3. Identities'
  <2>1. \A v, k : At(v, k)' = At(v, k)
    BY DEF At
  <2> QED
    BY <2>1 DEF Inv, Identities, Unsent, Answer
<1>4. Lanes'
  <2>1. \A v \in Writer : Untouched(v) /\ SameAnswers(v)
    BY DEF Untouched, SameAnswers
  <2> QED
    BY <2>1, LaneSame DEF Inv, Lanes
<1> QED
  BY <1>1, <1>2, <1>3, <1>4 DEF Inv

LEMMA QueuedGrows ==
    ASSUME WriterTypeOK, NEW w \in Writer, NEW m \in Nat, NEW r \in Request, Behind(w, m),
           queue'[w] = Append(queue[w], r), accepted'[w] = Append(accepted[w], r)
    PROVE  Behind(w, m)'
<1> DEFINE q == queue[w]
           s == accepted[w]
<1>1. q \in Seq(Request) /\ s \in Seq(Request) /\ Len(s) = m + Len(q)
      /\ \A i \in 1 .. Len(q) : q[i] = s[m + i]
  BY AcceptedIs, QueueIs DEF Behind
<1> HIDE DEF q, s
<1>2. Len(Append(s, r)) = m + Len(Append(q, r))
  BY <1>1
<1>3. ASSUME NEW i \in DOMAIN Append(q, r) PROVE Append(q, r)[i] = Append(s, r)[m + i]
  <2>1. i \in 1 .. Len(q) \/ i = Len(q) + 1
    BY <1>1
  <2>2. CASE i \in 1 .. Len(q)
    <3>1. m + i \in 1 .. Len(s)
      BY <1>1, <2>2
    <3> QED
      BY <1>1, <2>2, <3>1
  <2>3. CASE i = Len(q) + 1
    <3>1. m + i = Len(s) + 1
      BY <1>1, <2>3
    <3> QED
      BY <1>1, <2>3, <3>1
  <2> QED
    BY <2>1, <2>2, <2>3
<1> QED
  BY <1>2, <1>3 DEF Behind, q, s

(* try_send puts request r of client c in the queue of writer w. *)
Offers(c, r, w) ==
    /\ queue' = [queue EXCEPT ![w] = Append(@, r)]
    /\ receipt' = [receipt EXCEPT ![r.attempt] = Pending]
    /\ accepted' = [accepted EXCEPT ![w] = Append(@, r)]
    /\ submitting' = [submitting EXCEPT ![c] = None]
    /\ UNCHANGED <<counter, sender, worker, current, joined, log>>

LEMMA AppendIs ==
    ASSUME NEW S, NEW s \in Seq(S), NEW r \in S
    PROVE  /\ DOMAIN Append(s, r) = 1 .. Len(s) + 1 /\ Len(Append(s, r)) = Len(s) + 1
           /\ Append(s, r)[Len(s) + 1] = r
           /\ \A k \in 1 .. Len(s) : Append(s, r)[k] = s[k]
OBVIOUS

LEMMA TrySendQueues ==
    ASSUME Inv, NEW c \in Client, NEW r \in Request, NEW w \in Writer,
           submitting[c] # None, r = submitting[c], w = r.writer, worker[w] \notin Ended,
           Offers(c, r, w)
    PROVE  Inv'
<1> DEFINE a == r.attempt
<1>1. a \in Attempt /\ r.attempt = a
  BY DEF Request
<1>2. a < counter /\ receipt[a] = Unsent
      /\ \A d \in Client \ {c} : submitting[d] # None => submitting[d].attempt # a
  BY DEF Inv, Underway
<1>3. Positions(a) = {} /\ \A v \in Writer : \A k \in DOMAIN accepted[v] : At(v, k) # a
  BY <1>1, <1>2, UnsentIsNowhere DEF Inv
<1> HIDE DEF a
<1>4. /\ queue'[w] = Append(queue[w], r) /\ accepted'[w] = Append(accepted[w], r)
      /\ \A v \in Writer \ {w} : queue'[v] = queue[v] /\ accepted'[v] = accepted[v]
      /\ receipt'[a] = Pending /\ \A b \in Attempt \ {a} : receipt'[b] = receipt[b]
      /\ submitting'[c] = None /\ \A d \in Client \ {c} : submitting'[d] = submitting[d]
      /\ counter' = counter /\ worker' = worker /\ current' = current /\ joined' = joined
      /\ log' = log
  BY <1>1 DEF Inv, WriterTypeOK, Offers
<1> PICK m \in Nat : m = Len(accepted[w])
  BY AcceptedIs DEF Inv
<1>5. /\ accepted[w] \in Seq(Request) /\ Len(accepted[w]) = m /\ DOMAIN accepted[w] = 1 .. m
      /\ \A k \in 1 .. m : At(w, k) \in Attempt
  BY AcceptedIs, Zenon DEF Inv
<1>6. /\ DOMAIN accepted'[w] = 1 .. m + 1 /\ Len(accepted'[w]) = m + 1
      /\ accepted'[w][m + 1] = r
      /\ \A k \in 1 .. m : accepted'[w][k] = accepted[w][k]
  <2>1. \A x \in Seq(Request) : /\ DOMAIN Append(x, r) = 1 .. Len(x) + 1
                                /\ Len(Append(x, r)) = Len(x) + 1
                                /\ Append(x, r)[Len(x) + 1] = r
                                /\ \A k \in 1 .. Len(x) : Append(x, r)[k] = x[k]
    BY AppendIs
  <2> QED
    BY <1>4, <1>5, <2>1
<1>7. WriterTypeOK'
  <2>1. Pending \in [state : State, sequence : Nat]
    BY DEF Pending, Answer, State
  <2>2. /\ receipt' \in [Attempt -> [state : State, sequence : Nat]]
        /\ submitting' \in [Client -> Request \cup {None}]
    BY <1>1, <2>1 DEF Inv, WriterTypeOK, Offers
  <2>3. Append(queue[w], r) \in Seq(Request) /\ Append(accepted[w], r) \in Seq(Request)
    BY <1>5, QueueIs DEF Inv
  <2>4. queue' \in [Writer -> Seq(Request)] /\ accepted' \in [Writer -> Seq(Request)]
    BY <2>3 DEF Inv, WriterTypeOK, Offers
  <2> QED
    BY <2>2, <2>4 DEF Inv, WriterTypeOK, Offers
<1>8. Underway'
  <2>1. \A d \in Client : submitting[d] # None => submitting[d].attempt \in Attempt
    BY DEF Inv, WriterTypeOK, Request
  <2>2. \A d \in Client \ {c} : submitting[d] # None => receipt'[submitting[d].attempt] = Unsent
    BY <1>2, <1>4, <2>1 DEF Inv, Underway
  <2> QED
    BY <1>4, <2>2 DEF Inv, Underway, Unsent, Answer
<1>9. At(w, m + 1)' = a /\ \A k \in 1 .. m : At(w, k)' = At(w, k)
  BY <1>6 DEF At, a
<1>10. \A v \in Writer \ {w} : DOMAIN accepted'[v] = DOMAIN accepted[v]
        /\ \A k : At(v, k)' = At(v, k) /\ accepted'[v][k] = accepted[v][k]
  BY <1>4 DEF At
<1>11. Unsent' = Unsent /\ Pending # Unsent /\ Pending.state = "pending"
  BY DEF Unsent, Pending, Answer
<1>12. Identities'
  <2>1. \A b \in Attempt : b >= counter => receipt'[b] = Unsent
    <3>1. \A b \in Attempt : b >= counter => b # a
      BY <1>1, <1>2 DEF Inv, WriterTypeOK, Attempt
    <3> QED
      BY <1>4, <3>1 DEF Inv, Identities
  <2>2. ASSUME NEW v \in Writer, NEW k \in DOMAIN accepted'[v]
        PROVE  /\ receipt'[At(v, k)'] # Unsent
               /\ accepted'[v][k].writer = v
               /\ \A u \in Writer : \A l \in DOMAIN accepted'[u] :
                    At(u, l)' = At(v, k)' => u = v /\ l = k
    <3>1. ASSUME NEW x \in Writer, NEW y \in DOMAIN accepted'[x]
          PROVE  \/ x = w /\ y = m + 1 /\ At(x, y)' = a
                 \/ y \in DOMAIN accepted[x] /\ At(x, y)' = At(x, y) /\ At(x, y) # a
                    /\ accepted'[x][y] = accepted[x][y]
      <4>1. CASE x = w
        BY <1>3, <1>5, <1>6, <1>9, <4>1
      <4>2. CASE x # w
        BY <1>3, <1>10, <4>2
      <4> QED
        BY <4>1, <4>2
    <3>2. CASE v = w /\ k = m + 1 /\ At(v, k)' = a
      <4>1. receipt'[At(v, k)'] # Unsent /\ accepted'[v][k].writer = v
        BY <1>4, <1>6, <1>11, <3>2
      <4>2. \A u \in Writer : \A l \in DOMAIN accepted'[u] : At(u, l)' = a => u = w /\ l = m + 1
        BY <3>1
      <4> QED
        BY <3>2, <4>1, <4>2
    <3>3. CASE k \in DOMAIN accepted[v] /\ At(v, k)' = At(v, k) /\ At(v, k) # a
               /\ accepted'[v][k] = accepted[v][k]
      <4>1. receipt[At(v, k)] # Unsent /\ accepted[v][k].writer = v /\ At(v, k) \in Attempt
        BY <3>3, AcceptedIs DEF Inv, Identities
      <4>2. ASSUME NEW u \in Writer, NEW l \in DOMAIN accepted'[u], At(u, l)' = At(v, k)'
            PROVE  u = v /\ l = k
        BY <3>1, <3>3, <4>2 DEF Inv, Identities
      <4> QED
        BY <1>4, <3>3, <4>1, <4>2
    <3> QED
      BY <3>1, <3>2, <3>3
  <2>3. ASSUME NEW b \in Attempt, receipt'[b] # Unsent
        PROVE  \E v \in Writer : \E k \in DOMAIN accepted'[v] : b = At(v, k)'
    <3>1. CASE b = a
      BY <1>5, <1>6, <1>9, <3>1
    <3>2. CASE b # a
      <4>1. PICK v \in Writer : \E k \in DOMAIN accepted[v] : b = At(v, k)
        BY <1>4, <2>3, <3>2 DEF Inv, Identities
      <4> QED
        BY <1>5, <1>6, <1>9, <1>10, <4>1, SMTT(30)
    <3> QED
      BY <3>1, <3>2
  <2>4. ASSUME NEW i \in DOMAIN log
        PROVE  \E k \in DOMAIN accepted'[log[i].writer] : log[i].attempt = accepted'[log[i].writer][k].attempt
    <3> PICK v \in Writer : v = log[i].writer
      BY LogIs DEF Inv
    <3>1. PICK k \in DOMAIN accepted[v] : log[i].attempt = At(v, k)
      BY DEF Inv, Identities
    <3>2. k \in DOMAIN accepted'[v] /\ At(v, k)' = At(v, k)
      BY <1>5, <1>6, <1>9, <1>10, <3>1
    <3> QED
      BY <3>1, <3>2 DEF At
  <2>5. \A i \in DOMAIN log' : \E k \in DOMAIN accepted'[log'[i].writer] :
            log'[i].attempt = At(log[i].writer, k)'
    BY <1>4, <2>4 DEF At
  <2>6. counter' = counter
    BY <1>4
  <2> QED
    BY <1>11, <2>1, <2>2, <2>3, <2>5, <2>6 DEF Identities
<1>13. ASSUME NEW v \in Writer \ {w} PROVE Lane(v)'
  <2>1. Untouched(v)
    BY <1>4 DEF Untouched
  <2>2. SameAnswers(v)
    BY <1>3, <1>4, AcceptedIs DEF SameAnswers, Inv
  <2> QED
    BY <1>4, <2>1, <2>2, LaneSame DEF Inv, Lanes
<1>14. Lane(w)'
  <2>1. PICK n \in 0 .. Len(accepted[w]) : Split(w, n) /\ Answers(w, n) /\ Stage(w, n)
    BY DEF Inv, Lanes, Lane
  <2>2. n \in 0 .. m /\ n \in 0 .. Len(accepted'[w]) /\ n \in Nat
    BY <1>5, <1>6, <2>1
  <2>3. /\ \A b : Positions(b)' = Positions(b)
        /\ \A q, t : WrittenAt(q, t)' = WrittenAt(q, t)
        /\ \A b, t : IsTail(b, t)' = IsTail(b, t)
    BY <1>4 DEF Positions, WrittenAt, IsTail, Entries
  <2>4. \A k \in 1 .. m + 1 : k \in 1 .. m \/ k = m + 1
    BY <1>5
  <2>5. \A k \in 1 .. n : k \in 1 .. m
    BY <1>5, <2>2
  <2>6. Split(w, n)'
    <3>1. \A k \in 1 .. n : \E t \in DOMAIN log' : WrittenAt(accepted[w][k], t)'
      BY <1>4, <1>6, <2>1, <2>3, <2>5 DEF Split
    <3>2. \A k, l \in 1 .. n : k < l =>
            \A i \in Positions(At(w, k))', j \in Positions(At(w, l))' : i < j
      BY <1>9, <2>1, <2>3, <2>5 DEF Split
    <3>3. \A k \in 1 .. m + 1 : k > n => Positions(At(w, k))' = {}
      BY <1>3, <1>5, <1>9, <2>1, <2>3, <2>4 DEF Split
    <3> QED
      BY <1>6, <2>2, <3>1, <3>2, <3>3 DEF Split
  <2>7. Answers(w, n)'
    <3>1. m + 1 > n
      BY <1>5, <2>2
    <3>2. \A k \in 1 .. m : receipt'[At(w, k)] = receipt[At(w, k)]
      BY <1>3, <1>4, <1>5
    <3>3. \A k \in 1 .. m + 1 : Told(w, n, k)'
      <4> TAKE k \in 1 .. m + 1
      <4>1. CASE k \in 1 .. m
        <5>1. Told(w, n, k)
          BY <1>5, <2>1, <4>1 DEF Answers
        <5> QED
          BY <1>4, <1>9, <3>2, <4>1, <5>1 DEF Told, IsTail, Positions, Pending, Answer, Halted, Ended
      <4>2. CASE k = m + 1
        <5>1. At(w, k)' = a /\ ~(k <= n)
          BY <1>5, <1>9, <2>2, <3>1, <4>2
        <5> QED
          BY <1>4, <1>11, <5>1 DEF Told, Pending, Answer
      <4> QED
        BY <2>4, <4>1, <4>2
    <3> QED
      BY <1>6, <3>3 DEF Answers
  <2>8. \A x \in Nat : Behind(w, x) => Behind(w, x)'
    BY <1>4, QueuedGrows DEF Inv
  <2>9. /\ \A k \in 1 .. m : k \in DOMAIN accepted'[w]
        /\ n \in 1 .. m => At(w, n)' = At(w, n)
    BY <1>5, <1>6, <1>9
  <2>10. Stage(w, n)'
    BY <1>4, <1>5, <1>6, <2>1, <2>2, <2>3, <2>8, <2>9 DEF Stage, Ended
  <2> QED
    BY <2>2, <2>6, <2>7, <2>10, Zenon DEF Lane
<1> QED
  BY <1>7, <1>8, <1>12, <1>13, <1>14 DEF Inv, Lanes

LEMMA TrySendSteps == ASSUME Inv, NEW c \in Client, TrySend(c) PROVE Inv'
<1>1. submitting[c] # None /\ submitting[c] \in Request /\ submitting[c].writer \in Writer
  BY DEF TrySend, Inv, WriterTypeOK, Request
<1> PICK r \in Request : r = submitting[c]
  BY <1>1
<1> PICK w \in Writer : w = r.writer
  BY <1>1
<1>2. CASE worker[w] \notin Ended /\ Len(queue[w]) < Capacity
  <2>1. Offers(c, r, w)
    BY <1>2 DEF TrySend, Offers
  <2> QED
    BY <1>1, <1>2, <2>1, TrySendQueues
<1>3. CASE ~(worker[w] \notin Ended /\ Len(queue[w]) < Capacity)
  <2>1. /\ submitting' = [submitting EXCEPT ![c] = None]
        /\ UNCHANGED <<counter, sender, worker, current, joined, log, queue, receipt, accepted>>
    BY <1>3 DEF TrySend
  <2> QED
    BY <2>1, TrySendFails
<1> QED
  BY <1>2, <1>3

-----------------------------------------------------------------------------
(* The steps of the thread, but for the commit. *)

LEMMA TailIs ==
    ASSUME NEW S, NEW s \in Seq(S), s # <<>>
    PROVE  /\ Head(s) = s[1] /\ 1 \in DOMAIN s /\ Tail(s) \in Seq(S)
           /\ Len(Tail(s)) = Len(s) - 1 /\ DOMAIN Tail(s) = 1 .. Len(s) - 1
           /\ \A i \in 1 .. Len(s) - 1 : Tail(s)[i] = s[i + 1] /\ i + 1 \in DOMAIN s
<1>1. Len(s) \in Nat /\ Len(s) > 0 /\ DOMAIN s = 1 .. Len(s)
  OBVIOUS
<1>2. Tail(s) \in Seq(S) /\ Len(Tail(s)) = Len(s) - 1
      /\ \A i \in 1 .. Len(s) - 1 : Tail(s)[i] = s[i + 1]
  BY <1>1
<1>3. DOMAIN Tail(s) = 1 .. Len(s) - 1
  BY <1>2
<1> QED
  BY <1>1, <1>2, <1>3

LEMMA ReceiveSteps == ASSUME Inv, NEW w \in Writer, Receive(w) PROVE Inv'
<1>1. PICK n \in 0 .. Len(accepted[w]) : Split(w, n) /\ Answers(w, n) /\ Stage(w, n)
  BY DEF Inv, Lanes, Lane
<1>2. /\ worker[w] = "recv" /\ worker'[w] = "processing" /\ queue[w] # <<>>
      /\ current'[w] = Head(queue[w]) /\ queue'[w] = Tail(queue[w])
      /\ UNCHANGED <<counter, submitting, receipt, joined, log, accepted>>
      /\ \A v \in Writer \ {w} :
            worker'[v] = worker[v] /\ queue'[v] = queue[v] /\ current'[v] = current[v]
  BY DEF Inv, WriterTypeOK, Receive
<1> PICK q \in Seq(Request) : q = queue[w]
  BY QueueIs DEF Inv
<1>3. /\ Head(q) = q[1] /\ 1 \in DOMAIN q /\ Tail(q) \in Seq(Request)
      /\ Len(Tail(q)) = Len(q) - 1 /\ DOMAIN Tail(q) = 1 .. Len(q) - 1
      /\ \A i \in 1 .. Len(q) - 1 : Tail(q)[i] = q[i + 1] /\ i + 1 \in DOMAIN q
      /\ Len(q) \in Nat /\ DOMAIN q = 1 .. Len(q)
  BY <1>2, TailIs
<1>4. /\ Len(accepted[w]) = n + Len(q) /\ \A i \in DOMAIN q : q[i] = accepted[w][n + i]
      /\ DOMAIN accepted[w] = 1 .. Len(accepted[w])
  BY <1>1, <1>2, AcceptedIs DEF Stage, Behind, Inv
<1>5. WriterTypeOK'
  <2>1. Head(q) \in Request
    BY <1>3
  <2> QED
    BY <1>3, <2>1 DEF Inv, WriterTypeOK, Receive
<1>6. n \in Nat /\ Split(w, n)' /\ Answers(w, n)'
  BY <1>1, <1>2, WrittenSame DEF SameAnswers, Halted, Ended
<1>7. n + 1 \in DOMAIN accepted[w] /\ Head(q) = accepted[w][n + 1]
  BY <1>3, <1>4, <1>6
<1>8. Behind(w, n + 1)'
  <2>1. Len(accepted[w]) = (n + 1) + Len(Tail(q))
    <3>1. \A l \in Nat : n + l = (n + 1) + (l - 1)
      BY <1>6
    <3>2. Len(accepted[w]) = (n + 1) + (Len(q) - 1)
      BY <1>3, <1>4, <3>1, Zenon
    <3> QED
      BY <1>3, <3>2, Zenon
  <2>2. \A i \in DOMAIN Tail(q) : Tail(q)[i] = accepted[w][(n + 1) + i]
    <3>1. \A i \in 1 .. Len(q) - 1 : (n + 1) + i = n + (i + 1)
      BY <1>6
    <3> QED
      BY <1>3, <1>4, <3>1
  <2> QED
    BY <1>2, <2>1, <2>2 DEF Behind
<1>9. Stage(w, n)'
  BY <1>1, <1>2, <1>7, <1>8 DEF Stage, Ended
<1>10. Lane(w)'
  BY <1>1, <1>2, <1>6, <1>9, Zenon DEF Lane
<1> QED
  BY <1>2, <1>5, <1>10, OneLane DEF Untouched

LEMMA RefuseSteps == ASSUME Inv, NEW w \in Writer, Refuse(w) PROVE Inv'
<1>1. PICK n \in 0 .. Len(accepted[w]) : Split(w, n) /\ Answers(w, n) /\ Stage(w, n)
  BY DEF Inv, Lanes, Lane
<1>2. /\ worker[w] = "processing" /\ worker'[w] = "failed"
      /\ UNCHANGED <<counter, submitting, queue, current, receipt, joined, log, accepted>>
      /\ \A v \in Writer \ {w} : worker'[v] = worker[v]
  BY DEF Inv, WriterTypeOK, Refuse
<1>3. WriterTypeOK'
  BY DEF Inv, WriterTypeOK, Refuse
<1>4. n \in Nat /\ Split(w, n)' /\ Answers(w, n)'
  BY <1>1, <1>2, WrittenSame DEF SameAnswers, Halted, Ended
<1>5. Stage(w, n)'
  BY <1>1, <1>2 DEF Stage, Behind, Ended
<1>6. Lane(w)'
  BY <1>1, <1>2, <1>4, <1>5, Zenon DEF Lane
<1> QED
  BY <1>2, <1>3, <1>6, OneLane DEF Untouched

(* The last job written is answered, and the thread is back at the queue. *)
LEMMA AnswerPersistedSteps == ASSUME Inv, NEW w \in Writer, AnswerPersisted(w) PROVE Inv'
<1>1. PICK n \in 0 .. Len(accepted[w]) : Split(w, n) /\ Answers(w, n) /\ Stage(w, n)
  BY DEF Inv, Lanes, Lane
<1>2. /\ worker[w] = "committed" /\ worker'[w] = "recv"
      /\ receipt' = [receipt EXCEPT ![current[w].attempt] = Answer("persisted", current[w].tail)]
      /\ UNCHANGED <<counter, submitting, queue, joined, log, accepted>>
      /\ \A v \in Writer \ {w} : worker'[v] = worker[v] /\ current'[v] = current[v]
  BY DEF Inv, WriterTypeOK, AnswerPersisted, AssignedTail
<1> PICK t : t = current[w].tail
  OBVIOUS
<1> PICK a : a = At(w, n)
  OBVIOUS
<1>3. n > 0 /\ current[w].attempt = a /\ IsTail(a, t) /\ Behind(w, n)
  BY <1>1, <1>2 DEF Stage
<1>4. n \in DOMAIN accepted[w] /\ a \in Attempt /\ n \in Nat
  BY <1>1, <1>3, AcceptedIs DEF Inv
<1>5. t \in Nat
  BY <1>3, PositionsAre DEF IsTail, Inv
<1>6. /\ receipt'[a] = [state |-> "persisted", sequence |-> t]
      /\ \A b \in Attempt \ {a} : receipt'[b] = receipt[b]
      /\ receipt' \in [Attempt -> [state : State, sequence : Nat]]
  <2>1. Answer("persisted", t) \in [state : State, sequence : Nat]
    BY <1>5 DEF Answer, State
  <2> QED
    BY <1>2, <1>3, <1>4, <2>1 DEF Inv, WriterTypeOK, Answer
<1>7. WriterTypeOK'
  BY <1>6 DEF Inv, WriterTypeOK, AnswerPersisted
<1>8. Split(w, n)' /\ \A k : At(w, k)' = At(w, k)
  BY <1>1, <1>2, <1>4, WrittenSame
<1>9. Answers(w, n)'
  <2>1. ASSUME NEW k \in DOMAIN accepted[w] PROVE Told(w, n, k)'
    <3>1. Told(w, n, k) /\ At(w, k)' = At(w, k) /\ At(w, k) \in Attempt
      BY <1>1, <1>8, AcceptedIs DEF Answers, Inv
    <3>2. CASE k = n
      BY <1>2, <1>3, <1>4, <1>6, <3>1, <3>2 DEF Told, IsTail, Positions
    <3>3. CASE k # n
      <4>1. At(w, k) # a
        BY <1>4, <3>3 DEF Inv, Identities
      <4>2. receipt'[At(w, k)] = receipt[At(w, k)]
        BY <1>6, <3>1, <4>1
      <4> QED
        BY <1>2, <3>1, <4>2 DEF Told, IsTail, Positions, Pending, Answer, Halted, Ended
    <3> QED
      BY <3>2, <3>3
  <2> QED
    BY <1>2, <2>1 DEF Answers
<1>10. Stage(w, n)'
  BY <1>1, <1>2, <1>3 DEF Stage, Behind, Ended
<1>11. Lane(w)'
  BY <1>1, <1>2, <1>4, <1>8, <1>9, <1>10, Zenon DEF Lane
<1>12. receipt'[a] # Unsent
  BY <1>6 DEF Unsent, Answer
<1> QED
  BY <1>2, <1>4, <1>6, <1>7, <1>11, <1>12, OneLane DEF Untouched

(* The refused job is answered, and the thread is on its way out. *)
LEMMA AnswerFailedSteps == ASSUME Inv, NEW w \in Writer, AnswerFailed(w) PROVE Inv'
<1>1. PICK n \in 0 .. Len(accepted[w]) : Split(w, n) /\ Answers(w, n) /\ Stage(w, n)
  BY DEF Inv, Lanes, Lane
<1>2. /\ worker[w] = "failed" /\ worker'[w] = "stopping"
      /\ receipt' = [receipt EXCEPT ![current[w].attempt] = Failed]
      /\ UNCHANGED <<counter, submitting, queue, joined, log, accepted>>
      /\ \A v \in Writer \ {w} : worker'[v] = worker[v] /\ current'[v] = current[v]
  BY DEF Inv, WriterTypeOK, AnswerFailed, AfterFailure
<1> PICK a : a = At(w, n + 1)
  OBVIOUS
<1>3. n + 1 \in DOMAIN accepted[w] /\ current[w].attempt = a /\ Behind(w, n + 1)
  BY <1>1, <1>2 DEF Stage, At
<1>4. a \in Attempt /\ n \in Nat
  BY <1>1, <1>3, AcceptedIs DEF Inv
<1>5. /\ receipt'[a] = Failed
      /\ \A b \in Attempt \ {a} : receipt'[b] = receipt[b]
      /\ receipt' \in [Attempt -> [state : State, sequence : Nat]]
  <2>1. Failed \in [state : State, sequence : Nat]
    BY DEF Failed, Answer, State
  <2> QED
    BY <1>2, <1>3, <1>4, <2>1 DEF Inv, WriterTypeOK
<1>6. WriterTypeOK'
  BY <1>5 DEF Inv, WriterTypeOK, AnswerFailed, AfterFailure
<1>7. Split(w, n)' /\ \A k : At(w, k)' = At(w, k)
  BY <1>1, <1>2, <1>4, WrittenSame
<1>8. Answers(w, n)'
  <2>1. ASSUME NEW k \in DOMAIN accepted[w] PROVE Told(w, n, k)'
    <3>1. Told(w, n, k) /\ At(w, k)' = At(w, k) /\ At(w, k) \in Attempt
      BY <1>1, <1>7, AcceptedIs DEF Answers, Inv
    <3>2. CASE k = n + 1
      <4>1. ~(k <= n)
        BY <1>4, <3>2
      <4> QED
        BY <1>2, <1>5, <3>1, <3>2, <4>1 DEF Told, Failed, Answer, Halted
    <3>3. CASE k # n + 1
      <4>1. At(w, k) # a
        BY <1>3, <3>3 DEF Inv, Identities
      <4>2. receipt'[At(w, k)] = receipt[At(w, k)]
        BY <1>5, <3>1, <4>1
      <4> QED
        BY <1>2, <3>1, <4>2 DEF Told, IsTail, Positions, Pending, Answer, Halted, Ended
    <3> QED
      BY <3>2, <3>3
  <2> QED
    BY <1>2, <2>1 DEF Answers
<1>9. Stage(w, n)'
  BY <1>1, <1>2, <1>3 DEF Stage, Behind, Ended
<1>10. Lane(w)'
  BY <1>1, <1>2, <1>4, <1>7, <1>8, <1>9, Zenon DEF Lane
<1>11. receipt'[a] # Unsent
  BY <1>5 DEF Unsent, Failed, Answer
<1> QED
  BY <1>2, <1>3, <1>5, <1>6, <1>10, <1>11, OneLane DEF Untouched

(* The thread ends.  The jobs whose receipts disconnect are none of the n  *)
(* durable ones.                                                           *)
LEMMA DropSteps ==
    ASSUME Inv, NEW w \in Writer, NEW end \in Ended, NEW lost, DropReceiver(w, end, lost),
           UNCHANGED <<counter, submitting, sender, joined, log, accepted>>,
           NEW n \in 0 .. Len(accepted[w]), Split(w, n), Answers(w, n), joined[w] = "no",
           \A b \in lost \cup Discarded(w) :
                \E k \in DOMAIN accepted[w] : b = At(w, k) /\ k > n,
           end = "finished" => n = Len(accepted[w]),
           end # "finished" => n < Len(accepted[w])
    PROVE  Inv'
<1> DEFINE gone == lost \cup Discarded(w)
<1>1. /\ worker' = [worker EXCEPT ![w] = end]
      /\ current' = [current EXCEPT ![w] = None]
      /\ queue' = [queue EXCEPT ![w] = <<>>]
      /\ receipt' = [b \in Attempt |-> IF b \in gone THEN WorkerStopped ELSE receipt[b]]
  BY DEF DropReceiver
<1>2. \A b \in gone : \E k \in DOMAIN accepted[w] : b = At(w, k) /\ k > n
  OBVIOUS
<1> HIDE DEF gone
<1>3. \A b \in Attempt : receipt'[b] = IF b \in gone THEN WorkerStopped ELSE receipt[b]
  BY <1>1
<1>4. WorkerStopped \in [state : State, sequence : Nat] /\ WorkerStopped # Unsent
      /\ WorkerStopped.state = "stopped"
  BY DEF WorkerStopped, Unsent, Answer, State
<1>5. receipt' \in [Attempt -> [state : State, sequence : Nat]]
  BY <1>1, <1>4 DEF Inv, WriterTypeOK
<1>6. WriterTypeOK'
  BY <1>1, <1>5 DEF Inv, WriterTypeOK, Ended
<1>7. /\ worker'[w] = end
      /\ \A v \in Writer \ {w} :
            worker'[v] = worker[v] /\ current'[v] = current[v] /\ queue'[v] = queue[v]
  BY <1>1 DEF Inv, WriterTypeOK
<1>8. n \in Nat /\ Split(w, n)' /\ \A k : At(w, k)' = At(w, k)
  BY WrittenSame
<1>9. Answers(w, n)'
  <2>1. ASSUME NEW k \in DOMAIN accepted[w] PROVE Told(w, n, k)'
    <3>1. Told(w, n, k) /\ At(w, k)' = At(w, k) /\ At(w, k) \in Attempt
      BY <1>8, AcceptedIs DEF Answers, Inv
    <3>2. CASE At(w, k) \in gone
      <4>1. PICK l \in DOMAIN accepted[w] : At(w, k) = At(w, l) /\ l > n
        BY <1>2, <3>2
      <4>2. k > n
        BY <4>1 DEF Inv, Identities
      <4>3. receipt'[At(w, k)] = WorkerStopped /\ ~(k <= n)
        BY <1>3, <1>8, <3>1, <3>2, <4>2, AcceptedIs DEF Inv
      <4> QED
        BY <1>4, <1>7, <3>1, <4>3 DEF Told, Halted
    <3>3. CASE At(w, k) \notin gone
      <4>1. receipt'[At(w, k)] = receipt[At(w, k)]
        BY <1>3, <3>1, <3>3
      <4> QED
        BY <1>7, <3>1, <4>1 DEF Told, IsTail, Positions, Pending, Answer, Halted
    <3> QED
      BY <3>2, <3>3
  <2> QED
    BY <2>1 DEF Answers
<1>10. Stage(w, n)'
  BY <1>7 DEF Stage, Ended
<1>11. Lane(w)'
  BY <1>8, <1>9, <1>10, Zenon DEF Lane
<1>12. \A b \in Attempt : \/ receipt'[b] = receipt[b]
                         \/ \E k \in DOMAIN accepted[w] : b = At(w, k) /\ receipt'[b] # Unsent
  BY <1>2, <1>3, <1>4
<1> QED
  BY <1>6, <1>7, <1>11, <1>12, OneLane DEF Untouched

LEMMA DiscardedAre ==
    ASSUME Inv, NEW w \in Writer, NEW n \in Nat, NEW m \in Nat, m >= n, Behind(w, m)
    PROVE  \A b \in Discarded(w) : \E k \in DOMAIN accepted[w] : b = At(w, k) /\ k > n
<1> SUFFICES ASSUME NEW i \in DOMAIN queue[w]
             PROVE  \E k \in DOMAIN accepted[w] : queue[w][i].attempt = At(w, k) /\ k > n
  BY DEF Discarded
<1>1. /\ i \in 1 .. Len(queue[w]) /\ Len(queue[w]) \in Nat
      /\ DOMAIN accepted[w] = 1 .. Len(accepted[w])
  BY QueueIs, AcceptedIs DEF Inv
<1>2. Len(accepted[w]) = m + Len(queue[w]) /\ queue[w][i] = accepted[w][m + i]
  BY DEF Behind
<1>3. m + i \in DOMAIN accepted[w] /\ m + i > n
  BY <1>1, <1>2
<1> QED
  BY <1>2, <1>3 DEF At

LEMMA ReturnErrorSteps == ASSUME Inv, NEW w \in Writer, ReturnError(w) PROVE Inv'
<1>1. PICK n \in 0 .. Len(accepted[w]) : Split(w, n) /\ Answers(w, n) /\ Stage(w, n)
  BY DEF Inv, Lanes, Lane
<1>2. /\ worker[w] = "stopping" /\ DropReceiver(w, "errored", {})
      /\ UNCHANGED <<counter, submitting, sender, joined, log, accepted>>
  BY DEF ReturnError
<1>3. /\ n \in Nat /\ n + 1 \in DOMAIN accepted[w] /\ Behind(w, n + 1) /\ joined[w] = "no"
      /\ DOMAIN accepted[w] = 1 .. Len(accepted[w])
  BY <1>1, <1>2, AcceptedIs DEF Stage, Ended, Inv
<1>4. n < Len(accepted[w]) /\ n + 1 >= n /\ n + 1 \in Nat
  BY <1>1, <1>3
<1>5. \A b \in {} \cup Discarded(w) : \E k \in DOMAIN accepted[w] : b = At(w, k) /\ k > n
  BY <1>3, <1>4, DiscardedAre
<1> QED
  BY <1>1, <1>2, <1>3, <1>4, <1>5, DropSteps DEF Ended

LEMMA PanicSteps == ASSUME Inv, NEW w \in Writer, Panic(w) PROVE Inv'
<1>1. PICK n \in 0 .. Len(accepted[w]) : Split(w, n) /\ Answers(w, n) /\ Stage(w, n)
  BY DEF Inv, Lanes, Lane
<1>2. /\ worker[w] = "processing" /\ DropReceiver(w, "panicked", {current[w].attempt})
      /\ UNCHANGED <<counter, submitting, sender, joined, log, accepted>>
  BY DEF Panic
<1>3. /\ n \in Nat /\ n + 1 \in DOMAIN accepted[w] /\ Behind(w, n + 1) /\ joined[w] = "no"
      /\ current[w].attempt = At(w, n + 1) /\ DOMAIN accepted[w] = 1 .. Len(accepted[w])
  BY <1>1, <1>2, AcceptedIs DEF Stage, Ended, Inv, At
<1>4. n < Len(accepted[w]) /\ n + 1 >= n /\ n + 1 \in Nat /\ n + 1 > n
  BY <1>1, <1>3
<1>5. \A b \in {current[w].attempt} \cup Discarded(w) :
        \E k \in DOMAIN accepted[w] : b = At(w, k) /\ k > n
  BY <1>3, <1>4, DiscardedAre
<1> PICK lost : lost = {current[w].attempt}
  OBVIOUS
<1> QED
  BY <1>1, <1>2, <1>3, <1>4, <1>5, DropSteps DEF Ended

LEMMA FinishSteps == ASSUME Inv, NEW w \in Writer, Finish(w) PROVE Inv'
<1>1. PICK n \in 0 .. Len(accepted[w]) : Split(w, n) /\ Answers(w, n) /\ Stage(w, n)
  BY DEF Inv, Lanes, Lane
<1>2. /\ worker[w] = "recv" /\ queue[w] = <<>> /\ DropReceiver(w, "finished", {})
      /\ UNCHANGED <<counter, submitting, sender, joined, log, accepted>>
  BY DEF Finish, Drained
<1>3. n \in Nat /\ Behind(w, n) /\ joined[w] = "no"
  BY <1>1, <1>2, AcceptedIs DEF Stage, Ended, Inv
<1>4. n = Len(accepted[w])
  BY <1>1, <1>2, <1>3, AcceptedIs DEF Behind, Inv
<1>5. \A b \in {} \cup Discarded(w) : \E k \in DOMAIN accepted[w] : b = At(w, k) /\ k > n
  BY <1>3, DiscardedAre
<1> QED
  BY <1>1, <1>2, <1>3, <1>4, <1>5, DropSteps DEF Ended

-----------------------------------------------------------------------------
(* The commit. *)

LEMMA EntriesAre ==
    ASSUME NEW r \in Request
    PROVE  /\ Entries(r) \in Seq(Entry) /\ Len(Entries(r)) = Len(r.job)
           /\ Len(r.job) \in Nat \ {0} /\ DOMAIN r.job = 1 .. Len(r.job)
           /\ \A i \in 1 .. Len(r.job) :
                Entries(r)[i].attempt = r.attempt /\ Entries(r)[i].writer = r.writer
<1>1. r.attempt \in Attempt /\ r.writer \in Writer /\ r.job \in Job
  BY DEF Request
<1>2. /\ Len(r.job) \in Nat \ {0} /\ DOMAIN r.job = 1 .. Len(r.job)
      /\ \A i \in DOMAIN r.job : r.job[i] \in Event
  BY <1>1, JobIs
<1> DEFINE e == [i \in 1 .. Len(r.job) |->
                    [attempt |-> r.attempt, writer |-> r.writer, event |-> r.job[i]]]
<1>3. Entries(r) = e
  BY <1>2 DEF Entries
<1>4. \A i \in 1 .. Len(r.job) : e[i] \in Entry /\ e[i].attempt = r.attempt /\ e[i].writer = r.writer
  BY <1>1, <1>2 DEF Entry
<1>5. e \in [1 .. Len(r.job) -> Entry]
  BY <1>4
<1>6. e \in Seq(Entry) /\ Len(e) = Len(r.job)
  <2> HIDE DEF e
  <2>1. e \in Seq(Entry)
    BY <1>2, <1>5
  <2>2. Len(e) \in Nat /\ DOMAIN e = 1 .. Len(e) /\ DOMAIN e = 1 .. Len(r.job)
    BY <1>5, <2>1
  <2> QED
    BY <1>2, <2>1, <2>2
<1> QED
  BY <1>2, <1>3, <1>4, <1>6

LEMMA Past ==
    ASSUME NEW L \in Nat, NEW J \in Nat
    PROVE  L + J = L + 1 + J - 1 /\ \A i \in 1 .. L + J : i > L => i \notin 1 .. L
OBVIOUS

LEMMA Within ==
    ASSUME NEW first \in Nat, NEW n \in Nat, NEW i \in 1 .. n
    PROVE  first + i - 1 \in first .. (first + n - 1)
OBVIOUS

(* The journal has grown, and holds nothing new of the first n jobs of w. *)
Grown(w, n) ==
    /\ accepted'[w] = accepted[w]
    /\ \A i \in DOMAIN log : i \in DOMAIN log' /\ log'[i] = log[i]
    /\ \A k \in DOMAIN accepted[w] : k <= n => Positions(At(w, k))' = Positions(At(w, k))

LEMMA WrittenStays ==
    ASSUME WriterTypeOK, NEW w \in Writer, NEW n \in 0 .. Len(accepted[w]), Split(w, n), Grown(w, n)
    PROVE  /\ \A k \in 1 .. n : \E s \in DOMAIN log' : WrittenAt(accepted[w][k], s)'
           /\ \A k : At(w, k)' = At(w, k)
           /\ \A k \in 1 .. n : k \in DOMAIN accepted[w]
<1>1. \A k \in 1 .. n : k \in DOMAIN accepted[w]
  BY AcceptedIs
<1>2. \A k : At(w, k)' = At(w, k) /\ accepted'[w][k] = accepted[w][k]
  BY DEF At, Grown
<1>3. ASSUME NEW k \in 1 .. n PROVE \E s \in DOMAIN log' : WrittenAt(accepted[w][k], s)'
  <2> PICK r \in Request : r = accepted[w][k]
    BY <1>1, AcceptedIs
  <2> PICK s \in DOMAIN log : WrittenAt(r, s)
    BY DEF Split
  <2>1. Positions(r.attempt)' = Positions(r.attempt)
    BY <1>1, <1>2 DEF Grown, At, Positions
  <2>2. ASSUME NEW i \in DOMAIN r.job PROVE log'[s + i - 1] = log[s + i - 1]
    <3>1. s \in Nat /\ i \in 1 .. Len(r.job) /\ Len(r.job) \in Nat
      BY LogIs, EntriesAre
    <3>2. s + i - 1 \in s .. (s + Len(r.job) - 1)
      BY <3>1, Within
    <3>3. s + i - 1 \in Positions(r.attempt)
      BY <3>2 DEF WrittenAt
    <3> QED
      BY <3>3 DEF Grown, Positions
  <2>3. WrittenAt(r, s)'
    BY <2>1, <2>2 DEF WrittenAt, Entries
  <2>4. s \in DOMAIN log' /\ accepted'[w][k] = r
    BY <1>2 DEF Grown
  <2>5. WrittenAt(accepted[w][k], s)'
    BY <2>3, <2>4 DEF WrittenAt, Positions, Entries
  <2> QED
    BY <2>4, <2>5, Zenon
<1> QED
  BY <1>1, <1>2, <1>3

(* A writer none of whose jobs was written. *)
LEMMA LaneGrows ==
    ASSUME WriterTypeOK, NEW w \in Writer, Lane(w), Untouched(w), SameAnswers(w),
           Grown(w, Len(accepted[w]))
    PROVE  Lane(w)'
<1>1. PICK n \in 0 .. Len(accepted[w]) : Split(w, n) /\ Answers(w, n) /\ Stage(w, n)
  BY DEF Lane
<1>2. DOMAIN accepted[w] = 1 .. Len(accepted[w]) /\ Len(accepted[w]) \in Nat
  BY AcceptedIs
<1>3. Grown(w, n)
  BY <1>2 DEF Grown
<1>4. /\ \A k \in 1 .. n : \E s \in DOMAIN log' : WrittenAt(accepted[w][k], s)'
      /\ \A k : At(w, k)' = At(w, k)
      /\ \A k \in 1 .. n : k \in DOMAIN accepted[w]
  BY <1>1, <1>3, WrittenStays
<1>5. accepted'[w] = accepted[w] /\ \A k \in DOMAIN accepted[w] : Positions(At(w, k))' = Positions(At(w, k))
  BY <1>2 DEF Grown
<1>6. Split(w, n)'
  <2>1. \A k, l \in 1 .. n : k < l =>
            \A i \in Positions(At(w, k))', j \in Positions(At(w, l))' : i < j
    BY <1>1, <1>4, <1>5 DEF Split
  <2>2. \A k \in DOMAIN accepted[w] : k > n => Positions(At(w, k))' = {}
    BY <1>1, <1>5 DEF Split
  <2> QED
    BY <1>1, <1>4, <1>5, <2>1, <2>2 DEF Split
<1>7. Answers(w, n)'
  <2>1. ASSUME NEW k \in DOMAIN accepted[w] PROVE Told(w, n, k)'
    <3>1. Told(w, n, k) /\ receipt'[At(w, k)] = receipt[At(w, k)]
      BY <1>1 DEF Answers, SameAnswers
    <3>2. At(w, k)' = At(w, k) /\ Positions(At(w, k))' = Positions(At(w, k))
      BY <1>4, <1>5
    <3> QED
      BY <3>1, <3>2 DEF Told, IsTail, Untouched, Pending, Answer, Halted, Ended
  <2> QED
    BY <1>5, <2>1 DEF Answers
<1>8. Stage(w, n)'
  <2>1. worker[w] = "committed" => n \in DOMAIN accepted[w]
    BY <1>1, <1>2 DEF Stage
  <2>2. \A m : Behind(w, m)' <=> Behind(w, m)
    BY DEF Behind, Untouched
  <2>3. worker[w] = "committed" => IsTail(At(w, n), current[w].tail)'
    BY <1>1, <1>4, <1>5, <2>1 DEF Stage, IsTail, Untouched
  <2> QED
    BY <1>1, <1>4, <2>2, <2>3 DEF Stage, Untouched, Ended
<1> QED
  BY <1>1, <1>5, <1>6, <1>7, <1>8, Zenon DEF Lane

LEMMA PersistSteps == ASSUME Inv, NEW w \in Writer, Persist(w) PROVE Inv'
<1>1. PICK n \in 0 .. Len(accepted[w]) : Split(w, n) /\ Answers(w, n) /\ Stage(w, n)
  BY DEF Inv, Lanes, Lane
<1> PICK L \in Nat : L = Len(log)
  BY LogIs DEF Inv
<1>2. /\ worker[w] = "processing" /\ worker'[w] = "committed"
      /\ log' = log \o Entries(current[w])
      /\ current'[w] = [attempt |-> current[w].attempt, tail |-> L + Len(current[w].job)]
      /\ UNCHANGED <<counter, submitting, queue, receipt, joined, accepted>>
      /\ \A v \in Writer \ {w} : worker'[v] = worker[v] /\ current'[v] = current[v]
  BY DEF Inv, WriterTypeOK, Persist
<1>3. /\ n \in Nat /\ n + 1 \in DOMAIN accepted[w] /\ current[w] = accepted[w][n + 1]
      /\ Behind(w, n + 1) /\ joined[w] = "no"
      /\ DOMAIN accepted[w] = 1 .. Len(accepted[w]) /\ Len(accepted[w]) \in Nat
  BY <1>1, <1>2, AcceptedIs DEF Stage, Ended, Inv
<1> PICK r \in Request : r = accepted[w][n + 1]
  BY <1>3, AcceptedIs DEF Inv
<1> PICK a \in Attempt : a = r.attempt
  BY DEF Request
<1>4. r.writer = w /\ At(w, n + 1) = a /\ Positions(a) = {}
  <2>1. n + 1 > n
    BY <1>3
  <2> QED
    BY <1>1, <1>3, <2>1 DEF At, Split, Inv, Identities
<1> PICK J \in Nat \ {0} : J = Len(r.job)
  BY EntriesAre
<1>5. /\ Entries(r) \in Seq(Entry) /\ Len(Entries(r)) = J /\ DOMAIN r.job = 1 .. J
      /\ \A i \in 1 .. J : Entries(r)[i].attempt = a /\ Entries(r)[i].writer = w
  BY <1>4, EntriesAre
<1>6. /\ log' \in Seq(Entry) /\ DOMAIN log' = 1 .. L + J /\ DOMAIN log = 1 .. L
      /\ \A i \in 1 .. L : log'[i] = log[i]
      /\ \A i \in 1 .. J : log'[L + i] = Entries(r)[i]
  <2>1. log \in Seq(Entry) /\ log' = log \o Entries(r)
    BY <1>2, <1>3, LogIs DEF Inv
  <2> PICK e \in Seq(Entry) : e = Entries(r)
    BY <1>5
  <2> PICK p \in Seq(Entry) : p = log
    BY <2>1
  <2>2. /\ p \o e \in Seq(Entry) /\ DOMAIN (p \o e) = 1 .. Len(p) + Len(e)
        /\ \A i \in 1 .. Len(p) : (p \o e)[i] = p[i]
        /\ \A i \in 1 .. Len(e) : (p \o e)[Len(p) + i] = e[i]
        /\ DOMAIN p = 1 .. Len(p)
    OBVIOUS
  <2>3. log' = p \o e /\ Len(p) = L /\ Len(e) = J
    BY <1>5, <2>1
  <2> QED
    BY <2>2, <2>3
<1>7. \A i \in 1 .. L + J : i \in 1 .. L \/ \E x \in 1 .. J : i = L + x
  <2> SUFFICES ASSUME NEW i \in 1 .. L + J, i \notin 1 .. L PROVE \E x \in 1 .. J : i = L + x
    OBVIOUS
  <2>1. i - L \in 1 .. J /\ i = L + (i - L)
    OBVIOUS
  <2> QED
    BY <2>1
<1>8. /\ \A i \in 1 .. L : i \in 1 .. L + J
      /\ \A x \in 1 .. J : L + x \in 1 .. L + J /\ L + x > L
  BY SMTT(30)
<1>9. \A i \in 1 .. L + J : i > L => log'[i].attempt = a /\ log'[i].writer = w
  <2>1. \A i \in 1 .. L + J : i > L => \E x \in 1 .. J : i = L + x
    <3>1. \A i \in 1 .. L + J : i > L => i \notin 1 .. L
      BY Past
    <3> QED
      BY <1>7, <3>1, Zenon
  <2>2. ASSUME NEW i \in 1 .. L + J, i > L PROVE log'[i].attempt = a /\ log'[i].writer = w
    <3>1. PICK x \in 1 .. J : i = L + x
      BY <2>1, <2>2, Zenon
    <3>2. log'[i] = Entries(r)[x]
      BY <1>6, <3>1, Zenon
    <3> QED
      BY <1>5, <3>2, Zenon
  <2> QED
    BY <2>2
<1>10. Positions(a)' = (L + 1) .. (L + J)
  <2>1. \A i \in 1 .. L : log'[i].attempt # a
    BY <1>4, <1>6 DEF Positions
  <2>2. Positions(a)' = {i \in 1 .. L + J : log'[i].attempt = a}
    BY <1>6 DEF Positions
  <2>3. \A i \in 1 .. L + J : log'[i].attempt = a <=> i > L
    BY <1>9, <2>1
  <2>4. {i \in 1 .. L + J : i > L} = (L + 1) .. (L + J)
    OBVIOUS
  <2> QED
    BY <2>2, <2>3, <2>4
<1>11. ASSUME NEW b, b # a PROVE Positions(b)' = Positions(b)
  <2>1. Positions(b)' = {i \in 1 .. L + J : log'[i].attempt = b}
    BY <1>6 DEF Positions
  <2>2. Positions(b) = {i \in 1 .. L : log[i].attempt = b}
    BY <1>6 DEF Positions
  <2>3. \A i \in 1 .. L + J : log'[i].attempt = b => i \in 1 .. L
    BY <1>9, <1>11
  <2> QED
    BY <1>6, <1>8, <2>1, <2>2, <2>3
<1>12. \A v \in Writer : \A k \in DOMAIN accepted[v] : At(v, k) = a => v = w /\ k = n + 1
  BY <1>3, <1>4 DEF Inv, Identities
<1>13. WriterTypeOK'
  <2>1. [attempt |-> current[w].attempt, tail |-> L + Len(current[w].job)]
            \in [attempt : Attempt, tail : Nat]
    BY <1>3
  <2> QED
    BY <1>6, <2>1 DEF Inv, WriterTypeOK, Persist
<1>14. Underway'
  BY <1>2 DEF Inv, Underway, Unsent, Answer
<1>15. Identities'
  <2>1. ASSUME NEW i \in DOMAIN log'
        PROVE  \E k \in DOMAIN accepted[log'[i].writer] : log'[i].attempt = At(log'[i].writer, k)
    <3>1. CASE i \in 1 .. L
      BY <1>6, <3>1 DEF Inv, Identities
    <3>2. CASE i > L
      BY <1>3, <1>4, <1>6, <1>9, <3>2
    <3> QED
      BY <1>6, <3>1, <3>2
  <2>2. accepted' = accepted /\ receipt' = receipt /\ counter' = counter
    BY <1>2
  <2>3. \A i \in DOMAIN log' : \E k \in DOMAIN accepted'[log'[i].writer] :
            log'[i].attempt = accepted'[log'[i].writer][k].attempt
    BY <2>1, <2>2 DEF At
  <2> QED
    BY <2>2, <2>3 DEF Inv, Identities, Unsent, Answer, At
<1>16. ASSUME NEW v \in Writer \ {w} PROVE Lane(v)'
  <2>1. Untouched(v) /\ SameAnswers(v)
    BY <1>2 DEF Untouched, SameAnswers
  <2>2. \A k \in DOMAIN accepted[v] : Positions(At(v, k))' = Positions(At(v, k))
    <3>1. \A k \in DOMAIN accepted[v] : At(v, k) # a /\ At(v, k)' = At(v, k)
      BY <1>2, <1>12 DEF At
    <3>2. \A b : b # a => Positions(b)' = Positions(b)
      BY <1>11
    <3>3. ASSUME NEW k \in DOMAIN accepted[v] PROVE Positions(At(v, k))' = Positions(At(v, k))
      <4> PICK b : b = At(v, k)
        OBVIOUS
      <4>1. Positions(b)' = Positions(b) /\ At(v, k)' = b
        BY <3>1, <3>2
      <4> QED
        BY <4>1 DEF Positions
    <3> QED
      BY <3>3
  <2>3. Grown(v, Len(accepted[v]))
    BY <1>2, <1>6, <1>8, <2>2 DEF Grown
  <2> QED
    BY <2>1, <2>3, LaneGrows DEF Inv, Lanes
<1>17. Grown(w, n)
  <2>1. ASSUME NEW k \in DOMAIN accepted[w], k # n + 1
        PROVE  Positions(At(w, k))' = Positions(At(w, k))
    <3>1. At(w, k) # a /\ At(w, k)' = At(w, k)
      BY <1>2, <1>12, <2>1 DEF At
    <3> QED
      BY <1>6, <1>8, <1>9, <3>1 DEF Positions
  <2>2. \A k \in DOMAIN accepted[w] : k <= n => k # n + 1
    BY <1>3
  <2> QED
    BY <1>2, <1>6, <1>8, <2>1, <2>2 DEF Grown
<1>18. /\ \A k \in 1 .. n : \E s \in DOMAIN log' : WrittenAt(accepted[w][k], s)'
       /\ \A k : At(w, k)' = At(w, k)
       /\ \A k \in 1 .. n : k \in DOMAIN accepted[w]
  BY <1>1, <1>17, WrittenStays DEF Inv
<1>19. \A k \in 1 .. n + 1 : k \in 1 .. n \/ k = n + 1
  BY <1>3
<1>20. Split(w, n + 1)'
  <2>1. WrittenAt(r, L + 1)'
    <3>1. \A i \in 1 .. J : L + 1 + i - 1 = L + i
      OBVIOUS
    <3>2. \A i \in 1 .. J : log'[L + 1 + i - 1] = Entries(r)[i]
      BY <1>6, <3>1
    <3>3. Positions(a)' = (L + 1) .. (L + 1 + J - 1)
      <4>1. L + J = L + 1 + J - 1
        BY Past
      <4> QED
        BY <1>10, <4>1, Zenon
    <3> QED
      BY <1>5, <3>2, <3>3 DEF WrittenAt, Entries
  <2>2. L + 1 \in DOMAIN log'
    BY <1>6
  <2>3. \A k \in 1 .. n + 1 : \E s \in DOMAIN log' : WrittenAt(accepted[w][k], s)'
    <3> TAKE k \in 1 .. n + 1
    <3>1. CASE k \in 1 .. n
      BY <1>18, <3>1
    <3>2. CASE k = n + 1
      <4>1. accepted'[w][k] = r
        BY <1>2, <3>2
      <4>2. WrittenAt(accepted[w][k], L + 1)'
        BY <2>1, <4>1 DEF WrittenAt, Positions, Entries
      <4> QED
        BY <2>2, <4>2, Zenon
    <3> QED
      BY <1>19, <3>1, <3>2
  <2>4. \A k \in 1 .. n : Positions(At(w, k))' = Positions(At(w, k))
    BY <1>3, <1>17, <1>18 DEF Grown
  <2>5. Positions(At(w, n + 1))' = (L + 1) .. (L + J)
    BY <1>4, <1>10, <1>18 DEF Positions
  <2>6. ASSUME NEW k \in 1 .. n + 1, NEW l \in 1 .. n + 1, k < l,
               NEW i \in Positions(At(w, k))', NEW j \in Positions(At(w, l))'
        PROVE  i < j
    <3>1. k \in 1 .. n
      BY <1>3, <2>6
    <3>2. i \in Positions(At(w, k)) /\ i \in 1 .. L
      BY <2>4, <3>1, PositionsAre DEF Inv
    <3>3. CASE l \in 1 .. n
      <4>1. j \in Positions(At(w, l))
        BY <2>4, <3>3
      <4> QED
        BY <1>1, <2>6, <3>1, <3>2, <3>3, <4>1 DEF Split
    <3>4. CASE l = n + 1
      <4>1. j \in (L + 1) .. (L + J)
        BY <2>5, <3>4
      <4> QED
        BY <3>2, <4>1
    <3> QED
      BY <1>19, <3>3, <3>4
  <2>7. ASSUME NEW k \in DOMAIN accepted[w], k > n + 1 PROVE Positions(At(w, k))' = {}
    <3>1. k # n + 1 /\ k > n
      BY <1>3, <2>7
    <3>2. At(w, k) # a /\ Positions(At(w, k)) = {} /\ At(w, k)' = At(w, k)
      BY <1>1, <1>12, <1>18, <3>1 DEF Split
    <3> QED
      BY <1>6, <1>8, <1>9, <3>2 DEF Positions
  <2>8. n + 1 \in 0 .. Len(accepted'[w]) /\ accepted'[w] = accepted[w]
    BY <1>2, <1>3
  <2> QED
    BY <2>3, <2>6, <2>7, <2>8 DEF Split
<1>21. Answers(w, n + 1)'
  <2>1. ASSUME NEW k \in DOMAIN accepted[w] PROVE Told(w, n + 1, k)'
    <3>1. Told(w, n, k) /\ At(w, k)' = At(w, k) /\ receipt' = receipt
      BY <1>1, <1>2, <1>18 DEF Answers
    <3>2. worker[w] \notin Halted
      BY <1>2 DEF Halted, Ended
    <3>3. CASE k <= n
      <4>1. Positions(At(w, k))' = Positions(At(w, k)) /\ k <= n + 1
        BY <1>3, <1>17, <3>3 DEF Grown
      <4> QED
        BY <3>1, <3>3, <4>1 DEF Told, IsTail, Pending, Answer
    <3>4. CASE ~(k <= n)
      BY <3>1, <3>2, <3>4 DEF Told, Pending, Answer
    <3> QED
      BY <3>3, <3>4
  <2> QED
    BY <1>2, <2>1 DEF Answers
<1>22. Stage(w, n + 1)'
  <2>1. At(w, n + 1)' = a /\ current'[w].attempt = a /\ current'[w].tail = L + J
    BY <1>2, <1>3, <1>4, <1>18
  <2>2. IsTail(a, L + J)'
    <3>1. L + J \in (L + 1) .. (L + J) /\ \A i \in (L + 1) .. (L + J) : i <= L + J
      OBVIOUS
    <3> QED
      BY <1>10, <3>1 DEF IsTail
  <2>3. IsTail(At(w, n + 1), current[w].tail)'
    BY <2>1, <2>2 DEF IsTail, Positions
  <2>4. Behind(w, n + 1)' /\ n + 1 > 0
    BY <1>2, <1>3 DEF Behind
  <2> QED
    BY <1>2, <1>3, <2>1, <2>3, <2>4 DEF Stage, Ended
<1>23. Lane(w)'
  <2>1. n + 1 \in 0 .. Len(accepted'[w])
    BY <1>2, <1>3
  <2> QED
    BY <1>20, <1>21, <1>22, <2>1 DEF Lane
<1> QED
  BY <1>13, <1>14, <1>15, <1>16, <1>23 DEF Inv, Lanes

-----------------------------------------------------------------------------
(* The invariant, and what it says. *)

LEMMA Starts == WriterInit => Inv
<1> SUFFICES ASSUME WriterInit PROVE Inv
  OBVIOUS
<1> USE DEF WriterInit
<1>1. WriterTypeOK
  <2>1. 1 \in 1 .. MaxAttempt
    BY WriterAssumption
  <2>2. Unsent \in [state : State, sequence : Nat]
    BY DEF Unsent, Answer, State
  <2> QED
    BY <2>1, <2>2 DEF WriterTypeOK
<1>2. Underway /\ Identities
  BY DEF Underway, Identities
<1>3. ASSUME NEW w \in Writer PROVE Lane(w)
  <2>1. accepted[w] = <<>> /\ queue[w] = <<>> /\ worker[w] = "none" /\ joined[w] = "no"
    OBVIOUS
  <2>2. Len(accepted[w]) = 0 /\ Len(queue[w]) = 0 /\ DOMAIN accepted[w] = {} /\ DOMAIN queue[w] = {}
    BY <2>1
  <2>3. Split(w, 0) /\ Answers(w, 0)
    BY <2>2 DEF Split, Answers
  <2>4. Stage(w, 0)
    BY <2>1, <2>2 DEF Stage, Behind
  <2> QED
    BY <2>2, <2>3, <2>4 DEF Lane
<1> QED
  BY <1>1, <1>2, <1>3 DEF Inv, Lanes

LEMMA Stutters == ASSUME Inv, UNCHANGED writerVars PROVE Inv'
<1>1. /\ UNCHANGED <<counter, submitting, receipt, log, accepted>>
      /\ \A w \in Writer : Untouched(w) /\ SameAnswers(w)
  BY DEF writerVars, Untouched, SameAnswers
<1>2. WriterTypeOK'
  BY DEF Inv, WriterTypeOK, writerVars
<1>3. Underway' /\ Identities'
  BY <1>1, IdentitiesSame DEF Inv
<1>4. Lanes'
  BY <1>1, LaneSame DEF Inv, Lanes
<1> QED
  BY <1>2, <1>3, <1>4 DEF Inv

(* What the thread is at, what its queue holds and what its receipts and   *)
(* the journal say of each accepted job always fit together.               *)
THEOREM InvAlways == WriterSpec => []Inv
<1>1. WriterInit => Inv
  BY Starts
<1>2. ASSUME Inv, [WriterNext]_writerVars PROVE Inv'
  <2>1. CASE UNCHANGED writerVars
    BY <1>2, <2>1, Stutters
  <2>2. ASSUME NEW c \in Client, TrySend(c) PROVE Inv'
    BY <1>2, <2>2, TrySendSteps
  <2>3. ASSUME NEW c \in Client, NEW w \in Writer, NEW job \in Job, BeginSubmit(c, w, job)
        PROVE  Inv'
    BY <1>2, <2>3, BeginSubmitSteps
  <2>4. ASSUME NEW w \in Writer, Spawn(w) \/ WorkerStep(w) \/ Close(w) \/ Join(w) PROVE Inv'
    <3>1. CASE Spawn(w)
      BY <1>2, <3>1, SpawnSteps
    <3>2. CASE Receive(w)
      BY <1>2, <3>2, ReceiveSteps
    <3>3. CASE Persist(w)
      BY <1>2, <3>3, PersistSteps
    <3>4. CASE Refuse(w)
      BY <1>2, <3>4, RefuseSteps
    <3>5. CASE Panic(w)
      BY <1>2, <3>5, PanicSteps
    <3>6. CASE AnswerPersisted(w)
      BY <1>2, <3>6, AnswerPersistedSteps
    <3>7. CASE AnswerFailed(w)
      BY <1>2, <3>7, AnswerFailedSteps
    <3>8. CASE ReturnError(w)
      BY <1>2, <3>8, ReturnErrorSteps
    <3>9. CASE Finish(w)
      BY <1>2, <3>9, FinishSteps
    <3>10. CASE Close(w)
      BY <1>2, <3>10, CloseSteps
    <3>11. CASE Join(w)
      BY <1>2, <3>11, JoinSteps
    <3> QED
      BY <2>4, <3>1, <3>2, <3>3, <3>4, <3>5, <3>6, <3>7, <3>8, <3>9, <3>10, <3>11, Zenon
         DEF WorkerStep
  <2> QED
    BY <1>2, <2>1, <2>2, <2>3, <2>4, Zenon DEF WriterNext
<1> QED
  BY <1>1, <1>2, PTL DEF WriterSpec

(* A job is durable when it is among the first n, and then it has a last   *)
(* position; otherwise the journal holds nothing of it.                    *)
LEMMA SplitReads ==
    ASSUME Inv, NEW w \in Writer, NEW n \in 0 .. Len(accepted[w]), Split(w, n),
           NEW k \in DOMAIN accepted[w]
    PROVE  Positions(At(w, k)) # {} <=> k <= n
<1>1. n \in Nat /\ k \in Nat /\ k >= 1
  BY AcceptedIs DEF Inv
<1>2. CASE k <= n
  <2>1. k \in 1 .. n
    BY <1>1, <1>2
  <2> PICK r \in Request : r = accepted[w][k]
    BY AcceptedIs DEF Inv
  <2> PICK s \in DOMAIN log : WrittenAt(r, s)
    BY <2>1 DEF Split
  <2>2. s \in Nat /\ Len(r.job) \in Nat \ {0}
    BY LogIs, EntriesAre DEF Inv
  <2>3. s \in s .. (s + Len(r.job) - 1)
    BY <2>2
  <2> QED
    BY <1>2, <2>3 DEF WrittenAt, At
<1>3. CASE ~(k <= n)
  BY <1>1, <1>3 DEF Split
<1> QED
  BY <1>2, <1>3

(* worker.rs: a receipt never lies about what the journal holds of its     *)
(* job, however threads, failures and panics interleave.                   *)
THEOREM ReceiptsAlwaysTruthful == WriterSpec => []ReceiptsTruthful
<1>1. ASSUME Inv PROVE ReceiptsTruthful
  <2> SUFFICES ASSUME NEW a \in Attempt
               PROVE  /\ receipt[a].state = "persisted" => IsTail(a, receipt[a].sequence)
                      /\ receipt[a].state \in {"failed", "stopped"} => Positions(a) = {}
    BY DEF ReceiptsTruthful, IsTail, Positions
  <2>1. CASE receipt[a] = Unsent
    BY <2>1 DEF Unsent, Answer
  <2>2. CASE receipt[a] # Unsent
    <3>1. PICK w \in Writer : \E k \in DOMAIN accepted[w] : a = At(w, k)
      BY <1>1, <2>2 DEF Inv, Identities
    <3>2. PICK k \in DOMAIN accepted[w] : a = At(w, k)
      BY <3>1
    <3>3. PICK n \in 0 .. Len(accepted[w]) : Split(w, n) /\ Answers(w, n)
      BY <1>1 DEF Inv, Lanes, Lane
    <3>4. Told(w, n, k) /\ (Positions(a) # {} <=> k <= n)
      BY <1>1, <3>2, <3>3, SplitReads DEF Answers
    <3>5. Pending.state = "pending"
      BY DEF Pending, Answer
    <3> QED
      BY <3>2, <3>4, <3>5 DEF Told
  <2> QED
    BY <2>1, <2>2
<1> QED
  BY <1>1, InvAlways, PTL

(* worker.rs: a writer's durable events are those of its first accepted    *)
(* jobs, each whole and in the order of acceptance, whatever other writers *)
(* append to the same journal.                                             *)
THEOREM AlwaysInAcceptanceOrder == WriterSpec => []InAcceptanceOrder
<1>1. ASSUME Inv PROVE InAcceptanceOrder
  <2> SUFFICES ASSUME NEW w \in Writer
               PROVE  \E n \in 0 .. Len(accepted[w]) :
                /\ {i \in DOMAIN log : log[i].writer = w}
                        = UNION {Positions(accepted[w][k].attempt) : k \in 1 .. n}
                /\ \A k \in 1 .. n : \E s \in DOMAIN log : WrittenAt(accepted[w][k], s)
                /\ \A k, l \in 1 .. n : k < l =>
                    \A i \in Positions(accepted[w][k].attempt), j \in Positions(accepted[w][l].attempt) : i < j
    BY Zenon DEF InAcceptanceOrder
  <2>1. PICK n \in 0 .. Len(accepted[w]) : Split(w, n)
    BY <1>1 DEF Inv, Lanes, Lane
  <2>2. DOMAIN accepted[w] = 1 .. Len(accepted[w]) /\ \A k \in 1 .. n : k \in DOMAIN accepted[w]
    BY <1>1, <2>1, AcceptedIs DEF Inv
  <2>3. ASSUME NEW i \in DOMAIN log, log[i].writer = w
        PROVE  \E k \in 1 .. n : i \in Positions(At(w, k))
    <3>1. PICK k \in DOMAIN accepted[w] : log[i].attempt = At(w, k)
      BY <1>1, <2>3 DEF Inv, Identities
    <3>2. i \in Positions(At(w, k))
      BY <3>1 DEF Positions
    <3>3. k <= n
      BY <1>1, <2>1, <3>2, SplitReads
    <3>4. k \in 1 .. n
      BY <2>2, <3>3
    <3> QED
      BY <3>2, <3>4
  <2>4. ASSUME NEW k \in 1 .. n, NEW i \in Positions(At(w, k))
        PROVE  i \in DOMAIN log /\ log[i].writer = w
    <3>1. i \in DOMAIN log /\ log[i].attempt = At(w, k)
      BY <2>4 DEF Positions
    <3>2. log[i].writer \in Writer
      BY <1>1, <3>1, LogIs DEF Inv
    <3>3. PICK l \in DOMAIN accepted[log[i].writer] : log[i].attempt = At(log[i].writer, l)
      BY <1>1, <3>1 DEF Inv, Identities
    <3> QED
      BY <1>1, <2>2, <3>1, <3>2, <3>3 DEF Inv, Identities
  <2>5. {i \in DOMAIN log : log[i].writer = w}
            = UNION {Positions(accepted[w][k].attempt) : k \in 1 .. n}
    BY <2>3, <2>4, Zenon DEF At
  <2> QED
    BY <2>1, <2>5 DEF Split, At
<1> QED
  BY <1>1, InvAlways, PTL

(* worker.rs: shutdown returns Ok exactly when every accepted job is       *)
(* durable.                                                                *)
THEOREM ShutdownAlwaysReports == WriterSpec => []ShutdownReports
<1>1. ASSUME Inv PROVE ShutdownReports
  <2> SUFFICES ASSUME NEW w \in Writer, joined[w] # "no"
               PROVE  joined[w] = "ok" <=>
                        \A k \in DOMAIN accepted[w] : Positions(At(w, k)) # {}
    BY DEF ShutdownReports, At
  <2>1. PICK n \in 0 .. Len(accepted[w]) : Split(w, n) /\ Stage(w, n)
    BY <1>1 DEF Inv, Lanes, Lane
  <2>2. \A k \in DOMAIN accepted[w] : Positions(At(w, k)) # {} <=> k <= n
    BY <1>1, <2>1, SplitReads
  <2>3. DOMAIN accepted[w] = 1 .. Len(accepted[w]) /\ Len(accepted[w]) \in Nat
    BY <1>1, AcceptedIs DEF Inv
  <2>4. joined[w] = "ok" <=> n = Len(accepted[w])
    BY <2>1, <2>3 DEF Stage, Ended
  <2>5. (\A k \in DOMAIN accepted[w] : k <= n) <=> n = Len(accepted[w])
    <3> PICK m \in Nat : m = Len(accepted[w])
      BY <2>3
    <3>1. n \in 0 .. m /\ m \in Nat
      OBVIOUS
    <3>2. (\A k \in 1 .. m : k <= n) <=> n = m
      <4>1. CASE n = m
        BY <3>1, <4>1
      <4>2. CASE n # m
        <5>1. m \in 1 .. m /\ ~(m <= n)
          BY <3>1, <4>2
        <5> QED
          BY <4>2, <5>1
      <4> QED
        BY <4>1, <4>2
    <3> QED
      BY <2>3, <3>2
  <2> QED
    BY <2>2, <2>4, <2>5
<1> QED
  BY <1>1, InvAlways, PTL

-----------------------------------------------------------------------------
(***************************************************************************)
(* The schedule: CountExact and DueExactly.  Neither is inductive: what an *)
(* answer does to the count depends on what the pending attempt recorded   *)
(* of the capture.  The strengthening says that both of its numbers are    *)
(* the exact ones, saturated.                                              *)
(***************************************************************************)

Capture0 == [total : Nat, at : Nat]

PendingType == [attempt : Identity, at : Nat, captured : Nat, post : Nat]
ScheduleType ==
    [baseline : Nat, edits : Nat, pending : PendingType \cup {NoPending},
     retryDue : BOOLEAN]

ScheduleTypeOK ==
    /\ schedule \in ScheduleType
    /\ clock \in Nat
    /\ recorded \in Nat
    /\ covered \in Capture0
    /\ missed \in BOOLEAN

(* The pending attempt's numbers are those of its capture. *)
PendingExact ==
    schedule.pending # NoPending =>
        /\ schedule.pending.attempt \in DOMAIN captureOf
        /\ LET c == captureOf[schedule.pending.attempt]
           IN  /\ c \in Capture0
               /\ c.at = schedule.pending.at
               /\ c.at <= clock
               /\ covered.total <= c.total
               /\ c.total <= recorded
               /\ schedule.pending.captured = Saturating(c.total - covered.total)
               /\ schedule.pending.post = Saturating(recorded - c.total)

ScheduleInv ==
    /\ ScheduleTypeOK
    /\ covered.total <= recorded
    /\ covered.at <= clock
    /\ schedule.baseline = covered.at
    /\ schedule.retryDue = missed
    /\ PendingExact
    /\ CountExact

-----------------------------------------------------------------------------
(* Saturation forgets nothing a later comparison or difference needs. *)
LEMMA SaturatingFacts ==
    ASSUME NEW n \in Nat, NEW k \in Nat
    PROVE  /\ Saturating(n) \in Nat
           /\ Saturating(Saturating(n) + k) = Saturating(n + k)
           /\ Larger(SaturatingSub(Saturating(n + k), Saturating(n)), Saturating(k))
                = Saturating(k)
           /\ Saturating(0) = 0
           /\ Saturating(n) >= Threshold <=> n >= Threshold
  BY ScheduleAssumption DEF Saturating, SaturatingSub, Larger

(* The fresh schedule of a session without history. *)
LEMMA InitExact == Init => ScheduleInv
<1> SUFFICES ASSUME Init PROVE ScheduleInv
  OBVIOUS
<1>1. schedule = [baseline |-> 0, edits |-> 0, pending |-> NoPending, retryDue |-> FALSE]
  BY DEF Init, Fresh
<1>2. schedule \in ScheduleType
  BY <1>1 DEF ScheduleType
<1>3. covered.total = 0 /\ covered.at = 0 /\ recorded - covered.total = 0
  BY DEF Init
<1>4. CountExact
  BY <1>1, <1>3, SaturatingFacts, 0 \in Nat DEF CountExact
<1>5. schedule.retryDue = missed
  <2>1. schedule.retryDue = FALSE
    BY <1>1
  <2>2. missed = FALSE
    BY Zenon DEF Init
  <2> QED
    BY <2>1, <2>2, Zenon
<1>6. ScheduleTypeOK
  BY <1>2 DEF Init, ScheduleTypeOK, Capture0
<1>7. PendingExact
  BY <1>1 DEF PendingExact
<1> QED
  BY <1>1, <1>3, <1>4, <1>5, <1>6, <1>7 DEF Init, ScheduleInv

(* Every step of the schedule and of its caller keeps the numbers exact. *)
LEMMA NextExact == ScheduleInv /\ [Next]_vars => ScheduleInv'
<1> SUFFICES ASSUME ScheduleInv, [Next]_vars PROVE ScheduleInv'
  OBVIOUS
<1> USE DEF ScheduleInv, ScheduleTypeOK, ScheduleType, PendingType, Capture0, PendingExact, CountExact
<1>0. recorded - covered.total \in Nat
  OBVIOUS
<1>1. ASSUME NEW count \in 1 .. MaxBatch, Edit(count) PROVE ScheduleInv'
  <2>0. count \in Nat /\ recorded' = recorded + count
    BY <1>1 DEF Edit
  <2>1. /\ schedule'.edits = Saturating(schedule.edits + count)
        /\ schedule'.baseline = schedule.baseline
        /\ schedule'.retryDue = schedule.retryDue
        /\ schedule'.pending = IF schedule.pending = NoPending THEN NoPending
             ELSE [schedule.pending EXCEPT !.post = Saturating(@ + count)]
        /\ schedule' = [baseline |-> schedule'.baseline, edits |-> schedule'.edits,
                        pending |-> schedule'.pending,
                        retryDue |-> schedule'.retryDue]
    BY <1>1 DEF Edit, RecordEdits
  <2>2. schedule'.edits = Saturating(recorded' - covered.total)
    <3>1. recorded' - covered.total = (recorded - covered.total) + count
      BY <2>0
    <3> QED
      BY <1>0, <2>0, <2>1, <3>1, SaturatingFacts
  <2>3. schedule'.edits \in Nat
    BY <2>0, <2>1, SaturatingFacts
  <2>4. /\ PendingExact'
        /\ schedule'.pending \in
             PendingType \cup {NoPending}
    <3>1. CASE schedule.pending = NoPending
      BY <1>1, <2>1, <3>1 DEF Edit
    <3>2. CASE schedule.pending # NoPending
      <4> DEFINE c == captureOf[schedule.pending.attempt]
      <4>1. c \in Capture0 /\ c.total <= recorded /\ recorded - c.total \in Nat
        BY <3>2
      <4>2. recorded' - c.total = (recorded - c.total) + count
        BY <2>0, <4>1
      <4>3. Saturating(schedule.pending.post + count) = Saturating(recorded' - c.total)
        BY <2>0, <3>2, <4>1, <4>2, SaturatingFacts
      <4>4. Saturating(schedule.pending.post + count) \in Nat
        <5>1. schedule.pending.post \in Nat /\ schedule.pending.post + count \in Nat
          BY <2>0, <3>2
        <5> QED
          BY <5>1, SaturatingFacts, 0 \in Nat
      <4>5. /\ schedule'.pending.attempt = schedule.pending.attempt
            /\ schedule'.pending.at = schedule.pending.at
            /\ schedule'.pending.captured = schedule.pending.captured
            /\ schedule'.pending.post = Saturating(schedule.pending.post + count)
            /\ schedule'.pending \in
                 PendingType
        BY <2>1, <3>2, <4>4
      <4>6. UNCHANGED <<clock, captureOf, covered>>
        BY <1>1 DEF Edit
      <4> QED
        BY <2>0, <3>2, <4>1, <4>3, <4>5, <4>6
    <3> QED
      BY <3>1, <3>2
  <2> QED
    BY <1>1, <2>0, <2>1, <2>2, <2>3, <2>4 DEF Edit
<1>2. ASSUME Pass PROVE ScheduleInv'
  BY <1>2 DEF Pass
<1>3. ASSUME NEW a \in Identity, Capture(a) PROVE ScheduleInv'
  <2>1. /\ schedule'.pending = [attempt |-> a, at |-> clock,
                                captured |-> schedule.edits, post |-> 0]
        /\ schedule'.edits = schedule.edits
        /\ schedule'.baseline = schedule.baseline
        /\ schedule'.retryDue = schedule.retryDue
        /\ schedule' = [baseline |-> schedule'.baseline, edits |-> schedule'.edits,
                        pending |-> schedule'.pending,
                        retryDue |-> schedule'.retryDue]
    BY <1>3 DEF Capture, Queued
  <2>2. captureOf'[a] = [total |-> recorded, at |-> clock] /\ a \in DOMAIN captureOf'
    BY <1>3 DEF Capture
  <2>3. recorded - recorded = 0 /\ Saturating(0) = 0
    BY SaturatingFacts, 0 \in Nat
  <2> QED
    BY <1>3, <2>1, <2>2, <2>3 DEF Capture
<1>4. ASSUME NEW a \in Identity, NEW kind \in Kind, NEW outcome \in Outcome,
             ApplyReceipt(a, kind, outcome)
      PROVE  ScheduleInv'
  <2> DEFINE answer == [attempt |-> a, kind |-> kind, outcome |-> outcome]
  <2>0. UNCHANGED <<clock, recorded, captureOf>> /\ schedule' = Applied(schedule, answer)
    BY <1>4 DEF ApplyReceipt
  <2>1. CASE ~Matches(schedule, answer)
    <3>1. UNCHANGED <<covered, missed, schedule>>
      BY <1>4, <2>0, <2>1 DEF ApplyReceipt, Matches, Applied
    <3> QED
      BY <2>0, <3>1
  <2>2. CASE Matches(schedule, answer) /\ outcome # "persisted"
    <3>1. missed' = TRUE /\ UNCHANGED covered
      BY <1>4, <2>2 DEF ApplyReceipt, Matches
    <3>2. schedule' = [schedule EXCEPT !.pending = NoPending, !.retryDue = TRUE]
      BY <2>0, <2>2 DEF Applied
    <3> QED
      BY <2>0, <3>1, <3>2
  <2>3. CASE Matches(schedule, answer) /\ outcome = "persisted"
    <3> DEFINE c == captureOf[a]
    <3>1. schedule.pending # NoPending /\ schedule.pending.attempt = a
      BY <2>3 DEF Matches
    <3>2. missed' = FALSE /\ covered' = c
      BY <1>4, <2>3, <3>1 DEF ApplyReceipt, Matches
    <3>3. schedule' = [baseline |-> schedule.pending.at, edits |-> Remaining(schedule),
                       pending |-> NoPending, retryDue |-> FALSE]
      BY <2>0, <2>3 DEF Applied
    <3>4. /\ c \in Capture0 /\ c.at = schedule.pending.at /\ c.at <= clock
          /\ covered.total <= c.total /\ c.total <= recorded
          /\ c.total - covered.total \in Nat /\ recorded - c.total \in Nat
          /\ schedule.pending.captured = Saturating(c.total - covered.total)
          /\ schedule.pending.post = Saturating(recorded - c.total)
      BY <3>1
    <3> DEFINE before == c.total - covered.total
               after == recorded - c.total
    <3>5. before \in Nat /\ after \in Nat /\ recorded - covered.total = before + after
      BY <3>4
    <3>6. /\ schedule.edits = Saturating(before + after)
          /\ schedule.pending.captured = Saturating(before)
          /\ schedule.pending.post = Saturating(after)
      BY <3>4, <3>5
    <3>7. Remaining(schedule) = Saturating(after) /\ Saturating(after) \in Nat
      <4> HIDE DEF before, after
      <4>1. Remaining(schedule) =
              Larger(SaturatingSub(Saturating(before + after), Saturating(before)),
                     Saturating(after))
        BY <3>6 DEF Remaining
      <4> QED
        BY <3>5, <4>1, SaturatingFacts
    <3>8. schedule' \in ScheduleType
      BY <3>1, <3>3, <3>7
    <3>9. schedule'.retryDue = missed'
      <4>1. schedule'.retryDue = FALSE
        BY <3>3
      <4> QED
        BY <3>2, <4>1, Zenon
    <3>10. missed' \in BOOLEAN
      BY <3>2
    <3>11. CountExact' /\ PendingExact'
      BY <2>0, <3>2, <3>3, <3>7
    <3>12. /\ covered' \in Capture0 /\ covered'.total <= recorded' /\ covered'.at <= clock'
           /\ schedule'.baseline = covered'.at
      BY <2>0, <3>2, <3>3, <3>4
    <3> QED
      BY <2>0, <3>8, <3>9, <3>10, <3>11, <3>12
  <2> QED
    BY <2>1, <2>2, <2>3
<1>5. CASE UNCHANGED vars
  BY <1>5 DEF vars
<1> QED
  BY <1>1, <1>2, <1>3, <1>4, <1>5 DEF Next

(* What the schedule counts is always the exact number, saturated. *)
THEOREM CountAlwaysExact == Spec => []CountExact
<1>1. ScheduleInv => CountExact
  BY DEF ScheduleInv
<1> QED
  BY <1>1, InitExact, NextExact, PTL DEF Spec

(* Saturation never hides a due checkpoint and never invents one. *)
THEOREM DueAlwaysExact == Spec => []DueExactly
<1>1. ScheduleInv => DueExactly
  <2> SUFFICES ASSUME ScheduleInv PROVE DueExactly
    OBVIOUS
  <2> USE DEF ScheduleInv, ScheduleTypeOK, ScheduleType, PendingType, Capture0
  <2>1. schedule.edits >= Threshold <=> recorded - covered.total >= Threshold
    <3> DEFINE n == recorded - covered.total
    <3>1. n \in Nat /\ schedule.edits = Saturating(n)
      BY DEF CountExact
    <3> HIDE DEF n
    <3>2. Saturating(n) >= Threshold <=> n >= Threshold
      BY <3>1, SaturatingFacts, 0 \in Nat
    <3> QED
      BY <3>1, <3>2 DEF n
  <2>2. SaturatingSub(clock, schedule.baseline) >= Interval
            <=> clock - covered.at >= Interval
    BY ScheduleAssumption DEF SaturatingSub
  <2> QED
    BY <2>1, <2>2 DEF DueExactly, IsDue
<1> QED
  BY <1>1, InitExact, NextExact, PTL DEF Spec
=============================================================================
