------------------------- MODULE LanguageServiceProofs -------------------------
(***************************************************************************)
(* Nothing stale is shown, no server runs beside a command, and nobody     *)
(* waits for an answer that will not come, however long, in whatever order *)
(* and in however many pieces server, editor and user act.                 *)
(*                                                                         *)
(* One poll handles any number of messages, so what it does is followed by *)
(* induction over them.  Induction is by the least counterexample: natural *)
(* numbers are well-founded (WellFoundedInduction), and that states it     *)
(* about sets, which the provers can instantiate.                          *)
(***************************************************************************)
EXTENDS LanguageService, FiniteSetTheorems, WellFoundedInduction, TLAPS

-----------------------------------------------------------------------------
(* What everything is. *)
Text == [id : Nat, version : Nat]
Texts == Text \cup {None}
Id == {"initialize", "reload", "completion"} \X Nat
Outgoing == [kind : {"request"}, id : Id] \cup [kind : {"text"}, text : Texts]
Incoming == [kind : {"answer"}, id : Id, ok : BOOLEAN, of : Texts]
              \cup [kind : {"hints"}, of : Text]
Job == [id : Id, of : Texts]
Server == [text : Texts, jobs : SUBSET Job]
Live == [in : Seq(Incoming), server : Server]
Wire == [in : Seq(Incoming), server : Server \cup {None}]
Context == [seq : Nat, document : Text, generation : Nat]
Protocol == [state : {"initializing", "ready"}, outbox : Seq(Outgoing),
             pending : SUBSET {One("initialize"), One("reload")},
             asked : SUBSET Context, synced : Texts]
Down == {"resolving", "doubtful", "resolved", "pending", "backoff", "unavailable", "stopped"}
DownService == [state : Down, generation : Nat, retries : Nat, uncertain : BOOLEAN,
                protocol : {None}]
UpService == [state : {"running"}, generation : Nat, retries : Nat, uncertain : BOOLEAN,
              protocol : Protocol]
Service == UpService \cup DownService
Hints == [id : Nat, version : Nat, of : Text]
Ui == [pending : Context \cup {None}, list : [context : Context, of : Text] \cup {None},
       auto : SUBSET [id : Nat, seq : Nat, deferred : BOOLEAN],
       hints : Hints \cup {None}, generation : Nat \cup {None}]
Session == [ui : Ui, service : Service, sequence : Nat]

(* A text never comes back: identities and versions only grow. *)
NotBefore(a, t) == t = None \/ t.id > a.id \/ (t.id = a.id /\ t.version >= a.version)
Now == [document |-> document, created |-> created]
Past(now, t) ==
    /\ t \in Text /\ t.id <= now.created
    /\ now.document # None /\ t.id = now.document.id => t.version <= now.document.version

DocumentOK ==
    /\ document \in Texts /\ created \in Nat
    /\ document # None => document.id = created

-----------------------------------------------------------------------------
(***************************************************************************)
(* The traffic of a running server.  Whatever it says of a text it has     *)
(* from the stream of texts sent to it, which ends with the document last  *)
(* synchronised and at no point from a request on goes back behind the     *)
(* text the request was about.                                             *)
(***************************************************************************)
Known(now, p, t) == t = None \/ (Past(now, t) /\ (p.synced # None => t.id <= p.synced.id))
Numbered(id, n) == id[1] = "completion" => id[2] <= n

Sent(now, p, w) ==
    /\ TextAt(w.server, p.outbox, Len(p.outbox)) = p.synced
    /\ Known(now, p, w.server.text)
    /\ \A i \in DOMAIN p.outbox : p.outbox[i].kind = "text" => Known(now, p, p.outbox[i].text)
    /\ \A job \in w.server.jobs : Known(now, p, job.of)
    /\ \A i \in DOMAIN w.in : Known(now, p, w.in[i].of)

Counted(p, w, n) ==
    /\ \A i \in DOMAIN p.outbox : p.outbox[i].kind = "request" => Numbered(p.outbox[i].id, n)
    /\ \A job \in w.server.jobs : Numbered(job.id, n)
    /\ \A i \in DOMAIN w.in : w.in[i].kind = "answer" => Numbered(w.in[i].id, n)

(* What is known of one request that is not answered yet. *)
Followed(r, p, w) ==
    /\ \A i \in DOMAIN p.outbox : p.outbox[i] = Request(Completion(r.seq)) =>
        \A j \in i .. Len(p.outbox) : NotBefore(r.document, TextAt(w.server, p.outbox, j))
    /\ \A job \in w.server.jobs : job.id = Completion(r.seq) =>
        /\ NotBefore(r.document, job.of)
        /\ \A j \in 0 .. Len(p.outbox) : NotBefore(r.document, TextAt(w.server, p.outbox, j))
    /\ \A i \in DOMAIN w.in : w.in[i].kind = "answer" /\ w.in[i].id = Completion(r.seq) =>
        NotBefore(r.document, w.in[i].of)

Asked(now, p, n) == \A r \in p.asked : r.seq <= n /\ Past(now, r.document)

Flows(now, p, w, n) ==
    Sent(now, p, w) /\ Counted(p, w, n) /\ \A r \in p.asked : Followed(r, p, w)

Stream(now, p, w, n) == Asked(now, p, n) /\ (w.server # None => Flows(now, p, w, n))

-----------------------------------------------------------------------------
(***************************************************************************)
(* The session, with answers that a poll has received and not yet used.    *)
(***************************************************************************)
Shows(u) ==
    /\ u.list # None => u.list.of = u.list.context.document
    /\ u.hints # None => u.hints.of.id <= u.hints.id /\ u.hints.of.version = u.hints.version
    /\ \A a, b \in u.auto : a.id = b.id => a = b

Fresh == {"resolving", "doubtful", "resolved", "pending"}

Waits(now, z, answers) ==
    LET context == z.ui.pending IN
    context # None =>
        /\ context.seq <= z.sequence /\ context.generation <= z.service.generation
        /\ z.service.state \in Fresh => context.generation < z.service.generation
        /\ z.service.state = "running" =>
            /\ \A r \in z.service.protocol.asked : r.seq = context.seq => r = context
            /\ context.generation = z.service.generation =>
                \/ context \in z.service.protocol.asked
                \/ \E r \in answers : r.seq = context.seq
        /\ z.service.state = "running" /\ context.generation = z.service.generation =>
            \A r \in answers : r.seq = context.seq /\ r.of # None =>
                Past(now, r.of) /\ NotBefore(context.document, r.of)

Confined(s, servers) ==
    /\ s.uncertain => s.state \in {"unavailable", "stopped"}
    /\ command => servers = {} /\ s.state = "stopped"
    /\ \A g \in servers : (s.state = "running" /\ g = s.generation) \/ s.uncertain
    /\ \A g, h \in servers : g = h

Good(now, z, w, answers) ==
    /\ z \in Session /\ w \in Wire
    /\ Shows(z.ui) /\ Waits(now, z, answers)
    /\ z.service.state = "running" => Stream(now, z.service.protocol, w, z.sequence)

Inv ==
    /\ modal \in BOOLEAN /\ command \in BOOLEAN /\ DocumentOK
    /\ Good(Now, Z, wire, {}) /\ Confined(service, alive)

-----------------------------------------------------------------------------
(* Induction, as a fact about sets of natural numbers. *)
LEMMA LeastNatural ==
    ASSUME NEW T \in SUBSET Nat, T # {}
    PROVE  \E n \in T : \A m \in T : n <= m
<1> DEFINE R == {ss \in Nat \X Nat : ss[1] < ss[2]}
<1>1. IsWellFoundedOn(R, Nat)
  BY NatLessThanWellFounded, SMT DEF OpToRel
<1>2. PICK n \in T : \A m \in T : <<m, n>> \notin R
  <2>. HIDE DEF R
  <2>. QED BY <1>1, WFMin, Zenon
<1>3. \A m \in T : ~(m < n)
  BY <1>2
<1>. QED BY <1>2, <1>3

LEMMA Induct ==
    ASSUME NEW T \in SUBSET Nat, 0 \in T, \A n \in T : n + 1 \in T
    PROVE  T = Nat
<1> DEFINE U == Nat \ T
<1>1. ASSUME U # {} PROVE FALSE
  <2>1. PICK n \in U : \A m \in U : n <= m
    BY <1>1, LeastNatural
  <2>2. n # 0 /\ n - 1 \in Nat /\ n - 1 \notin U
    BY <2>1
  <2>3. (n - 1) + 1 \in T
    BY <2>2
  <2>. QED BY <2>1, <2>2, <2>3
<1>. QED BY <1>1

-----------------------------------------------------------------------------
(* The text of the server after i messages, one message at a time. *)
LEMMA TextAtStart ==
    ASSUME NEW server, NEW outbox PROVE TextAt(server, outbox, 0) = server.text
BY DEF TextAt

LEMMA TextAtStep ==
    ASSUME NEW server, NEW outbox, NEW i \in Nat \ {0}
    PROVE  TextAt(server, outbox, i) =
             IF outbox[i].kind = "text" THEN outbox[i].text
             ELSE TextAt(server, outbox, i - 1)
<1> DEFINE texts(k) == {j \in 1 .. k : outbox[j].kind = "text"}
<1>1. CASE outbox[i].kind = "text"
  <2>1. i \in texts(i) /\ \A j \in texts(i) : j <= i
    BY <1>1
  <2>2. \A k \in texts(i) : (\A j \in texts(i) : k >= j) => k = i
    BY <2>1
  <2>3. Max(texts(i)) = i
    BY <2>1, <2>2 DEF Max
  <2>. QED BY <1>1, <2>1, <2>3 DEF TextAt
<1>2. CASE outbox[i].kind # "text"
  <2>1. texts(i) = texts(i - 1)
    BY <1>2
  <2>. QED BY <1>2, <2>1 DEF TextAt
<1>. QED BY <1>1, <1>2

LEMMA OnlyTextMatters ==
    ASSUME NEW server, NEW other, other.text = server.text
    PROVE  \A outbox, i : TextAt(other, outbox, i) = TextAt(server, outbox, i)
BY DEF TextAt

LEMMA SameTextAt ==
    ASSUME NEW server, NEW outbox, NEW longer, NEW n \in Nat,
           \A j \in 1 .. n : longer[j] = outbox[j]
    PROVE  \A i \in 0 .. n : TextAt(server, longer, i) = TextAt(server, outbox, i)
<1> DEFINE T == {i \in Nat : i <= n => TextAt(server, longer, i) = TextAt(server, outbox, i)}
<1>1. 0 \in T
  BY TextAtStart
<1>2. ASSUME NEW i \in T PROVE i + 1 \in T
  <2>1. SUFFICES ASSUME i + 1 <= n
                 PROVE  TextAt(server, longer, i + 1) = TextAt(server, outbox, i + 1)
    BY DEF T
  <2>2. longer[i + 1] = outbox[i + 1] /\ (i + 1) - 1 = i
    BY <2>1
  <2>3. TextAt(server, longer, i) = TextAt(server, outbox, i)
    BY <2>1
  <2>. QED BY <2>2, <2>3, TextAtStep
<1>3. T = Nat
  <2>. HIDE DEF T
  <2>1. T \subseteq Nat
    BY DEF T
  <2>. QED BY <1>1, <1>2, <2>1, Induct
<1>. QED BY <1>3

LEMMA TextAtSource ==
    ASSUME NEW server, NEW outbox
    PROVE  \A i \in Nat :
             \/ TextAt(server, outbox, i) = server.text
             \/ \E j \in 1 .. i : /\ outbox[j].kind = "text"
                               /\ TextAt(server, outbox, i) = outbox[j].text
<1> DEFINE Somewhere(i) ==
             \/ TextAt(server, outbox, i) = server.text
             \/ \E j \in 1 .. i : /\ outbox[j].kind = "text"
                               /\ TextAt(server, outbox, i) = outbox[j].text
           T == {i \in Nat : Somewhere(i)}
<1>1. 0 \in T
  BY TextAtStart
<1>2. ASSUME NEW i \in T PROVE i + 1 \in T
  <2>1. i \in Nat /\ (i + 1) - 1 = i /\ i + 1 \in Nat \ {0}
    OBVIOUS
  <2>2. CASE outbox[i + 1].kind = "text"
    <3>1. TextAt(server, outbox, i + 1) = outbox[i + 1].text
      BY <2>1, <2>2, TextAtStep
    <3>. QED BY <2>1, <2>2, <3>1
  <2>3. CASE outbox[i + 1].kind # "text"
    <3>1. TextAt(server, outbox, i + 1) = TextAt(server, outbox, i)
      BY <2>1, <2>3, TextAtStep
    <3>. QED BY <2>1, <3>1
  <2>. QED BY <2>2, <2>3
<1>3. T = Nat
  <2>. HIDE DEF T
  <2>1. T \subseteq Nat
    BY DEF T
  <2>. QED BY <1>1, <1>2, <2>1, Induct
<1>. QED BY <1>3

LEMMA TextAtType ==
    ASSUME NEW server \in Server, NEW outbox \in Seq(Outgoing)
    PROVE  \A i \in 0 .. Len(outbox) : TextAt(server, outbox, i) \in Texts
<1> SUFFICES ASSUME NEW i \in 0 .. Len(outbox) PROVE TextAt(server, outbox, i) \in Texts
  OBVIOUS
<1>1. server.text \in Texts
  BY DEF Server
<1>2. \A j \in 1 .. i : outbox[j] \in Outgoing
  OBVIOUS
<1>3. \A j \in 1 .. i : outbox[j].kind = "text" => outbox[j].text \in Texts
  BY <1>2 DEF Outgoing
<1>. QED BY <1>1, <1>3, TextAtSource

LEMMA TextAtKnown ==
    ASSUME NEW p \in Protocol, NEW w \in Live, Sent(Now, p, w)
    PROVE  \A i \in 0 .. Len(p.outbox) : Known(Now, p, TextAt(w.server, p.outbox, i))
<1> SUFFICES ASSUME NEW i \in 0 .. Len(p.outbox)
             PROVE  Known(Now, p, TextAt(w.server, p.outbox, i))
  OBVIOUS
<1>1. p.outbox \in Seq(Outgoing)
  BY DEF Protocol
<1>2. \A j \in 1 .. i : j \in DOMAIN p.outbox
  BY <1>1
<1>. QED BY <1>1, <1>2, TextAtSource DEF Sent

(* A message more. *)
LEMMA TextAtAppend ==
    ASSUME NEW server, NEW outbox \in Seq(Outgoing), NEW m \in Outgoing
    PROVE  /\ \A i \in 0 .. Len(outbox) :
                TextAt(server, Append(outbox, m), i) = TextAt(server, outbox, i)
           /\ TextAt(server, Append(outbox, m), Len(outbox) + 1) =
                IF m.kind = "text" THEN m.text ELSE TextAt(server, outbox, Len(outbox))
<1> DEFINE longer == Append(outbox, m)
<1>0. Len(outbox) \in Nat /\ longer \in Seq(Outgoing) /\ Len(longer) = Len(outbox) + 1
  OBVIOUS
<1>1. \A j \in 1 .. Len(outbox) : longer[j] = outbox[j]
  OBVIOUS
<1>2. \A i \in 0 .. Len(outbox) : TextAt(server, longer, i) = TextAt(server, outbox, i)
  <2> DEFINE n == Len(outbox)
  <2>1. n \in Nat /\ \A j \in 1 .. n : longer[j] = outbox[j]
    BY <1>0, <1>1
  <2>. HIDE DEF longer, n
  <2>2. \A i \in 0 .. n : TextAt(server, longer, i) = TextAt(server, outbox, i)
    BY <2>1, SameTextAt, Zenon
  <2>. QED BY <2>2 DEF n
<1>3. longer[Len(outbox) + 1] = m /\ (Len(outbox) + 1) - 1 = Len(outbox)
  OBVIOUS
<1>4. TextAt(server, longer, Len(outbox) + 1) =
        IF m.kind = "text" THEN m.text ELSE TextAt(server, longer, Len(outbox))
  <2>. HIDE DEF longer
  <2>. QED BY <1>0, <1>3, TextAtStep
<1>. QED BY <1>0, <1>2, <1>4

-----------------------------------------------------------------------------
(* Protocol::poll, part by part: what is known of the stream stays known. *)
LEMMA FlushKeeps ==
    ASSUME NEW p \in Protocol, NEW w \in Live, NEW n \in Nat, Flows(Now, p, w, n)
    PROVE  /\ Flush(p, w).p \in Protocol /\ Flush(p, w).w \in Live
           /\ Flush(p, w).p = [p EXCEPT !.outbox = Flush(p, w).p.outbox]
           /\ Flush(p, w).w.in = w.in
           /\ Flows(Now, Flush(p, w).p, Flush(p, w).w, n)
<1>1. CASE ~(WritesAllowed /\ w.server # None)
  <2>1. Flush(p, w) = [p |-> p, w |-> w]
    BY <1>1 DEF Flush
  <2>. QED BY <2>1 DEF Protocol
<1>2. CASE WritesAllowed /\ w.server # None
  <2> DEFINE outbox == p.outbox
             L == Len(outbox)
             server == ReadAll(w.server, outbox)
             q == [p EXCEPT !.outbox = <<>>]
             v == [w EXCEPT !.server = server]
             asks == {j \in DOMAIN outbox : outbox[j].kind = "request"}
  <2>1. Flush(p, w) = [p |-> q, w |-> v]
    BY <1>2 DEF Flush
  <2>2. /\ outbox \in Seq(Outgoing) /\ L \in Nat /\ w.server \in Server
        /\ \A i \in DOMAIN outbox : outbox[i] \in Outgoing /\ i \in 1 .. L
    BY DEF Protocol, Live
  <2>3. \A i \in 0 .. L : /\ TextAt(w.server, outbox, i) \in Texts
                          /\ Known(Now, p, TextAt(w.server, outbox, i))
    BY <2>2, TextAtType, TextAtKnown DEF Flows
  <2>4. /\ server.text = TextAt(w.server, outbox, L)
        /\ server.jobs = w.server.jobs \cup
             {[id |-> outbox[i].id, of |-> TextAt(w.server, outbox, i)] : i \in asks}
    BY DEF ReadAll
  <2>5. \A i \in asks : i \in 1 .. L /\ outbox[i].id \in Id
                        /\ outbox[i] = Request(outbox[i].id)
    BY <2>2 DEF Outgoing, Request
  <2>6. server \in Server
    <3>1. \A i \in asks : [id |-> outbox[i].id, of |-> TextAt(w.server, outbox, i)] \in Job
      BY <2>3, <2>5 DEF Job
    <3>2. server.jobs \subseteq Job /\ server.text \in Texts
      BY <2>2, <2>3, <2>4, <3>1 DEF Server
    <3>. QED BY <3>2 DEF Server, ReadAll
  <2>7. q \in Protocol /\ v \in Live /\ v.in = w.in /\ v.server = server
    <3>. HIDE DEF server
    <3>1. <<>> \in Seq(Outgoing)
      OBVIOUS
    <3>. QED BY <2>6, <3>1 DEF Protocol, Live
  <2>8. q = [p EXCEPT !.outbox = q.outbox]
    BY DEF Protocol
  <2>9. /\ q.outbox = <<>> /\ Len(q.outbox) = 0 /\ DOMAIN q.outbox = {}
        /\ q.synced = p.synced /\ q.asked = p.asked
    BY DEF Protocol
  <2>10. TextAt(v.server, q.outbox, 0) = TextAt(w.server, outbox, L)
    BY <2>4, <2>7, TextAtStart
  <2>11. \A text : Known(Now, q, text) <=> Known(Now, p, text)
    BY <2>9 DEF Known
  <2>. HIDE DEF server, q, v
  <2>12. ASSUME NEW job \in v.server.jobs
         PROVE  \/ job \in w.server.jobs
                \/ \E i \in asks : /\ job.id = outbox[i].id
                                   /\ job.of = TextAt(w.server, outbox, i)
    BY <2>4, <2>7
  <2>13. Sent(Now, q, v)
    <3>1. Known(Now, q, v.server.text)
      BY <2>2, <2>3, <2>4, <2>7, <2>11
    <3>2. \A job \in v.server.jobs : Known(Now, q, job.of)
      BY <2>3, <2>5, <2>11, <2>12 DEF Flows, Sent
    <3>3. \A i \in DOMAIN v.in : Known(Now, q, v.in[i].of)
      BY <2>7, <2>11 DEF Flows, Sent
    <3>4. TextAt(v.server, q.outbox, Len(q.outbox)) = q.synced
      BY <2>9, <2>10 DEF Flows, Sent
    <3>. QED BY <2>9, <3>1, <3>2, <3>3, <3>4 DEF Sent
  <2>14. Counted(q, v, n)
    <3>1. \A job \in v.server.jobs : Numbered(job.id, n)
      BY <2>12 DEF Flows, Counted
    <3>. QED BY <2>7, <2>9, <3>1 DEF Flows, Counted
  <2>15. ASSUME NEW r \in q.asked PROVE Followed(r, q, v)
    <3>1. Followed(r, p, w)
      BY <2>9 DEF Flows
    <3>2. ASSUME NEW job \in v.server.jobs, job.id = Completion(r.seq)
          PROVE  /\ NotBefore(r.document, job.of)
                 /\ NotBefore(r.document, TextAt(w.server, outbox, L))
      <4>1. CASE job \in w.server.jobs
        BY <2>2, <3>1, <3>2, <4>1 DEF Followed
      <4>2. CASE \E i \in asks : /\ job.id = outbox[i].id
                                 /\ job.of = TextAt(w.server, outbox, i)
        <5>1. PICK i \in asks : job.id = outbox[i].id /\ job.of = TextAt(w.server, outbox, i)
          BY <4>2
        <5>2. outbox[i] = Request(Completion(r.seq)) /\ i \in 1 .. L /\ i \in DOMAIN outbox
          BY <2>5, <3>2, <5>1
        <5>. QED BY <2>2, <3>1, <5>1, <5>2 DEF Followed
      <4>. QED BY <2>12, <4>1, <4>2
    <3>3. \A j \in 0 .. Len(q.outbox) : j = 0
      BY <2>9
    <3>4. \A i \in DOMAIN v.in : v.in[i].kind = "answer" /\ v.in[i].id = Completion(r.seq) =>
            NotBefore(r.document, v.in[i].of)
      BY <2>7, <3>1 DEF Followed
    <3>. QED BY <2>9, <2>10, <3>2, <3>3, <3>4 DEF Followed
  <2>. QED BY <2>1, <2>7, <2>8, <2>13, <2>14, <2>15 DEF Flows
<1>. QED BY <1>1, <1>2

(* What a poll has in hand: p is the protocol it began with. *)
Honest(now, asked, r) ==
    \E q \in asked : /\ q.seq = r.seq
                     /\ r.of # None => Past(now, r.of) /\ NotBefore(q.document, r.of)

Response == [seq : Nat, of : Texts]
Hand == [p : Protocol, responses : SUBSET Response, hints : Hints \cup {None}, ok : BOOLEAN]

Handled(now, x, p) ==
    /\ x \in Hand
    /\ x.p.asked \subseteq p.asked
    /\ \A r \in x.responses : Honest(now, p.asked, r)
    /\ \A q \in p.asked : q \in x.p.asked \/ \E r \in x.responses : r.seq = q.seq
    /\ x.hints # None =>
        x.hints.of.id <= x.hints.id /\ x.hints.of.version = x.hints.version

LEMMA SameStream ==
    ASSUME NEW p, NEW q, NEW w, NEW n, Flows(Now, p, w, n),
           q.outbox = p.outbox, q.synced = p.synced, q.asked \subseteq p.asked
    PROVE  Flows(Now, q, w, n)
<1>1. \A text : Known(Now, q, text) <=> Known(Now, p, text)
  BY DEF Known
<1>2. Sent(Now, q, w)
  BY <1>1 DEF Flows, Sent
<1>3. Counted(q, w, n)
  BY DEF Flows, Counted
<1>4. \A r \in q.asked : Followed(r, q, w)
  BY DEF Flows, Followed
<1>. QED BY <1>2, <1>3, <1>4 DEF Flows

LEMMA AnsweredKeeps ==
    ASSUME NEW p, NEW x, NEW w \in Live, NEW n \in Nat, NEW due, NEW i \in DOMAIN w.in,
           Handled(Now, x, p), Flows(Now, x.p, w, n), w.in[i].kind = "answer"
    PROVE  LET y == Answered(x, w.in[i], due) IN Handled(Now, y, p) /\ Flows(Now, y.p, w, n)
<1> DEFINE m == w.in[i]
           asked == {r \in x.p.asked : Completion(r.seq) = m.id}
           y == [x EXCEPT !.p.asked = @ \ asked, !.p.pending = @ \ {m.id}]
           ok == m.ok /\ m.id \notin due
<1>1. m \in Incoming /\ m.of \in Texts
  <2>1. m \in Incoming
    BY DEF Live
  <2>. QED BY <2>1 DEF Incoming, Texts
<1>2. x \in Hand /\ x.p \in Protocol
  BY DEF Handled, Hand
<1>3. /\ y \in Hand /\ y.p.outbox = x.p.outbox /\ y.p.synced = x.p.synced
      /\ y.p.asked = x.p.asked \ asked
      /\ y.responses = x.responses /\ y.hints = x.hints
  <2>. HIDE DEF m, asked
  <2>. QED BY <1>2 DEF Hand, Protocol
<1>4. CASE asked # {}
  <2> DEFINE r == CHOOSE r \in asked : TRUE
             of == IF ok THEN m.of ELSE None
             z == Respond(y, r, of)
  <2>1. r \in asked /\ r \in x.p.asked /\ Completion(r.seq) = m.id
    BY <1>4
  <2>2. Answered(x, m, due) = z
    BY <1>4 DEF Answered
  <2>3. r \in Context /\ of \in Texts
    BY <1>1, <1>2, <2>1 DEF Protocol, Texts
  <2>. HIDE DEF r, of, y
  <2>4. /\ z = [y EXCEPT !.responses = y.responses \cup {[seq |-> r.seq, of |-> of]}]
    BY DEF Respond
  <2>. HIDE DEF z
  <2>5. /\ z \in Hand /\ z.p = y.p /\ z.hints = y.hints
        /\ z.responses = x.responses \cup {[seq |-> r.seq, of |-> of]}
    BY <1>3, <2>3, <2>4 DEF Hand, Response, Context
  <2>6. ASSUME of # None PROVE Past(Now, of) /\ NotBefore(r.document, of)
    <3>1. of = m.of
      BY <2>6 DEF of
    <3>2. Past(Now, m.of)
      BY <2>6, <3>1 DEF Flows, Sent, Known
    <3>3. NotBefore(r.document, m.of)
      BY <2>1 DEF Flows, Followed
    <3>. QED BY <3>1, <3>2, <3>3
  <2>7. Honest(Now, p.asked, [seq |-> r.seq, of |-> of])
    BY <2>1, <2>6 DEF Honest, Handled
  <2>8. ASSUME NEW q \in asked PROVE q.seq = r.seq
    BY <2>1, <2>8 DEF Completion
  <2>9. Handled(Now, z, p)
    <3>1. z.p.asked \subseteq p.asked
      BY <1>3, <2>5 DEF Handled
    <3>2. \A s \in z.responses : Honest(Now, p.asked, s)
      BY <2>5, <2>7 DEF Handled
    <3>3. ASSUME NEW q \in p.asked
          PROVE  q \in z.p.asked \/ \E s \in z.responses : s.seq = q.seq
      <4>1. CASE q \in asked
        BY <2>5, <2>8, <4>1
      <4>2. CASE q \notin asked
        BY <1>3, <2>5, <4>2 DEF Handled
      <4>. QED BY <4>1, <4>2
    <3>. QED BY <1>3, <2>5, <3>1, <3>2, <3>3 DEF Handled
  <2>10. Flows(Now, z.p, w, n)
    BY <1>3, <2>5, SameStream
  <2>. QED BY <2>2, <2>9, <2>10
<1>5. CASE asked = {}
  <2>1. y.p.asked = x.p.asked
    BY <1>3, <1>5
  <2>2. Handled(Now, y, p) /\ Flows(Now, y.p, w, n)
    <3>. HIDE DEF y
    <3>1. Flows(Now, y.p, w, n)
      BY <1>3, <2>1, SameStream
    <3>. QED BY <1>3, <2>1, <3>1 DEF Handled
  <2>3. Handled(Now, [y EXCEPT !.ok = FALSE], p) /\ Flows(Now, [y EXCEPT !.ok = FALSE].p, w, n)
    <3>. HIDE DEF y
    <3>. QED BY <2>2 DEF Handled, Hand
  <2>4. /\ Handled(Now, [y EXCEPT !.p.state = "ready"], p)
        /\ Flows(Now, [y EXCEPT !.p.state = "ready"].p, w, n)
    <3>. HIDE DEF y
    <3> DEFINE z == [y EXCEPT !.p.state = "ready"]
    <3>1. /\ z \in Hand /\ z.p.outbox = y.p.outbox /\ z.p.synced = y.p.synced
          /\ z.p.asked = y.p.asked /\ z.responses = y.responses /\ z.hints = y.hints
      BY <1>3 DEF Hand, Protocol
    <3>. HIDE DEF z
    <3>2. Flows(Now, z.p, w, n)
      BY <2>2, <3>1, SameStream
    <3>3. Handled(Now, z, p)
      BY <2>2, <3>1 DEF Handled
    <3>. QED BY <3>2, <3>3 DEF z
  <2>5. Answered(x, m, due) \in {x, y, [y EXCEPT !.ok = FALSE], [y EXCEPT !.p.state = "ready"]}
    BY <1>5 DEF Answered
  <2>. QED BY <2>2, <2>3, <2>4, <2>5
<1>. QED BY <1>4, <1>5

LEMMA PublishedKeeps ==
    ASSUME NEW p, NEW x, NEW w \in Live, NEW n \in Nat, NEW i \in DOMAIN w.in,
           Handled(Now, x, p), Flows(Now, x.p, w, n), w.in[i].kind # "answer"
    PROVE  LET y == Published(x, w.in[i]) IN Handled(Now, y, p) /\ Flows(Now, y.p, w, n)
<1> DEFINE m == w.in[i]
           old == x.p.synced
           hints == [id |-> old.id, version |-> m.of.version, of |-> m.of]
           y == [x EXCEPT !.hints = hints]
<1>1. CASE old # None /\ old.version = m.of.version
  <2>1. Published(x, m) = y
    BY <1>1 DEF Published
  <2>2. m \in Incoming
    BY DEF Live
  <2>3. m.of \in Text
    BY <2>2 DEF Incoming
  <2>4. x \in Hand /\ old \in Text
    BY <1>1 DEF Handled, Hand, Protocol, Texts
  <2>5. m.of.id <= old.id
    BY <1>1, <2>3, ServiceAssumption DEF Flows, Sent, Known, Text
  <2>6. hints \in Hints /\ hints.of.id <= hints.id /\ hints.of.version = hints.version
    BY <2>3, <2>4, <2>5 DEF Hints, Text
  <2>. HIDE DEF hints
  <2>7. /\ y \in Hand /\ y.p = x.p /\ y.responses = x.responses /\ y.hints = hints
    BY <2>4, <2>6 DEF Hand
  <2>. QED BY <2>1, <2>6, <2>7 DEF Handled
<1>2. CASE ~(old # None /\ old.version = m.of.version)
  <2>1. Published(x, m) = x
    BY <1>2 DEF Published
  <2>. QED BY <2>1
<1>. QED BY <1>1, <1>2

(* One message after the other: the function that HandleAll defines by     *)
(* recursion exists, and so does what its equation says.                   *)
Runs(after, x, messages, due) ==
    /\ HandleAll(x, messages, due) = after[Len(messages)]
    /\ after[0] = x
    /\ \A i \in 1 .. Len(messages) : after[i] = Handle(after[i - 1], messages[i], due)

LEMMA HandleAllRuns ==
    ASSUME NEW x, NEW messages, NEW due, Len(messages) \in Nat
    PROVE  \E after : Runs(after, x, messages, due)
<1> DEFINE L == Len(messages)
           Body(f) == [i \in 0 .. L |->
                         IF i = 0 THEN x ELSE Handle(f[i - 1], messages[i], due)]
           Upto(f, n) == \A i \in 0 .. n :
                            f[i] = IF i = 0 THEN x ELSE Handle(f[i - 1], messages[i], due)
           T == {n \in Nat : \E f : Upto(f, n)}
<1>1. 0 \in T
  <2>1. Upto([i \in {0} |-> x], 0)
    OBVIOUS
  <2>. QED BY <2>1
<1>2. ASSUME NEW n \in T PROVE n + 1 \in T
  <2>1. PICK f : Upto(f, n)
    OBVIOUS
  <2> DEFINE g == [i \in 0 .. n + 1 |->
                    IF i <= n THEN f[i] ELSE Handle(f[n], messages[n + 1], due)]
  <2>2. \A i \in 0 .. n : g[i] = f[i]
    OBVIOUS
  <2>3. g[n + 1] = Handle(f[n], messages[n + 1], due)
    OBVIOUS
  <2>. HIDE DEF g
  <2>4. ASSUME NEW i \in 0 .. n + 1
        PROVE  g[i] = IF i = 0 THEN x ELSE Handle(g[i - 1], messages[i], due)
    <3>1. CASE i = n + 1
      <4>1. i # 0 /\ i - 1 = n /\ g[n] = f[n]
        BY <2>2, <3>1
      <4>. QED BY <2>3, <3>1, <4>1
    <3>2. CASE i <= n
      <4>1. i = 0 \/ i - 1 \in 0 .. n
        BY <3>2
      <4>. QED BY <2>1, <2>2, <3>2, <4>1
    <3>. QED BY <3>1, <3>2
  <2>. QED BY <2>4
<1>3. L \in T
  <2>. HIDE DEF T
  <2>1. T \subseteq Nat
    BY DEF T
  <2>. QED BY <1>1, <1>2, <2>1, Induct
<1>4. PICK f : Upto(f, L)
  BY <1>3
<1> DEFINE g == [i \in 0 .. L |-> f[i]]
<1>5. g = Body(g)
  <2>1. ASSUME NEW i \in 0 .. L
        PROVE  f[i] = IF i = 0 THEN x ELSE Handle(g[i - 1], messages[i], due)
    <3>1. i = 0 \/ (i - 1 \in 0 .. L /\ g[i - 1] = f[i - 1])
      OBVIOUS
    <3>. QED BY <1>4, <3>1
  <2>. QED BY <2>1
<1> DEFINE after == CHOOSE h : h = Body(h)
<1>6. after = Body(after)
  <2>. HIDE DEF Body, g
  <2>. QED BY <1>5
<1>7. HandleAll(x, messages, due) = after[L]
  BY DEF HandleAll
<1>8. after[0] = x /\ \A i \in 1 .. L : after[i] = Handle(after[i - 1], messages[i], due)
  <2>. HIDE DEF after
  <2>1. \A i \in 0 .. L :
          after[i] = IF i = 0 THEN x ELSE Handle(after[i - 1], messages[i], due)
    BY <1>6
  <2>. QED BY <2>1
<1>. HIDE DEF after
<1>9. Runs(after, x, messages, due)
  BY <1>7, <1>8 DEF Runs
<1>. QED BY <1>9

LEMMA HandleAllStopped ==
    ASSUME NEW x, ~x.ok, NEW messages, NEW due, Len(messages) \in Nat
    PROVE  HandleAll(x, messages, due) = x
<1>1. PICK after : Runs(after, x, messages, due)
  BY HandleAllRuns
<1> DEFINE L == Len(messages)
           T == {i \in Nat : i <= L => after[i] = x}
<1>2. 0 \in T
  BY <1>1 DEF Runs
<1>3. ASSUME NEW i \in T PROVE i + 1 \in T
  <2>1. SUFFICES ASSUME i + 1 <= L PROVE after[i + 1] = x
    BY DEF T
  <2>2. i + 1 \in 1 .. L /\ (i + 1) - 1 = i /\ after[i] = x
    BY <2>1
  <2>3. after[i + 1] = Handle(x, messages[i + 1], due)
    BY <1>1, <2>2 DEF Runs
  <2>. QED BY <2>3 DEF Handle
<1>4. T = Nat
  <2>. HIDE DEF T
  <2>1. T \subseteq Nat
    BY DEF T
  <2>. QED BY <1>2, <1>3, <2>1, Induct
<1>. QED BY <1>1, <1>4 DEF Runs

LEMMA HandleAllKeeps ==
    ASSUME NEW p, NEW x, NEW w \in Live, NEW n \in Nat, NEW due, NEW k \in 0 .. Len(w.in),
           Handled(Now, x, p), Flows(Now, x.p, w, n)
    PROVE  LET y == HandleAll(x, SubSeq(w.in, 1, k), due)
           IN  Handled(Now, y, p) /\ Flows(Now, y.p, w, n)
<1> DEFINE messages == SubSeq(w.in, 1, k)
<1>1. /\ w.in \in Seq(Incoming) /\ Len(messages) = k /\ k \in Nat
      /\ \A i \in 1 .. k : messages[i] = w.in[i] /\ i \in DOMAIN w.in
  BY DEF Live
<1>. HIDE DEF messages
<1>0. PICK after : Runs(after, x, messages, due)
  <2>1. Len(messages) \in Nat
    BY <1>1
  <2>. QED BY <2>1, HandleAllRuns
<1>2. /\ HandleAll(x, messages, due) = after[k] /\ after[0] = x
      /\ \A i \in 1 .. k : after[i] = Handle(after[i - 1], messages[i], due)
  BY <1>1, <1>0 DEF Runs
<1> DEFINE Kept(y) == Handled(Now, y, p) /\ Flows(Now, y.p, w, n)
           T == {i \in Nat : i <= k => Kept(after[i])}
<1>3. 0 \in T
  BY <1>2
<1>4. ASSUME NEW i \in T PROVE i + 1 \in T
  <2>1. SUFFICES ASSUME i + 1 <= k PROVE Kept(after[i + 1])
    BY DEF T
  <2>2. i + 1 \in 1 .. k /\ (i + 1) - 1 = i /\ Kept(after[i])
    BY <2>1
  <2>3. after[i + 1] = Handle(after[i], w.in[i + 1], due) /\ i + 1 \in DOMAIN w.in
    BY <1>1, <1>2, <2>2
  <2>4. CASE ~after[i].ok
    BY <2>2, <2>3, <2>4 DEF Handle
  <2>5. CASE after[i].ok /\ w.in[i + 1].kind = "answer"
    <3>1. after[i + 1] = Answered(after[i], w.in[i + 1], due)
      BY <2>3, <2>5 DEF Handle
    <3>. QED BY <2>2, <2>3, <2>5, <3>1, AnsweredKeeps
  <2>6. CASE after[i].ok /\ w.in[i + 1].kind # "answer"
    <3>1. after[i + 1] = Published(after[i], w.in[i + 1])
      BY <2>3, <2>6 DEF Handle
    <3>. QED BY <2>2, <2>3, <2>6, <3>1, PublishedKeeps
  <2>. QED BY <2>4, <2>5, <2>6
<1>5. T = Nat
  <2>. HIDE DEF T
  <2>1. T \subseteq Nat
    BY DEF T
  <2>. QED BY <1>3, <1>4, <2>1, Induct
<1>6. Kept(after[k])
  BY <1>1, <1>5
<1>. QED BY <1>2, <1>6 DEF messages

(* The document as it is now is told to the server, or its closing. *)
Tells(p, text) == [p EXCEPT !.outbox = Append(@, Told(text)), !.synced = text]

LEMMA TellsKeeps ==
    ASSUME NEW p \in Protocol, NEW w \in Live, NEW n \in Nat, NEW text \in {None, document},
           DocumentOK, Asked(Now, p, n), Flows(Now, p, w, n)
    PROVE  LET q == Tells(p, text) IN q \in Protocol /\ Flows(Now, q, w, n)
<1> DEFINE q == Tells(p, text)
           L == Len(p.outbox)
<1>1. Told(text) \in Outgoing /\ Told(text).kind = "text" /\ Told(text).text = text
  BY DEF Told, Outgoing, DocumentOK, Texts
<1>2. p.outbox \in Seq(Outgoing) /\ L \in Nat
  BY DEF Protocol
<1>3. /\ q \in Protocol /\ q.outbox = Append(p.outbox, Told(text))
      /\ q.synced = text /\ q.asked = p.asked
  <2> DEFINE outbox == Append(p.outbox, Told(text))
  <2>1. outbox \in Seq(Outgoing)
    BY <1>1, <1>2
  <2>2. q = [p EXCEPT !.outbox = outbox, !.synced = text]
    BY DEF Tells
  <2>3. text \in Texts
    BY DEF DocumentOK, Texts
  <2>. HIDE DEF outbox, q
  <2>4. q \in Protocol /\ q.outbox = outbox /\ q.synced = text /\ q.asked = p.asked
    BY <2>1, <2>2, <2>3 DEF Protocol
  <2>. QED BY <2>4 DEF outbox
<1>4. /\ Len(q.outbox) = L + 1 /\ DOMAIN q.outbox = 1 .. L + 1
      /\ \A i \in 1 .. L : q.outbox[i] = p.outbox[i] /\ i \in DOMAIN p.outbox
      /\ q.outbox[L + 1] = Told(text)
  BY <1>2, <1>3
<1>5. /\ \A i \in 0 .. L : TextAt(w.server, q.outbox, i) = TextAt(w.server, p.outbox, i)
      /\ TextAt(w.server, q.outbox, L + 1) = text
  BY <1>1, <1>2, <1>3, TextAtAppend
<1>6. ASSUME NEW t, Known(Now, p, t) PROVE Known(Now, q, t)
  <2>1. CASE text = None
    BY <1>3, <1>6, <2>1 DEF Known
  <2>2. CASE text # None /\ t # None
    <3>1. Past(Now, t) /\ document.id = created /\ text = document
      BY <1>6, <2>2 DEF Known, DocumentOK
    <3>. QED BY <1>3, <3>1 DEF Known, Past, Now
  <2>. QED BY <2>1, <2>2 DEF Known
<1>7. text # None => Past(Now, text)
  BY DEF DocumentOK, Past, Now, Texts, Text
<1>8. Known(Now, q, text)
  <2>1. text # None => text.id \in Nat
    BY DEF DocumentOK, Texts, Text
  <2>. QED BY <1>3, <1>7, <2>1 DEF Known
<1>9. ASSUME NEW r \in p.asked PROVE NotBefore(r.document, text)
  <2>1. Past(Now, r.document)
    BY DEF Asked
  <2>. QED BY <2>1, <1>7 DEF NotBefore, Past, Now, DocumentOK, Text, Texts
<1>. HIDE DEF q
<1>10. Sent(Now, q, w)
  <2>1. TextAt(w.server, q.outbox, Len(q.outbox)) = q.synced
    BY <1>3, <1>4, <1>5
  <2>2. ASSUME NEW i \in DOMAIN q.outbox, q.outbox[i].kind = "text"
        PROVE  Known(Now, q, q.outbox[i].text)
    <3>1. CASE i = L + 1
      BY <1>1, <1>4, <1>8, <3>1
    <3>2. CASE i \in 1 .. L
      BY <1>4, <1>6, <2>2, <3>2 DEF Flows, Sent
    <3>. QED BY <1>2, <1>4, <3>1, <3>2
  <2>. QED BY <1>6, <2>1, <2>2 DEF Flows, Sent
<1>11. Counted(q, w, n)
  <2>1. ASSUME NEW i \in DOMAIN q.outbox, q.outbox[i].kind = "request"
        PROVE  Numbered(q.outbox[i].id, n)
    <3>1. i \in 1 .. L
      BY <1>1, <1>2, <1>4, <2>1
    <3>. QED BY <1>4, <2>1, <3>1 DEF Flows, Counted
  <2>. QED BY <2>1 DEF Flows, Counted
<1>12. ASSUME NEW r \in q.asked PROVE Followed(r, q, w)
  <2>1. r \in p.asked /\ Followed(r, p, w)
    BY <1>3 DEF Flows
  <2>2. ASSUME NEW i \in DOMAIN q.outbox, q.outbox[i] = Request(Completion(r.seq)),
               NEW j \in i .. Len(q.outbox)
        PROVE  NotBefore(r.document, TextAt(w.server, q.outbox, j))
    <3>1. i \in 1 .. L /\ i \in DOMAIN p.outbox
      BY <1>1, <1>2, <1>4, <2>2 DEF Request
    <3>2. CASE j = L + 1
      BY <1>5, <1>9, <2>1, <3>2
    <3>3. CASE j \in i .. L
      <4>1. j \in 0 .. L
        BY <3>1, <3>3
      <4>2. p.outbox[i] = Request(Completion(r.seq))
        BY <1>4, <2>2, <3>1
      <4>. QED BY <1>5, <2>1, <3>1, <3>3, <4>1, <4>2 DEF Followed
    <3>. QED BY <1>2, <1>4, <3>1, <3>2, <3>3
  <2>3. ASSUME NEW job \in w.server.jobs, job.id = Completion(r.seq)
        PROVE  /\ NotBefore(r.document, job.of)
               /\ \A j \in 0 .. Len(q.outbox) :
                    NotBefore(r.document, TextAt(w.server, q.outbox, j))
    <3>1. /\ NotBefore(r.document, job.of)
          /\ \A j \in 0 .. L : NotBefore(r.document, TextAt(w.server, p.outbox, j))
      BY <2>1, <2>3 DEF Followed
    <3>2. \A j \in 0 .. Len(q.outbox) : j \in 0 .. L \/ j = L + 1
      BY <1>2, <1>4
    <3>. QED BY <1>5, <1>9, <2>1, <3>1, <3>2
  <2>4. \A i \in DOMAIN w.in : w.in[i].kind = "answer" /\ w.in[i].id = Completion(r.seq) =>
          NotBefore(r.document, w.in[i].of)
    BY <2>1 DEF Followed
  <2>. QED BY <2>2, <2>3, <2>4 DEF Followed
<1>13. q \in Protocol /\ Flows(Now, q, w, n)
  BY <1>3, <1>10, <1>11, <1>12 DEF Flows
<1>. QED BY <1>13 DEF q

LEMMA ReconciledKeeps ==
    ASSUME NEW p \in Protocol, NEW x, NEW w \in Live, NEW n \in Nat,
           DocumentOK, Asked(Now, p, n), Handled(Now, x, p), Flows(Now, x.p, w, n)
    PROVE  LET y == Reconciled(x) IN Handled(Now, y, p) /\ Flows(Now, y.p, w, n)
<1> DEFINE old == x.p.synced
           gone == old # None /\ (document = None \/ document.id # old.id)
           close == IF gone THEN <<Told(None)>> ELSE <<>>
           open == IF document # None /\ document # old THEN <<Told(document)>> ELSE <<>>
           q == [x.p EXCEPT !.outbox = @ \o close \o open, !.synced = document]
           y == [x EXCEPT !.p = q, !.hints = IF old = document THEN @ ELSE None]
<1>1. CASE ~x.ok \/ ~WritesAllowed \/ x.p.state # "ready"
  BY <1>1 DEF Reconciled
<1>2. CASE ~(~x.ok \/ ~WritesAllowed \/ x.p.state # "ready")
  <2>1. x \in Hand /\ x.p \in Protocol /\ x.p.outbox \in Seq(Outgoing)
    BY DEF Handled, Hand, Protocol
  <2>2. Reconciled(x) = y
    <3>1. Reconciled(x) = [x EXCEPT !.p.outbox = @ \o close \o open,
                                    !.p.synced = document,
                                    !.hints = IF old = document THEN @ ELSE None]
      BY <1>2 DEF Reconciled
    <3>. QED BY <2>1, <3>1 DEF Hand, Protocol
  <2>3. Asked(Now, x.p, n)
    BY DEF Handled, Asked
  <2>4. q \in {x.p, Tells(x.p, None), Tells(x.p, document),
               Tells(Tells(x.p, None), document)}
    <3> DEFINE o == x.p.outbox
    <3>1. o \o <<>> = o /\ \A m : o \o <<m>> = Append(o, m)
      BY <2>1
    <3>2. \A m, l : (o \o <<m>>) \o <<l>> = Append(Append(o, m), l)
      BY <2>1
    <3>. HIDE DEF o
    <3>3. q = [x.p EXCEPT !.outbox = (o \o close) \o open, !.synced = document]
      BY <2>1 DEF o, Protocol
    <3>4. CASE gone /\ document # None /\ document # old
      <4>1. q = [x.p EXCEPT !.outbox = Append(Append(o, Told(None)), Told(document)),
                            !.synced = document]
        BY <3>2, <3>3, <3>4
      <4>. QED BY <2>1, <4>1 DEF Tells, o, Protocol
    <3>5. CASE gone /\ ~(document # None /\ document # old)
      <4>1. document = None
        BY <3>5
      <4>2. q = [x.p EXCEPT !.outbox = Append(o, Told(None)), !.synced = None]
        <5>1. (o \o <<Told(None)>>) \o <<>> = Append(o, Told(None))
          BY <2>1 DEF o
        <5>. QED BY <3>3, <3>5, <4>1, <5>1
      <4>. QED BY <2>1, <4>2 DEF Tells, o, Protocol
    <3>6. CASE ~gone /\ document # None /\ document # old
      <4>1. q = [x.p EXCEPT !.outbox = Append(o, Told(document)), !.synced = document]
        BY <3>1, <3>3, <3>6
      <4>. QED BY <2>1, <4>1 DEF Tells, o, Protocol
    <3>7. CASE ~gone /\ ~(document # None /\ document # old)
      <4>1. document = old
        BY <3>7
      <4>2. q = [x.p EXCEPT !.outbox = o, !.synced = old]
        BY <3>1, <3>3, <3>7, <4>1
      <4>. QED BY <2>1, <4>2 DEF o, Protocol
    <3>. QED BY <3>4, <3>5, <3>6, <3>7
  <2>5. q \in Protocol /\ Flows(Now, q, w, n)
    <3>1. \A t \in {None, document} :
            Tells(x.p, t) \in Protocol /\ Flows(Now, Tells(x.p, t), w, n)
      BY <2>1, <2>3, TellsKeeps
    <3> DEFINE c == Tells(x.p, None)
    <3>2. Asked(Now, c, n)
      BY <2>1, <2>3 DEF Asked, Tells, Protocol
    <3>3. c \in Protocol /\ Flows(Now, c, w, n)
      BY <3>1
    <3>. HIDE DEF c
    <3>4. Tells(c, document) \in Protocol /\ Flows(Now, Tells(c, document), w, n)
      BY <3>2, <3>3, TellsKeeps
    <3>. HIDE DEF q
    <3>. QED BY <2>1, <2>4, <3>1, <3>4 DEF c
  <2>6. q.asked = x.p.asked
    BY <2>1 DEF Protocol
  <2>. HIDE DEF q
  <2>7. /\ y \in Hand /\ y.p = q /\ y.responses = x.responses
        /\ y.hints \in {x.hints, None}
    BY <2>1, <2>5 DEF Hand
  <2>. HIDE DEF y
  <2>8. Handled(Now, y, p)
    BY <2>6, <2>7 DEF Handled
  <2>. QED BY <2>2, <2>5, <2>7, <2>8
<1>. QED BY <1>1, <1>2

LEMMA ExpiredKeeps ==
    ASSUME NEW p \in Protocol, NEW x, NEW w, NEW n, NEW due,
           Handled(Now, x, p), Flows(Now, x.p, w, n)
    PROVE  LET y == Expired(x, due) IN Handled(Now, y, p) /\ Flows(Now, y.p, w, n)
<1> DEFINE over == {r \in x.p.asked : Completion(r.seq) \in due}
           late == {[seq |-> r.seq, of |-> None] : r \in over}
           ok == x.p.pending \cap due = {}
           y == [x EXCEPT !.p.asked = @ \ over, !.ok = ok, !.responses = @ \cup late]
<1>1. CASE ~x.ok
  BY <1>1 DEF Expired
<1>2. CASE x.ok
  <2>1. x \in Hand /\ x.p \in Protocol
    BY DEF Handled, Hand
  <2>2. Expired(x, due) = y
    BY <1>2 DEF Expired
  <2>3. late \subseteq Response
    BY <2>1 DEF Protocol, Response, Context, Texts
  <2>4. ok \in BOOLEAN
    OBVIOUS
  <2>5. \A r \in late : \E q \in x.p.asked : r.seq = q.seq /\ r.of = None
    OBVIOUS
  <2>6. \A r \in late : Honest(Now, p.asked, r)
    BY <2>5 DEF Honest, Handled
  <2>7. ASSUME NEW q \in over PROVE \E r \in late : r.seq = q.seq
    <3>1. [seq |-> q.seq, of |-> None] \in late
      OBVIOUS
    <3>. QED BY <3>1
  <2>. HIDE DEF late, over, ok
  <2>8. /\ y \in Hand /\ y.p.asked = x.p.asked \ over /\ y.p.outbox = x.p.outbox
        /\ y.p.synced = x.p.synced /\ y.hints = x.hints
        /\ y.responses = x.responses \cup late
    BY <2>1, <2>3, <2>4 DEF Hand, Protocol
  <2>. HIDE DEF y
  <2>9. Flows(Now, y.p, w, n)
    BY <2>8, SameStream
  <2>10. Handled(Now, y, p)
    <3>1. \A r \in y.responses : Honest(Now, p.asked, r)
      BY <2>6, <2>8 DEF Handled
    <3>2. \A q \in p.asked : q \in y.p.asked \/ \E r \in y.responses : r.seq = q.seq
      BY <2>7, <2>8 DEF Handled
    <3>. QED BY <2>8, <3>1, <3>2 DEF Handled
  <2>. QED BY <2>2, <2>9, <2>10
<1>. QED BY <1>1, <1>2

(* What is no longer under way can be forgotten. *)
LEMMA DropsKeep ==
    ASSUME NEW p, NEW w \in Live, NEW n, Flows(Now, p, w, n), NEW k \in 0 .. Len(w.in)
    PROVE  LET v == [w EXCEPT !.in = SubSeq(@, k + 1, Len(@))]
           IN  v \in Live /\ Flows(Now, p, v, n)
<1> DEFINE in == SubSeq(w.in, k + 1, Len(w.in))
           v == [w EXCEPT !.in = in]
<1>1. w.in \in Seq(Incoming) /\ Len(w.in) \in Nat /\ k \in Nat
  BY DEF Live
<1>2. in \in Seq(Incoming) /\ \A i \in DOMAIN in : i + k \in DOMAIN w.in /\ in[i] = w.in[i + k]
  BY <1>1
<1>. HIDE DEF in
<1>3. v \in Live /\ v.server = w.server /\ v.in = in
  BY <1>2 DEF Live
<1>. HIDE DEF v
<1>4. Sent(Now, p, v) /\ Counted(p, v, n)
  BY <1>2, <1>3 DEF Flows, Sent, Counted
<1>5. \A r \in p.asked : Followed(r, p, v)
  BY <1>2, <1>3 DEF Flows, Followed
<1>. QED BY <1>3, <1>4, <1>5 DEF Flows, v, in

LEMMA PolledKeeps ==
    ASSUME NEW p \in Protocol, NEW w \in Wire, NEW n \in Nat, NEW due,
           NEW k \in 0 .. Len(w.in), DocumentOK, Stream(Now, p, w, n)
    PROVE  LET y == Polled(p, w, k, due) IN
             /\ Handled(Now, y.x, p)
             /\ y.x.ok => y.w \in Wire /\ Stream(Now, y.x.p, y.w, n)
<1> DEFINE first == Flush(p, w)
           start == [p |-> first.p, responses |-> {}, hints |-> None, ok |-> w.server # None]
           handled == HandleAll(start, SubSeq(w.in, 1, k), due)
           reconciled == Reconciled(handled)
           x == Expired(reconciled, due)
           rest == [first.w EXCEPT !.in = SubSeq(@, k + 1, Len(@))]
           last == Flush(x.p, rest)
           y == [x EXCEPT !.p = last.p]
<1>1. Polled(p, w, k, due) = [x |-> y, w |-> last.w]
  BY DEF Polled
<1>2. CASE w.server = None
  <2>1. first = [p |-> p, w |-> w]
    BY <1>2 DEF Flush
  <2>2. ~start.ok /\ start.p = p /\ Len(SubSeq(w.in, 1, k)) \in Nat
    <3>1. w.in \in Seq(Incoming) /\ k \in 0 .. Len(w.in)
      BY DEF Wire
    <3>2. Len(SubSeq(w.in, 1, k)) \in Nat
      BY <3>1
    <3>. HIDE DEF first
    <3>3. start.p = first.p /\ start.ok = (w.server # None)
      OBVIOUS
    <3>. QED BY <1>2, <2>1, <3>2, <3>3
  <2>3. handled = start
    <3>. HIDE DEF start
    <3>. QED BY <2>2, HandleAllStopped
  <2>4. x = start
    <3>. HIDE DEF start, handled
    <3>. QED BY <2>2, <2>3 DEF Reconciled, Expired
  <2>5. last.p.asked = p.asked /\ last.p \in Protocol
    <3>1. last.p \in {p, [p EXCEPT !.outbox = <<>>]}
      BY <2>2, <2>4 DEF Flush
    <3>2. <<>> \in Seq(Outgoing)
      OBVIOUS
    <3>. HIDE DEF last
    <3>. QED BY <3>1, <3>2 DEF Protocol
  <2>6. y = [start EXCEPT !.p = last.p]
    BY <2>4
  <2>. HIDE DEF last, handled, reconciled, x, rest
  <2>7. Handled(Now, y, p) /\ ~y.ok
    BY <1>2, <2>5, <2>6 DEF Handled, Hand
  <2>. HIDE DEF y
  <2>. QED BY <1>1, <2>7
<1>3. CASE w.server # None
  <2>1. w \in Live /\ Asked(Now, p, n) /\ Flows(Now, p, w, n)
    BY <1>3 DEF Wire, Live, Stream
  <2>2. /\ first.p \in Protocol /\ first.w \in Live
        /\ first.p = [p EXCEPT !.outbox = first.p.outbox]
        /\ first.w.in = w.in /\ Flows(Now, first.p, first.w, n)
    BY <2>1, FlushKeeps
  <2>. HIDE DEF first
  <2>3. first.p.asked = p.asked
    BY <2>2 DEF Protocol
  <2>4. Handled(Now, start, p) /\ start.p = first.p
    <3>1. start \in Hand
      BY <2>2 DEF Hand
    <3>. QED BY <2>3, <3>1 DEF Handled
  <2>. HIDE DEF start
  <2>5. Handled(Now, handled, p) /\ Flows(Now, handled.p, first.w, n)
    <3>1. k \in 0 .. Len(first.w.in) /\ SubSeq(w.in, 1, k) = SubSeq(first.w.in, 1, k)
      BY <2>2
    <3>. QED BY <2>2, <2>4, <3>1, HandleAllKeeps
  <2>. HIDE DEF handled
  <2>6. Handled(Now, reconciled, p) /\ Flows(Now, reconciled.p, first.w, n)
    BY <2>1, <2>2, <2>5, ReconciledKeeps
  <2>. HIDE DEF reconciled
  <2>7. Handled(Now, x, p) /\ Flows(Now, x.p, first.w, n)
    BY <2>6, ExpiredKeeps
  <2>. HIDE DEF x
  <2>8. rest \in Live /\ Flows(Now, x.p, rest, n)
    <3>1. k \in 0 .. Len(first.w.in)
      BY <2>2
    <3>. QED BY <2>2, <2>7, <3>1, DropsKeep
  <2>. HIDE DEF rest
  <2>9. x \in Hand /\ x.p \in Protocol
    BY <2>7 DEF Handled, Hand
  <2>10. /\ last.p \in Protocol /\ last.w \in Live /\ Flows(Now, last.p, last.w, n)
         /\ last.p = [x.p EXCEPT !.outbox = last.p.outbox]
    BY <2>8, <2>9, FlushKeeps
  <2>. HIDE DEF last
  <2>11. last.p.asked = x.p.asked
    BY <2>9, <2>10 DEF Protocol
  <2>12. /\ y \in Hand /\ y.p = last.p /\ y.responses = x.responses
         /\ y.hints = x.hints /\ y.ok = x.ok
    BY <2>9, <2>10 DEF Hand
  <2>. HIDE DEF y
  <2>13. Handled(Now, y, p)
    BY <2>7, <2>11, <2>12 DEF Handled
  <2>14. last.w \in Wire /\ Stream(Now, y.p, last.w, n)
    <3>1. Asked(Now, y.p, n)
      BY <2>1, <2>13 DEF Asked, Handled
    <3>. QED BY <2>10, <2>12, <3>1 DEF Stream, Wire, Live
  <2>. QED BY <1>1, <2>13, <2>14
<1>. QED BY <1>2, <1>3

(* A request more. *)
LEMMA RequestKeeps ==
    ASSUME NEW p \in Protocol, NEW w \in Live, NEW n \in Nat, NEW m \in Nat, n <= m,
           NEW id \in Id, Numbered(id, m), \A r \in p.asked : id # Completion(r.seq),
           Flows(Now, p, w, n)
    PROVE  LET q == [p EXCEPT !.outbox = Append(@, Request(id))]
           IN  q \in Protocol /\ Flows(Now, q, w, m)
<1> DEFINE outbox == Append(p.outbox, Request(id))
           q == [p EXCEPT !.outbox = outbox]
           L == Len(p.outbox)
<1>1. Request(id) \in Outgoing /\ Request(id).kind = "request" /\ Request(id).id = id
  BY DEF Request, Outgoing
<1>2. p.outbox \in Seq(Outgoing) /\ L \in Nat
  BY DEF Protocol
<1>3. /\ outbox \in Seq(Outgoing) /\ Len(outbox) = L + 1 /\ DOMAIN outbox = 1 .. L + 1
      /\ \A i \in 1 .. L : outbox[i] = p.outbox[i] /\ i \in DOMAIN p.outbox
      /\ outbox[L + 1] = Request(id)
  BY <1>1, <1>2
<1>4. /\ \A i \in 0 .. L : TextAt(w.server, outbox, i) = TextAt(w.server, p.outbox, i)
      /\ TextAt(w.server, outbox, L + 1) = TextAt(w.server, p.outbox, L)
  BY <1>1, <1>2, TextAtAppend
<1>. HIDE DEF outbox
<1>5. q \in Protocol /\ q.outbox = outbox /\ q.synced = p.synced /\ q.asked = p.asked
  BY <1>3 DEF Protocol
<1>. HIDE DEF q
<1>6. \A text : Known(Now, q, text) <=> Known(Now, p, text)
  BY <1>5 DEF Known
<1>7. Sent(Now, q, w)
  <2>1. TextAt(w.server, q.outbox, Len(q.outbox)) = q.synced
    BY <1>3, <1>4, <1>5 DEF Flows, Sent
  <2>2. ASSUME NEW i \in DOMAIN q.outbox, q.outbox[i].kind = "text"
        PROVE  Known(Now, q, q.outbox[i].text)
    <3>1. i \in 1 .. L
      BY <1>1, <1>2, <1>3, <1>5, <2>2
    <3>. QED BY <1>3, <1>5, <1>6, <2>2, <3>1 DEF Flows, Sent
  <2>. QED BY <1>6, <2>1, <2>2 DEF Flows, Sent
<1>8. Counted(q, w, m)
  <2>1. \A i \in Id : Numbered(i, n) => Numbered(i, m)
    BY DEF Numbered, Id
  <2>2. ASSUME NEW i \in DOMAIN q.outbox, q.outbox[i].kind = "request"
        PROVE  Numbered(q.outbox[i].id, m)
    <3>1. CASE i = L + 1
      BY <1>1, <1>3, <1>5, <3>1
    <3>2. CASE i \in 1 .. L
      <4>1. i \in DOMAIN p.outbox /\ p.outbox[i] = q.outbox[i] /\ p.outbox[i] \in Outgoing
        BY <1>2, <1>3, <1>5, <3>2
      <4>2. p.outbox[i].id \in Id
        BY <2>2, <4>1 DEF Outgoing
      <4>. QED BY <2>1, <2>2, <4>1, <4>2 DEF Flows, Counted
    <3>. QED BY <1>2, <1>3, <1>5, <3>1, <3>2
  <2>3. \A job \in w.server.jobs : job.id \in Id
    BY DEF Live, Server, Job
  <2>4. ASSUME NEW i \in DOMAIN w.in, w.in[i].kind = "answer" PROVE w.in[i].id \in Id
    <3>1. w.in[i] \in Incoming
      BY DEF Live
    <3>. QED BY <2>4, <3>1 DEF Incoming
  <2>. QED BY <2>1, <2>2, <2>3, <2>4 DEF Flows, Counted
<1>9. ASSUME NEW r \in q.asked PROVE Followed(r, q, w)
  <2>1. r \in p.asked /\ Followed(r, p, w)
    BY <1>5 DEF Flows
  <2>2. ASSUME NEW i \in DOMAIN q.outbox, q.outbox[i] = Request(Completion(r.seq)),
               NEW j \in i .. Len(q.outbox)
        PROVE  NotBefore(r.document, TextAt(w.server, q.outbox, j))
    <3>1. i \in 1 .. L
      BY <1>2, <1>3, <1>5, <2>1, <2>2 DEF Request
    <3>2. \A k \in i .. L : NotBefore(r.document, TextAt(w.server, p.outbox, k))
      BY <1>3, <1>5, <2>1, <2>2, <3>1 DEF Followed
    <3>3. j = L + 1 \/ j \in i .. L
      BY <1>2, <1>3, <1>5
    <3>. QED BY <1>2, <1>4, <1>5, <3>1, <3>2, <3>3
  <2>3. ASSUME NEW job \in w.server.jobs, job.id = Completion(r.seq)
        PROVE  /\ NotBefore(r.document, job.of)
               /\ \A j \in 0 .. Len(q.outbox) :
                    NotBefore(r.document, TextAt(w.server, q.outbox, j))
    <3>1. /\ NotBefore(r.document, job.of)
          /\ \A j \in 0 .. L : NotBefore(r.document, TextAt(w.server, p.outbox, j))
      BY <2>1, <2>3 DEF Followed
    <3>2. \A j \in 0 .. Len(q.outbox) : j \in 0 .. L \/ j = L + 1
      BY <1>2, <1>3, <1>5
    <3>. QED BY <1>2, <1>4, <1>5, <3>1, <3>2
  <2>4. \A i \in DOMAIN w.in : w.in[i].kind = "answer" /\ w.in[i].id = Completion(r.seq) =>
          NotBefore(r.document, w.in[i].of)
    BY <2>1 DEF Followed
  <2>. QED BY <2>2, <2>3, <2>4 DEF Followed
<1>10. q \in Protocol /\ Flows(Now, q, w, m)
  BY <1>5, <1>7, <1>8, <1>9 DEF Flows
<1>. QED BY <1>10 DEF q, outbox

(* A completion is asked for: of the text that the server was sent last. *)
LEMMA AskingKeeps ==
    ASSUME NEW p \in Protocol, NEW w \in Wire, NEW n \in Nat, NEW request \in Context,
           DocumentOK, Stream(Now, p, w, n), document # None, p.synced = document,
           request.seq = n + 1, request.document = document
    PROVE  LET q == Asking(p, request) IN q \in Protocol /\ Stream(Now, q, w, n + 1)
<1> DEFINE id == Completion(request.seq)
           o == [p EXCEPT !.outbox = Append(@, Request(id))]
           q == Asking(p, request)
<1>1. id \in Id /\ Numbered(id, n + 1) /\ n + 1 \in Nat
  <2>1. request.seq \in Nat
    BY DEF Context
  <2>2. id[2] = request.seq /\ id[1] = "completion" /\ id \in Id
    <3>1. id = <<"completion", request.seq>>
      BY DEF Completion
    <3>. HIDE DEF id
    <3>. QED BY <2>1, <3>1 DEF Id
  <2>. HIDE DEF id
  <2>. QED BY <2>1, <2>2 DEF Numbered
<1>2. \A r \in p.asked : r.seq \in Nat /\ r.seq <= n /\ Past(Now, r.document)
  BY DEF Stream, Asked, Protocol, Context
<1>3. \A r \in p.asked : id # Completion(r.seq)
  BY <1>2 DEF Completion
<1>4. p.outbox \in Seq(Outgoing) /\ Request(id) \in Outgoing
  BY <1>1 DEF Protocol, Request, Outgoing
<1>5. Append(p.outbox, Request(id)) \in Seq(Outgoing)
  BY <1>4
<1>6. /\ o \in Protocol /\ q \in Protocol /\ q.outbox = o.outbox /\ q.synced = o.synced
      /\ q.synced = p.synced /\ q.asked = p.asked \cup {request} /\ o.asked = p.asked
      /\ q.outbox = Append(p.outbox, Request(id))
  <2> DEFINE outbox == Append(p.outbox, Request(id))
  <2>1. outbox \in Seq(Outgoing)
    BY <1>5
  <2>2. /\ o = [p EXCEPT !.outbox = outbox]
        /\ q = [p EXCEPT !.asked = p.asked \cup {request}, !.outbox = outbox]
    BY DEF Asking
  <2>. HIDE DEF outbox, o, q
  <2>3. o \in Protocol /\ o.outbox = outbox /\ o.synced = p.synced /\ o.asked = p.asked
    BY <2>1, <2>2 DEF Protocol
  <2>4. /\ q \in Protocol /\ q.outbox = outbox /\ q.synced = p.synced
        /\ q.asked = p.asked \cup {request}
    BY <2>1, <2>2 DEF Protocol
  <2>. QED BY <2>3, <2>4 DEF outbox
<1>7. Asked(Now, q, n + 1)
  <2>1. Past(Now, document)
    BY DEF DocumentOK, Texts, Text, Past, Now
  <2>. QED BY <1>2, <1>6, <2>1 DEF Asked
<1>8. ASSUME w.server # None PROVE Flows(Now, q, w, n + 1)
  <2>1. w \in Live /\ Flows(Now, p, w, n)
    BY <1>8 DEF Wire, Live, Stream
  <2>2. Flows(Now, o, w, n + 1)
    BY <1>1, <1>3, <2>1, RequestKeeps, SMTT(30)
  <2>. HIDE DEF o, q
  <2>3. Sent(Now, q, w) /\ Counted(q, w, n + 1)
    <3>1. \A text : Known(Now, q, text) <=> Known(Now, o, text)
      BY <1>6 DEF Known
    <3>. QED BY <1>6, <2>2, <3>1 DEF Flows, Sent, Counted
  <2>4. \A r \in p.asked : Followed(r, q, w)
    BY <1>6, <2>2 DEF Flows, Followed
  <2>5. Followed(request, q, w)
    <3> DEFINE L == Len(p.outbox)
    <3>1. /\ L \in Nat /\ Len(q.outbox) = L + 1 /\ DOMAIN q.outbox = 1 .. L + 1
          /\ \A i \in 1 .. L : q.outbox[i] = p.outbox[i] /\ i \in DOMAIN p.outbox
      BY <1>4, <1>6
    <3>2. ASSUME NEW i \in DOMAIN q.outbox, q.outbox[i] = Request(id) PROVE i = L + 1
      <4>1. ASSUME i \in 1 .. L PROVE FALSE
        <5>1. p.outbox[i] = Request(id) /\ i \in DOMAIN p.outbox
          BY <3>1, <3>2, <4>1
        <5>2. Numbered(id, n)
          BY <2>1, <5>1 DEF Flows, Counted, Request
        <5>. QED BY <5>2 DEF Numbered, Completion
      <4>. QED BY <3>1, <4>1
    <3>3. NotBefore(document, TextAt(w.server, q.outbox, Len(q.outbox)))
      BY <1>6, <2>3 DEF Sent, NotBefore, DocumentOK, Texts, Text
    <3>4. \A i \in DOMAIN q.outbox : q.outbox[i] = Request(id) =>
            \A j \in i .. Len(q.outbox) : NotBefore(document, TextAt(w.server, q.outbox, j))
      BY <3>1, <3>2, <3>3
    <3>5. \A job \in w.server.jobs : job.id # id
      BY <2>1 DEF Flows, Counted, Numbered, Completion
    <3>6. \A i \in DOMAIN w.in : w.in[i].kind = "answer" => w.in[i].id # id
      BY <2>1 DEF Flows, Counted, Numbered, Completion
    <3>. QED BY <3>4, <3>5, <3>6 DEF Followed
  <2>. QED BY <1>6, <2>3, <2>4, <2>5 DEF Flows
<1>. QED BY <1>6, <1>7, <1>8 DEF Stream

-----------------------------------------------------------------------------
(***************************************************************************)
(* The session, call by call.  Only what is said to the server and asked   *)
(* of it changes in the record of the service here.                        *)
(***************************************************************************)
Kin(s, t) ==
    t.state = s.state /\ t.generation = s.generation /\ t.uncertain = s.uncertain

(* The interface forgets what it waits for, or shows less. *)
LEMMA ForgettingKeeps ==
    ASSUME NEW z, NEW w, NEW answers, Good(Now, z, w, answers), NEW u \in Ui,
           u.pending \in {None, z.ui.pending}, u.list \in {None, z.ui.list},
           u.hints \in {None, z.ui.hints},
           \A a, b \in u.auto : a.id = b.id => a = b
    PROVE  Good(Now, [z EXCEPT !.ui = u], w, answers)
<1> DEFINE y == [z EXCEPT !.ui = u]
<1>1. /\ y \in Session /\ y.ui = u /\ y.service = z.service /\ y.sequence = z.sequence
  BY DEF Good, Session
<1>. HIDE DEF y
<1>2. Shows(y.ui)
  BY <1>1 DEF Good, Shows
<1>3. Waits(Now, y, answers)
  BY <1>1 DEF Good, Waits
<1>4. Good(Now, y, w, answers)
  BY <1>1, <1>2, <1>3 DEF Good
<1>. QED BY <1>4 DEF y

LEMMA ClearingKeeps ==
    ASSUME NEW z, NEW w, NEW answers, Good(Now, z, w, answers)
    PROVE  LET y == ClearCompletion(z) IN
             /\ Good(Now, y, w, answers) /\ y.service = z.service /\ y.sequence = z.sequence
             /\ y.ui.pending = None /\ y.ui.auto = z.ui.auto
<1> DEFINE u == [z.ui EXCEPT !.pending = None, !.list = None]
<1>1. z \in Session /\ z.ui \in Ui
  BY DEF Good, Session
<1>2. ClearCompletion(z) = [z EXCEPT !.ui = u]
  BY <1>1 DEF ClearCompletion, Session, Ui
<1>3. /\ u \in Ui /\ u.pending = None /\ u.list = None /\ u.hints = z.ui.hints
      /\ u.auto = z.ui.auto
  BY <1>1 DEF Ui
<1>. HIDE DEF u
<1>4. Good(Now, [z EXCEPT !.ui = u], w, answers)
  <2>1. \A a, b \in u.auto : a.id = b.id => a = b
    BY <1>3 DEF Good, Shows
  <2>. QED BY <1>3, <2>1, ForgettingKeeps
<1>. QED BY <1>1, <1>2, <1>3, <1>4 DEF Session

LEMMA RetiringKeeps ==
    ASSUME NEW z, NEW w, NEW answers, Good(Now, z, w, answers)
    PROVE  Good(Now, RetireStale(z), w, answers) /\ RetireStale(z).service = z.service
<1>1. RetireStale(z) \in {z, ClearCompletion(z)}
  BY DEF RetireStale
<1>. QED BY <1>1, ClearingKeeps

(* receive_completion *)
LEMMA ReceivingKeeps ==
    ASSUME NEW z, NEW w, NEW answers, DocumentOK, Good(Now, z, w, answers)
    PROVE  LET y == Receive(z, answers) IN
             Good(Now, y, w, {}) /\ y.service = z.service /\ y.ui.auto = z.ui.auto
<1> DEFINE context == z.ui.pending
           mine == {r \in answers : context # None /\ r.seq = context.seq}
           of == (CHOOSE r \in mine : TRUE).of
           list == IF Current(z, context) /\ of # None
                   THEN [context |-> context, of |-> of] ELSE None
           u == [z.ui EXCEPT !.pending = None, !.list = list]
<1>1. z \in Session /\ z.ui \in Ui
  BY DEF Good, Session
<1>2. CASE mine = {}
  <2>1. Receive(z, answers) = z
    BY <1>2 DEF Receive
  <2>2. Waits(Now, z, {})
    BY <1>2 DEF Good, Waits
  <2>. QED BY <2>1, <2>2 DEF Good
<1>3. CASE mine # {}
  <2>1. Receive(z, answers) = [z EXCEPT !.ui = u]
    <3>1. Receive(z, answers) = [z EXCEPT !.ui.pending = None, !.ui.list = list]
      BY <1>3 DEF Receive
    <3>. HIDE DEF list
    <3>. QED BY <1>1, <3>1 DEF Session, Ui
  <2>2. PICK r \in answers : r.seq = context.seq /\ r.of = of /\ context # None
    <3>1. (CHOOSE r \in mine : TRUE) \in mine
      BY <1>3
    <3>. QED BY <3>1
  <2>3. context \in Context
    BY <1>1, <2>2 DEF Ui
  <2>. HIDE DEF of
  <2>4. ASSUME Current(z, context), of # None
        PROVE  of = context.document /\ of \in Text
    <3>1. /\ document = context.document /\ z.service.state = "running"
          /\ z.service.generation = context.generation
      BY <2>4 DEF Current, Ready
    <3>2. Past(Now, of) /\ NotBefore(context.document, of)
      BY <2>2, <2>4, <3>1 DEF Good, Waits
    <3>3. of \in Text /\ document \in Text
      BY <2>3, <3>1, <3>2 DEF Past, Now, Context
    <3>4. document # None /\ document.id = created
      BY <3>3, ServiceAssumption DEF Text, DocumentOK
    <3>5. of.id = document.id /\ of.version = document.version
      BY <2>4, <3>1, <3>2, <3>3, <3>4 DEF Past, Now, NotBefore, Text
    <3>. QED BY <3>1, <3>3, <3>5 DEF Text
  <2>5. list = None \/ (list \in [context : Context, of : Text]
                        /\ list.of = list.context.document)
    BY <2>3, <2>4
  <2>. HIDE DEF list
  <2>6. /\ u \in Ui /\ u.pending = None /\ u.list = list /\ u.hints = z.ui.hints
        /\ u.auto = z.ui.auto
    BY <1>1, <2>5 DEF Ui
  <2>. HIDE DEF u
  <2> DEFINE y == [z EXCEPT !.ui = u]
  <2>7. y \in Session /\ y.ui = u /\ y.service = z.service /\ y.sequence = z.sequence
    BY <1>1, <2>6 DEF Session
  <2>. HIDE DEF y
  <2>8. Shows(y.ui)
    BY <2>5, <2>6, <2>7 DEF Good, Shows
  <2>9. Waits(Now, y, {})
    BY <2>6, <2>7 DEF Waits
  <2>10. Good(Now, y, w, {}) /\ y.ui.auto = z.ui.auto
    BY <2>6, <2>7, <2>8, <2>9 DEF Good
  <2>. QED BY <2>1, <2>7, <2>10 DEF y
<1>. QED BY <1>2, <1>3

(* apply_live_diagnostic_poll *)
LEMMA HintingKeeps ==
    ASSUME NEW z, NEW w, NEW answers, Good(Now, z, w, answers),
           NEW generation \in Nat \cup {None}, NEW hints \in Hints \cup {None},
           hints # None => hints.of.id <= hints.id /\ hints.of.version = hints.version
    PROVE  LET y == ShowHints(z, generation, hints) IN
             Good(Now, y, w, answers) /\ y.service = z.service /\ y.ui.auto = z.ui.auto
               /\ y.sequence = z.sequence /\ y.ui.pending = z.ui.pending
<1> DEFINE y == ShowHints(z, generation, hints)
<1>1. z \in Session /\ z.ui \in Ui
  BY DEF Good, Session
<1>2. PICK h \in {hints, z.ui.hints, None} :
        y = [z EXCEPT !.ui.generation = generation, !.ui.hints = h]
  BY DEF ShowHints
<1>. HIDE DEF y
<1> DEFINE u == [z.ui EXCEPT !.generation = generation, !.hints = h]
<1>3. h \in Hints \cup {None}
  BY <1>1 DEF Ui
<1>4. /\ u \in Ui /\ u.pending = z.ui.pending /\ u.list = z.ui.list /\ u.hints = h
      /\ u.auto = z.ui.auto
  BY <1>1, <1>3 DEF Ui
<1>5. y = [z EXCEPT !.ui = u]
  BY <1>1, <1>2 DEF Session, Ui
<1>. HIDE DEF u
<1>6. y \in Session /\ y.ui = u /\ y.service = z.service /\ y.sequence = z.sequence
  BY <1>1, <1>4, <1>5 DEF Session
<1>7. Shows(y.ui)
  BY <1>4, <1>6 DEF Good, Shows
<1>8. Waits(Now, y, answers)
  BY <1>4, <1>6 DEF Good, Waits
<1>9. Good(Now, y, w, answers)
  BY <1>6, <1>7, <1>8 DEF Good
<1>. QED BY <1>4, <1>6, <1>9 DEF y

(* trigger_completion_at *)
LEMMA AskKeeps ==
    ASSUME NEW z, NEW w, NEW automatic, DocumentOK, Good(Now, z, w, {}), Synced(z.service),
           automatic => \A a \in z.ui.auto : a.id # document.id
    PROVE  LET request == [seq |-> z.sequence + 1, document |-> document,
                           generation |-> z.service.generation]
               y == Ask(z, request, automatic)
           IN  Good(Now, y, w, {}) /\ Kin(z.service, y.service)
<1> DEFINE request == [seq |-> z.sequence + 1, document |-> document,
                       generation |-> z.service.generation]
           y == Ask(z, request, automatic)
           p == z.service.protocol
           q == Asking(p, request)
           auto == IF automatic
                   THEN z.ui.auto \cup {[id |-> document.id, seq |-> request.seq,
                                         deferred |-> FALSE]}
                   ELSE z.ui.auto
           u == [z.ui EXCEPT !.pending = request, !.auto = auto]
           s == [z.service EXCEPT !.protocol = q]
<1>1. /\ z \in Session /\ z.ui \in Ui /\ z.sequence \in Nat
      /\ z.service \in UpService /\ p \in Protocol /\ z.service.generation \in Nat
      /\ z.service.state = "running" /\ p.synced = document /\ document # None
      /\ document \in Text /\ w \in Wire /\ Stream(Now, p, w, z.sequence)
  BY DEF Good, Session, Synced, Ready, Service, UpService, DownService, Down, DocumentOK, Texts
<1>2. request \in Context /\ request.seq = z.sequence + 1 /\ request.document = document
      /\ request.generation = z.service.generation
  BY <1>1 DEF Context
<1>. HIDE DEF request
<1>3. q \in Protocol /\ Stream(Now, q, w, z.sequence + 1)
  BY <1>1, <1>2, AskingKeeps
<1>4. q.asked = p.asked \cup {request}
  BY <1>1 DEF Protocol, Asking
<1> DEFINE new == [id |-> document.id, seq |-> request.seq, deferred |-> FALSE]
<1>a. /\ new \in [id : Nat, seq : Nat, deferred : BOOLEAN] /\ new.id = document.id
      /\ auto = IF automatic THEN z.ui.auto \cup {new} ELSE z.ui.auto
  BY <1>1, <1>2 DEF Text, Context
<1>. HIDE DEF new
<1>5. auto \in SUBSET [id : Nat, seq : Nat, deferred : BOOLEAN]
  <2>1. z.ui.auto \subseteq [id : Nat, seq : Nat, deferred : BOOLEAN]
    BY <1>1 DEF Ui
  <2>. HIDE DEF auto
  <2>. QED BY <1>a, <2>1
<1>6. \A a, b \in auto : a.id = b.id => a = b
  <2>1. \A a, b \in z.ui.auto : a.id = b.id => a = b
    BY DEF Good, Shows
  <2>. HIDE DEF auto
  <2>. QED BY <1>a, <2>1
<1>7. y = [z EXCEPT !.sequence = request.seq, !.service = s, !.ui = u]
  <2>1. y = [z EXCEPT !.sequence = request.seq, !.service.protocol = q,
                      !.ui.pending = request, !.ui.auto = auto]
    BY DEF Ask
  <2>. HIDE DEF auto, y, q
  <2>2. y = [z EXCEPT !.sequence = request.seq,
                      !.service = [z.service EXCEPT !.protocol = q],
                      !.ui = [z.ui EXCEPT !.pending = request, !.auto = auto]]
    BY <1>1, <2>1 DEF Session, Ui
  <2>. QED BY <2>2
<1>. HIDE DEF q, auto, y
<1>8. /\ u \in Ui /\ u.pending = request /\ u.list = z.ui.list /\ u.hints = z.ui.hints
      /\ u.auto = auto
  BY <1>1, <1>2, <1>5 DEF Ui
<1>9. s \in UpService /\ s.protocol = q /\ Kin(z.service, s)
  BY <1>1, <1>3 DEF UpService, Kin
<1>. HIDE DEF u, s
<1>10. y \in Session /\ y.ui = u /\ y.service = s /\ y.sequence = z.sequence + 1
  <2>1. s \in Service /\ request.seq \in Nat
    BY <1>1, <1>2, <1>9 DEF Service
  <2>. QED BY <1>1, <1>2, <1>7, <1>8, <2>1 DEF Session
<1>11. Shows(y.ui)
  BY <1>6, <1>8, <1>10 DEF Good, Shows
<1>12. Waits(Now, y, {})
  <2>1. \A r \in p.asked : r.seq <= z.sequence /\ r.seq \in Nat
    BY <1>1 DEF Stream, Asked, Protocol, Context
  <2>2. \A r \in q.asked : r.seq = request.seq => r = request
    BY <1>1, <1>2, <1>4, <2>1
  <2>3. request \in q.asked
    BY <1>4
  <2>4. s.state = "running" /\ s.state \notin Fresh
    BY <1>1, <1>9 DEF Kin, Fresh
  <2>5. request.seq <= y.sequence /\ request.generation <= s.generation
    BY <1>1, <1>2, <1>9, <1>10 DEF Kin
  <2>. QED BY <1>8, <1>9, <1>10, <2>2, <2>3, <2>4, <2>5 DEF Waits
<1>13. Good(Now, y, w, {})
  BY <1>1, <1>3, <1>9, <1>10, <1>11, <1>12 DEF Good
<1>. QED BY <1>9, <1>10, <1>13 DEF y, request

LEMMA TriggeringKeeps ==
    ASSUME NEW z, NEW w, NEW automatic \in BOOLEAN, DocumentOK, Good(Now, z, w, {})
    PROVE  LET y == Triggered(z, automatic) IN Good(Now, y, w, {}) /\ Kin(z.service, y.service)
<1> DEFINE same == {a \in z.ui.auto : document # None /\ a.id = document.id}
           clear == ClearCompletion(z)
           request == [seq |-> z.sequence + 1, document |-> document,
                       generation |-> z.service.generation]
           put == Defer(clear.ui.auto, CHOOSE a \in same : TRUE)
<1>1. /\ Good(Now, clear, w, {}) /\ clear.service = z.service /\ clear.sequence = z.sequence
      /\ clear.ui.pending = None /\ clear.ui.auto = z.ui.auto
  BY ClearingKeeps
<1>. HIDE DEF clear
<1>2. Kin(z.service, z.service) /\ clear \in Session /\ clear.ui \in Ui
  BY <1>1 DEF Kin, Good, Session
<1>3. CASE automatic /\ same # {}
  <2> DEFINE a == CHOOSE a \in same : TRUE
             u == [clear.ui EXCEPT !.auto = put]
  <2>1. a \in clear.ui.auto
    BY <1>1, <1>3
  <2>2. Triggered(z, automatic) = [clear EXCEPT !.ui = u]
    <3>1. Triggered(z, automatic) = [clear EXCEPT !.ui.auto = put]
      BY <1>3 DEF Triggered, clear
    <3>. HIDE DEF put
    <3>. QED BY <1>2, <3>1 DEF Session, Ui
  <2>3. put = (clear.ui.auto \ {a}) \cup {[a EXCEPT !.deferred = TRUE]}
    BY DEF Defer
  <2>. HIDE DEF a
  <2>4. /\ [a EXCEPT !.deferred = TRUE] \in [id : Nat, seq : Nat, deferred : BOOLEAN]
        /\ [a EXCEPT !.deferred = TRUE].id = a.id
    BY <1>2, <2>1 DEF Ui
  <2>5. put \subseteq [id : Nat, seq : Nat, deferred : BOOLEAN]
    BY <1>2, <2>3, <2>4 DEF Ui
  <2>6. \A b, c \in put : b.id = c.id => b = c
    <3>1. \A b, c \in clear.ui.auto : b.id = c.id => b = c
      BY <1>1 DEF Good, Shows
    <3> DEFINE later == [a EXCEPT !.deferred = TRUE]
    <3>2. put = (clear.ui.auto \ {a}) \cup {later} /\ later.id = a.id
      BY <2>3, <2>4
    <3>. HIDE DEF put, later
    <3>. QED BY <2>1, <3>1, <3>2
  <2>. HIDE DEF put
  <2>7. /\ u \in Ui /\ u.pending = clear.ui.pending /\ u.list = clear.ui.list
        /\ u.hints = clear.ui.hints /\ u.auto = put
    BY <1>2, <2>5 DEF Ui
  <2>. HIDE DEF u
  <2>8. Good(Now, [clear EXCEPT !.ui = u], w, {})
    BY <1>1, <2>6, <2>7, ForgettingKeeps
  <2>9. [clear EXCEPT !.ui = u].service = z.service
    BY <1>1, <1>2 DEF Session
  <2>. QED BY <1>2, <2>2, <2>8, <2>9
<1>4. CASE ~(automatic /\ same # {})
           /\ (~Synced(z.service) \/ ~WritesAllowed \/ z.sequence = MaxSequence)
  <2>1. Triggered(z, automatic) = clear
    BY <1>4 DEF Triggered, clear
  <2>. QED BY <1>1, <1>2, <2>1
<1>5. CASE /\ ~(automatic /\ same # {})
           /\ ~(~Synced(z.service) \/ ~WritesAllowed \/ z.sequence = MaxSequence)
  <2>1. Triggered(z, automatic) = IF Full(z.service.protocol)
                                  THEN [clear EXCEPT !.sequence = request.seq]
                                  ELSE Ask(clear, request, automatic)
    BY <1>5 DEF Triggered, clear
  <2>2. CASE Full(z.service.protocol)
    <3> DEFINE y == [clear EXCEPT !.sequence = request.seq]
    <3>1. /\ y \in Session /\ y.ui = clear.ui /\ y.service = clear.service
          /\ y.sequence = clear.sequence + 1 /\ clear.sequence \in Nat
      BY <1>1, <1>2 DEF Session
    <3>. HIDE DEF y
    <3>2. Waits(Now, y, {})
      BY <1>1, <3>1 DEF Waits
    <3>3. ASSUME y.service.state = "running"
          PROVE  Stream(Now, y.service.protocol, w, y.sequence)
      <4> DEFINE p == y.service.protocol
                 n == clear.sequence
      <4>1. Stream(Now, p, w, n) /\ n \in Nat /\ y.sequence = n + 1 /\ w \in Wire
        BY <1>1, <3>1, <3>3 DEF Good
      <4>2. p \in Protocol
        BY <3>1, <3>3 DEF Session, Service, UpService, DownService, Down
      <4>. HIDE DEF p, n
      <4>3. Asked(Now, p, n + 1)
        BY <4>1, <4>2 DEF Stream, Asked, Protocol, Context
      <4>4. ASSUME w.server # None PROVE Counted(p, w, n + 1)
        <5>1. \A i \in Id : Numbered(i, n) => Numbered(i, n + 1)
          BY <4>1 DEF Numbered, Id
        <5>2. w \in Live
          BY <4>1, <4>4 DEF Wire, Live
        <5>3. \A job \in w.server.jobs : job.id \in Id
          BY <5>2 DEF Live, Server, Job
        <5>4. ASSUME NEW i \in DOMAIN w.in, w.in[i].kind = "answer" PROVE w.in[i].id \in Id
          <6>1. w.in[i] \in Incoming
            BY <5>2 DEF Live
          <6>. QED BY <5>4, <6>1 DEF Incoming
        <5>5. ASSUME NEW i \in DOMAIN p.outbox, p.outbox[i].kind = "request"
              PROVE  p.outbox[i].id \in Id
          <6>1. p.outbox[i] \in Outgoing
            BY <4>2 DEF Protocol
          <6>. QED BY <5>5, <6>1 DEF Outgoing
        <5>. QED BY <4>1, <4>4, <5>1, <5>3, <5>4, <5>5 DEF Stream, Flows, Counted
      <4>5. Stream(Now, p, w, n + 1)
        BY <4>1, <4>3, <4>4 DEF Stream, Flows
      <4>. QED BY <4>1, <4>5 DEF p
    <3>4. Good(Now, y, w, {})
      BY <1>1, <3>1, <3>2, <3>3 DEF Good
    <3>. QED BY <1>1, <1>2, <2>1, <2>2, <3>1, <3>4 DEF y
  <2>3. CASE ~Full(z.service.protocol)
    <3>1. Synced(clear.service) /\ document # None
      BY <1>1, <1>5 DEF Synced
    <3>2. automatic => \A a \in clear.ui.auto : a.id # document.id
      BY <1>1, <1>5, <3>1
    <3>3. request = [seq |-> clear.sequence + 1, document |-> document,
                     generation |-> clear.service.generation]
      BY <1>1
    <3>. HIDE DEF request
    <3>4. /\ Good(Now, Ask(clear, request, automatic), w, {})
          /\ Kin(clear.service, Ask(clear, request, automatic).service)
      BY <1>1, <3>1, <3>2, <3>3, AskKeeps
    <3>. QED BY <1>1, <2>1, <2>3, <3>4
  <2>. QED BY <2>2, <2>3
<1>. QED BY <1>3, <1>4, <1>5

(* The rest of a poll. *)
LEMMA ConcludingKeeps ==
    ASSUME NEW z, NEW w, NEW answers, NEW due, DocumentOK, Good(Now, z, w, answers)
    PROVE  LET y == Conclude(z, answers, due) IN
             Good(Now, y, w, {}) /\ Kin(z.service, y.service)
<1> DEFINE answered == {a \in z.ui.auto : \E r \in answers : r.seq = a.seq}
           left == Unexpired(z.ui.auto \ answered, due)
           again == \E a \in z.ui.auto \ left :
                       a.deferred /\ document # None /\ a.id = document.id
           first == Receive(z, answers)
           received == [first EXCEPT !.ui.auto = left]
           triggered == IF again THEN Triggered(received, TRUE) ELSE received
<1>1. Good(Now, first, w, {}) /\ first.service = z.service /\ first.ui.auto = z.ui.auto
  BY ReceivingKeeps
<1>2. left \subseteq z.ui.auto
  BY DEF Unexpired
<1>3. Conclude(z, answers, due) = RetireStale(triggered)
  BY DEF Conclude
<1>. HIDE DEF first, left
<1>4. first \in Session /\ first.ui \in Ui
  BY <1>1 DEF Good, Session
<1>5. Good(Now, received, w, {}) /\ received.service = z.service
  <2> DEFINE u == [first.ui EXCEPT !.auto = left]
  <2>1. received = [first EXCEPT !.ui = u]
    BY <1>4 DEF Session, Ui
  <2>2. /\ u \in Ui /\ u.pending = first.ui.pending /\ u.list = first.ui.list
        /\ u.hints = first.ui.hints /\ u.auto = left
    BY <1>1, <1>2, <1>4 DEF Ui
  <2>3. \A a, b \in u.auto : a.id = b.id => a = b
    BY <1>1, <1>2, <2>2 DEF Good, Shows
  <2>. HIDE DEF u, received
  <2>4. Good(Now, [first EXCEPT !.ui = u], w, {})
    BY <1>1, <2>2, <2>3, ForgettingKeeps
  <2>5. [first EXCEPT !.ui = u].service = z.service
    BY <1>1, <1>4 DEF Session
  <2>. QED BY <2>1, <2>4, <2>5
<1>. HIDE DEF received, again
<1>6. Good(Now, triggered, w, {}) /\ Kin(z.service, triggered.service)
  <2>1. CASE again
    BY <1>5, <2>1, TriggeringKeeps
  <2>2. CASE ~again
    BY <1>5, <2>2 DEF Kin
  <2>. QED BY <2>1, <2>2
<1>. HIDE DEF triggered
<1>7. /\ Good(Now, RetireStale(triggered), w, {})
      /\ RetireStale(triggered).service = triggered.service
  BY <1>6, RetiringKeeps
<1>. QED BY <1>3, <1>6, <1>7

-----------------------------------------------------------------------------
(* A text that was written goes on being one, whatever is typed after it. *)
LEMMA StillGood ==
    ASSUME NEW now, NEW later, NEW z, NEW w, Good(now, z, w, {}),
           \A t : Past(now, t) => Past(later, t)
    PROVE  Good(later, z, w, {})
<1>1. Waits(later, z, {})
  BY DEF Good, Waits
<1>2. ASSUME z.service.state = "running"
      PROVE  Stream(later, z.service.protocol, w, z.sequence)
  <2> DEFINE p == z.service.protocol
             n == z.sequence
  <2>1. Stream(now, p, w, n)
    BY <1>2 DEF Good
  <2>. HIDE DEF p, n
  <2>2. \A t : Known(now, p, t) => Known(later, p, t)
    BY DEF Known
  <2>3. Asked(later, p, n)
    BY <2>1 DEF Stream, Asked
  <2>4. Sent(now, p, w) => Sent(later, p, w)
    BY <2>2 DEF Sent
  <2>5. Stream(later, p, w, n)
    BY <2>1, <2>3, <2>4 DEF Stream, Flows
  <2>. QED BY <2>5 DEF p, n
<1>. QED BY <1>1, <1>2 DEF Good

(* A server is stopped: what was asked of it will not be waited for. *)
LEMMA StoppingKeeps ==
    ASSUME NEW z, NEW w, Good(Now, z, w, {}), NEW t \in DownService, NEW v \in Wire,
           NEW answers, z.service.generation <= t.generation,
           t.state \in Fresh => \/ z.service.generation < t.generation
                                \/ z.service.state \in Fresh
    PROVE  LET y == [z EXCEPT !.service = t] IN
             Good(Now, y, v, answers) /\ y.ui = z.ui /\ y.service = t
<1> DEFINE y == [z EXCEPT !.service = t]
<1>1. z \in Session /\ z.ui \in Ui /\ z.service.generation \in Nat /\ t.generation \in Nat
  BY DEF Good, Session, Service, UpService, DownService
<1>2. /\ y \in Session /\ y.ui = z.ui /\ y.service = t /\ y.sequence = z.sequence
  BY <1>1 DEF Session, Service
<1>3. t.state # "running"
  BY DEF DownService, Down
<1>. HIDE DEF y
<1>4. Waits(Now, y, answers)
  <2> DEFINE context == z.ui.pending
  <2>1. SUFFICES ASSUME context # None
                 PROVE  /\ context.seq <= z.sequence /\ context.generation <= t.generation
                        /\ t.state \in Fresh => context.generation < t.generation
    BY <1>2, <1>3 DEF Waits
  <2>2. context.generation \in Nat
    BY <1>1, <2>1 DEF Ui, Context
  <2>3. /\ context.seq <= z.sequence /\ context.generation <= z.service.generation
        /\ z.service.state \in Fresh => context.generation < z.service.generation
    BY <2>1 DEF Good, Waits
  <2>. QED BY <1>1, <2>2, <2>3
<1>5. Good(Now, y, v, answers)
  BY <1>2, <1>3, <1>4 DEF Good
<1>. QED BY <1>2, <1>5 DEF y

(* A server is started: it has read nothing and was asked nothing. *)
LEMMA LaunchingKeeps ==
    ASSUME NEW z, NEW w, Good(Now, z, w, {}), z.service.state \in {"resolved", "pending"}
    PROVE  LET y == [z EXCEPT !.service = Launched(@)]
               v == [NoWire EXCEPT !.server = [text |-> None, jobs |-> {}]]
           IN  Good(Now, y, v, {}) /\ y.service.state = "running"
                 /\ y.service.generation = z.service.generation
                 /\ y.service.uncertain = z.service.uncertain
<1> DEFINE first == Request(One("initialize"))
           p == [state |-> "initializing", pending |-> {One("initialize")},
                 asked |-> {}, outbox |-> <<first>>, synced |-> None]
           server == [text |-> None, jobs |-> {}]
           v == [in |-> <<>>, server |-> server]
           s == [z.service EXCEPT !.state = "running", !.protocol = p]
           y == [z EXCEPT !.service = s]
<1>1. /\ z \in Session /\ z.ui \in Ui /\ z.service \in DownService
  BY DEF Good, Session, Service, UpService
<1>2. One("initialize") \in Id /\ first \in Outgoing
  BY DEF One, Id, Request, Outgoing
<1>3. server \in Server /\ v \in Wire /\ v.server = server /\ v.in = <<>>
  BY DEF Server, Wire, Texts, Job
<1>4. first.kind = "request" /\ first.id = One("initialize")
  BY DEF Request
<1>5. server.text = None /\ server.jobs = {}
  OBVIOUS
<1>. HIDE DEF first, server
<1>6. <<first>> \in Seq(Outgoing) /\ Len(<<first>>) = 1 /\ <<first>>[1] = first
      /\ DOMAIN <<first>> = {1}
  BY <1>2
<1>7. /\ p \in Protocol /\ p.outbox = <<first>> /\ p.synced = None /\ p.asked = {}
  BY <1>6 DEF Protocol, Texts
<1>. HIDE DEF p, v
<1>8. Sent(Now, p, v)
  <2>1. TextAt(v.server, p.outbox, 0) = None
    BY <1>3, <1>5, TextAtStart
  <2>2. TextAt(v.server, p.outbox, 1) = None
    BY <1>4, <1>6, <1>7, <2>1, TextAtStep
  <2>. QED BY <1>3, <1>4, <1>5, <1>6, <1>7, <2>2 DEF Sent, Known
<1>9. Counted(p, v, z.sequence)
  BY <1>3, <1>4, <1>5, <1>6, <1>7 DEF Counted, Numbered, One
<1>10. Stream(Now, p, v, z.sequence)
  BY <1>7, <1>8, <1>9 DEF Stream, Asked, Flows
<1>11. /\ s \in UpService /\ s.protocol = p /\ s.state = "running"
       /\ s.generation = z.service.generation /\ s.uncertain = z.service.uncertain
  BY <1>1, <1>7 DEF UpService, DownService
<1>. HIDE DEF s
<1>12. y \in Session /\ y.ui = z.ui /\ y.service = s /\ y.sequence = z.sequence
  BY <1>1, <1>11 DEF Session, Service
<1>13. [z EXCEPT !.service = Launched(@)] = y
  BY <1>1 DEF Launched, p, s, y, first, Session
<1>. HIDE DEF y
<1>14. Waits(Now, y, {})
  <2> DEFINE context == z.ui.pending
  <2>1. SUFFICES ASSUME context # None
                 PROVE  /\ context.seq <= z.sequence
                        /\ context.generation <= z.service.generation
                        /\ context.generation # z.service.generation
    BY <1>7, <1>11, <1>12 DEF Waits, Fresh
  <2>2. context.generation \in Nat /\ z.service.generation \in Nat
    BY <1>1, <2>1 DEF Ui, Context, DownService
  <2>3. context.seq <= z.sequence /\ context.generation < z.service.generation
    BY <2>1 DEF Good, Waits, Fresh
  <2>. QED BY <2>2, <2>3
<1>15. Good(Now, y, v, {})
  BY <1>3, <1>10, <1>11, <1>12, <1>14 DEF Good
<1>16. [NoWire EXCEPT !.server = [text |-> None, jobs |-> {}]] = v
  <2>1. \A it : [NoWire EXCEPT !.server = it] = [in |-> <<>>, server |-> it]
    BY DEF NoWire
  <2>2. v = [in |-> <<>>, server |-> server] /\ server = [text |-> None, jobs |-> {}]
    BY DEF v, server
  <2>. QED BY <2>1, <2>2, Zenon
<1>. QED BY <1>11, <1>12, <1>13, <1>15, <1>16

(* A poll of a running server that went well. *)
LEMMA AnsweringKeeps ==
    ASSUME NEW z, NEW w, Good(Now, z, w, {}), NEW s \in UpService, Kin(z.service, s),
           s.protocol = z.service.protocol, NEW x, Handled(Now, x, s.protocol),
           NEW v \in Wire, Stream(Now, x.p, v, z.sequence)
    PROVE  LET t == [s EXCEPT !.protocol = x.p]
               y == [z EXCEPT !.service = t]
           IN  Good(Now, y, v, x.responses) /\ Kin(z.service, t) /\ y.service = t
<1> DEFINE t == [s EXCEPT !.protocol = x.p]
           y == [z EXCEPT !.service = t]
<1>1. z \in Session /\ z.ui \in Ui /\ x.p \in Protocol /\ z.service.state = "running"
  BY DEF Good, Session, Handled, Hand, Kin, UpService
<1>2. t \in UpService /\ t.protocol = x.p /\ Kin(z.service, t)
  BY <1>1 DEF UpService, Kin
<1>. HIDE DEF t
<1>3. y \in Session /\ y.ui = z.ui /\ y.service = t /\ y.sequence = z.sequence
  BY <1>1, <1>2 DEF Session, Service
<1>. HIDE DEF y
<1>4. Waits(Now, y, x.responses)
  <2> DEFINE context == z.ui.pending
             asked == z.service.protocol.asked
  <2>1. SUFFICES ASSUME context # None
                 PROVE  /\ context.seq <= z.sequence
                        /\ context.generation <= z.service.generation
                        /\ \A r \in x.p.asked : r.seq = context.seq => r = context
                        /\ context.generation = z.service.generation =>
                            /\ \/ context \in x.p.asked
                               \/ \E r \in x.responses : r.seq = context.seq
                            /\ \A r \in x.responses : r.seq = context.seq /\ r.of # None =>
                                 Past(Now, r.of) /\ NotBefore(context.document, r.of)
    BY <1>1, <1>2, <1>3 DEF Waits, Kin, Fresh
  <2>2. /\ context.seq <= z.sequence /\ context.generation <= z.service.generation
        /\ \A r \in asked : r.seq = context.seq => r = context
        /\ context.generation = z.service.generation => context \in asked
    BY <1>1, <2>1 DEF Good, Waits
  <2>3. /\ x.p.asked \subseteq asked /\ \A r \in x.responses : Honest(Now, asked, r)
        /\ \A q \in asked : q \in x.p.asked \/ \E r \in x.responses : r.seq = q.seq
    BY DEF Handled
  <2>4. ASSUME NEW r \in x.responses, r.seq = context.seq, r.of # None
        PROVE  Past(Now, r.of) /\ NotBefore(context.document, r.of)
    <3>1. PICK q \in asked : q.seq = r.seq /\ Past(Now, r.of) /\ NotBefore(q.document, r.of)
      BY <2>3, <2>4 DEF Honest
    <3>. QED BY <2>2, <2>4, <3>1
  <2>. QED BY <2>2, <2>3, <2>4
<1>5. Good(Now, y, v, x.responses)
  BY <1>2, <1>3, <1>4 DEF Good
<1>. QED BY <1>2, <1>3, <1>5 DEF y, t

-----------------------------------------------------------------------------
(* Where the servers are. *)
LEMMA KinConfined ==
    ASSUME NEW s, NEW t, NEW servers, Kin(s, t), Confined(s, servers)
    PROVE  Confined(t, servers)
BY DEF Kin, Confined

(* A server that is known to be gone leaves nothing behind, and one that   *)
(* is not keeps the service down.                                          *)
LEMMA CleaningConfined ==
    ASSUME NEW s \in Service, NEW clean \in BOOLEAN, Confined(s, alive)
    PROVE  LET t == Cleaned(s, clean)
               servers == Survivors(s, clean)
           IN  /\ t = [s EXCEPT !.uncertain = s.uncertain \/ ~clean]
               /\ t.uncertain \in BOOLEAN /\ t.uncertain = (s.uncertain \/ ~clean)
               /\ \A g, h \in servers : g = h
               /\ servers # {} => t.uncertain
               /\ servers \subseteq alive
<1> DEFINE t == Cleaned(s, clean)
           servers == Survivors(s, clean)
<1>1. t = [s EXCEPT !.uncertain = s.uncertain \/ ~clean]
  BY DEF Cleaned
<1>2. s.uncertain \in BOOLEAN
  BY DEF Service, UpService, DownService
<1>3. t.uncertain = (s.uncertain \/ ~clean)
  <2>1. \A b : [s EXCEPT !.uncertain = b].uncertain = b
    BY DEF Service, UpService, DownService
  <2>. HIDE DEF t
  <2>. QED BY <1>1, <2>1, Zenon
<1>4. servers \subseteq alive
  BY DEF Survivors
<1>5. ASSUME servers # {} PROVE s.uncertain \/ ~clean
  BY <1>5 DEF Survivors, Confined
<1>. QED BY <1>1, <1>2, <1>3, <1>4, <1>5 DEF Confined

(* What a poll leaves is what the next step finds. *)
LEMMA AdoptingKeeps ==
    ASSUME Inv, UNCHANGED user, NEW z, Adopt(z), Good(Now, z, wire', {}),
           Confined(z.service, alive')
    PROVE  Inv'
<1>1. document' = document /\ created' = created /\ modal' = modal /\ command' = command
  BY DEF user
<1>2. Now' = Now /\ DocumentOK'
  BY <1>1 DEF Inv, Now, DocumentOK
<1>3. Z' = z
  <2>1. z = [ui |-> z.ui, service |-> z.service, sequence |-> z.sequence]
    BY DEF Good, Session
  <2>. QED BY <2>1 DEF Adopt, Z
<1>4. Good(Now, Z, wire, {})'
  BY <1>2, <1>3
<1>5. Confined(service, alive)'
  BY <1>1 DEF Confined, Adopt
<1>. QED BY <1>1, <1>2, <1>4, <1>5 DEF Inv

LEMMA RetryingDown ==
    ASSUME NEW s \in Service
    PROVE  LET t == Retried(s) IN
             /\ t \in DownService /\ t.generation = s.generation
             /\ t.state \in {"backoff", "unavailable"} /\ t.uncertain = s.uncertain
             /\ s.uncertain => t.state = "unavailable"
<1> DEFINE state == IF ~s.uncertain /\ s.retries + 1 <= MAX_AUTOMATIC_RETRIES
                    THEN "backoff" ELSE "unavailable"
           n == s.retries + 1
           t == [[s EXCEPT !.state = state, !.protocol = None] EXCEPT !.retries = n]
<1>1. Retried(s) = t
  BY DEF Retried, Stopped
<1>2. state \in {"backoff", "unavailable"} /\ (s.uncertain => state = "unavailable")
  OBVIOUS
<1>. HIDE DEF state
<1>3. state \in Down
  BY <1>2 DEF Down
<1> DEFINE Any == [state : Down \cup {"running"}, generation : Nat, retries : Nat,
                   uncertain : BOOLEAN, protocol : Protocol \cup {None}]
<1>4. s \in Any /\ n \in Nat
  BY DEF Service, UpService, DownService
<1>. HIDE DEF n
<1>5. /\ t \in Any /\ t.state = state /\ t.protocol = None /\ t.retries = n
      /\ t.generation = s.generation /\ t.uncertain = s.uncertain
  BY <1>3, <1>4
<1>. HIDE DEF t
<1>6. t \in DownService
  BY <1>3, <1>5 DEF DownService
<1>. QED BY <1>1, <1>2, <1>5, <1>6

(* The server is gone, or made to go, and the service tries again later.  *)
LEMMA RetryKeeps ==
    ASSUME NEW z, NEW w, NEW clean \in BOOLEAN, NEW v \in Wire, NEW answers,
           Good(Now, z, w, {}), Confined(z.service, alive), ~command,
           z.service.state \notin Fresh \/ z.service.state \in {"resolved", "pending"}
    PROVE  LET t == Retried(Cleaned(z.service, clean))
               y == [z EXCEPT !.service = t]
           IN  /\ Good(Now, y, v, answers) /\ y.service = t
               /\ Confined(t, Survivors(z.service, clean))
               /\ alive = {} => Confined(t, IF clean THEN alive
                                            ELSE alive \cup {z.service.generation})
<1> DEFINE s == z.service
           c == Cleaned(s, clean)
           t == Retried(c)
           y == [z EXCEPT !.service = t]
           servers == Survivors(s, clean)
<1>1. s \in Service
  BY DEF Good, Session
<1>2. /\ c = [s EXCEPT !.uncertain = s.uncertain \/ ~clean] /\ c.uncertain \in BOOLEAN
      /\ c.uncertain = (s.uncertain \/ ~clean) /\ \A g, h \in servers : g = h
      /\ servers # {} => c.uncertain
  BY <1>1, CleaningConfined
<1>. HIDE DEF c
<1>3. c \in Service /\ c.generation = s.generation
  BY <1>1, <1>2 DEF Service, UpService, DownService
<1>4. /\ t \in DownService /\ t.generation = s.generation
      /\ t.state \in {"backoff", "unavailable"} /\ t.uncertain = c.uncertain
      /\ c.uncertain => t.state = "unavailable"
  BY <1>3, RetryingDown
<1>. HIDE DEF t, servers
<1>5. s.generation <= t.generation /\ t.state \notin Fresh
  <2>1. s.generation \in Nat
    BY <1>1 DEF Service, UpService, DownService
  <2>. QED BY <1>4, <2>1 DEF Fresh
<1>6. Good(Now, y, v, answers) /\ y.service = t
  BY <1>4, <1>5, StoppingKeeps
<1>7. Confined(t, servers)
  BY <1>2, <1>4 DEF Confined
<1>8. ASSUME alive = {}
      PROVE  Confined(t, IF clean THEN alive ELSE alive \cup {s.generation})
  BY <1>2, <1>4, <1>8 DEF Confined
<1>. QED BY <1>6, <1>7, <1>8 DEF t, c, servers

LEMMA PollRunningKeeps ==
    ASSUME Inv, NEW due, PollRunning(due), UNCHANGED user
    PROVE  Inv'
<1> USE DEF Inv
<1> DEFINE
      Case(healthy, k) ==
        LET s == IF healthy THEN [service EXCEPT !.retries = 0] ELSE service
            polled == Polled(s.protocol, wire, k, due)
            x == polled.x
            generation == IF x.ok /\ x.p.state = "ready" THEN s.generation ELSE None
            Shown(t) == Adopt(Conclude(ShowHints([Z EXCEPT !.service = t], generation, x.hints),
                                       x.responses, due))
        IN  \/ /\ x.ok /\ Shown([s EXCEPT !.protocol = x.p])
               /\ wire' = polled.w /\ UNCHANGED alive
            \/ /\ ~x.ok /\ wire' = NoWire
               /\ \E clean \in BOOLEAN :
                    Shown(Retried(Cleaned(s, clean))) /\ alive' = Survivors(s, clean)
<1>1. PICK healthy \in BOOLEAN, k \in 0 .. Len(wire.in) : Case(healthy, k)
  <2>1. \E healthy \in (IF service.retries > 0 /\ Ready(service) THEN BOOLEAN ELSE {FALSE}),
           k \in 0 .. Len(wire.in) : Case(healthy, k)
    BY DEF PollRunning
  <2>. HIDE DEF Case
  <2>2. (IF service.retries > 0 /\ Ready(service) THEN BOOLEAN ELSE {FALSE}) \subseteq BOOLEAN
    OBVIOUS
  <2>. QED BY <2>1, <2>2
<1> DEFINE s == IF healthy THEN [service EXCEPT !.retries = 0] ELSE service
           polled == Polled(s.protocol, wire, k, due)
           x == polled.x
           generation == IF x.ok /\ x.p.state = "ready" THEN s.generation ELSE None
           Hinted(t) == ShowHints([Z EXCEPT !.service = t], generation, x.hints)
<1>2. /\ Z \in Session /\ Z.service = service /\ Z.sequence = sequence /\ sequence \in Nat
      /\ service \in UpService /\ service.state = "running" /\ wire \in Wire
      /\ Stream(Now, service.protocol, wire, sequence) /\ ~command
  BY DEF PollRunning, Running, Good, Z, Session, Service, UpService, DownService, Down,
         Confined
<1>3. s \in UpService /\ s.protocol = service.protocol /\ Kin(service, s)
  BY <1>2 DEF UpService, Kin
<1>. HIDE DEF s
<1>4. /\ s.protocol \in Protocol /\ s.generation \in Nat /\ s \in Service
      /\ s.state = "running"
  BY <1>3 DEF UpService, Service
<1>5. /\ Handled(Now, x, s.protocol)
      /\ x.ok => polled.w \in Wire /\ Stream(Now, x.p, polled.w, sequence)
  BY <1>2, <1>3, <1>4, PolledKeeps
<1>. HIDE DEF polled
<1>6. /\ generation \in Nat \cup {None} /\ x.hints \in Hints \cup {None}
      /\ x.hints # None => x.hints.of.id <= x.hints.id /\ x.hints.of.version = x.hints.version
  BY <1>4, <1>5 DEF Handled, Hand
<1>. HIDE DEF x, generation
<1>7. CASE /\ x.ok /\ Adopt(Conclude(Hinted([s EXCEPT !.protocol = x.p]), x.responses, due))
           /\ wire' = polled.w /\ UNCHANGED alive
  <2> DEFINE t == [s EXCEPT !.protocol = x.p]
             y == [Z EXCEPT !.service = t]
             shown == Hinted(t)
             z == Conclude(shown, x.responses, due)
  <2>1. Good(Now, y, wire', x.responses) /\ Kin(service, t) /\ y.service = t
    <3>1. /\ Kin(Z.service, s) /\ s.protocol = Z.service.protocol /\ wire' \in Wire
          /\ Stream(Now, x.p, wire', Z.sequence) /\ Good(Now, Z, wire, {})
      BY <1>2, <1>3, <1>5, <1>7
    <3>2. Good(Now, y, wire', x.responses) /\ Kin(Z.service, t) /\ y.service = t
      BY <1>3, <1>5, <3>1, AnsweringKeeps
    <3>. QED BY <1>2, <3>2
  <2>. HIDE DEF t, y
  <2>2. Good(Now, shown, wire', x.responses) /\ shown.service = t
    BY <1>6, <2>1, HintingKeeps DEF y
  <2>. HIDE DEF shown
  <2>3. Good(Now, z, wire', {}) /\ Kin(t, z.service)
    BY <2>2, ConcludingKeeps
  <2>4. Confined(z.service, alive')
    <3>1. Kin(service, z.service)
      BY <2>1, <2>3 DEF Kin
    <3>. QED BY <1>7, <3>1, KinConfined
  <2>5. Adopt(z)
    BY <1>7 DEF shown, t
  <2>. HIDE DEF z
  <2>. QED BY <2>3, <2>4, <2>5, AdoptingKeeps
<1>8. CASE /\ ~x.ok /\ wire' = NoWire
           /\ \E clean \in BOOLEAN :
                /\ Adopt(Conclude(Hinted(Retried(Cleaned(s, clean))), x.responses, due))
                /\ alive' = Survivors(s, clean)
  <2>1. PICK clean \in BOOLEAN :
          /\ Adopt(Conclude(Hinted(Retried(Cleaned(s, clean))), x.responses, due))
          /\ alive' = Survivors(s, clean)
    BY <1>8
  <2> DEFINE t == Retried(Cleaned(s, clean))
             z0 == [Z EXCEPT !.service = s]
             y == [Z EXCEPT !.service = t]
             shown == Hinted(t)
             z == Conclude(shown, x.responses, due)
  <2>2. Good(Now, z0, wire, {}) /\ z0.service = s
    <3>1. /\ z0 \in Session /\ z0.service = s /\ z0.ui = Z.ui /\ z0.sequence = Z.sequence
      BY <1>2, <1>4 DEF Session
    <3>. HIDE DEF z0
    <3>2. Waits(Now, z0, {})
      BY <1>2, <1>3, <1>4, <3>1 DEF Good, Waits, Kin
    <3>. QED BY <1>2, <1>3, <3>1, <3>2 DEF Good
  <2>3. Confined(s, alive)
    BY <1>3, KinConfined
  <2>4. NoWire \in Wire
    BY DEF NoWire, Wire
  <2>5. [z0 EXCEPT !.service = t] = y
    BY <1>2 DEF Session
  <2>. HIDE DEF z0
  <2>6. Good(Now, y, NoWire, x.responses) /\ y.service = t /\ Confined(t, alive')
    BY <1>2, <1>4, <2>1, <2>2, <2>3, <2>4, <2>5, RetryKeeps DEF Fresh
  <2>. HIDE DEF t, y
  <2>7. Good(Now, shown, wire', x.responses) /\ shown.service = t
    BY <1>6, <1>8, <2>6, HintingKeeps, ZenonT(30) DEF y
  <2>. HIDE DEF shown
  <2>8. Good(Now, z, wire', {}) /\ Kin(t, z.service)
    BY <2>7, ConcludingKeeps
  <2>9. Confined(z.service, alive')
    BY <2>6, <2>8, KinConfined
  <2>10. Adopt(z)
    BY <2>1 DEF shown, t
  <2>. HIDE DEF z
  <2>. QED BY <2>8, <2>9, <2>10, AdoptingKeeps
<1>. QED BY <1>1, <1>7, <1>8 DEF s, polled, x, generation

LEMMA StoppedDown ==
    ASSUME NEW s \in Service, NEW state \in Down
    PROVE  LET t == Stopped(s, state) IN
             /\ t \in DownService /\ t.generation = s.generation /\ t.state = state
             /\ t.uncertain = s.uncertain
<1> DEFINE Any == [state : Down \cup {"running"}, generation : Nat, retries : Nat,
                   uncertain : BOOLEAN, protocol : Protocol \cup {None}]
           t == [s EXCEPT !.state = state, !.protocol = None]
<1>1. s \in Any
  BY DEF Service, UpService, DownService
<1>2. /\ t \in Any /\ t.state = state /\ t.protocol = None
      /\ t.generation = s.generation /\ t.uncertain = s.uncertain
  BY <1>1
<1>3. Stopped(s, state) = t
  BY DEF Stopped
<1>. HIDE DEF t
<1>4. t \in DownService
  BY <1>2 DEF DownService
<1>. QED BY <1>2, <1>3, <1>4

LEMMA BeginningDown ==
    ASSUME NEW s \in Service
    PROVE  LET t == BeginResolution(s) IN
             /\ t \in DownService /\ t.generation = s.generation + 1
             /\ t.state = "resolving" /\ t.uncertain = s.uncertain
<1> DEFINE c == Stopped(s, "resolving")
           n == c.generation + 1
           t == [c EXCEPT !.generation = n]
<1>1. c \in DownService /\ c.generation = s.generation /\ c.state = "resolving"
      /\ c.uncertain = s.uncertain
  BY StoppedDown DEF Down
<1>2. BeginResolution(s) = t
  BY DEF BeginResolution
<1>. HIDE DEF c
<1>3. n \in Nat
  BY <1>1 DEF DownService
<1>4. /\ t \in DownService /\ t.generation = n /\ t.state = c.state
      /\ t.uncertain = c.uncertain
  BY <1>1, <1>3 DEF DownService
<1>. QED BY <1>1, <1>2, <1>4

(* Nothing is alive beside a service that is on its way up. *)
LEMMA NothingAlive ==
    ASSUME Confined(service, alive), service.state \notin {"running", "unavailable", "stopped"}
    PROVE  alive = {} /\ ~command /\ ~service.uncertain
BY DEF Confined

(* No hints are shown without a server. *)
LEMMA HidingKeeps ==
    ASSUME NEW z, NEW w, NEW answers, Good(Now, z, w, answers)
    PROVE  LET y == ShowHints(z, None, None) IN
             Good(Now, y, w, answers) /\ y.service = z.service /\ y.ui.auto = z.ui.auto
<1>1. None \in Nat \cup {None} /\ None \in Hints \cup {None} /\ ~(None # None)
  OBVIOUS
<1>. QED BY <1>1, HintingKeeps

LEMMA PollResolvedKeeps ==
    ASSUME Inv, NEW due, PollResolved(due), UNCHANGED user
    PROVE  Inv'
<1> DEFINE z == ShowHints(Z, None, None)
<1>1. /\ Z \in Session /\ Z.service = service /\ service.state \in {"resolved", "pending"}
      /\ service \in Service /\ wire \in Wire /\ service.generation \in Nat
  BY DEF PollResolved, Inv, Good, Z, Session, Service, UpService, DownService
<1>2. alive = {} /\ ~command /\ ~service.uncertain
  BY <1>1, NothingAlive DEF Inv
<1>3. Good(Now, z, wire, {}) /\ z.service = service
  <2>1. Good(Now, Z, wire, {})
    BY DEF Inv
  <2>. QED BY <1>1, <2>1, HidingKeeps
<1>4. DocumentOK /\ Confined(service, alive)
  BY DEF Inv
<1>5. \/ Adopt([z EXCEPT !.service.state = "pending"]) /\ UNCHANGED <<wire, alive>>
      \/ /\ Adopt(Conclude([z EXCEPT !.service = Launched(@)], {}, due))
         /\ wire' = [NoWire EXCEPT !.server = [text |-> None, jobs |-> {}]]
         /\ alive' = alive \cup {service.generation}
      \/ /\ \E clean \in BOOLEAN :
              /\ Adopt(Conclude([z EXCEPT !.service = Retried(Cleaned(@, clean))],
                                {}, due))
              /\ alive' = IF clean THEN alive ELSE alive \cup {service.generation}
         /\ UNCHANGED wire
      \/ /\ \E state \in {"stopped", "unavailable"} :
              \/ Adopt([z EXCEPT !.service = Stopped(@, state)])
              \/ Adopt(Conclude([z EXCEPT !.service = Stopped(@, state)], {}, due))
         /\ UNCHANGED <<wire, alive>>
  BY Zenon DEF PollResolved
<1>. HIDE DEF z
<1>6. z \in Session
  BY <1>3 DEF Good
<1>7. CASE Adopt([z EXCEPT !.service.state = "pending"]) /\ UNCHANGED <<wire, alive>>
  <2> DEFINE t == [service EXCEPT !.state = "pending"]
             y == [z EXCEPT !.service = t]
  <2>1. /\ t \in DownService /\ t.state = "pending" /\ t.generation = service.generation
        /\ t.uncertain = service.uncertain
    BY <1>1 DEF Service, UpService, DownService, Down
  <2>2. [z EXCEPT !.service.state = "pending"] = y
    BY <1>3, <1>6 DEF Session
  <2>. HIDE DEF t
  <2>3. Good(Now, y, wire, {}) /\ y.service = t
    BY <1>1, <1>3, <2>1, StoppingKeeps DEF Fresh
  <2>4. Confined(t, alive)
    BY <1>2, <2>1 DEF Confined
  <2>. HIDE DEF y
  <2>. QED BY <1>7, <2>2, <2>3, <2>4, AdoptingKeeps
<1>8. CASE /\ Adopt(Conclude([z EXCEPT !.service = Launched(@)], {}, due))
           /\ wire' = [NoWire EXCEPT !.server = [text |-> None, jobs |-> {}]]
           /\ alive' = alive \cup {service.generation}
  <2> DEFINE y == [z EXCEPT !.service = Launched(@)]
             u == Conclude(y, {}, due)
  <2>1. /\ Good(Now, y, wire', {}) /\ y.service.state = "running"
        /\ y.service.generation = service.generation /\ ~y.service.uncertain
    BY <1>1, <1>2, <1>3, <1>8, LaunchingKeeps
  <2>2. Confined(y.service, alive')
    BY <1>2, <1>8, <2>1 DEF Confined
  <2>. HIDE DEF y
  <2>3. Good(Now, u, wire', {}) /\ Kin(y.service, u.service)
    BY <1>4, <2>1, ConcludingKeeps
  <2>4. Confined(u.service, alive') /\ Adopt(u)
    BY <1>8, <2>2, <2>3, KinConfined DEF y
  <2>. HIDE DEF u
  <2>. QED BY <2>3, <2>4, AdoptingKeeps
<1>9. ASSUME NEW clean \in BOOLEAN,
             Adopt(Conclude([z EXCEPT !.service = Retried(Cleaned(@, clean))], {}, due)),
             alive' = IF clean THEN alive ELSE alive \cup {service.generation},
             UNCHANGED wire
      PROVE  Inv'
  <2> DEFINE t == Retried(Cleaned(z.service, clean))
             y == [z EXCEPT !.service = t]
             u == Conclude(y, {}, due)
  <2>1. Good(Now, y, wire', {}) /\ y.service = t /\ Confined(t, alive')
    BY <1>1, <1>2, <1>3, <1>4, <1>9, RetryKeeps
  <2>2. Adopt(u)
    BY <1>9
  <2>. HIDE DEF t, y
  <2>3. Good(Now, u, wire', {}) /\ Kin(t, u.service)
    BY <1>4, <2>1, ConcludingKeeps
  <2>4. Confined(u.service, alive')
    BY <2>1, <2>3, KinConfined
  <2>. HIDE DEF u
  <2>. QED BY <2>2, <2>3, <2>4, AdoptingKeeps
<1>10. ASSUME NEW state \in {"stopped", "unavailable"},
              \/ Adopt([z EXCEPT !.service = Stopped(@, state)])
              \/ Adopt(Conclude([z EXCEPT !.service = Stopped(@, state)], {}, due)),
              UNCHANGED <<wire, alive>>
       PROVE  Inv'
  <2> DEFINE t == Stopped(z.service, state)
             y == [z EXCEPT !.service = t]
             u == Conclude(y, {}, due)
  <2>1. /\ t \in DownService /\ t.state = state /\ t.generation = service.generation
        /\ t.uncertain = service.uncertain
    BY <1>1, <1>3, StoppedDown DEF Down
  <2>2. Adopt(y) \/ Adopt(u)
    BY <1>10
  <2>. HIDE DEF t
  <2>3. Good(Now, y, wire', {}) /\ y.service = t
    BY <1>1, <1>3, <1>10, <2>1, StoppingKeeps DEF Fresh
  <2>4. Confined(t, alive')
    BY <1>2, <1>10, <2>1 DEF Confined
  <2>. HIDE DEF y
  <2>5. Good(Now, u, wire', {}) /\ Kin(t, u.service)
    BY <1>4, <2>3, ConcludingKeeps
  <2>6. Confined(u.service, alive')
    BY <2>4, <2>5, KinConfined
  <2>. HIDE DEF u
  <2>. QED BY <2>2, <2>3, <2>4, <2>5, <2>6, AdoptingKeeps
<1>. QED BY <1>5, <1>7, <1>8, <1>9, <1>10

(* Only a service that waits to retry has the deadline of a retry. *)
LEMMA PollQuietKeeps ==
    ASSUME Inv, NEW due \in SUBSET Timed, PollQuiet(due), UNCHANGED user
    PROVE  Inv'
<1> DEFINE s == CASE service.state = "doubtful" ->
                        Stopped(Cleaned(service, FALSE), "unavailable")
                  [] One("retry") \in due
                       /\ (WritesAllowed /\ service.generation < MaxGeneration) ->
                        BeginResolution(service)
                  [] OTHER -> service
           z == ShowHints(Z, None, None)
           y == [z EXCEPT !.service = s]
           u == Conclude(y, {}, due)
<1>1. /\ service \in DownService /\ service \in Service /\ Z.service = service
      /\ Confined(service, alive) /\ DocumentOK /\ Good(Now, Z, wire, {})
      /\ service.generation \in Nat /\ service.protocol = None /\ wire \in Wire
  BY DEF Inv, Good, Session, Service, UpService, DownService, PollQuiet, Z
<1>2. Adopt(u) /\ UNCHANGED <<wire, alive>>
  BY DEF PollQuiet
<1>3. Good(Now, z, wire, {}) /\ z.service = service
  BY <1>1, HidingKeeps
<1>a. ASSUME One("retry") \in due PROVE service.state = "backoff"
  <2>1. One("retry") \in Timed
    BY <1>a
  <2>2. \A n : Completion(n) # One("retry")
    BY DEF Completion, One
  <2>. QED BY <1>1, <2>1, <2>2 DEF Timed
<1>. HIDE DEF z
<1>4. /\ s \in DownService /\ service.generation <= s.generation /\ Confined(s, alive)
      /\ s.state \in Fresh => \/ service.generation < s.generation
                              \/ service.state \in Fresh
  <2>1. CASE service.state = "doubtful"
    <3> DEFINE c == Cleaned(service, FALSE)
    <3>1. c = [service EXCEPT !.uncertain = service.uncertain \/ ~FALSE]
      BY <1>1, CleaningConfined
    <3>2. c \in Service /\ c.generation = service.generation
      BY <1>1, <3>1 DEF Service, UpService, DownService
    <3>3. s = Stopped(c, "unavailable")
      BY <1>a, <2>1
    <3>. HIDE DEF c, s
    <3>5. s \in DownService /\ s.generation = service.generation /\ s.state = "unavailable"
      BY <3>2, <3>3, StoppedDown DEF Down
    <3>4. alive = {} /\ ~command
      BY <1>1, <2>1, NothingAlive
    <3>. QED BY <1>1, <3>4, <3>5 DEF Confined, Fresh
  <2>2. CASE /\ service.state # "doubtful" /\ One("retry") \in due
             /\ WritesAllowed /\ service.generation < MaxGeneration
    <3>1. service.state = "backoff"
      BY <1>a, <2>2
    <3>2. s \in DownService /\ s.generation = service.generation + 1
          /\ s.state = "resolving" /\ s.uncertain = service.uncertain
      BY <1>1, <2>2, BeginningDown
    <3>3. alive = {} /\ ~command /\ ~service.uncertain
      BY <1>1, <3>1, NothingAlive
    <3>. HIDE DEF s
    <3>. QED BY <1>1, <3>2, <3>3 DEF Confined
  <2>3. CASE s = service
    <3>. HIDE DEF s
    <3>. QED BY <1>1, <2>3
  <2>4. \/ service.state = "doubtful"
        \/ /\ service.state # "doubtful" /\ One("retry") \in due
           /\ WritesAllowed /\ service.generation < MaxGeneration
        \/ s = service
    OBVIOUS
  <2>. HIDE DEF s
  <2>. QED BY <2>1, <2>2, <2>3, <2>4
<1>. HIDE DEF s
<1>5. Good(Now, y, wire, {}) /\ y.service = s
  BY <1>1, <1>3, <1>4, StoppingKeeps
<1>. HIDE DEF y
<1>6. Good(Now, u, wire, {}) /\ Kin(s, u.service)
  BY <1>1, <1>5, ConcludingKeeps
<1>7. Confined(u.service, alive)
  BY <1>4, <1>6, KinConfined
<1>. HIDE DEF u
<1>. QED BY <1>2, <1>6, <1>7, AdoptingKeeps

-----------------------------------------------------------------------------
(* The resolver thread. *)
LEMMA ResolverEndsKeeps ==
    ASSUME Inv, ResolverEnds
    PROVE  Inv'
<1>1. PICK state \in {"resolved", "doubtful"} : service' = [service EXCEPT !.state = state]
  BY DEF ResolverEnds
<1> DEFINE t == [service EXCEPT !.state = state]
           y == [Z EXCEPT !.service = t]
<1>2. /\ Z \in Session /\ Z.service = service /\ service \in DownService
      /\ service.state = "resolving" /\ Good(Now, Z, wire, {}) /\ wire \in Wire
      /\ service.generation \in Nat /\ Confined(service, alive)
  BY DEF Inv, Good, Z, Session, Service, UpService, DownService, Down, ResolverEnds
<1>3. /\ t \in DownService /\ t.state = state /\ t.generation = service.generation
      /\ t.uncertain = service.uncertain
  BY <1>2 DEF DownService, Down
<1>4. service' = t
  BY <1>1
<1>. HIDE DEF t
<1>5. Good(Now, y, wire, {}) /\ y.service = t /\ y.ui = Z.ui /\ y.sequence = Z.sequence
  BY <1>2, <1>3, StoppingKeeps DEF Fresh, Session
<1>. HIDE DEF y
<1>6. Adopt(y)
  BY <1>4, <1>5 DEF Adopt, Z, ResolverEnds
<1>7. Confined(t, alive)
  BY <1>2, <1>3, NothingAlive DEF Confined
<1>. QED BY <1>5, <1>6, <1>7, AdoptingKeeps DEF ResolverEnds, user

-----------------------------------------------------------------------------
(* The server says something, and has perhaps one thing less to do. *)
LEMMA SayingKeeps ==
    ASSUME NEW p \in Protocol, NEW w \in Live, NEW n \in Nat, Flows(Now, p, w, n),
           NEW m \in Incoming, Known(Now, p, m.of),
           m.kind = "answer" =>
              /\ Numbered(m.id, n)
              /\ \A r \in p.asked : m.id = Completion(r.seq) => NotBefore(r.document, m.of),
           NEW jobs \in SUBSET w.server.jobs, NEW v,
           v = [in |-> Append(w.in, m), server |-> [text |-> w.server.text, jobs |-> jobs]]
    PROVE  v \in Live /\ Flows(Now, p, v, n)
<1> DEFINE L == Len(w.in)
<1>1. /\ w.in \in Seq(Incoming) /\ L \in Nat /\ v.in = Append(w.in, m)
      /\ v.server.text = w.server.text /\ v.server.jobs = jobs
  BY DEF Live
<1>2. /\ v.in \in Seq(Incoming) /\ DOMAIN v.in = 1 .. L + 1 /\ v.in[L + 1] = m
      /\ \A i \in 1 .. L : v.in[i] = w.in[i] /\ i \in DOMAIN w.in
  BY <1>1
<1>3. v \in Live
  <2>1. [text |-> w.server.text, jobs |-> jobs] \in Server
    BY DEF Live, Server
  <2>. QED BY <1>1, <1>2, <2>1 DEF Live
<1>4. \A outbox, i : TextAt(v.server, outbox, i) = TextAt(w.server, outbox, i)
  BY <1>1, OnlyTextMatters
<1>5. Sent(Now, p, v)
  <2>1. \A i \in DOMAIN v.in : Known(Now, p, v.in[i].of)
    <3>1. \A i \in DOMAIN w.in : Known(Now, p, w.in[i].of)
      BY DEF Flows, Sent
    <3>2. \A i \in DOMAIN v.in : i = L + 1 \/ i \in 1 .. L
      BY <1>1, <1>2
    <3>. QED BY <1>2, <3>1, <3>2
  <2>. QED BY <1>1, <1>4, <2>1 DEF Flows, Sent
<1>6. Counted(p, v, n)
  <2>1. \A i \in DOMAIN v.in : v.in[i].kind = "answer" => Numbered(v.in[i].id, n)
    <3>1. \A i \in DOMAIN w.in : w.in[i].kind = "answer" => Numbered(w.in[i].id, n)
      BY DEF Flows, Counted
    <3>2. \A i \in DOMAIN v.in : i = L + 1 \/ i \in 1 .. L
      BY <1>1, <1>2
    <3>. QED BY <1>2, <3>1, <3>2
  <2>. QED BY <1>1, <2>1 DEF Flows, Counted
<1>7. ASSUME NEW r \in p.asked PROVE Followed(r, p, v)
  <2>1. Followed(r, p, w)
    BY DEF Flows
  <2>2. ASSUME NEW i \in DOMAIN v.in, v.in[i].kind = "answer", v.in[i].id = Completion(r.seq)
        PROVE  NotBefore(r.document, v.in[i].of)
    <3>1. i = L + 1 \/ i \in 1 .. L
      BY <1>1, <1>2
    <3>. QED BY <1>2, <2>1, <2>2, <3>1 DEF Followed
  <2>. QED BY <1>1, <1>4, <2>1, <2>2 DEF Followed
<1>. QED BY <1>3, <1>5, <1>6, <1>7 DEF Flows

(* What it says is of a text it was sent, at that time or now. *)
LEMMA SpeakingKeeps ==
    ASSUME Inv, UNCHANGED <<user, sequence, ui, service, alive>>, wire.server # None,
           NEW m \in Incoming, NEW jobs \in SUBSET wire.server.jobs,
           wire' = [in |-> Append(wire.in, m),
                    server |-> [text |-> wire.server.text, jobs |-> jobs]],
           m.of \in {None, wire.server.text} \cup {job.of : job \in wire.server.jobs},
           m.kind = "answer" =>
             \E job \in wire.server.jobs :
                m.id = job.id /\ m.of \in {None, wire.server.text, job.of}
    PROVE  Inv'
<1>1. /\ Z \in Session /\ Z.service = service /\ Z.sequence = sequence /\ Z.ui = ui
      /\ wire \in Live /\ sequence \in Nat
      /\ service.state = "running" => Stream(Now, service.protocol, wire, sequence)
      /\ Confined(service, alive) /\ Good(Now, Z, wire, {})
  BY DEF Inv, Good, Z, Session, Wire, Live
<1>2. wire' \in Live
  <2>1. [text |-> wire.server.text, jobs |-> jobs] \in Server
    BY <1>1 DEF Live, Server
  <2>. QED BY <1>1, <2>1 DEF Live
<1>3. ASSUME service.state = "running"
      PROVE  Stream(Now, service.protocol, wire', sequence)
  <2> DEFINE p == service.protocol
             n == sequence
  <2>1. /\ p \in Protocol /\ Asked(Now, p, n) /\ Flows(Now, p, wire, n)
        /\ p.outbox \in Seq(Outgoing)
    BY <1>1, <1>3 DEF Session, Service, UpService, DownService, Down, Protocol, Stream
  <2>. HIDE DEF p, n
  <2>2. Known(Now, p, m.of)
    BY <2>1 DEF Flows, Sent, Known
  <2>3. ASSUME m.kind = "answer"
        PROVE  /\ Numbered(m.id, n)
               /\ \A r \in p.asked : m.id = Completion(r.seq) => NotBefore(r.document, m.of)
    <3>1. PICK job \in wire.server.jobs :
            m.id = job.id /\ m.of \in {None, wire.server.text, job.of}
      BY <2>3
    <3>2. Numbered(m.id, n)
      BY <2>1, <3>1 DEF Flows, Counted
    <3>3. ASSUME NEW r \in p.asked, m.id = Completion(r.seq)
          PROVE  NotBefore(r.document, m.of)
      <4>1. /\ NotBefore(r.document, job.of)
            /\ NotBefore(r.document, TextAt(wire.server, p.outbox, 0))
        <5>1. Followed(r, p, wire) /\ job.id = Completion(r.seq)
          BY <2>1, <3>1, <3>3 DEF Flows
        <5>2. 0 \in 0 .. Len(p.outbox)
          BY <2>1
        <5>. QED BY <3>1, <5>1, <5>2 DEF Followed
      <4>2. TextAt(wire.server, p.outbox, 0) = wire.server.text
        BY TextAtStart
      <4>. QED BY <3>1, <4>1, <4>2 DEF NotBefore
    <3>. QED BY <3>2, <3>3
  <2>4. sequence = n /\ n \in Nat
    BY <1>1 DEF n
  <2>5. Flows(Now, p, wire', n)
    BY <1>1, <2>1, <2>2, <2>3, <2>4, SayingKeeps
  <2>6. Stream(Now, p, wire', n)
    BY <2>1, <2>5 DEF Stream
  <2>. QED BY <2>6 DEF p, n
<1>4. Good(Now, Z, wire', {})
  BY <1>1, <1>2, <1>3 DEF Good, Wire, Live
<1>5. Adopt(Z)
  BY <1>1 DEF Adopt
<1>. QED BY <1>1, <1>4, <1>5, AdoptingKeeps

LEMMA LiveParts ==
    ASSUME NEW w \in Live, NEW in, NEW jobs
    PROVE  /\ [w EXCEPT !.in = in] =
                [in |-> in, server |-> [text |-> w.server.text, jobs |-> w.server.jobs]]
           /\ [w EXCEPT !.in = in, !.server.jobs = jobs] =
                [in |-> in, server |-> [text |-> w.server.text, jobs |-> jobs]]
<1>1. w.server = [text |-> w.server.text, jobs |-> w.server.jobs]
  BY DEF Live, Server
<1>2. [w.server EXCEPT !.jobs = jobs] = [text |-> w.server.text, jobs |-> jobs]
  BY DEF Live, Server
<1>3. [w EXCEPT !.in = in] = [in |-> in, server |-> w.server]
  BY DEF Live
<1>4. [w EXCEPT !.in = in, !.server.jobs = jobs] =
        [in |-> in, server |-> [w.server EXCEPT !.jobs = jobs]]
  <2> DEFINE v == [w EXCEPT !.in = in, !.server.jobs = jobs]
  <2>1. /\ v = [x \in {"in", "server"} |-> v[x]]
        /\ v.in = in /\ v.server = [w.server EXCEPT !.jobs = jobs]
    BY DEF Live
  <2>2. v = [in |-> v.in, server |-> v.server]
    <3>. HIDE DEF v
    <3>. QED BY <2>1
  <2>. QED BY <2>1, <2>2
<1>. QED BY <1>1, <1>2, <1>3, <1>4

LEMMA ServerAnswersKeeps ==
    ASSUME Inv, ServerAnswers
    PROVE  Inv'
<1>0. PICK job \in wire.server.jobs, ok \in BOOLEAN :
        \E of \in IF ok THEN {job.of, wire.server.text} ELSE {None} :
            wire' = [wire EXCEPT !.in = Append(@, [kind |-> "answer", id |-> job.id,
                                                   ok |-> ok, of |-> of]),
                                 !.server.jobs = @ \ {job}]
  BY DEF ServerAnswers
<1>1. PICK of \in IF ok THEN {job.of, wire.server.text} ELSE {None} :
        wire' = [wire EXCEPT !.in = Append(@, [kind |-> "answer", id |-> job.id,
                                               ok |-> ok, of |-> of]),
                             !.server.jobs = @ \ {job}]
  BY <1>0
<1> DEFINE m == [kind |-> "answer", id |-> job.id, ok |-> ok, of |-> of]
           jobs == wire.server.jobs \ {job}
<1>2. wire \in Live /\ wire.server # None
  BY DEF ServerAnswers, Inv, Good, Wire, Live
<1>3. job.id \in Id /\ job.of \in Texts /\ wire.server.text \in Texts
  BY <1>2 DEF Live, Server, Job
<1>4. of \in {None, wire.server.text, job.of} /\ of \in Texts
  BY <1>3 DEF Texts
<1>5. m \in Incoming
  BY <1>3, <1>4 DEF Incoming
<1>6. m.kind = "answer" /\ m.id = job.id /\ m.of = of
  OBVIOUS
<1>7. wire' = [in |-> Append(wire.in, m),
               server |-> [text |-> wire.server.text, jobs |-> jobs]]
  <2> DEFINE in == Append(wire.in, m)
  <2>1. wire' = [wire EXCEPT !.in = in, !.server.jobs = jobs]
    BY <1>1
  <2>. HIDE DEF in, jobs
  <2>2. wire' = [in |-> in, server |-> [text |-> wire.server.text, jobs |-> jobs]]
    BY <1>2, <2>1, LiveParts, ZenonT(30)
  <2>. QED BY <2>2 DEF in
<1>8. jobs \in SUBSET wire.server.jobs
  OBVIOUS
<1>9. UNCHANGED <<user, sequence, ui, service, alive>>
  BY DEF ServerAnswers
<1>. HIDE DEF m, jobs
<1>. QED BY <1>2, <1>4, <1>5, <1>6, <1>7, <1>8, <1>9, SpeakingKeeps

LEMMA ServerPublishesKeeps ==
    ASSUME Inv, ServerPublishes
    PROVE  Inv'
<1> DEFINE m == [kind |-> "hints", of |-> wire.server.text]
<1>1. wire \in Live /\ wire.server # None /\ wire.server.text # None
  BY DEF ServerPublishes, Inv, Good, Wire, Live
<1>2. m \in Incoming /\ m.kind # "answer" /\ m.of = wire.server.text
  BY <1>1 DEF Live, Server, Texts, Incoming
<1>3. wire' = [in |-> Append(wire.in, m),
               server |-> [text |-> wire.server.text, jobs |-> wire.server.jobs]]
  <2> DEFINE in == Append(wire.in, m)
  <2>1. wire' = [wire EXCEPT !.in = in]
    BY DEF ServerPublishes
  <2>. HIDE DEF in
  <2>2. wire' = [in |-> in, server |-> [text |-> wire.server.text,
                                        jobs |-> wire.server.jobs]]
    BY <1>1, <2>1, LiveParts
  <2>. QED BY <2>2 DEF in
<1>. HIDE DEF m
<1>. QED BY <1>1, <1>2, <1>3, SpeakingKeeps DEF ServerPublishes

LEMMA ServerEndsKeeps ==
    ASSUME Inv, ServerFails \/ OrphanDies
    PROVE  Inv'
<1>1. /\ wire' \in {wire, NoWire} /\ alive' \subseteq alive
      /\ UNCHANGED <<user, sequence, ui, service>>
  BY DEF ServerFails, OrphanDies
<1>2. NoWire \in Wire /\ NoWire.server = None
  BY DEF NoWire, Wire
<1>3. Good(Now, Z, wire', {})
  <2>1. CASE wire' = wire
    BY <2>1 DEF Inv
  <2>2. CASE wire' = NoWire
    BY <1>2, <2>2 DEF Inv, Good, Stream
  <2>. QED BY <1>1, <2>1, <2>2
<1>4. Confined(Z.service, alive') /\ Adopt(Z)
  <2>1. Z.ui = ui /\ Z.service = service /\ Z.sequence = sequence
    BY DEF Z
  <2>. QED BY <1>1, <2>1 DEF Inv, Confined, Adopt
<1>. QED BY <1>1, <1>3, <1>4, AdoptingKeeps

-----------------------------------------------------------------------------
(* The user writes, deletes, creates: what was text before it is still text *)
(* that was, and the interface shows and waits for no more than it did.     *)
LEMMA InterfaceKeeps ==
    ASSUME Inv, ui' \in Ui, ui'.pending \in {None, ui.pending}, ui'.list \in {None, ui.list},
           ui'.hints \in {None, ui.hints}, \A a, b \in ui'.auto : a.id = b.id => a = b,
           DocumentOK', \A t : Past(Now, t) => Past(Now', t), modal' \in BOOLEAN,
           UNCHANGED <<command, sequence, service, wire, alive>>
    PROVE  Inv'
<1> DEFINE u == ui'
           y == [Z EXCEPT !.ui = u]
<1>1. /\ Z \in Session /\ Z.service = service /\ Z.sequence = sequence /\ Z.ui = ui
      /\ Good(Now, Z, wire, {}) /\ Confined(service, alive) /\ command \in BOOLEAN
  BY DEF Inv, Good, Z
<1>2. /\ u \in Ui /\ u.pending \in {None, Z.ui.pending} /\ u.list \in {None, Z.ui.list}
      /\ u.hints \in {None, Z.ui.hints} /\ \A a, b \in u.auto : a.id = b.id => a = b
  BY <1>1
<1>3. ui' = u
  OBVIOUS
<1>. HIDE DEF u
<1>4. Good(Now, y, wire, {})
  BY <1>1, <1>2, ForgettingKeeps
<1>5. y = [ui |-> u, service |-> service, sequence |-> sequence]
  BY <1>1 DEF Session
<1>. HIDE DEF y
<1>6. Good(Now', y, wire, {})
  BY <1>4, StillGood
<1>7. Z' = y
  BY <1>3, <1>5 DEF Z
<1>8. Good(Now, Z, wire, {})'
  BY <1>6, <1>7
<1>9. Confined(service, alive)' /\ command' \in BOOLEAN
  BY <1>1 DEF Confined
<1>. QED BY <1>8, <1>9 DEF Inv

LEMMA InvUi ==
    ASSUME Inv
    PROVE  /\ ui \in Ui /\ Z.ui = ui /\ modal \in BOOLEAN /\ DocumentOK
           /\ \A a, b \in ui.auto : a.id = b.id => a = b
BY DEF Inv, Good, Z, Session, Shows

LEMMA UserStays ==
    ASSUME Inv, UNCHANGED <<document, created>>
    PROVE  DocumentOK' /\ \A t : Past(Now, t) => Past(Now', t)
BY DEF Inv, DocumentOK, Now

LEMMA ClearedUi ==
    ASSUME Inv
    PROVE  LET u == ClearCompletion(Z).ui IN
             /\ u \in Ui /\ u.pending = None /\ u.list = None
             /\ u.hints = ui.hints /\ u.auto = ui.auto
<1> DEFINE u == [ui EXCEPT !.pending = None, !.list = None]
<1>1. ClearCompletion(Z).ui = u
  BY DEF ClearCompletion, Z
<1>2. u \in Ui /\ u.pending = None /\ u.list = None /\ u.hints = ui.hints /\ u.auto = ui.auto
  BY InvUi DEF Ui
<1>. HIDE DEF u
<1>. QED BY <1>1, <1>2

LEMMA EditionKeeps ==
    ASSUME Inv, document' \in Editions, created' = created
    PROVE  DocumentOK' /\ \A t : Past(Now, t) => Past(Now', t)
<1> DEFINE text == [document EXCEPT !.version = document.version + 1]
<1>1. CASE document' = document
  BY <1>1, UserStays
<1>2. CASE document # None /\ document' = text
  <2>1. document \in Text /\ document.id = created /\ created \in Nat
    BY <1>2 DEF Inv, DocumentOK, Texts
  <2>2. text \in Text /\ text.id = document.id /\ text.version = document.version + 1
    BY <2>1 DEF Text
  <2>3. document' = text
    BY <1>2
  <2>. HIDE DEF text
  <2>4. text # None
    BY <2>2, ServiceAssumption DEF Text
  <2>5. DocumentOK'
    BY <2>1, <2>2, <2>3 DEF DocumentOK, Texts
  <2>6. ASSUME NEW t, Past(Now, t) PROVE Past(Now', t)
    <3>1. /\ t \in Text /\ t.id <= created
          /\ t.id = document.id => t.version <= document.version
      BY <1>2, <2>6 DEF Past, Now
    <3>2. Now' = [document |-> text, created |-> created]
      BY <2>3 DEF Now
    <3>3. t.version \in Nat /\ document.version \in Nat
      BY <2>1, <3>1 DEF Text
    <3>. QED BY <2>2, <3>1, <3>2, <3>3 DEF Past
  <2>. QED BY <2>5, <2>6
<1>. QED BY <1>1, <1>2 DEF Editions

LEMMA ExecuteKeeps ==
    ASSUME Inv, Execute
    PROVE  Inv'
<1>1. /\ document' \in Editions /\ created' = created /\ modal' = modal
      /\ ui' = ClearCompletion(Z).ui /\ UNCHANGED <<command, sequence, service, wire, alive>>
  BY DEF Execute, Editions
<1>2. /\ ui' \in Ui /\ ui'.pending = None /\ ui'.list = None
      /\ ui'.hints = ui.hints /\ ui'.auto = ui.auto
  BY <1>1, ClearedUi
<1>3. modal' \in BOOLEAN /\ \A a, b \in ui'.auto : a.id = b.id => a = b
  BY <1>1, <1>2, InvUi
<1>. QED BY <1>1, <1>2, <1>3, EditionKeeps, InterfaceKeeps

LEMMA DeleteKeeps ==
    ASSUME Inv, Delete
    PROVE  Inv'
<1> DEFINE u == [ui EXCEPT !.generation = None, !.hints = None]
<1>1. /\ document' = None /\ created' = created /\ modal' = modal
      /\ ui' = ShowHints(Z, None, None).ui /\ UNCHANGED <<command, sequence, service, wire, alive>>
  BY DEF Delete
<1>2. DocumentOK'
  BY <1>1 DEF Inv, DocumentOK, Texts
<1>3. ASSUME NEW t, Past(Now, t) PROVE Past(Now', t)
  BY <1>1, <1>3 DEF Past, Now
<1>4. ui' = u
  BY <1>1 DEF ShowHints, Z
<1>5. /\ u \in Ui /\ u.pending = ui.pending /\ u.list = ui.list
      /\ u.hints = None /\ u.auto = ui.auto
  BY InvUi DEF Ui
<1>. HIDE DEF u
<1>6. modal' \in BOOLEAN /\ \A a, b \in ui'.auto : a.id = b.id => a = b
  BY <1>1, <1>4, <1>5, InvUi
<1>. QED BY <1>1, <1>2, <1>3, <1>4, <1>5, <1>6, InterfaceKeeps

LEMMA CreateKeeps ==
    ASSUME Inv, Create
    PROVE  Inv'
<1> DEFINE text == [id |-> created', version |-> 0]
<1>1. /\ document = None /\ created' = created + 1 /\ created \in Nat
      /\ document' = text /\ UNCHANGED <<modal, command, sequence, ui, service, wire, alive>>
  BY DEF Create, Inv, DocumentOK
<1>2. text \in Text /\ text.id = created + 1
  BY <1>1 DEF Text
<1>. HIDE DEF text
<1>3. DocumentOK'
  BY <1>1, <1>2 DEF DocumentOK, Texts
<1>4. ASSUME NEW t, Past(Now, t) PROVE Past(Now', t)
  <2>1. t \in Text /\ t.id <= created /\ t.id \in Nat
    BY <1>4 DEF Past, Now, Text
  <2>2. Now' = [document |-> text, created |-> created + 1]
    BY <1>1 DEF Now
  <2>. QED BY <1>1, <1>2, <2>1, <2>2 DEF Past
<1>. QED BY <1>1, <1>3, <1>4, InvUi, InterfaceKeeps

LEMMA AcceptKeeps ==
    ASSUME Inv, Accept
    PROVE  Inv'
<1>1. /\ document' \in Editions /\ created' = created /\ modal' = modal
      /\ ui' = [ui EXCEPT !.list = None] /\ UNCHANGED <<command, sequence, service, wire, alive>>
  BY DEF Accept, Editions
<1>2. /\ ui' \in Ui /\ ui'.pending = ui.pending /\ ui'.list = None
      /\ ui'.hints = ui.hints /\ ui'.auto = ui.auto
  BY <1>1, InvUi DEF Ui
<1>3. modal' \in BOOLEAN /\ \A a, b \in ui'.auto : a.id = b.id => a = b
  BY <1>1, <1>2, InvUi
<1>. QED BY <1>1, <1>2, <1>3, EditionKeeps, InterfaceKeeps

LEMMA CancelDeferredKeeps ==
    ASSUME Inv, CancelDeferred
    PROVE  Inv'
<1> DEFINE auto == {[a EXCEPT !.deferred = FALSE] : a \in ui.auto}
<1>1. ui \in Ui /\ \A a, b \in ui.auto : a.id = b.id => a = b
  BY DEF Inv, Good, Z, Session, Shows
<1>2. /\ ui' = [ui EXCEPT !.auto = auto]
      /\ UNCHANGED <<user, command, sequence, service, wire, alive>>
  BY DEF CancelDeferred, user
<1>3. \A a \in ui.auto : /\ [a EXCEPT !.deferred = FALSE].id = a.id
                         /\ [a EXCEPT !.deferred = FALSE]
                              \in [id : Nat, seq : Nat, deferred : BOOLEAN]
  BY <1>1 DEF Ui
<1>4. auto \subseteq [id : Nat, seq : Nat, deferred : BOOLEAN]
  BY <1>3
<1>5. \A a, b \in auto : a.id = b.id => a = b
  BY <1>1, <1>3
<1>. HIDE DEF auto
<1>6. /\ ui' \in Ui /\ ui'.pending = ui.pending /\ ui'.list = ui.list
      /\ ui'.hints = ui.hints /\ ui'.auto = auto
  BY <1>1, <1>2, <1>4 DEF Ui
<1>7. DocumentOK' /\ (\A t : Past(Now, t) => Past(Now', t)) /\ modal' \in BOOLEAN
  BY <1>2, UserStays, InvUi DEF user
<1>. QED BY <1>2, <1>5, <1>6, <1>7, InterfaceKeeps

LEMMA TriggerKeeps ==
    ASSUME Inv, Trigger
    PROVE  Inv'
<1>1. PICK automatic \in BOOLEAN : Adopt(Triggered(Z, automatic))
  BY DEF Trigger
<1>2. DocumentOK /\ Good(Now, Z, wire, {}) /\ Z.service = service /\ Confined(service, alive)
  BY DEF Inv, Z
<1> DEFINE z == Triggered(Z, automatic)
<1>3. Good(Now, z, wire, {}) /\ Kin(service, z.service)
  BY <1>2, TriggeringKeeps
<1>. HIDE DEF z
<1>4. Confined(z.service, alive)
  BY <1>2, <1>3, KinConfined
<1>5. Adopt(z) /\ UNCHANGED <<user, wire, alive>>
  BY <1>1 DEF z, Trigger
<1>. QED BY <1>3, <1>4, <1>5, AdoptingKeeps

LEMMA DialogKeeps ==
    ASSUME Inv, Dialog
    PROVE  Inv'
<1>1. /\ modal' = ~modal /\ ui' \in {ui, ClearCompletion(Z).ui}
      /\ UNCHANGED <<document, created, command, sequence, service, wire, alive>>
  BY DEF Dialog
<1>2. /\ ui' \in Ui /\ ui'.pending \in {None, ui.pending} /\ ui'.list \in {None, ui.list}
      /\ ui'.hints = ui.hints /\ ui'.auto = ui.auto
  BY <1>1, ClearedUi, InvUi
<1>3. modal' \in BOOLEAN /\ \A a, b \in ui'.auto : a.id = b.id => a = b
  BY <1>1, <1>2, InvUi
<1>. QED BY <1>1, <1>2, <1>3, UserStays, InterfaceKeeps

-----------------------------------------------------------------------------
(* stop_for_authority, stop_for_command *)
LEMMA StopKeeps ==
    ASSUME Inv, NEW clean, NEW next \in DownService, NEW forget, Stop(clean, next, forget),
           service.generation <= next.generation,
           next.state \in Fresh => service.generation < next.generation,
           UNCHANGED <<document, created>>
    PROVE  /\ Good(Now, Z, wire, {})' /\ DocumentOK'
           /\ service' = next /\ alive' = Survivors(service, clean)
<1> DEFINE first == IF forget THEN ClearCompletion(Z) ELSE Z
           cleared == ShowHints(first, None, None)
           z == [cleared EXCEPT !.service = next]
<1>1. Good(Now, Z, wire, {}) /\ Z.service = service
  BY DEF Inv, Z
<1>2. Good(Now, first, wire, {}) /\ first.service = service
  BY <1>1, ClearingKeeps
<1>3. wire' = NoWire /\ alive' = Survivors(service, clean) /\ Adopt(z)
  BY DEF Stop
<1>4. NoWire \in Wire
  BY DEF NoWire, Wire
<1>. HIDE DEF first
<1>5. Good(Now, cleared, wire, {}) /\ cleared.service = service
  BY <1>2, HidingKeeps
<1>. HIDE DEF cleared
<1>6. Good(Now, z, NoWire, {}) /\ z.service = next
  BY <1>4, <1>5, StoppingKeeps
<1>. HIDE DEF z
<1>7. z = [ui |-> z.ui, service |-> z.service, sequence |-> z.sequence]
  BY <1>6 DEF Good, Session
<1>8. Z' = z /\ Now' = Now /\ DocumentOK'
  BY <1>3, <1>7 DEF Adopt, Z, Now, Inv, DocumentOK
<1>9. Good(Now, Z, wire, {})'
  BY <1>3, <1>6, <1>8
<1>. QED BY <1>3, <1>6, <1>8, <1>9 DEF Adopt

LEMMA StopFacts ==
    ASSUME Inv, NEW clean \in Outcomes(service)
    PROVE  LET s == Cleaned(service, clean)
               servers == Survivors(service, clean)
           IN  /\ clean \in BOOLEAN /\ s \in Service /\ s.generation = service.generation
               /\ service.generation \in Nat
               /\ \A g, h \in servers : g = h
               /\ servers # {} => s.uncertain
<1>1. clean \in BOOLEAN
  BY DEF Outcomes
<1>2. service \in Service /\ Confined(service, alive)
  BY DEF Inv, Good, Z, Session
<1> DEFINE s == Cleaned(service, clean)
<1>3. /\ s = [service EXCEPT !.uncertain = service.uncertain \/ ~clean]
      /\ s.uncertain \in BOOLEAN
      /\ \A g, h \in Survivors(service, clean) : g = h
      /\ Survivors(service, clean) # {} => s.uncertain
  BY <1>1, <1>2, CleaningConfined
<1>. HIDE DEF s
<1>4. s \in Service /\ s.generation = service.generation /\ service.generation \in Nat
  BY <1>2, <1>3 DEF Service, UpService, DownService
<1>. QED BY <1>1, <1>3, <1>4 DEF s

LEMMA ReconcileKeeps ==
    ASSUME Inv, Reconcile
    PROVE  Inv'
<1>1. PICK clean \in Outcomes(service) :
        Stop(clean, Stopped(Cleaned(service, clean), "stopped"), FALSE)
  BY DEF Reconcile
<1> DEFINE s == Cleaned(service, clean)
           t == Stopped(s, "stopped")
           servers == Survivors(service, clean)
<1>2. /\ clean \in BOOLEAN /\ s \in Service /\ s.generation = service.generation
      /\ service.generation \in Nat
      /\ \A g, h \in servers : g = h
      /\ servers # {} => s.uncertain
  BY StopFacts
<1>3. /\ ~command /\ document' = document /\ created' = created /\ modal' = modal
      /\ command' = command
  BY DEF Reconcile, user
<1>4. Stop(clean, t, FALSE)
  BY <1>1
<1>. HIDE DEF s, servers
<1>5. /\ t \in DownService /\ t.generation = s.generation /\ t.state = "stopped"
      /\ t.uncertain = s.uncertain
  BY <1>2, StoppedDown DEF Down
<1>. HIDE DEF t
<1>6. Good(Now, Z, wire, {})' /\ DocumentOK' /\ service' = t /\ alive' = servers
  <2>1. service.generation <= t.generation /\ t.state \notin Fresh
    BY <1>2, <1>5 DEF Fresh
  <2>2. UNCHANGED <<document, created>>
    BY <1>3
  <2>. QED BY <1>4, <1>5, <2>1, <2>2, StopKeeps DEF servers
<1>7. Confined(service, alive)'
  BY <1>2, <1>3, <1>5, <1>6 DEF Confined
<1>. QED BY <1>3, <1>6, <1>7 DEF Inv

LEMMA BeginCommandKeeps ==
    ASSUME Inv, BeginCommand
    PROVE  Inv'
<1>1. PICK clean \in Outcomes(service) :
        Stop(clean, Stopped(Cleaned(service, clean), "stopped"), TRUE)
  BY DEF BeginCommand
<1> DEFINE s == Cleaned(service, clean)
           t == Stopped(s, "stopped")
           servers == Survivors(service, clean)
<1>2. /\ clean \in BOOLEAN /\ s \in Service /\ s.generation = service.generation
      /\ service.generation \in Nat
      /\ \A g, h \in servers : g = h
      /\ servers # {} => s.uncertain
  BY StopFacts
<1>3. /\ document' = document /\ created' = created /\ modal' = modal
      /\ command' = Confirmed(service')
  BY DEF BeginCommand
<1>4. Stop(clean, t, TRUE)
  BY <1>1
<1>. HIDE DEF s, servers
<1>5. /\ t \in DownService /\ t.generation = s.generation /\ t.state = "stopped"
      /\ t.uncertain = s.uncertain
  BY <1>2, StoppedDown DEF Down
<1>. HIDE DEF t
<1>6. Good(Now, Z, wire, {})' /\ DocumentOK' /\ service' = t /\ alive' = servers
  <2>1. service.generation <= t.generation /\ t.state \notin Fresh
    BY <1>2, <1>5 DEF Fresh
  <2>2. UNCHANGED <<document, created>>
    BY <1>3
  <2>. QED BY <1>4, <1>5, <2>1, <2>2, StopKeeps DEF servers
<1>7. command' = ~t.uncertain
  BY <1>3, <1>6 DEF Confirmed
<1>8. Confined(service, alive)'
  BY <1>2, <1>5, <1>6, <1>7 DEF Confined
<1>9. modal' \in BOOLEAN /\ command' \in BOOLEAN
  BY <1>3, <1>7 DEF Inv
<1>. QED BY <1>6, <1>8, <1>9 DEF Inv

(* resume_after_command *)
LEMMA EndCommandKeeps ==
    ASSUME Inv, EndCommand
    PROVE  Inv'
<1>1. /\ Good(Now, Z, wire, {}) /\ Z.service = service /\ Z \in Session /\ wire \in Wire
      /\ Z.ui = ui /\ Z.sequence = sequence /\ service \in Service
      /\ service.generation \in Nat /\ Confined(service, alive)
  BY DEF Inv, Good, Z, Session, Service, UpService, DownService
<1>2. /\ command /\ command' = FALSE /\ document' = document /\ created' = created
      /\ modal' = modal /\ UNCHANGED <<sequence, ui, wire, alive>>
  BY DEF EndCommand
<1>3. Now' = Now /\ DocumentOK'
  BY <1>2 DEF Inv, Now, DocumentOK
<1>4. alive = {}
  BY <1>1, <1>2 DEF Confined
<1>5. CASE UNCHANGED service
  <2>1. Z' = Z
    BY <1>2, <1>5 DEF Z
  <2>2. Good(Now, Z, wire, {})'
    BY <1>1, <1>2, <1>3, <2>1
  <2>3. Confined(service, alive)'
    BY <1>1, <1>2, <1>5 DEF Confined
  <2>. QED BY <1>2, <1>3, <2>2, <2>3 DEF Inv
<1>6. CASE service' = BeginResolution(service) /\ MayResume(service)
  <2> DEFINE t == BeginResolution(service)
             y == [Z EXCEPT !.service = t]
  <2>1. /\ t \in DownService /\ t.generation = service.generation + 1
        /\ t.state = "resolving" /\ t.uncertain = service.uncertain
    BY <1>1, BeginningDown
  <2>2. service' = t
    BY <1>6
  <2>. HIDE DEF t
  <2>3. Good(Now, y, wire, {})
    BY <1>1, <2>1, StoppingKeeps
  <2>4. y = [ui |-> ui, service |-> t, sequence |-> sequence]
    BY <1>1 DEF Session
  <2>5. Z' = y
    BY <1>2, <2>2, <2>4 DEF Z
  <2>. HIDE DEF y
  <2>6. Good(Now, Z, wire, {})'
    BY <1>2, <1>3, <2>3, <2>5
  <2>7. Confined(service, alive)'
    BY <1>2, <1>4, <1>6, <2>1, <2>2 DEF Confined, MayResume
  <2>. QED BY <1>2, <1>3, <2>6, <2>7 DEF Inv
<1>. QED BY <1>5, <1>6 DEF EndCommand

(* reload_language_service *)
LEMMA ReloadingKeeps ==
    ASSUME NEW z, NEW w, Good(Now, z, w, {}), Ready(z.service)
    PROVE  LET y == [z EXCEPT !.service = Reloading(@)] IN
             Good(Now, y, w, {}) /\ Kin(z.service, y.service)
<1> DEFINE s == z.service
           p == s.protocol
           id == One("reload")
<1>1. CASE id \in p.pending
  <2>1. Reloading(s) = s
    BY <1>1 DEF Reloading
  <2>2. [z EXCEPT !.service = Reloading(s)] = z
    BY <2>1 DEF Good, Session
  <2>. QED BY <2>2 DEF Kin
<1>2. CASE id \notin p.pending
  <2> DEFINE o == [p EXCEPT !.outbox = Append(@, Request(id))]
             pending == p.pending \cup {id}
             outbox == Append(p.outbox, Request(id))
             q == [p EXCEPT !.pending = pending, !.outbox = outbox]
             t == [s EXCEPT !.protocol = q]
             y == [z EXCEPT !.service = t]
  <2>1. /\ z \in Session /\ s \in UpService /\ p \in Protocol /\ z.sequence \in Nat
        /\ w \in Wire /\ Stream(Now, p, w, z.sequence) /\ s.state = "running"
    BY DEF Good, Session, Service, UpService, DownService, Down, Ready
  <2>2. /\ id \in Id /\ id \in {One("initialize"), One("reload")}
        /\ \A n : Numbered(id, n) /\ id # Completion(n)
    BY DEF One, Id, Numbered, Completion
  <2>3. outbox \in Seq(Outgoing)
    BY <2>1, <2>2 DEF Request, Outgoing, Protocol
  <2>4. pending \in SUBSET {One("initialize"), One("reload")}
    BY <2>1, <2>2 DEF Protocol
  <2>5. o = [p EXCEPT !.outbox = outbox]
    OBVIOUS
  <2>6. Reloading(s) = [s EXCEPT !.protocol.pending = pending, !.protocol.outbox = outbox]
    BY <1>2 DEF Reloading
  <2>. HIDE DEF id, outbox, pending, o
  <2>7. o.outbox = outbox /\ o.synced = p.synced /\ o.asked = p.asked
    BY <2>1, <2>3, <2>5 DEF Protocol
  <2>8. /\ q \in Protocol /\ q.outbox = outbox /\ q.synced = p.synced /\ q.asked = p.asked
    BY <2>1, <2>3, <2>4 DEF Protocol
  <2>9. Reloading(s) = t
    BY <2>1, <2>6 DEF UpService
  <2>. HIDE DEF q
  <2>10. Stream(Now, q, w, z.sequence)
    <3>1. Asked(Now, q, z.sequence)
      BY <2>1, <2>8 DEF Stream, Asked
    <3>2. ASSUME w.server # None PROVE Flows(Now, q, w, z.sequence)
      <4>1. w \in Live /\ Flows(Now, p, w, z.sequence)
        BY <2>1, <3>2 DEF Wire, Live, Stream
      <4>2. \A r \in p.asked : id # Completion(r.seq)
        BY <2>2
      <4>3. Flows(Now, o, w, z.sequence)
        <5> DEFINE n == z.sequence
        <5>1. n \in Nat /\ n <= n /\ Numbered(id, n) /\ Flows(Now, p, w, n)
          BY <2>1, <2>2, <4>1
        <5>2. id \in Id /\ p \in Protocol /\ w \in Live
          BY <2>1, <2>2, <4>1
        <5>. HIDE DEF n, p
        <5>3. Flows(Now, o, w, n)
          BY <4>2, <5>1, <5>2, RequestKeeps DEF o
        <5>. QED BY <5>3 DEF n
      <4>. QED BY <2>7, <2>8, <4>3, SameStream
    <3>. QED BY <3>1, <3>2 DEF Stream
  <2>11. /\ t \in UpService /\ t.protocol = q /\ t.state = "running" /\ Kin(s, t)
    BY <2>1, <2>8 DEF UpService, Kin
  <2>. HIDE DEF t
  <2>12. y \in Session /\ y.ui = z.ui /\ y.service = t /\ y.sequence = z.sequence
    BY <2>1, <2>11 DEF Session, Service
  <2>13. [z EXCEPT !.service = Reloading(s)] = y
    BY <2>9
  <2>. HIDE DEF y
  <2>14. Waits(Now, y, {})
    <3>1. t.protocol.asked = s.protocol.asked
      BY <2>8, <2>11
    <3>. QED BY <2>11, <2>12, <3>1 DEF Good, Waits, Kin
  <2>15. Good(Now, y, w, {})
    BY <2>1, <2>10, <2>11, <2>12, <2>14 DEF Good
  <2>. QED BY <2>11, <2>12, <2>13, <2>15
<1>. QED BY <1>1, <1>2

LEMMA ReloadKeeps ==
    ASSUME Inv, Reload
    PROVE  Inv'
<1>1. /\ WritesAllowed /\ UNCHANGED user /\ document' = document /\ created' = created
      /\ modal' = modal /\ command' = command /\ ~command
  BY DEF Reload, user, WritesAllowed
<1>2. Good(Now, Z, wire, {}) /\ Z.service = service /\ Confined(service, alive)
  BY DEF Inv, Z
<1>3. CASE ByItself(service)
  <2> DEFINE clear == ClearCompletion(Z)
             shown == ShowHints(clear, None, None)
             y == [shown EXCEPT !.service = Reloading(@)]
  <2>1. Good(Now, clear, wire, {}) /\ clear.service = service
    BY <1>2, ClearingKeeps
  <2>2. Adopt(y) /\ UNCHANGED <<wire, alive>>
    BY <1>3 DEF Reload
  <2>. HIDE DEF clear
  <2>3. Good(Now, shown, wire, {}) /\ shown.service = service
    BY <2>1, HidingKeeps
  <2>. HIDE DEF shown
  <2>4. Good(Now, y, wire, {}) /\ Kin(service, y.service)
    BY <1>3, <2>3, ReloadingKeeps DEF ByItself
  <2>. HIDE DEF y
  <2>5. Confined(y.service, alive)
    BY <1>2, <2>4, KinConfined
  <2>. QED BY <1>1, <2>2, <2>4, <2>5, AdoptingKeeps
<1>4. CASE ~ByItself(service)
  <2>1. PICK clean \in Outcomes(service) :
          LET s == Cleaned(service, clean)
          IN  Stop(clean, IF s.uncertain THEN Stopped(s, "unavailable")
                          ELSE BeginResolution([s EXCEPT !.retries = 0]), TRUE)
    BY <1>4 DEF Reload
  <2> DEFINE s == Cleaned(service, clean)
             r == [s EXCEPT !.retries = 0]
             t == IF s.uncertain THEN Stopped(s, "unavailable") ELSE BeginResolution(r)
             servers == Survivors(service, clean)
  <2>2. /\ s \in Service /\ s.generation = service.generation
        /\ service.generation \in Nat
        /\ \A g, h \in servers : g = h
        /\ servers # {} => s.uncertain
    BY StopFacts
  <2>3. Stop(clean, t, TRUE)
    BY <2>1
  <2>. HIDE DEF s, servers
  <2>4. r \in Service /\ r.generation = s.generation /\ r.uncertain = s.uncertain
    BY <2>2 DEF Service, UpService, DownService
  <2>. HIDE DEF r
  <2>5. /\ t \in DownService /\ t.generation >= s.generation /\ t.uncertain = s.uncertain
        /\ s.uncertain => t.state = "unavailable"
        /\ t.state \in Fresh => t.generation > s.generation
    <3>1. CASE s.uncertain
      <4>1. t = Stopped(s, "unavailable")
        BY <3>1
      <4>. HIDE DEF t
      <4>2. /\ t \in DownService /\ t.generation = s.generation /\ t.state = "unavailable"
            /\ t.uncertain = s.uncertain
        BY <2>2, <4>1, StoppedDown DEF Down
      <4>. QED BY <2>2, <4>2 DEF Fresh
    <3>2. CASE ~s.uncertain
      <4>1. t = BeginResolution(r)
        BY <3>2
      <4>. HIDE DEF t
      <4>2. t \in DownService /\ t.generation = r.generation + 1 /\ t.uncertain = r.uncertain
        BY <2>4, <4>1, BeginningDown
      <4>. QED BY <2>2, <2>4, <3>2, <4>2
    <3>. QED BY <3>1, <3>2
  <2>. HIDE DEF t
  <2>6. t.generation \in Nat /\ t.state # "running"
    BY <2>5 DEF DownService, Down
  <2>7. Good(Now, Z, wire, {})' /\ DocumentOK' /\ service' = t /\ alive' = servers
    BY <1>1, <2>2, <2>3, <2>5, <2>6, StopKeeps DEF servers
  <2>8. Confined(service, alive)'
    BY <1>1, <2>2, <2>5, <2>7 DEF Confined
  <2>. QED BY <1>1, <2>7, <2>8 DEF Inv
<1>. QED BY <1>3, <1>4

-----------------------------------------------------------------------------
LEMMA InitInv ==
    ASSUME Init
    PROVE  Inv
<1>1. document \in Text /\ document # None /\ DocumentOK
  BY ServiceAssumption DEF Init, Text, Texts, DocumentOK
<1>2. service \in DownService /\ service.state = "resolving"
  BY DEF Init, DownService, Down
<1>3. ui \in Ui /\ ui.pending = None /\ ui.list = None /\ ui.hints = None /\ ui.auto = {}
  BY DEF Init, NoUi, Ui
<1>4. wire \in Wire
  BY DEF Init, NoWire, Wire
<1>5. Z \in Session /\ Z.ui = ui /\ Z.service = service
  BY <1>2, <1>3 DEF Init, Z, Session, Service
<1>6. Good(Now, Z, wire, {})
  BY <1>2, <1>3, <1>4, <1>5 DEF Good, Shows, Waits
<1>7. Confined(service, alive)
  BY DEF Init, Confined
<1>. QED BY <1>1, <1>6, <1>7 DEF Init, Inv

LEMMA StutterInv ==
    ASSUME Inv, UNCHANGED vars
    PROVE  Inv'
<1>1. Z' = Z /\ Now' = Now /\ wire' = wire
  BY DEF vars, Z, Now
<1>2. Good(Now, Z, wire, {})'
  BY <1>1 DEF Inv
<1>. QED BY <1>2 DEF Inv, vars, DocumentOK, Confined

LEMMA NextInv ==
    ASSUME Inv, [Next]_vars
    PROVE  Inv'
<1>1. CASE PollAtSomeTime
  <2>1. PICK due \in {{}} \cup {{id} : id \in Timed} : Poll(due)
    BY <1>1 DEF PollAtSomeTime
  <2>2. due \in SUBSET Timed /\ UNCHANGED user
    BY <2>1 DEF Poll
  <2>3. PollRunning(due) \/ PollResolved(due) \/ PollQuiet(due)
    BY <2>1 DEF Poll
  <2>. QED BY <2>2, <2>3, PollRunningKeeps, PollResolvedKeeps, PollQuietKeeps
<1>2. CASE ResolverEnds
  BY <1>2, ResolverEndsKeeps
<1>3. CASE ServerAnswers \/ ServerPublishes \/ ServerFails \/ OrphanDies
  BY <1>3, ServerAnswersKeeps, ServerPublishesKeeps, ServerEndsKeeps
<1>4. CASE Execute
  BY <1>4, ExecuteKeeps
<1>5. CASE Delete \/ Create
  BY <1>5, DeleteKeeps, CreateKeeps
<1>6. CASE Trigger \/ Accept \/ CancelDeferred \/ Dialog
  BY <1>6, TriggerKeeps, AcceptKeeps, CancelDeferredKeeps, DialogKeeps
<1>7. CASE Reconcile \/ BeginCommand \/ EndCommand \/ Reload
  BY <1>7, ReconcileKeeps, BeginCommandKeeps, EndCommandKeeps, ReloadKeeps
<1>8. CASE UNCHANGED vars
  BY <1>8, StutterInv
<1>. QED BY <1>1, <1>2, <1>3, <1>4, <1>5, <1>6, <1>7, <1>8 DEF Next

(* Whatever the server, the clock, the user and other programs do, what is *)
(* under way to the editor, what it waits for and what is alive stay in    *)
(* step: the invariant the three below follow from.                        *)
THEOREM Invariance == Spec => []Inv
<1>. QED BY InitInv, NextInv, PTL DEF Spec

(* A list that could be accepted was computed from the text in the buffer, *)
(* and so was every hint shown, but for one of a former file of the path   *)
(* whose version the new file has reached (completion_context_is_current,  *)
(* handle_publish_diagnostics, apply_live_diagnostic_poll).                *)
THEOREM NeverStale == Spec => []NothingStale
<1>1. ASSUME Inv PROVE NothingStale
  <2>1. Z.ui = ui /\ Z.service = service /\ ui \in Ui /\ Shows(ui)
    BY <1>1 DEF Inv, Good, Session, Z
  <2>2. ASSUME ui.list # None, Current(Z, ui.list.context)
        PROVE  ui.list.of = document
    BY <2>1, <2>2 DEF Shows, Current
  <2>3. ASSUME ui.hints # None, document # None,
               ui.hints.id = document.id, ui.hints.version = document.version
        PROVE  \/ ui.hints.of = document
               \/ ui.hints.of.id < document.id /\ ui.hints.of.version = document.version
    <3>1. ui.hints.of \in Text /\ document \in Text
      BY <1>1, <2>1, <2>3 DEF Inv, DocumentOK, Texts, Ui, Hints
    <3>2. ui.hints.of.id <= document.id /\ ui.hints.of.version = document.version
      BY <2>1, <2>3 DEF Shows
    <3>. QED BY <3>1, <3>2 DEF Text
  <2>. QED BY <2>2, <2>3 DEF NothingStale
<1>. QED BY <1>1, Invariance, PTL

(* No server runs beside a command, there is never more than one, and one  *)
(* that may have survived its cleanup keeps the service down               *)
(* (stop_for_command, cancel_and_stop, schedule_retry_or_unavailable).     *)
THEOREM AlwaysConfined == Spec => []ServerConfined
<1>1. ASSUME Inv PROVE ServerConfined
  <2>1. Confined(service, alive)
    BY <1>1 DEF Inv
  <2>2. Cardinality(alive) <= 1
    <3>1. CASE alive = {}
      BY <3>1, FS_EmptySet
    <3>2. CASE alive # {}
      <4>1. PICK g : alive = {g}
        BY <2>1, <3>2 DEF Confined
      <4>. QED BY <4>1, FS_Singleton
    <3>. QED BY <3>1, <3>2
  <2>. QED BY <2>1, <2>2 DEF Confined, ServerConfined, Running
<1>. QED BY <1>1, Invariance, PTL

(* The completion the editor waits for, while its text and its server are  *)
(* the same, is one the protocol still holds, to answer it or to let it    *)
(* expire (trigger_completion_at, check_deadlines, receive_completion).    *)
THEOREM NobodyStranded == Spec => []NeverStranded
<1>1. ASSUME Inv PROVE NeverStranded
  <2>1. Z.ui = ui /\ Z.service = service /\ Waits(Now, Z, {})
    BY <1>1 DEF Inv, Good, Session, Z
  <2>2. ASSUME ui.pending # None, Current(Z, ui.pending)
        PROVE  ui.pending \in service.protocol.asked
    BY <2>1, <2>2 DEF Waits, Current, Ready
  <2>. QED BY <2>2 DEF NeverStranded
<1>. QED BY <1>1, Invariance, PTL
=============================================================================
