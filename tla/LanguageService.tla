---------------------------- MODULE LanguageService ----------------------------
(***************************************************************************)
(* src/language_service.rs and the part of src/session.rs that asks it:    *)
(* an optional rust-analyzer process, resolved, launched, synchronised,    *)
(* restarted and stopped beside the editor, and what the editor shows of   *)
(* its late answers.                                                       *)
(*                                                                         *)
(* The user-interface thread polls; between polls the user edits, deletes  *)
(* and creates the file, asks for completions, runs commands; other        *)
(* programs change the workspace; the server reads, computes, answers,     *)
(* refuses, stays silent or dies.  One path stands for all.  A text is     *)
(* known by the document it belongs to and its version, so that `of' says  *)
(* from which text the server computed what it sends; the code sees only   *)
(* the path and the version.                                               *)
(*                                                                         *)
(* A request is known by its event sequence, or its kind where there is    *)
(* one at a time.  What is sent is read at once, as the server may take as *)
(* long as it likes to answer.  Left out: the exchange of `shutdown' and   *)
(* `exit' before the cleanup that ends a server anyway, requests of the    *)
(* server, which are answered without changing anything, a thread that     *)
(* does not start, the conversion of positions, and the renaming of files. *)
(***************************************************************************)
EXTENDS Naturals, Sequences, FiniteSetsExt

CONSTANTS
    None,
    Capacity,       \* answers under way to the editor
    MAX_PENDING_REQUESTS, MAX_AUTOMATIC_RETRIES,
    MaxEdits, MaxSequence, MaxGeneration     \* bounds

ASSUME ServiceAssumption ==
    /\ {Capacity, MAX_PENDING_REQUESTS, MaxEdits} \subseteq Nat \ {0}
    /\ {MAX_AUTOMATIC_RETRIES, MaxSequence, MaxGeneration} \subseteq Nat
    /\ None \notin [id : Nat, version : Nat]

VARIABLES
    document,   \* the document at the path, [id, version], or None
    created,    \* the identity given last
    modal,      \* a dialog, a recovery or an external change is pending
    command,    \* a controlled command owns the workspace
    sequence,   \* the last request event
    ui,         \* what the session remembers and shows, see NoUi
    service,    \* LanguageService, and its Protocol while running
    wire,       \* what is under way from the server, and the server
    alive       \* generations whose server process is alive

vars == <<document, created, modal, command, sequence, ui, service, wire, alive>>
user == <<document, created, modal, command>>

NoUi == [pending |-> None, list |-> None, auto |-> {}, hints |-> None, generation |-> None]
NoWire == [in |-> <<>>, server |-> None]

Init ==
    /\ document = [id |-> 1, version |-> 0] /\ created = 1
    /\ modal = FALSE /\ command = FALSE /\ sequence = 0
    /\ ui = NoUi /\ wire = NoWire /\ alive = {}
    /\ service = [state |-> "resolving", generation |-> 1, retries |-> 0,
                  uncertain |-> FALSE, protocol |-> None]

(* Identities of requests, and of deadlines. *)
One(kind) == <<kind, 0>>
Request(id) == [kind |-> "request", id |-> id]
Told(text) == [kind |-> "text", text |-> text]      \* didOpen, didChange, didClose
Completion(n) == <<"completion", n>>

Running == service.state = "running"
WritesAllowed == ~command /\ ~modal

-----------------------------------------------------------------------------
(* LanguageService as operators on its record. *)

Stopped(s, state) == [s EXCEPT !.state = state, !.protocol = None]

(* cancel_and_stop, cleanup: the group is killed, and either known to be   *)
(* gone in time or not; a resolver is waited for, and may be doubtful:     *)
(* panicked, or unsure whether its probes are gone.                        *)
Cleaned(s, clean) == [s EXCEPT !.uncertain = @ \/ ~clean]
Outcomes(s) ==
    CASE s.state \in {"running", "resolving"} -> BOOLEAN
      [] s.state = "doubtful" -> {FALSE}
      [] OTHER -> {TRUE}
Survivors(s, clean) ==
    IF s.state = "running" /\ clean THEN alive \ {s.generation} ELSE alive

BeginResolution(s) ==
    [Stopped(s, "resolving") EXCEPT !.generation = @ + 1]

Retried(s) ==
    LET n == s.retries + 1
    IN  [Stopped(s, IF ~s.uncertain /\ n <= MAX_AUTOMATIC_RETRIES THEN "backoff"
                    ELSE "unavailable") EXCEPT !.retries = n]

Launched(s) ==
    [s EXCEPT !.state = "running",
              !.protocol = [state |-> "initializing", pending |-> {One("initialize")},
                            asked |-> {}, outbox |-> <<Request(One("initialize"))>>,
                            synced |-> None]]

Ready(s) == s.state = "running" /\ s.protocol.state = "ready"

(* completion_generation *)
Opened(s) == document # None /\ Ready(s)                                \* mutant
Synced(s) == document # None /\ Ready(s) /\ s.protocol.synced = document

-----------------------------------------------------------------------------
(***************************************************************************)
(* Protocol::poll.  x holds the protocol, the completions and the hints it *)
(* has received in this poll, and whether all went well.                   *)
(***************************************************************************)

(* What the server has read: a request is about the last text before it.   *)
TextAt(server, outbox, i) ==
    LET texts == {j \in 1 .. i : outbox[j].kind = "text"}
    IN  IF texts = {} THEN server.text ELSE outbox[Max(texts)].text

ReadAll(server, outbox) ==
    [text |-> TextAt(server, outbox, Len(outbox)),
     jobs |-> server.jobs \cup
                {[id |-> outbox[i].id, of |-> TextAt(server, outbox, i)] :
                    i \in {j \in DOMAIN outbox : outbox[j].kind = "request"}}]

Flush(p, w) ==
    IF WritesAllowed /\ w.server # None
    THEN [p |-> [p EXCEPT !.outbox = <<>>],
          w |-> [w EXCEPT !.server = ReadAll(@, p.outbox)]]
    ELSE [p |-> p, w |-> w]

DropResponse(x, request, of) == x                                       \* mutant
Respond(x, request, of) ==
    [x EXCEPT !.responses = @ \cup {[seq |-> request.seq, of |-> of]}]

Answered(x, m, due) ==
    LET asked == {r \in x.p.asked : Completion(r.seq) = m.id}
        y == [x EXCEPT !.p.asked = @ \ asked, !.p.pending = @ \ {m.id}]
    IN  IF asked # {}
        THEN Respond(y, CHOOSE r \in asked : TRUE,
                     IF m.ok /\ m.id \notin due THEN m.of ELSE None)
        ELSE IF m.id \notin x.p.pending THEN x
        ELSE IF ~m.ok THEN [y EXCEPT !.ok = FALSE]
        ELSE IF m.id = One("initialize") THEN [y EXCEPT !.p.state = "ready"]
        ELSE y

Published(x, m) ==
    IF x.p.synced # None /\ x.p.synced.version = m.of.version
    THEN [x EXCEPT !.hints = [id |-> x.p.synced.id, version |-> m.of.version, of |-> m.of]]
    ELSE x

Handle(x, m, due) ==
    IF ~x.ok THEN x ELSE IF m.kind = "answer" THEN Answered(x, m, due) ELSE Published(x, m)

HandleAll(x, messages, due) ==
    LET after[i \in 0 .. Len(messages)] ==
            IF i = 0 THEN x ELSE Handle(after[i - 1], messages[i], due)
    IN  after[Len(messages)]

(* reconcile_documents: an identity that is gone is closed before the next *)
(* is opened; hints not yet shown go with the text they were for.          *)
Reconciled(x) ==
    LET old == x.p.synced
        gone == old # None /\ (document = None \/ document.id # old.id)
        close == IF gone THEN <<Told(None)>> ELSE <<>>
        open == IF document # None /\ document # old THEN <<Told(document)>> ELSE <<>>
    IN  IF ~x.ok \/ ~WritesAllowed \/ x.p.state # "ready" THEN x
        ELSE [x EXCEPT !.p.outbox = @ \o close \o open,
                       !.p.synced = document,
                       !.hints = IF old = document THEN @ ELSE None]

(* check_deadlines: a late completion is answered with nothing, anything   *)
(* else late is a failure.                                                 *)
Expired(x, due) ==
    LET over == {r \in x.p.asked : Completion(r.seq) \in due}
    IN  IF ~x.ok THEN x
        ELSE [x EXCEPT !.p.asked = @ \ over, !.ok = (x.p.pending \cap due = {}),
                       !.responses = @ \cup {[seq |-> r.seq, of |-> None] : r \in over}]

(* The whole poll, of the first k messages; a server that is gone fails it. *)
Polled(p, w, k, due) ==
    LET first == Flush(p, w)
        start == [p |-> first.p, responses |-> {}, hints |-> None, ok |-> w.server # None]
        x == Expired(Reconciled(HandleAll(start, SubSeq(w.in, 1, k), due)), due)
        last == Flush(x.p, [first.w EXCEPT !.in = SubSeq(@, k + 1, Len(@))])
    IN  [x |-> [x EXCEPT !.p = last.p], w |-> last.w]

-----------------------------------------------------------------------------
(***************************************************************************)
(* The session.  z holds the interface, the service and the last sequence. *)
(***************************************************************************)
Z == [ui |-> ui, service |-> service, sequence |-> sequence]

(* completion_context_is_current *)
Current(z, context) ==
    /\ WritesAllowed
    /\ document = context.document
    /\ Ready(z.service) /\ z.service.generation = context.generation

ClearCompletion(z) == [z EXCEPT !.ui.pending = None, !.ui.list = None]

Defer(autos, a) == (autos \ {a}) \cup {[a EXCEPT !.deferred = TRUE]}

Full(p) == Cardinality(p.pending) + Cardinality(p.asked) >= MAX_PENDING_REQUESTS

Asking(p, request) ==
    [p EXCEPT !.asked = @ \cup {request},
              !.outbox = Append(@, Request(Completion(request.seq)))]

(* trigger_completion_at; the file may have changed on disk, see Reconcile *)
Ask(z, request, automatic) ==
    [z EXCEPT !.sequence = request.seq,
              !.service.protocol = Asking(@, request),
              !.ui.pending = request,
              !.ui.auto = IF automatic
                          THEN @ \cup {[id |-> document.id, seq |-> request.seq,
                                        deferred |-> FALSE]}
                          ELSE @]

Triggered(z, automatic) ==
    LET same == {a \in z.ui.auto : document # None /\ a.id = document.id}
        clear == ClearCompletion(z)
        request == [seq |-> z.sequence + 1, document |-> document,
                    generation |-> z.service.generation]
    IN  IF automatic /\ same # {}
        THEN [clear EXCEPT !.ui.auto = Defer(@, CHOOSE a \in same : TRUE)]
        ELSE IF ~Synced(z.service) \/ ~WritesAllowed \/ z.sequence = MaxSequence THEN clear
        ELSE IF Full(z.service.protocol) THEN [clear EXCEPT !.sequence = request.seq]
        ELSE Ask(clear, request, automatic)

(* receive_completion: the one that is waited for, if it is there. *)
Receive(z, responses) ==
    LET mine == {r \in responses : z.ui.pending # None /\ r.seq = z.ui.pending.seq}
        of == (CHOOSE r \in mine : TRUE).of
    IN  IF mine = {} THEN z
        ELSE [z EXCEPT !.ui.pending = None,
                       !.ui.list = IF Current(z, z.ui.pending) /\ of # None
                                   THEN [context |-> z.ui.pending, of |-> of] ELSE None]

(* apply_live_diagnostic_poll *)
ShowHints(z, generation, hints) ==
    LET kept == IF z.ui.generation # generation THEN None
                ELSE IF z.ui.hints # None /\ document # None
                        /\ z.ui.hints.id = document.id /\ z.ui.hints.version = document.version
                     THEN z.ui.hints ELSE None
        fits == hints # None /\ generation # None /\ document # None
                /\ hints.id = document.id /\ hints.version = document.version
    IN  [z EXCEPT !.ui.generation = generation,
                  !.ui.hints = IF fits THEN hints
                               ELSE IF generation = None THEN None ELSE kept]

(* The rest of poll_language_service: completions, then automatic requests *)
(* whose time is over, then the one that was put off, then what is stale.  *)
Unexpired(autos, due) == {a \in autos : Completion(a.seq) \notin due}

RetireStale(z) ==
    IF \E context \in ({z.ui.pending} \cup
                       {IF z.ui.list = None THEN None ELSE z.ui.list.context}) \ {None} :
            ~Current(z, context)
    THEN ClearCompletion(z) ELSE z

Conclude(z, responses, due) ==
    LET answered == {a \in z.ui.auto : \E r \in responses : r.seq = a.seq}
        left == Unexpired(z.ui.auto \ answered, due)
        again == \E a \in z.ui.auto \ left :
                    a.deferred /\ document # None /\ a.id = document.id
        received == [Receive(z, responses) EXCEPT !.ui.auto = left]
    IN  RetireStale(IF again THEN Triggered(received, TRUE) ELSE received)

(* Whatever has a deadline. *)
Timed ==
    {Completion(a.seq) : a \in ui.auto}
      \cup (IF service.protocol = None THEN {}
            ELSE service.protocol.pending
                    \cup {Completion(r.seq) : r \in service.protocol.asked})
      \cup (IF service.state = "backoff" THEN {One("retry")} ELSE {})

Adopt(z) == ui' = z.ui /\ service' = z.service /\ sequence' = z.sequence

-----------------------------------------------------------------------------
(* LanguageService::poll and its caller, by the state of the service. *)

PollRunning(due) ==
    /\ Running
    /\ \E healthy \in (IF service.retries > 0 /\ Ready(service) THEN BOOLEAN ELSE {FALSE}),
          k \in 0 .. Len(wire.in) :
        LET s == IF healthy THEN [service EXCEPT !.retries = 0] ELSE service
            polled == Polled(s.protocol, wire, k, due)
            x == polled.x
            generation == IF x.ok /\ x.p.state = "ready" THEN s.generation ELSE None
            Shown(t) == Adopt(Conclude(ShowHints([Z EXCEPT !.service = t], generation, x.hints),
                                       x.responses, due))
        IN  \/ /\ x.ok /\ Shown([s EXCEPT !.protocol = x.p])
               /\ wire' = polled.w /\ UNCHANGED alive
            \/ /\ ~x.ok /\ wire' = NoWire
               /\ \E clean \in BOOLEAN :
                    Shown(Retried(Cleaned(s, clean))) /\ alive' = Survivors(s, clean)

(* Nothing is launched while anything else wants an answer of the user;    *)
(* then the disk is compared, the resolution recorded and the server       *)
(* started, any of which may fail.                                         *)
PollResolved(due) ==
    /\ service.state \in {"resolved", "pending"}
    /\ LET z == ShowHints(Z, None, None)
       IN  IF ~WritesAllowed
           THEN Adopt([z EXCEPT !.service.state = "pending"]) /\ UNCHANGED <<wire, alive>>
           ELSE \/ /\ Adopt(Conclude([z EXCEPT !.service = Launched(@)], {}, due))
                   /\ wire' = [NoWire EXCEPT !.server = [text |-> None, jobs |-> {}]]
                   /\ alive' = alive \cup {service.generation}
                \/ /\ \E clean \in BOOLEAN :
                        /\ Adopt(Conclude([z EXCEPT !.service = Retried(Cleaned(@, clean))],
                                          {}, due))
                        /\ alive' = IF clean THEN alive ELSE alive \cup {service.generation}
                   /\ UNCHANGED wire
                \/ /\ \/ \E state \in {"stopped", "unavailable"} :
                            Adopt([z EXCEPT !.service = Stopped(@, state)])
                      \/ Adopt(Conclude([z EXCEPT !.service = Stopped(@, "unavailable")],
                                        {}, due))
                   /\ UNCHANGED <<wire, alive>>

PollQuiet(due) ==
    /\ service.state \in {"resolving", "doubtful", "backoff", "unavailable", "stopped"}
    /\ LET mayRetry == WritesAllowed /\ service.generation < MaxGeneration
           s == CASE service.state = "doubtful" ->
                        Stopped(Cleaned(service, FALSE), "unavailable")
                  [] One("retry") \in due /\ mayRetry -> BeginResolution(service)
                  [] OTHER -> service
       IN  Adopt(Conclude([ShowHints(Z, None, None) EXCEPT !.service = s], {}, due))
    /\ UNCHANGED <<wire, alive>>

Poll(due) == (PollRunning(due) \/ PollResolved(due) \/ PollQuiet(due)) /\ UNCHANGED user

(* The clock: a poll may find a deadline passed. *)
PollAtSomeTime == \E due \in {{}} \cup {{id} : id \in Timed} : Poll(due)

-----------------------------------------------------------------------------
(* The resolver thread. *)

ResolverEnds ==
    /\ service.state = "resolving"
    /\ \E state \in {"resolved", "doubtful"} : service' = [service EXCEPT !.state = state]
    /\ UNCHANGED <<user, sequence, ui, wire, alive>>

-----------------------------------------------------------------------------
(* The server: answers what it was asked in any order, from the text it    *)
(* had when it read the request or has now, and publishes hints when it    *)
(* likes.                                                                  *)
ServerAnswers ==
    /\ wire.server # None /\ Len(wire.in) < Capacity
    /\ \E job \in wire.server.jobs, ok \in BOOLEAN :
        \E of \in IF ok THEN {job.of, wire.server.text} ELSE {None} :
            wire' = [wire EXCEPT
                        !.in = Append(@, [kind |-> "answer", id |-> job.id,
                                          ok |-> ok, of |-> of]),
                        !.server.jobs = @ \ {job}]
    /\ UNCHANGED <<user, sequence, ui, service, alive>>

ServerPublishes ==
    /\ wire.server # None /\ wire.server.text # None
    /\ Len(wire.in) < Capacity
    /\ wire' = [wire EXCEPT !.in = Append(@, [kind |-> "hints", of |-> wire.server.text])]
    /\ UNCHANGED <<user, sequence, ui, service, alive>>

(* It exits, breaks a frame or a bound; its process may live on. *)
ServerFails ==
    /\ wire.server # None /\ wire' = NoWire
    /\ alive' \in {alive, alive \ {service.generation}}
    /\ UNCHANGED <<user, sequence, ui, service>>

OrphanDies ==
    /\ \E g \in alive : (~Running \/ g # service.generation) /\ alive' = alive \ {g}
    /\ UNCHANGED <<user, sequence, ui, service, wire>>

-----------------------------------------------------------------------------
(***************************************************************************)
(* The user, the other calls of the session.  What each of them saves or   *)
(* compares with the disk on its way is Reconcile, before or after it.     *)
(***************************************************************************)

(* The text after an edit, or after one that changed nothing. *)
Editions ==
    {document} \cup
        (IF document = None \/ document.id + document.version >= MaxEdits THEN {}
         ELSE {[document EXCEPT !.version = @ + 1]})

(* execute: the completion goes first, whatever the command is and whether *)
(* or not something then refuses it, a command that runs above all.        *)
Execute ==
    /\ document' \in IF command THEN {document} ELSE Editions
    /\ ui' = ClearCompletion(Z).ui
    /\ UNCHANGED <<created, modal, command, sequence, service, wire, alive>>

(* confirm_delete, create_file: neither forgets the completion, which      *)
(* RetireStale does at the next poll.                                      *)
Delete ==
    /\ ~command /\ document # None /\ document' = None
    /\ ui' = ShowHints(Z, None, None).ui
    /\ UNCHANGED <<created, modal, command, sequence, service, wire, alive>>

Create ==
    /\ ~command /\ document = None
    /\ created + service.generation <= MaxEdits     \* a bound on both together
    /\ created' = created + 1
    /\ document' = [id |-> created', version |-> 0]
    /\ UNCHANGED <<modal, command, sequence, ui, service, wire, alive>>

Trigger ==
    /\ WritesAllowed /\ document # None
    /\ \E automatic \in BOOLEAN : Adopt(Triggered(Z, automatic))
    /\ UNCHANGED <<user, wire, alive>>

(* accept_completion: the list is gone in any case, and edits the text if  *)
(* it is for the text, cursor and server of now.                           *)
Applicable == Current(Z, ui.list.context)

Accept ==
    /\ ui.list # None /\ ui' = [ui EXCEPT !.list = None]
    /\ document' \in IF Applicable THEN Editions ELSE {document}
    /\ UNCHANGED <<created, modal, command, sequence, service, wire, alive>>

(* cancel_deferred_automatic_completion: a key that is not typing. *)
CancelDeferred ==
    /\ \E a \in ui.auto : a.deferred
    /\ ui' = [ui EXCEPT !.auto = {[a EXCEPT !.deferred = FALSE] : a \in @}]
    /\ UNCHANGED <<user, sequence, service, wire, alive>>

(* A prompt of the editor clears the completion when it opens, a           *)
(* confirmation, a blocker or a recovery leaves it (set_command_modal).    *)
Dialog ==
    /\ modal' = ~modal
    /\ ui' \in {ui, IF modal' THEN ClearCompletion(Z).ui ELSE ui}
    /\ UNCHANGED <<document, created, command, sequence, service, wire, alive>>

(* stop_for_authority, stop_for_command *)
Stop(clean, next, forget) ==
    LET cleared == ShowHints(IF forget THEN ClearCompletion(Z) ELSE Z, None, None)
    IN  /\ wire' = NoWire /\ alive' = Survivors(service, clean)
        /\ Adopt([cleared EXCEPT !.service = next])

(* recheck_external found that another program changed a file. *)
Reconcile ==
    /\ ~command
    /\ \E clean \in Outcomes(service) :
        Stop(clean, Stopped(Cleaned(service, clean), "stopped"), FALSE)
    /\ UNCHANGED user

(* begin_command: only behind a confirmed cleanup. *)
Assumed(s) == s.state = "stopped"                                       \* mutant
Confirmed(s) == ~s.uncertain

BeginCommand ==
    /\ WritesAllowed
    /\ \E clean \in Outcomes(service) :
        Stop(clean, Stopped(Cleaned(service, clean), "stopped"), TRUE)
    /\ command' = Confirmed(service')
    /\ UNCHANGED <<document, created, modal>>

(* resume_after_command *)
MayResume(s) == ~s.uncertain /\ s.state = "stopped"

EndCommand ==
    /\ command /\ command' = FALSE
    /\ IF MayResume(service) /\ service.generation < MaxGeneration
       THEN service' = BeginResolution(service) ELSE UNCHANGED service
    /\ UNCHANGED <<document, created, modal, sequence, ui, wire, alive>>

(* reload_language_service: a server that is ready reloads by itself, once *)
(* at a time; any other, or one with no room for the request, is replaced. *)
MayRestart(s) == ~s.uncertain
Reloading(s) ==
    IF One("reload") \in s.protocol.pending THEN s
    ELSE [s EXCEPT !.protocol.pending = @ \cup {One("reload")},
                   !.protocol.outbox = Append(@, Request(One("reload")))]

ByItself(s) ==
    Ready(s) /\ (One("reload") \in s.protocol.pending \/ ~Full(s.protocol))

Reload ==
    /\ WritesAllowed /\ MayRestart(service) /\ UNCHANGED user
    /\ IF ByItself(service)
       THEN /\ Adopt([ShowHints(ClearCompletion(Z), None, None)
                        EXCEPT !.service = Reloading(@)])
            /\ UNCHANGED <<wire, alive>>
       ELSE /\ service.generation < MaxGeneration
            /\ \E clean \in Outcomes(service) :
                LET s == Cleaned(service, clean)
                IN  Stop(clean, IF s.uncertain THEN Stopped(s, "unavailable")
                                ELSE BeginResolution([s EXCEPT !.retries = 0]), TRUE)

-----------------------------------------------------------------------------
Next ==
    \/ PollAtSomeTime \/ ResolverEnds
    \/ ServerAnswers \/ ServerPublishes \/ ServerFails \/ OrphanDies
    \/ Execute \/ Delete \/ Create \/ Trigger \/ Accept \/ CancelDeferred \/ Dialog
    \/ Reconcile \/ BeginCommand \/ EndCommand \/ Reload

Spec == Init /\ [][Next]_vars

-----------------------------------------------------------------------------
(* A completion that could be accepted, and every hint shown, was computed *)
(* from exactly the text in the buffer, however late it came and whatever  *)
(* was edited, restarted or reopened meanwhile (completion_context_is_     *)
(* current, handle_publish_diagnostics).  One case escapes: a hint for the *)
(* former file of a path whose version the new file has reached.           *)
NothingStale ==
    /\ ui.list # None /\ Current(Z, ui.list.context) => ui.list.of = document
    /\ ui.hints # None /\ ui.generation # None /\ document # None
         /\ ui.hints.id = document.id /\ ui.hints.version = document.version =>
            \/ ui.hints.of = document
            \/ ui.hints.of.id < document.id /\ ui.hints.of.version = document.version

(* A command never runs beside a server that could write to the workspace, *)
(* and no second server is started while the first may be alive: a cleanup *)
(* that was not confirmed keeps the service down for good.                 *)
ServerConfined ==
    /\ command => alive = {} /\ service.state = "stopped"
    /\ Cardinality(alive) <= 1
    /\ \A g \in alive : (Running /\ g = service.generation) \/ service.uncertain

(* Nobody waits for what will not come: while its text and its server are  *)
(* the same, the completion the editor waits for is one the protocol will  *)
(* answer or let expire (trigger_completion_at, check_deadlines,           *)
(* receive_completion).                                                    *)
NeverStranded ==
    ui.pending # None /\ Current(Z, ui.pending) =>
        ui.pending \in service.protocol.asked
=============================================================================
