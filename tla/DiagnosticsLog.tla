--------------------------- MODULE DiagnosticsLog ---------------------------
(***************************************************************************)
(* The console and network buffers of one target (DiagnosticsRegistry in   *)
(* src/src/broker.rs): the monitor that fills them from Chrome's events    *)
(* (src/src/cdp.rs), the tools that list, get and clear them, and the      *)
(* click that reads them to decide whether its submission was sent.        *)
(*                                                                         *)
(* The monitor takes each kind of event from a stream of its own and picks *)
(* among the streams at random, so a response may be recorded before its   *)
(* request.  Every access is one section of the registry's mutex, and a    *)
(* step here.  PageTools has who may start and stop the monitor; here only *)
(* that it runs, stops and is off matters.                                 *)
(*                                                                         *)
(* A buffer is the set of its events: sequence numbers give their order.   *)
(* URLs, headers, levels and texts are left out, and so are the filters on *)
(* them and the paging of long lists.                                      *)
(***************************************************************************)
EXTENDS Naturals, Sequences, FiniteSets, Functions

CONSTANTS
    Requests,        \* network requests of the page, as Chrome numbers them
    Messages,        \* console messages
    BufferLimit,     \* DIAGNOSTICS_BUFFER_LIMIT
    EvidenceLimit,   \* ACTION_EVIDENCE_NETWORK_EVENT_LIMIT
    Profiles         \* bounds: what happens in a behaviour, and the events it records

Optional == {"list", "clear", "reset", "stop", "click", "redirect", "log"}

ASSUME LogProfilesAssumption ==
    /\ {BufferLimit, EvidenceLimit} \subseteq Nat \ {0}
    /\ Profiles \subseteq [does : SUBSET Optional, requests : SUBSET Requests,
                           methods : SUBSET {"GET", "POST"}, pending : Nat, events : Nat]

Completions == {"response", "failed", "finished"}
Kinds       == {"request", "console"} \cup Completions
Methods     == {"GET", "POST"}
Event       == [sequence : Nat, kind : Kinds, about : Requests \cup Messages, method : Methods]

VARIABLES
    console,         \* TargetDiagnostics.console
    network,         \* TargetDiagnostics.network
    next_sequence,   \* DiagnosticsRegistry.next_sequence
    monitor,         \* the monitor task: "on", "stopping" or "off"
    streams,         \* events it has still to take, by kind
    page,            \* Chrome: how far each request has come
    method,          \* Chrome: the method of each request
    redirected,      \* history: requests that were redirected
    click,           \* a click on a submit control
    given,           \* history: an id that a list has returned, at most one
    profile          \* which behaviours this one is among

bufferVars == <<console, network, next_sequence>>
pageVars   == <<page, method, redirected>>
logVars    == <<bufferVars, monitor, streams, pageVars, click, given, profile>>

NoEvents == [k \in Kinds |-> <<>>]
NoClick  == [pc |-> "idle", since |-> 0, sent |-> {}]

LogTypeOK ==
    /\ console \subseteq Event /\ network \subseteq Event
    /\ next_sequence \in Nat \ {0}
    /\ monitor \in {"on", "stopping", "off"}
    /\ streams \in [Kinds -> Seq([about : Requests \cup Messages, method : Methods])]
    /\ page \in [Requests -> {"unsent", "sent", "answered", "done"}]
    /\ method \in [Requests -> Methods]
    /\ redirected \subseteq Requests
    /\ click \in [pc : {"idle", "effect", "again", "activate"}, since : Nat, sent : SUBSET Requests]
    /\ given \subseteq [buffer : {"console", "network"}, id : Nat, about : Requests \cup Messages,
                        asked : BOOLEAN]
    /\ profile \in Profiles

LogInit ==
    /\ console = {} /\ network = {} /\ next_sequence = 1
    /\ monitor = "on" /\ streams = NoEvents
    /\ page = [r \in Requests |-> "unsent"]
    /\ method = [r \in Requests |-> "GET"]
    /\ redirected = {}
    /\ click = NoClick
    /\ given = {}
    /\ profile \in Profiles

(***************************************************************************)
(* The records the tools make of the events: one per request, known by its *)
(* last request event or, while there is none, by its first event.         *)
(***************************************************************************)
Since(buffer, since) == {e \in buffer : e.sequence > since}
Own(events, r)       == {e \in events : e.about = r}
Asks(events, r)      == {e \in Own(events, r) : e.kind = "request"}

IsFirst(e, events) == \A d \in Own(events, e.about) : e.sequence <= d.sequence

\* Does the record of e's request bear the sequence number, and the id, of e?
IsKey(e, events) ==
    IF Asks(events, e.about) = {}
    THEN IsFirst(e, events)
    ELSE /\ e.kind = "request"
         /\ \A d \in Asks(events, e.about) : d.sequence <= e.sequence

\* network_records
Records(events) == {e \in events : IsKey(e, events)}

FirstMethod(e, events) ==
    IF \E d \in Asks(events, e.about) : IsFirst(d, events) THEN e.method ELSE "GET"

RecordMethod(e, events) == IF e.kind = "request" THEN e.method ELSE "GET"

Completed(e, events) == \E d \in Own(events, e.about) : d.kind \in Completions

\* the part of the records an action looks at
Evidence(events) ==
    {e \in Records(events) :
        Cardinality({d \in Records(events) : d.sequence < e.sequence}) < EvidenceLimit}

\* effect_has_completed_submit_request
SubmitSignal ==
    LET events == Since(network, click.since)
    IN  \E e \in Evidence(events) : RecordMethod(e, events) # "GET" /\ Completed(e, events)

(***************************************************************************)
(* The page.  A redirect repeats the request event, with the method of the *)
(* new request, and no response event.                                     *)
(***************************************************************************)
Pending == SumFunction([k \in Kinds |-> Len(streams[k])])

\* Bounds: of the events the monitor has still to take, and of all it takes.
Emit(k, x, m) ==
    IF monitor = "off" THEN UNCHANGED streams
    ELSE /\ Pending < profile.pending /\ next_sequence + Pending <= profile.events
         /\ streams' = [streams EXCEPT ![k] = Append(@, [about |-> x, method |-> m])]

PageSends(r, m) ==
    /\ page[r] = "unsent" /\ r \in profile.requests /\ m \in profile.methods
    /\ page' = [page EXCEPT ![r] = "sent"]
    /\ method' = [method EXCEPT ![r] = m]
    /\ Emit("request", r, m)
    /\ click' = IF click.pc \in {"effect", "again"} THEN [click EXCEPT !.sent = @ \cup {r}] ELSE click
    /\ UNCHANGED <<bufferVars, monitor, redirected, given, profile>>

\* Bound: a request is redirected once.
PageRedirects(r, m) ==
    /\ "redirect" \in profile.does
    /\ page[r] = "sent" /\ r \notin redirected /\ m \in {"GET", method[r]}
    /\ redirected' = redirected \cup {r}
    /\ Emit("request", r, m)
    /\ UNCHANGED <<bufferVars, monitor, page, method, click, given, profile>>

PageProgress(r, from, to, k) ==
    /\ page[r] = from
    /\ page' = [page EXCEPT ![r] = to]
    /\ Emit(k, r, "GET")
    /\ UNCHANGED <<bufferVars, monitor, method, redirected, click, given, profile>>

PageAnswers(r)  == PageProgress(r, "sent", "answered", "response")
PageFinishes(r) == PageProgress(r, "answered", "done", "finished")
PageFails(r)    == \E from \in {"sent", "answered"} : PageProgress(r, from, "done", "failed")

\* Bound: one message is under way at a time.
PageLogs(x) ==
    /\ "log" \in profile.does /\ streams["console"] = <<>> /\ monitor # "off"
    /\ Emit("console", x, "GET")
    /\ UNCHANGED <<bufferVars, monitor, pageVars, click, given, profile>>

(***************************************************************************)
(* The monitor and the registry's push_event.                              *)
(***************************************************************************)
Oldest(buffer) == CHOOSE e \in buffer : \A d \in buffer : e.sequence <= d.sequence

\* truncate_front
Capped(buffer) == IF Cardinality(buffer) > BufferLimit THEN buffer \ {Oldest(buffer)} ELSE buffer

Record(k) ==
    LET e == [sequence |-> next_sequence, kind |-> k, about |-> Head(streams[k]).about,
              method |-> Head(streams[k]).method]
    IN  /\ monitor # "off" /\ streams[k] # <<>>
        /\ streams' = [streams EXCEPT ![k] = Tail(@)]
        /\ next_sequence' = next_sequence + 1
        /\ IF k = "console"
           THEN console' = Capped(console \cup {e}) /\ UNCHANGED network
           ELSE network' = Capped(network \cup {e}) /\ UNCHANGED console
        /\ UNCHANGED <<monitor, pageVars, click, given, profile>>

\* Its connection is lost, or the registry lets go of it.
StopMonitor ==
    /\ "stop" \in profile.does /\ monitor = "on"
    /\ monitor' = "stopping"
    /\ UNCHANGED <<bufferVars, streams, pageVars, click, given, profile>>

\* The task sees the stop; what is left in its streams is dropped.
MonitorEnds ==
    /\ monitor = "stopping"
    /\ monitor' = "off" /\ streams' = NoEvents
    /\ UNCHANGED <<bufferVars, pageVars, click, given, profile>>

EnsureMonitor ==
    /\ monitor = "off"
    /\ monitor' = "on"
    /\ UNCHANGED <<bufferVars, streams, pageVars, click, given, profile>>

NumbersFrom1(n) == 1

\* the next sequence number after the buffers of a target were reset
NumbersAfterReset(n) == n

\* reset_target, at a lease boundary
ResetTarget ==
    /\ "reset" \in profile.does
    /\ console' = {} /\ network' = {}
    /\ next_sequence' = NumbersAfterReset(next_sequence)
    /\ monitor' = IF monitor = "on" THEN "stopping" ELSE monitor
    /\ UNCHANGED <<streams, pageVars, click, given, profile>>

(***************************************************************************)
(* The tools.  The first list of a client has no since, which is 0 here.   *)
(***************************************************************************)
Give(b, e) == given' = {[buffer |-> b, id |-> e.sequence, about |-> e.about,
                         asked |-> e.kind = "request"]}

\* Bound: the client keeps one of the ids it was given.
ListConsole(since) ==
    /\ "list" \in profile.does
    /\ \E e \in Since(console, since) : Give("console", e)
    /\ UNCHANGED <<bufferVars, monitor, streams, pageVars, click, profile>>

ListNetwork(since) ==
    /\ "list" \in profile.does
    /\ \E e \in Records(Since(network, since)) : Give("network", e)
    /\ UNCHANGED <<bufferVars, monitor, streams, pageVars, click, profile>>

\* what get finds under an id
Got(buffer, id) ==
    {e.about : e \in {d \in IF buffer = "console" THEN console ELSE Records(network) :
                         d.sequence = id}}

ClearConsole ==
    /\ "clear" \in profile.does
    /\ console' = {}
    /\ UNCHANGED <<network, next_sequence, monitor, streams, pageVars, click, given, profile>>

ClearNetwork ==
    /\ "clear" \in profile.does
    /\ network' = {}
    /\ UNCHANGED <<console, next_sequence, monitor, streams, pageVars, click, given, profile>>

(***************************************************************************)
(* A click whose submission does not change the URL: baseline and input,   *)
(* the wait for an effect, form.requestSubmit() when none was seen.        *)
(***************************************************************************)
\* click_effect_baseline
Baseline == LET numbers == {e.sequence : e \in network}
            IN  IF numbers = {} THEN 0 ELSE CHOOSE n \in numbers : \A i \in numbers : i <= n

Click ==
    /\ "click" \in profile.does /\ click.pc = "idle"
    /\ click' = [NoClick EXCEPT !.pc = "effect", !.since = Baseline]
    /\ UNCHANGED <<bufferVars, monitor, streams, pageVars, given, profile>>

SeeEffect ==
    /\ click.pc = "effect" /\ SubmitSignal
    /\ click' = [click EXCEPT !.pc = "again"]
    /\ UNCHANGED <<bufferVars, monitor, streams, pageVars, given, profile>>

\* The buffer is read again after a short sleep, and that reading decides.
LookAgain ==
    /\ click.pc = "again"
    /\ click' = IF SubmitSignal THEN NoClick ELSE [click EXCEPT !.pc = "activate"]
    /\ UNCHANGED <<bufferVars, monitor, streams, pageVars, given, profile>>

EffectTimesOut ==
    /\ click.pc = "effect" /\ ~SubmitSignal
    /\ click' = [click EXCEPT !.pc = "activate"]
    /\ UNCHANGED <<bufferVars, monitor, streams, pageVars, given, profile>>

\* What the page sends then is its second submission, if it sent a first.
SemanticActivate ==
    /\ click.pc = "activate"
    /\ click' = NoClick
    /\ UNCHANGED <<bufferVars, monitor, streams, pageVars, given, profile>>

-----------------------------------------------------------------------------
PageStep ==
    \/ \E r \in Requests, m \in Methods : PageSends(r, m) \/ PageRedirects(r, m)
    \/ \E r \in Requests : PageAnswers(r) \/ PageFinishes(r) \/ PageFails(r)
    \/ \E x \in Messages : PageLogs(x)

ToolStep ==
    \/ \E since \in 0..next_sequence : ListConsole(since) \/ ListNetwork(since)
    \/ ClearConsole \/ ClearNetwork
    \/ Click \/ SeeEffect \/ LookAgain \/ EffectTimesOut \/ SemanticActivate

LogNext ==
    \/ PageStep \/ ToolStep
    \/ \E k \in Kinds : Record(k)
    \/ StopMonitor \/ MonitorEnds \/ EnsureMonitor \/ ResetTarget

LogSpec == LogInit /\ [][LogNext]_logVars

-----------------------------------------------------------------------------
\* An id names the same message or request for as long as the broker runs: get
\* returns what the list meant or nothing, whatever was evicted, cleared, reset
\* at a lease boundary or recorded out of order since.
IdsKeepTheirMeaning ==
    \A g \in given : Got(g.buffer, g.id) \subseteq {g.about}

\* An id from a list that knew the request's own event is good for as long as
\* the buffer holds that event, whatever is recorded, evicted or cleared around
\* it -- unless the request is redirected, which gives its record a new id.
ListedRequestsCanBeGot ==
    \A g \in given :
        /\ g.buffer = "network" /\ g.asked /\ g.about \notin redirected
        /\ \E e \in network : e.sequence = g.id
        => Got("network", g.id) # {}

\* A click does not submit again what was answered before its eyes: when it
\* falls back, no request it caused has both its request and its completion in
\* the buffer, in whatever order they were recorded and whatever was evicted or
\* cleared meanwhile -- unless a redirect hid the method or too many other
\* requests came before it.
AnsweredClicksDoNotFallBack ==
    [][click.pc # "activate" /\ click'.pc = "activate" =>
         \A r \in click.sent :
            \/ method[r] = "GET" \/ r \in redirected
            \/ Asks(network, r) = {} \/ \A e \in Own(network, r) : e.kind \notin Completions
            \/ Cardinality({e.about : e \in Since(network, click.since)} \ {r}) >= EvidenceLimit
      ]_logVars
=============================================================================
