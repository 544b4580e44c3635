----------------------------- MODULE PageTools -----------------------------
(***************************************************************************)
(* What the page tools of the broker keep per target and per tab: the      *)
(* diagnostics monitor with its buffers, and the element references issued *)
(* by snapshots (src/src/broker.rs, semantic.rs, cdp.rs); and the tools    *)
(* that use them: console, snapshot, navigate, an element action, and a    *)
(* click on a submit control with its fallback, while claims, takeovers,   *)
(* releases and expiry hand the target over.                               *)
(*                                                                         *)
(* A step is a lock section or a browser call.  Sessions with a running    *)
(* call are in flight.  Pages stay open: TabCaptures and BrokerTabs have   *)
(* reconciliation.  A document has one node of interest, so a reference is *)
(* the document it was issued for; the code's ids are finer, which only    *)
(* makes more of them stale.  The three CDP domains of a monitor are one.  *)
(* Of the requests it records, only the one a click sends is here: the     *)
(* others, which may push it out of the buffer or of the evidence, are in  *)
(* DiagnosticsLog.                                                         *)
(***************************************************************************)
EXTENDS LeaseRegistry

CONSTANTS
    Calls,         \* connection tasks
    Monitors,      \* monitor tasks
    MaxDocument,   \* bound: navigations of a target
    Profiles       \* bound: what may happen together in one behaviour

\* "frame" stands for interact's select_options, set_checked, scroll, drop and
\* upload_files, on a CSS target inside a referenced frame; "css" for fill and the
\* others on a plain CSS target.  AnyTargets may name an element or none.
Mutations    == {"fill", "form", "frame"}
PointerTools == {"hover", "drag", "screenshot"}
ElementTools == Mutations \cup {"hover", "drag", "type", "submit"}
AnyTargets   == {"press", "evaluate", "screenshot", "wait"}
TabTools     == ElementTools \cup AnyTargets
                  \cup {"css", "click_at", "console", "snapshot", "navigate"}
NeedNoMonitor == {"snapshot", "fill", "form", "frame", "css", "hover", "drag", "click_at"}
ClaimMethods == {"claim", "takeover"}
AllMethods   == TabTools \cup ClaimMethods \cup {"release"}

\* faults: "fails" when browser commands may fail, "ends" when a monitor may
\* lose its connection, "moves" when pages navigate by themselves, "expires"
\* when time passes.
Profile == [methods : SUBSET AllMethods, faults : SUBSET {"fails", "ends", "moves", "expires"}]

ASSUME ToolProfilesAssumption == Profiles \subseteq Profile /\ MaxDocument \in Nat
ASSUME ToolNamesAssumption ==
    None \notin Calls \cup Monitors \cup [target : Targets, number : 0..MaxDocument]

VARIABLES
    profile,      \* chosen at the start
    document,     \* Chrome: how often a target has navigated
    domains,      \* Chrome: are the diagnostics domains of a target enabled
    monitor,      \* monitor tasks
    monitors,     \* DiagnosticsRegistry.monitors
    buffer,       \* DiagnosticsRegistry.targets, as the leases events came under
    references,   \* ElementReferenceRegistry.tabs
    issued,       \* history: the references snapshots have returned
    overlapped,   \* history: targets two calls have set up monitors for at once
    call,         \* the request of each connection task
    sweep         \* leases whose references the sweep has still to forget

diagnosticVars == <<domains, monitor, monitors, buffer, overlapped>>
referenceVars  == <<references, issued>>
toolVars == <<vars, profile, document, diagnosticVars, referenceVars, call, sweep>>

Document(t) == [target |-> t, number |-> document[t]]
Documents   == [target : Targets, number : 0..MaxDocument]

NoCall == [pc |-> "idle", method |-> "none", session |-> None, tab |-> None, target |-> None,
           ref |-> None, revision |-> None, moved |-> FALSE, missed |-> FALSE, old |-> None,
           completed |-> 0, submits |-> 0, request |-> "none", recorded |-> "none",
           get |-> FALSE]
NoMonitor    == [phase |-> "none", target |-> None]
NoReferences == [session |-> None, revision |-> None, by_ref |-> {}]

ToolTypeOK ==
    /\ profile \in Profiles
    /\ document \in [Targets -> 0..MaxDocument]
    /\ domains \in [Targets -> BOOLEAN]
    /\ monitor \in [Monitors -> [phase : {"none", "listening", "stopping"}, target : Maybe(Targets)]]
    /\ monitors \in [Targets -> Maybe(Monitors)]
    /\ buffer \in [Targets -> SUBSET Maybe(Tabs)]
    /\ \A b \in Tabs : /\ references[b].session \in Maybe(Sessions)
                       /\ references[b].revision \in Maybe(Documents)
                       /\ references[b].by_ref \subseteq issued
    /\ issued \subseteq [session : Sessions, tab : Tabs, document : Documents]
    /\ overlapped \in SUBSET Targets
    /\ \A c \in Calls : /\ call[c].old \in Maybe(Monitors) /\ call[c].submits \in 0..2
                        /\ call[c].completed \in 0..1
                        /\ call[c].request \in {"none", "late", "pending", "answered"}
                        /\ call[c].recorded \in {"none", "sent", "completed"}
    /\ sweep \in SUBSET Tabs

ToolInit ==
    /\ Init
    /\ profile \in Profiles
    /\ document = [t \in Targets |-> 0]
    /\ domains = [t \in Targets |-> FALSE]
    /\ monitor = [m \in Monitors |-> NoMonitor]
    /\ monitors = [t \in Targets |-> None]
    /\ buffer = [t \in Targets |-> {}]
    /\ references = [b \in Tabs |-> NoReferences]
    /\ issued = {} /\ overlapped = {}
    /\ call = [c \in Calls |-> NoCall]
    /\ sweep = {}

(***************************************************************************)
(* Helpers.                                                                *)
(***************************************************************************)
Fails == "fails" \in profile.faults
Moves == "moves" \in profile.faults

At(c, pc)   == call[c].pc = pc
Is(c, ms)   == call[c].method \in ms
Goto(c, pc) == call' = [call EXCEPT ![c].pc = pc]
End(c)      == call' = [call EXCEPT ![c] = NoCall]

OnlySession == UNCHANGED <<profile, document, diagnosticVars, referenceVars, sweep>>
OnlyCall == UNCHANGED <<vars, profile, document, diagnosticVars, referenceVars, sweep>>
InFlight == {call[c].session : c \in Calls} \ {None}
Owns(c)  == RequireOwnedTab(call[c].session, call[c].tab) /\ leases[call[c].tab].state = "active"

Listening(m, t) == m # None /\ monitor[m] = [phase |-> "listening", target |-> t]
FreshMonitor(m) == /\ monitor[m] = NoMonitor
                   /\ \A t \in Targets : monitors[t] # m
                   /\ \A c \in Calls : call[c].old # m
\* A monitor task hears events until its task sees the stop.
Hears(t) == domains[t] /\ \E m \in Monitors : monitor[m].target = t /\ monitor[m].phase # "none"

\* Setting up or taking down the monitor of a target.  What two calls do to it
\* at once is not undone before all its monitors have ended.
Works(c, t) == call[c].pc \in {"enable", "mark", "await"} /\ call[c].target = t
Overlapped ==
    overlapped' = {t \in Targets :
        \/ \E c, d \in Calls : c # d /\ Works(c, t)' /\ Works(d, t)'
        \/ /\ t \in overlapped
           /\ \/ \E c \in Calls : Works(c, t)'
              \/ \E m \in Monitors : monitor'[m].target = t}

\* the calls after the document of target t was replaced
Moving(t) == [d \in Calls |-> IF call[d].target = t /\ call[d].revision # None
                              THEN [call[d] EXCEPT !.moved = TRUE] ELSE call[d]]
\* ... after the buffers of target t were thrown away, or their monitor ended
Missing(t) == [d \in Calls |-> IF call[d].target = t /\ Is(d, {"submit"})
                               THEN [call[d] EXCEPT !.recorded = "none", !.missed = TRUE] ELSE call[d]]

(***************************************************************************)
(* Clients.                                                                *)
(***************************************************************************)
Begin(s) == StartSession(s, None) /\ UNCHANGED call /\ OnlySession

Send(c, m, s, b, t, e) ==
    /\ At(c, "idle")
    /\ Touch(s)
    /\ call' = [call EXCEPT ![c] = [NoCall EXCEPT !.pc = "handle", !.method = m, !.session = s,
                                                  !.tab = b, !.target = t, !.ref = e]]
    /\ OnlySession

(***************************************************************************)
(* active_owned_target and ensure_diagnostics_monitor, which precede the   *)
(* work of a tool (a snapshot needs no monitor).                           *)
(***************************************************************************)
ValidateTool(c) ==
    /\ At(c, "handle") /\ Is(c, TabTools)
    /\ IF Owns(c)
       THEN call' = [call EXCEPT ![c].target = leases[call[c].tab].target,
                                 ![c].pc = IF Is(c, NeedNoMonitor) THEN "work" ELSE "ensure"]
       ELSE End(c)
    /\ OnlyCall

AfterEnsure(c) == IF Is(c, ClaimMethods) THEN NoCall ELSE [call[c] EXCEPT !.pc = "work"]

\* is_monitored: a finished monitor counts as none
IsMonitored(c) == LET m == monitors[call[c].target] IN m # None /\ monitor[m].target = call[c].target

Ensure(c) ==
    /\ At(c, "ensure")
    /\ IF IsMonitored(c)
       THEN call' = [call EXCEPT ![c] = [AfterEnsure(c) EXCEPT
                       !.missed = Is(c, {"submit"})
                                    /\ ~Listening(monitors[call[c].target], call[c].target)]]
       ELSE Goto(c, "enable")
    /\ UNCHANGED <<vars, profile, document, domains, monitor, monitors, buffer, referenceVars, sweep>>
    /\ Overlapped

EnableDomains(c) ==
    LET t == call[c].target
    IN  /\ At(c, "enable")
        /\ \/ domains' = [domains EXCEPT ![t] = TRUE] /\ Goto(c, "mark")
           \/ Fails /\ domains' \in {domains, [domains EXCEPT ![t] = TRUE]} /\ End(c)
        /\ UNCHANGED <<vars, profile, document, monitor, monitors, buffer, referenceVars, sweep>>
        /\ Overlapped

\* The monitor task starts and is recorded; one that was recorded is dropped,
\* which stops it and waits for nothing.
MarkMonitored(c, m) ==
    LET t == call[c].target
    IN  /\ At(c, "mark") /\ FreshMonitor(m)
        /\ monitor' = [n \in Monitors |->
             IF n = m THEN [phase |-> "listening", target |-> t]
             ELSE IF n = monitors[t] /\ monitor[n].target = t THEN [monitor[n] EXCEPT !.phase = "stopping"]
             ELSE monitor[n]]
        /\ monitors' = [monitors EXCEPT ![t] = m]
        /\ call' = [call EXCEPT ![c] = AfterEnsure(c)]
        /\ UNCHANGED <<vars, profile, document, domains, buffer, referenceVars, sweep>>
        /\ Overlapped

(***************************************************************************)
(* The tools.                                                              *)
(***************************************************************************)
Console(c) ==
    /\ At(c, "work") /\ Is(c, {"console"})
    /\ End(c) /\ OnlyCall

\* accessibility_snapshot, as the snapshot tool or to observe an action
Look(c) ==
    /\ \/ At(c, "work") /\ Is(c, {"snapshot"})
       \/ At(c, "observe")
    /\ call' = [call EXCEPT ![c].pc = "build", ![c].revision = Document(call[c].target)]
    /\ OnlyCall

ObserveNothing(c) == At(c, "observe") /\ End(c) /\ OnlyCall

\* build_snapshot
Build(c) ==
    LET b == call[c].tab
        fresh == [session |-> call[c].session, revision |-> call[c].revision, by_ref |-> {}]
        kept  == IF [references[b] EXCEPT !.by_ref = {}] = fresh THEN references[b].by_ref ELSE {}
        ref   == [session |-> call[c].session, tab |-> b, document |-> call[c].revision]
    IN  /\ At(c, "build")
        /\ references' = [references EXCEPT ![b] = [fresh EXCEPT !.by_ref = kept \cup {ref}]]
        /\ issued' = issued \cup {ref}
        /\ End(c)
        /\ UNCHANGED <<vars, profile, document, diagnosticVars, sweep>>

Navigate(c) ==
    LET t == call[c].target
    IN  /\ At(c, "work") /\ Is(c, {"navigate"})
        /\ \/ /\ document[t] < MaxDocument
              /\ document' = [document EXCEPT ![t] = @ + 1]
              /\ call' = [Moving(t) EXCEPT ![c].pc = "forget"]
           \/ Fails /\ End(c) /\ UNCHANGED document
        /\ UNCHANGED <<vars, profile, diagnosticVars, referenceVars, sweep>>

ForgetReferences(c) ==
    /\ At(c, "forget")
    /\ references' = [references EXCEPT ![call[c].tab] = NoReferences]
    /\ Goto(c, "observe")
    /\ UNCHANGED <<vars, profile, document, diagnosticVars, issued, sweep>>

\* document_revision; for a click also the baseline of its effect
ReadRevision(c) ==
    /\ At(c, "work") /\ Is(c, ElementTools \cup AnyTargets) /\ call[c].ref # None
    /\ call' = [call EXCEPT ![c].pc = "resolve", ![c].revision = Document(call[c].target),
                            ![c].moved = @ /\ Is(c, {"drag"}) /\ call[c].completed = 1]
    /\ OnlyCall

ResolvesAnyRevision(c) ==
    LET e == call[c].ref
    IN  e \in references[e.tab].by_ref /\ e.session = call[c].session /\ e.tab = call[c].tab

\* ElementReferenceRegistry::resolve
Resolves(c) ==
    LET e == call[c].ref
    IN  /\ e \in references[call[c].tab].by_ref
        /\ e.session = call[c].session /\ e.tab = call[c].tab
        /\ e.document = call[c].revision

\* A drag resolves its two ends one after the other (bound: both are named by
\* one reference), and to wait_for a stale reference is a detached element.
Resolve(c) ==
    /\ At(c, "resolve")
    /\ \/ /\ Resolves(c)
          /\ call' = IF Is(c, {"drag"}) /\ call[c].completed = 0
                     THEN [call EXCEPT ![c].pc = "work", ![c].completed = 1]
                     ELSE [call EXCEPT ![c].pc = IF Is(c, {"frame"}) THEN "framed" ELSE "acting"]
       \/ ~Resolves(c) /\ ~Is(c, {"wait"}) /\ End(c)
       \/ ~Resolves(c) /\ Is(c, {"wait"}) /\ Goto(c, "look")
    /\ OnlyCall

\* resolve_frame_css_backend_node: the node the selector finds in the document
\* the frame shows by now
ResolveInFrame(c) ==
    /\ At(c, "framed")
    /\ Goto(c, "acting") \/ End(c)
    /\ OnlyCall

(***************************************************************************)
(* Elements.  A node id of an earlier document may name a node of the      *)
(* current one.  The object it is resolved to goes with its document; the  *)
(* coordinates of its quad do not.                                         *)
(***************************************************************************)
\* resolve_backend_node
ResolveNode(c) ==
    /\ At(c, "acting") /\ ~Is(c, PointerTools)
    /\ \/ call' = [call EXCEPT ![c].pc = "pinned", ![c].revision = Document(call[c].target)]
       \/ End(c)
    /\ OnlyCall

\* retry_element_action: what it retries has found the element not actionable
\* and changed nothing.  At the deadline the call ends.
Retry(c) ==
    /\ At(c, "pinned")
    /\ (~Is(c, AnyTargets \ {"press"}) /\ Goto(c, "acting")) \/ End(c)
    /\ OnlyCall

\* call_on_element
OnElement(c, then) ==
    /\ At(c, "pinned") /\ call[c].revision = Document(call[c].target)
    /\ call' = [call EXCEPT ![c] = then]
    /\ OnlyCall

Fill(c) == Is(c, {"fill"}) /\ OnElement(c, [call[c] EXCEPT !.pc = "observe"])

Interact(c) == Is(c, {"frame"}) /\ OnElement(c, [call[c] EXCEPT !.pc = "observe"])

\* Bound: a form of two fields, both named by the same reference.  A field that
\* fails ends the call, and the fields before it stay filled.
FillField(c) ==
    /\ Is(c, {"form"})
    /\ OnElement(c, IF call[c].completed = 0 THEN [call[c] EXCEPT !.pc = "work", !.completed = 1]
                                             ELSE [call[c] EXCEPT !.pc = "observe"])

EvaluateOnElement(c) == Is(c, {"evaluate"}) /\ OnElement(c, [call[c] EXCEPT !.pc = "return"])

FocusElement(c) == Is(c, {"type", "press"}) /\ OnElement(c, [call[c] EXCEPT !.pc = "typing"])

\* Text or keys go one by one, into whatever has the focus by then; a key is a
\* KeyDown and a KeyUp.
TypeText(c) ==
    /\ Is(c, {"type"}) /\ At(c, "typing")
    /\ Goto(c, "observe") \/ (Fails /\ End(c))
    /\ OnlyCall

PressKey(c) ==
    /\ Is(c, {"press"})
    /\ \/ At(c, "typing") /\ Goto(c, "down")
       \/ At(c, "down") /\ Goto(c, "observe")
       \/ call[c].pc \in {"typing", "down"} /\ Fails /\ End(c)
    /\ OnlyCall

\* ensure_focused_document_for_raw_input
CheckFocus(c) ==
    /\ At(c, "work") /\ call[c].ref = None
    /\ \/ Is(c, {"press"}) /\ Goto(c, "typing")
       \/ Is(c, {"click_at"}) /\ Goto(c, "aimed")
       \/ Is(c, {"press", "click_at"}) /\ End(c)
    /\ OnlyCall

\* The quads of a node, of both nodes for a drag.
ReadQuads(c) ==
    /\ At(c, "acting") /\ Is(c, PointerTools)
    /\ Goto(c, "aimed") \/ End(c) \/ (Is(c, {"hover", "drag"}) /\ UNCHANGED call)
    /\ OnlyCall

Hover(c) ==
    /\ At(c, "aimed") /\ Is(c, {"hover"})
    /\ Goto(c, "observe") \/ (Fails /\ End(c))
    /\ OnlyCall

\* Press and release; a failure in between leaves the button down.
PressMouse(c) ==
    /\ Is(c, {"drag", "click_at", "submit"})
    /\ At(c, "aimed")
    /\ Goto(c, "pressed") \/ (Fails /\ End(c))
    /\ OnlyCall

ReleaseMouse(c) ==
    /\ At(c, "pressed") /\ ~Is(c, {"submit"})
    /\ Goto(c, "observe") \/ (Fails /\ End(c))
    /\ OnlyCall

\* An element's clip is read before the capture; without an element the page is.
Capture(c) ==
    /\ Is(c, {"screenshot"})
    /\ At(c, "aimed") \/ (At(c, "work") /\ call[c].ref = None)
    /\ Goto(c, "return") \/ End(c)
    /\ OnlyCall

\* A selector names what it finds in the document at hand, and is tried again
\* while it finds nothing; an ambiguous one ends the call.
ActByCss(c) ==
    /\ At(c, "work") /\ Is(c, {"css"})
    /\ Goto(c, "observe") \/ UNCHANGED call \/ End(c)
    /\ OnlyCall

Evaluate(c) ==
    /\ At(c, "work") /\ Is(c, {"evaluate"}) /\ call[c].ref = None
    /\ Goto(c, "return") \/ End(c)
    /\ OnlyCall

Return(c) == At(c, "return") /\ End(c) /\ OnlyCall

\* wait_condition_matches, of an element by its state or of anything else
LookAtElement(c) == Is(c, {"wait"}) /\ OnElement(c, [call[c] EXCEPT !.pc = "look"])

WaitFor(c) ==
    /\ Is(c, {"wait"})
    /\ At(c, "look") \/ (At(c, "work") /\ call[c].ref = None)
    /\ \/ Goto(c, "observe")
       \/ Goto(c, "work")
       \/ End(c)
    /\ OnlyCall

(***************************************************************************)
(* click on a submit control: input, a wait for its effect, and form       *)
(* .requestSubmit() when the wait sees none.                               *)
(***************************************************************************)
\* the record of the request the page of call c sends now, a GET or another
Sent(c, get) == [call[c] EXCEPT !.submits = @ + 1, !.request = "pending", !.get = get,
                                !.recorded = IF Hears(call[c].target) THEN "sent" ELSE "none"]

\* The element is actionable, and its quad read.
AimClick(c) == Is(c, {"submit"}) /\ OnElement(c, [call[c] EXCEPT !.pc = "aimed"])

\* Chrome acknowledges the release, a dialog opens, or 250 ms pass; the page
\* submits at once, later, or never.
Click(c) ==
    /\ At(c, "pressed") /\ Is(c, {"submit"})
    /\ \/ (Fails /\ End(c))
       \/ \E r \in {"none", "late"} : call' = [call EXCEPT ![c].pc = "effect", ![c].request = r]
       \/ \E get \in BOOLEAN : call' = [call EXCEPT ![c] = [Sent(c, get) EXCEPT !.pc = "effect"]]
    /\ OnlyCall

PageSubmits(c) ==
    /\ call[c].request = "late"
    /\ \E get \in BOOLEAN : call' = [call EXCEPT ![c] = Sent(c, get)]
    /\ OnlyCall

\* An answer, perhaps after a redirect, whose GET replaces the request on record.
PageAnswers(c) ==
    /\ call[c].request = "pending"
    /\ \E get \in {call[c].get, TRUE} :
         call' = [call EXCEPT ![c].request = "answered", ![c].get = get,
                              ![c].recorded = IF @ = "sent" /\ Hears(call[c].target)
                                              THEN "completed" ELSE @]
    /\ OnlyCall

\* click_effect: may the URL differ from the baseline's?  A page that moves by
\* itself changes it with its document or without, and may come back to it; a
\* navigation may lead to the same one; and a page that cannot be looked up
\* counts as where the tool began, here and in the baseline.
UrlsSeen(c) == IF Moves \/ Fails \/ call[c].moved THEN BOOLEAN ELSE {FALSE}

SubmitSignalByUrl(c, url_changed) == url_changed

\* effect_has_submit_signal
SubmitSignal(c, url_changed) == url_changed \/ (call[c].recorded = "completed" /\ ~call[c].get)

\* From here on the requests of the click are not followed.
Observe(c) == call' = [call EXCEPT ![c].pc = "observe", ![c].submits = 0, ![c].request = "none",
                                   ![c].recorded = "none", ![c].get = FALSE]

SeeEffect(c) ==
    /\ At(c, "effect") \/ At(c, "activated")
    /\ \E url_changed \in UrlsSeen(c) : SubmitSignal(c, url_changed)
    /\ Observe(c) /\ OnlyCall

EffectTimesOut(c) ==
    /\ \E url_changed \in UrlsSeen(c) : ~SubmitSignal(c, url_changed)
    /\ \/ At(c, "effect") /\ Goto(c, "activate")
       \/ At(c, "activated") /\ Observe(c)
    /\ OnlyCall

\* semantic_activate_backend_node; its node may be of the current document or not
SemanticActivate(c) ==
    /\ At(c, "activate")
    /\ \/ \E get \in BOOLEAN : call' = [call EXCEPT ![c] = [Sent(c, get) EXCEPT !.pc = "activated"]]
       \/ (call[c].moved \/ Fails) /\ End(c)
    /\ OnlyCall

(***************************************************************************)
(* claim_tab and release_tab from the registry on.  Both take the monitor  *)
(* out of the registry, and then wait for its cleanup, up to five seconds. *)
(***************************************************************************)
Claim(c, b) ==
    /\ At(c, "handle") /\ Is(c, ClaimMethods)
    /\ b = CHOOSE x \in Tabs : FreshTab(x)   \* which of them is of no matter
    /\ \/ /\ ClaimTab(call[c].session, call[c].target, b, Is(c, {"takeover"}), TRUE)
          /\ call' = [call EXCEPT ![c].tab = b, ![c].pc = "reset"]
       \/ /\ HasActiveLease(call[c].target) /\ ~Is(c, {"takeover"})
          /\ End(c) /\ UNCHANGED vars
    /\ OnlySession

Release(c) ==
    /\ At(c, "handle") /\ Is(c, {"release"})
    /\ IF Owns(c)
       THEN /\ ReleaseTab(call[c].session, call[c].tab, FALSE)
            /\ call' = [call EXCEPT ![c].pc = "reset", ![c].target = leases[call[c].tab].target]
       ELSE End(c) /\ UNCHANGED vars
    /\ OnlySession

BuffersKept(t) == buffer

\* what DiagnosticsRegistry::reset_target leaves of the buffers
BuffersWithout(t) == [buffer EXCEPT ![t] = {}]

AfterAwait(c) == IF Is(c, {"release"}) THEN NoCall ELSE [call[c] EXCEPT !.pc = "ensure", !.old = None]

NoShutdown(c, m) == AfterAwait(c)

\* monitor.shutdown()
Shutdown(c, m) == [call[c] EXCEPT !.pc = "await", !.old = m]

ResetDiagnostics(c) ==
    LET t == call[c].target
        m == monitors[t]
    IN  /\ At(c, "reset")
        /\ buffer' = BuffersWithout(t)
        /\ monitors' = [monitors EXCEPT ![t] = None]
        /\ IF IsMonitored(c)
           THEN /\ monitor' = [monitor EXCEPT ![m].phase = "stopping"]
                /\ call' = [Missing(t) EXCEPT ![c] = Shutdown(c, m)]
           ELSE /\ call' = [Missing(t) EXCEPT ![c] = AfterAwait(c)]
                /\ UNCHANGED monitor
        /\ references' = IF Is(c, {"release"}) THEN [references EXCEPT ![call[c].tab] = NoReferences]
                         ELSE [b \in Tabs |-> IF leases[b].target = t THEN NoReferences
                                                                       ELSE references[b]]
        /\ UNCHANGED <<vars, profile, document, domains, issued, sweep>>
        /\ Overlapped

Ended(c) == monitor[call[c].old].target = None

AwaitMonitor(c) ==
    /\ At(c, "await") /\ Ended(c)
    /\ call' = [call EXCEPT ![c] = AfterAwait(c)]
    /\ UNCHANGED <<vars, profile, document, domains, monitor, monitors, buffer, referenceVars, sweep>>
    /\ Overlapped

\* The abort kills the cleanup: the domains stay as they are.
AwaitTimesOut(c) ==
    /\ At(c, "await") /\ Fails /\ ~Ended(c)
    /\ monitor' = [monitor EXCEPT ![call[c].old] = NoMonitor]
    /\ call' = [call EXCEPT ![c] = AfterAwait(c)]
    /\ UNCHANGED <<vars, profile, document, domains, monitors, buffer, referenceVars, sweep>>
    /\ Overlapped

(***************************************************************************)
(* Monitor tasks, pages, and the expiry sweep.                             *)
(***************************************************************************)
MonitorLosesConnection(m) ==
    /\ "ends" \in profile.faults /\ monitor[m].phase = "listening"
    /\ monitor' = [monitor EXCEPT ![m].phase = "stopping"]
    /\ call' = Missing(monitor[m].target)
    /\ UNCHANGED <<vars, profile, document, domains, monitors, buffer, referenceVars, sweep>>
    /\ Overlapped

\* Runtime.disable, Log.disable and Network.disable, the last thing it does
MonitorCleansUp(m) ==
    /\ monitor[m].phase = "stopping"
    /\ domains' = [domains EXCEPT ![monitor[m].target] = FALSE]
    /\ monitor' = [monitor EXCEPT ![m] = NoMonitor]
    /\ UNCHANGED call
    /\ UNCHANGED <<vars, profile, document, monitors, buffer, referenceVars, sweep>>
    /\ Overlapped

PageLogs(t) ==
    /\ Hears(t) /\ "console" \in profile.methods
    /\ buffer' = [buffer EXCEPT ![t] = @ \cup {active_target_owners[t]}]
    /\ UNCHANGED <<vars, profile, document, domains, monitor, monitors, overlapped, referenceVars,
                   call, sweep>>

PageMoves(t) ==
    /\ Moves /\ document[t] < MaxDocument
    /\ document' = [document EXCEPT ![t] = @ + 1]
    /\ call' = Moving(t)
    /\ UNCHANGED <<vars, profile, diagnosticVars, referenceVars, sweep>>

TimePasses == "expires" \in profile.faults /\ Tick /\ UNCHANGED call /\ OnlySession

SweepExpire ==
    /\ sweep = {}
    /\ ExpireSessions(clock, InFlight)
    /\ sweep' = ToRelease(ExpiredIds(clock, InFlight))
    /\ UNCHANGED <<profile, document, diagnosticVars, referenceVars, call>>

SweepForgets ==
    /\ sweep # {}
    /\ references' = [b \in Tabs |-> IF b \in sweep THEN NoReferences ELSE references[b]]
    /\ sweep' = {}
    /\ UNCHANGED <<vars, profile, document, diagnosticVars, issued, call>>

-----------------------------------------------------------------------------
\* Bound: a claim is sent while a fresh tab is left.
Spare == Cardinality({b \in Tabs : FreshTab(b)}) > Cardinality({c \in Calls : At(c, "handle") /\ Is(c, ClaimMethods)})

ClientStep(c) ==
    \E m \in profile.methods, s \in Sessions, b \in Maybe(Tabs), t \in Maybe(Targets), e \in Maybe(issued) :
        /\ (m \in ClaimMethods) = (b = None) /\ (m \in ClaimMethods) = (t # None)
        /\ m \in ElementTools => e # None
        /\ e # None => m \in ElementTools \cup AnyTargets
        /\ m \in ClaimMethods => Spare
        /\ b # None => leases[b].state # "unissued"
        /\ Send(c, m, s, b, t, e)

CallStep(c) ==
    \/ ValidateTool(c) \/ Ensure(c) \/ EnableDomains(c)
    \/ \E m \in Monitors : MarkMonitored(c, m)
    \/ Console(c) \/ Look(c) \/ ObserveNothing(c) \/ Build(c)
    \/ Navigate(c) \/ ForgetReferences(c)
    \/ ReadRevision(c) \/ Resolve(c) \/ ResolveInFrame(c) \/ ResolveNode(c) \/ Retry(c)
    \/ Fill(c) \/ Interact(c) \/ FillField(c) \/ EvaluateOnElement(c) \/ FocusElement(c)
    \/ TypeText(c) \/ PressKey(c) \/ CheckFocus(c)
    \/ ReadQuads(c) \/ Hover(c) \/ PressMouse(c) \/ ReleaseMouse(c) \/ Capture(c)
    \/ ActByCss(c) \/ Evaluate(c) \/ Return(c) \/ LookAtElement(c) \/ WaitFor(c)
    \/ AimClick(c) \/ Click(c) \/ SeeEffect(c) \/ EffectTimesOut(c) \/ SemanticActivate(c)
    \/ \E b \in Tabs : Claim(c, b)
    \/ Release(c) \/ ResetDiagnostics(c) \/ AwaitMonitor(c) \/ AwaitTimesOut(c)

ToolNext ==
    \/ \E s \in Sessions : Begin(s)
    \/ \E c \in Calls : ClientStep(c) \/ CallStep(c) \/ PageAnswers(c) \/ PageSubmits(c)
    \/ \E m \in Monitors : MonitorLosesConnection(m) \/ MonitorCleansUp(m)
    \/ \E t \in Targets : PageLogs(t) \/ PageMoves(t)
    \/ TimePasses \/ SweepExpire \/ SweepForgets

ToolSpec == ToolInit /\ [][ToolNext]_toolVars

-----------------------------------------------------------------------------
\* A monitor on record hears its page: nothing disables the domains behind it,
\* whatever claims, releases, failures and lost connections do, unless two calls
\* set up or took down monitors of the target at once.
MonitorsListen ==
    \A t \in Targets : Listening(monitors[t], t) => domains[t] \/ t \in overlapped

\* console returns what the page logged under the caller's own lease, once the
\* claim has come to its reset: no message of an earlier owner or of nobody.
OwnMessagesOnly ==
    \A c \in Calls :
        At(c, "work") /\ Is(c, {"console"}) /\ Owns(c)
        => \/ buffer[call[c].target] \subseteq {call[c].tab}
           \/ \E d \in Calls : At(d, "reset") /\ call[d].target = call[c].target

Touches(c) == /\ call[c].pc \in {"pinned", "aimed", "pressed", "typing", "down"}
              /\ call'[c].pc \notin {"idle", "acting", call[c].pc}

\* An element action touches only a document for which its session got the
\* reference, on that tab, from a snapshot -- with every command of a drag, a
\* click or a key, and for both ends and all fields -- unless the page was
\* replaced after the action read the document's revision.
ReferencesActInTheirDocument ==
    [][\A c \in Calls :
          Touches(c) /\ call[c].ref # None /\ ~call[c].moved
          => [session |-> call[c].session, tab |-> call[c].tab, document |-> Document(call[c].target)]
                \in issued]_toolVars

\* A click whose request, neither a GET nor redirected to one, was answered while
\* it waited is not submitted again: the monitor ensured before it has recorded
\* the answer, unless its buffers or its connection were lost meanwhile.
AnsweredSubmitsAreNotRepeated ==
    [][\A c \in Calls :
          /\ At(c, "effect") /\ call'[c].pc = "activate"
          /\ call[c].request = "answered" /\ ~call[c].get
          => call[c].missed \/ call[c].target \in overlapped]_toolVars
=============================================================================
