-------------------------- MODULE PageToolsProofs --------------------------
(***************************************************************************)
(* Proofs about PageTools: its broker runs the registry; a monitor on      *)
(* record hears its page; console returns the messages of the caller's own *)
(* lease; an element action touches the document its reference was issued  *)
(* for; a submit that was answered is not repeated.                        *)
(***************************************************************************)
EXTENDS PageTools, LeaseRegistryProofs

(***************************************************************************)
(* Types.                                                                  *)
(***************************************************************************)
Steps == {"idle", "handle", "ensure", "enable", "mark", "work", "observe", "build", "forget",
          "resolve", "framed", "acting", "pinned", "aimed", "pressed", "typing", "down",
          "effect", "activate", "activated", "look", "return", "reset", "await"}
Reference == [session : Sessions, tab : Tabs, document : Documents]

CallState == [pc : Steps, method : AllMethods \cup {"none"}, session : Maybe(Sessions),
              tab : Maybe(Tabs), target : Maybe(Targets), ref : Maybe(Reference),
              revision : Maybe(Documents), moved : BOOLEAN, missed : BOOLEAN,
              old : Maybe(Monitors), completed : 0..1, submits : 0..2,
              request : {"none", "late", "pending", "answered"},
              recorded : {"none", "sent", "completed"}, get : BOOLEAN]

Types ==
    /\ profile \in Profiles
    /\ document \in [Targets -> 0..MaxDocument]
    /\ domains \in [Targets -> BOOLEAN]
    /\ monitor \in [Monitors -> [phase : {"none", "listening", "stopping"}, target : Maybe(Targets)]]
    /\ monitors \in [Targets -> Maybe(Monitors)]
    /\ buffer \in [Targets -> SUBSET Maybe(Tabs)]
    /\ references \in [Tabs -> [session : Maybe(Sessions), revision : Maybe(Documents),
                                by_ref : SUBSET Reference]]
    /\ issued \in SUBSET Reference
    /\ overlapped \in SUBSET Targets
    /\ call \in [Calls -> CallState]
    /\ sweep \in SUBSET Tabs

(***************************************************************************)
(* The calls: what a call knows at the step it is at.                      *)
(***************************************************************************)
Setup == {"enable", "mark", "await"}
\* the steps of a click on a submit control from the click on
Clicked == {"effect", "activate", "activated", "observe", "build"}

\* its method, and what it was sent with
ShapeOf(k) ==
    /\ k.pc = "idle" => k = NoCall
    /\ k.pc # "idle" => k.session \in Sessions /\ k.method \in AllMethods
    /\ k.pc # "idle" /\ k.method \notin ClaimMethods => k.tab \in Tabs
    /\ k.method \in ClaimMethods =>
          /\ k.pc \in {"handle", "reset", "ensure"} \cup Setup
          /\ k.target \in Targets
    /\ k.method = "release" =>
          /\ k.pc \in {"handle", "reset", "await"}
          /\ k.pc # "handle" => k.target \in Targets
    /\ k.method \in TabTools =>
          /\ k.pc \notin {"reset", "await"}
          /\ k.pc # "handle" => k.target \in Targets
    /\ k.old # None => k.pc = "await"
    /\ k.request # "none" => k.method = "submit" /\ k.pc \in Clicked
    /\ k.request \in {"none", "late"} => k.submits = 0
    /\ k.submits = 2 => k.pc \in {"activated", "observe", "build"}
    /\ k.pc \in {"effect", "activate", "activated"} => k.method = "submit"
    /\ k.pc = "build" => k.method \in TabTools /\ k.revision \in Documents

\* the lease it works with, which may have ended meanwhile
Leased(k) ==
    k.pc # "idle" /\ k.method \notin ClaimMethods =>
        /\ leases[k.tab].state # "unissued"
        /\ k.method \in TabTools /\ k.pc # "handle" /\ leases[k.tab].state # "removed"
           => leases[k.tab].target = k.target

Shape(c) == ShapeOf(call[c]) /\ Leased(call[c])
Shapes == \A c \in Calls : Shape(c)

(***************************************************************************)
(* The monitors.                                                           *)
(***************************************************************************)
\* A monitor task that has ended has no target.
EndedMonitors == \A m \in Monitors : monitor[m].phase = "none" <=> monitor[m].target = None

\* A call waits for a monitor that has been told to stop.
AwaitsStopped ==
    \A c \in Calls : At(c, "await") =>
        /\ call[c].old \in Monitors
        /\ monitor[call[c].old].phase # "listening"
        /\ monitor[call[c].old].target \in {None, call[c].target}

\* Unless two calls have met at a target: one at most works on its monitor, and
\* then no monitor of the target runs but the one it waits for; while no call does,
\* no monitor runs but the one on record; and who has enabled the domains, or is on
\* record as listening, finds them enabled.
Orderly(t) ==
    /\ \A c, d \in Calls : Works(c, t) /\ Works(d, t) => c = d
    /\ \A c \in Calls, m \in Monitors :
          Works(c, t) /\ monitor[m].target = t => call[c].pc = "await" /\ call[c].old = m
    /\ \A m \in Monitors :
          monitor[m].target = t => monitors[t] = m \/ \E c \in Calls : Works(c, t)
    /\ \A c \in Calls : Works(c, t) /\ call[c].pc = "mark" => domains[t]
    /\ Listening(monitors[t], t) => domains[t]

MonitorInv ==
    /\ EndedMonitors /\ AwaitsStopped
    /\ \A t \in Targets \ overlapped : Orderly(t)

(***************************************************************************)
(* Messages, references, requests.                                         *)
(***************************************************************************)
\* The buffer of a target somebody owns holds the owner's messages, or a reset of
\* the target is due.
OwnersBuffer ==
    \A t \in Targets : active_target_owners[t] # None =>
        \/ buffer[t] \subseteq {active_target_owners[t]}
        \/ \E d \in Calls : At(d, "reset") /\ call[d].target = t

\* From the reading of the revision to the last touch of the element.
Resolved == {"framed", "acting", "pinned", "aimed", "pressed", "typing", "down"}
Current(c) == call[c].ref # None /\ ~call[c].moved

\* A call whose page has stayed has the revision of the document at hand, and once
\* it has resolved its reference, the session was given it on that tab.
RevisionCurrent(c) ==
    call[c].pc \in Resolved \cup {"resolve"} /\ Current(c)
    => call[c].revision = Document(call[c].target)
ResolvedIssued(c) ==
    call[c].pc \in Resolved /\ Current(c)
    => [session |-> call[c].session, tab |-> call[c].tab, document |-> Document(call[c].target)]
          \in issued
KeptIssued == \A b \in Tabs : references[b].by_ref \subseteq issued

ReferencesHold == \A c \in Calls : RevisionCurrent(c) /\ ResolvedIssued(c)
ReferenceInv == KeptIssued /\ ReferencesHold

\* A submit has its monitor, and what it heard of the request is what happened,
\* unless the buffers or the connection were lost.
Heard(c) == /\ call[c].method = "submit" /\ ~call[c].missed
            /\ call[c].pc \notin {"idle", "handle", "ensure", "enable", "mark"}
HasMonitor(c) == Listening(monitors[call[c].target], call[c].target)
SubmitsHaveMonitors == \A c \in Calls : Heard(c) => HasMonitor(c)
Recorded(c) ==
    \/ call[c].target \in overlapped
    \/ /\ call[c].request = "pending" => call[c].recorded = "sent"
       /\ call[c].request = "answered" => call[c].recorded = "completed"
RequestsRecorded == \A c \in Calls : Heard(c) => Recorded(c)

SubmitInv == SubmitsHaveMonitors /\ RequestsRecorded

(***************************************************************************)
(* The steps that change one call and nothing else.                        *)
(***************************************************************************)
PlainStep(c) ==
    \/ ValidateTool(c) \/ Console(c) \/ Look(c) \/ ObserveNothing(c)
    \/ ReadRevision(c) \/ Resolve(c) \/ ResolveInFrame(c) \/ ResolveNode(c) \/ Retry(c)
    \/ Fill(c) \/ Interact(c) \/ FillField(c) \/ EvaluateOnElement(c) \/ FocusElement(c)
    \/ TypeText(c) \/ PressKey(c) \/ CheckFocus(c)
    \/ ReadQuads(c) \/ Hover(c) \/ PressMouse(c) \/ ReleaseMouse(c) \/ Capture(c)
    \/ ActByCss(c) \/ Evaluate(c) \/ Return(c) \/ LookAtElement(c) \/ WaitFor(c)
    \/ AimClick(c) \/ Click(c) \/ SeeEffect(c) \/ EffectTimesOut(c) \/ SemanticActivate(c)
    \/ PageAnswers(c) \/ PageSubmits(c)

\* Such a call keeps what it was sent with.  It takes its target from the lease,
\* once, and enters and leaves no lock section of a monitor.
GoesOn(c) ==
    /\ call'[c].method = call[c].method
    /\ call'[c].session = call[c].session
    /\ call'[c].tab = call[c].tab
    /\ call'[c].ref = call[c].ref
    /\ call'[c].missed = call[c].missed
    /\ call'[c].old = call[c].old
    /\ call'[c].pc \notin {"idle", "handle", "reset", "forget"} \cup Setup
    /\ call'[c].pc = "ensure" => call[c].pc = "handle"
    /\ call[c].pc \in Clicked => call'[c].pc \in Clicked
    /\ call[c].pc \in {"activated", "observe", "build"}
       => call'[c].pc \in {"activated", "observe", "build"}
    /\ call'[c].pc \in {"effect", "activate", "activated"} => call[c].method = "submit"
    /\ call[c].pc # "handle" => call'[c].target = call[c].target
    /\ call[c].pc = "handle" =>
          Owns(c) /\ call'[c].target = leases[call[c].tab].target
          /\ call'[c].pc \in {"work", "ensure"}
    /\ call[c].pc = "handle" /\ call[c].method = "submit" => call'[c].pc = "ensure"

\* It reads the revision of the document at hand, and its reference was resolved
\* for the revision it has.
ReferenceFate(c) ==
    /\ call'[c].revision \in {call[c].revision, Document(call[c].target)}
    /\ call'[c].pc = "build" /\ call[c].pc # "build" => call'[c].revision = Document(call[c].target)
    /\ call[c].pc = "build" => call'[c].revision = call[c].revision
    /\ call'[c].pc \in Resolved \cup {"resolve"} /\ Current(c)' =>
          \/ /\ call'[c].pc = "resolve"
             /\ call'[c].revision = Document(call[c].target)
          \/ /\ call[c].pc = "resolve" /\ Resolves(c)
             /\ call'[c].revision = call[c].revision
             /\ call'[c].moved = call[c].moved
          \/ /\ call[c].pc \in Resolved
             /\ call'[c].moved = call[c].moved
          \/ call[c].ref = None

\* Its request is sent once or twice, and answered.
Sends(c) ==
    /\ \/ call[c].pc = "pressed" /\ call'[c].pc = "effect"
       \/ call[c].request = "late" /\ call'[c].pc = call[c].pc
       \/ call[c].pc = "activate" /\ call'[c].pc = "activated"
    /\ call[c].method = "submit"
    /\ call'[c].request = "pending"
    /\ call'[c].submits = call[c].submits + 1
    /\ call'[c].recorded = IF Hears(call[c].target) THEN "sent" ELSE "none"

SubmitFate(c) ==
    \/ /\ call'[c].request = call[c].request
       /\ call'[c].submits = call[c].submits
       /\ call'[c].recorded = call[c].recorded
       /\ call[c].pc = "effect" /\ call'[c].pc = "activate" => ~SubmitSignal(c, FALSE)
    \/ /\ call[c].pc = "pressed" /\ call'[c].pc = "effect" /\ call[c].method = "submit"
       /\ call'[c].request \in {"none", "late"}
       /\ call'[c].submits = call[c].submits
       /\ call'[c].recorded = call[c].recorded
    \/ Sends(c)
    \/ /\ call[c].request = "pending" /\ call'[c].request = "answered"
       /\ call'[c].pc = call[c].pc
       /\ call'[c].submits = call[c].submits
       /\ call'[c].recorded = IF call[c].recorded = "sent" /\ Hears(call[c].target)
                              THEN "completed" ELSE call[c].recorded
    \/ /\ call[c].pc \in {"effect", "activated"} /\ call'[c].pc = "observe"
       /\ call'[c].request = "none" /\ call'[c].submits = 0 /\ call'[c].recorded = "none"

PlainFate(c) ==
    /\ OnlyCall
    /\ call[c].method \in TabTools
    /\ call[c].pc \notin {"idle", "reset", "ensure"} \cup Setup
    /\ call' = [call EXCEPT ![c] = call'[c]]
    /\ \/ call'[c] = NoCall
       \/ call'[c] \in CallState /\ GoesOn(c) /\ ReferenceFate(c) /\ SubmitFate(c)

\* The tools that work on a tab are neither claims nor the release.
LEMMA Methods ==
    /\ \A m \in AllMethods : m \in ClaimMethods \/ m = "release" \/ m \in TabTools
    /\ \A m \in TabTools : m \notin ClaimMethods /\ m # "release" /\ m # "none"
    /\ "submit" \in TabTools
BY DEF AllMethods, ClaimMethods, TabTools, ElementTools, AnyTargets, Mutations

LEMMA StepNames ==
    /\ \A x \in {"idle", "handle", "ensure", "enable", "mark", "work", "observe", "build", "forget",
                 "resolve", "framed", "acting", "pinned", "aimed", "pressed", "typing", "down",
                 "effect", "activate", "activated", "look", "return", "reset", "await"} : x \in Steps
BY DEF Steps

LEMMA PlainSteps ==
    ASSUME TypeOK, Types, NEW c \in Calls, Shape(c), PlainStep(c)
    PROVE  PlainFate(c)
<1> DEFINE k == call[c]
<1>0. /\ call \in [Calls -> CallState] /\ k \in CallState
      /\ \A t \in Targets : Document(t) \in Maybe(Documents)
      /\ k.pc \notin {"handle", "reset", "ensure", "idle"} \cup Setup => k.method \in TabTools
      /\ k.request # "none" => k.pc \in Clicked /\ k.method = "submit" /\ k.method \in TabTools
      /\ k.pc \notin {"idle", "handle"} /\ k.method \in TabTools => k.target \in Targets
      /\ k.submits = 2 => k.pc \in {"activated", "observe", "build"}
      /\ k.request \in {"none", "late"} => k.submits = 0
      /\ k.pc \in {"effect", "activate", "activated"} => k.method = "submit"
  BY Methods DEF Types, Shape, ShapeOf, Document, Documents, Setup, Maybe
<1> USE <1>0, StepNames
    DEF PlainFate, OnlyCall, At, Is, Goto, End, CallState, Setup, Clicked, Resolved,
        GoesOn, ReferenceFate, SubmitFate, Sends, Current
<1>a. ASSUME k.submits \in 0..1, NEW get \in BOOLEAN
      PROVE  /\ Sent(c, get) \in CallState
             /\ Sent(c, get).request = "pending" /\ Sent(c, get).submits = k.submits + 1
             /\ Sent(c, get).recorded = IF Hears(k.target) THEN "sent" ELSE "none"
             /\ Sent(c, get).pc = k.pc /\ Sent(c, get).method = k.method
             /\ Sent(c, get).session = k.session /\ Sent(c, get).tab = k.tab
             /\ Sent(c, get).target = k.target /\ Sent(c, get).ref = k.ref
             /\ Sent(c, get).revision = k.revision /\ Sent(c, get).moved = k.moved
             /\ Sent(c, get).missed = k.missed /\ Sent(c, get).old = k.old
             /\ Sent(c, get).completed = k.completed
  <2>1. k.submits + 1 \in 0..2
    BY <1>a
  <2>2. (IF Hears(k.target) THEN "sent" ELSE "none") \in {"none", "sent", "completed"}
    OBVIOUS
  <2> HIDE DEF GoesOn, PlainFate, ReferenceFate, SubmitFate, Sends, Current, OnlyCall
  <2> DEFINE n == k.submits + 1
             r == IF Hears(k.target) THEN "sent" ELSE "none"
  <2>3. Sent(c, get) = [k EXCEPT !.submits = n, !.request = "pending", !.get = get,
                                !.recorded = r]
    BY DEF Sent
  <2>4. n \in 0..2 /\ r \in {"none", "sent", "completed"}
    BY <2>1, <2>2 DEF n, r
  <2> HIDE DEF n, r
  <2>5. Sent(c, get) \in CallState
    BY ZenonT(60), <2>3, <2>4
  <2>6. /\ Sent(c, get).request = "pending" /\ Sent(c, get).submits = n /\ Sent(c, get).recorded = r
        /\ Sent(c, get).pc = k.pc /\ Sent(c, get).method = k.method
        /\ Sent(c, get).session = k.session /\ Sent(c, get).tab = k.tab
        /\ Sent(c, get).target = k.target /\ Sent(c, get).ref = k.ref
        /\ Sent(c, get).revision = k.revision /\ Sent(c, get).moved = k.moved
        /\ Sent(c, get).missed = k.missed /\ Sent(c, get).old = k.old
        /\ Sent(c, get).completed = k.completed
    BY <2>3
  <2>7. n = k.submits + 1 /\ r = IF Hears(k.target) THEN "sent" ELSE "none"
    BY DEF n, r
  <2> QED BY <2>5, <2>6, <2>7
<1>1. CASE ValidateTool(c)
  BY <1>1 DEF ValidateTool, RequireOwnedTab, Maybe, NeedNoMonitor, Mutations
<1>2. CASE Console(c)
  BY <1>2 DEF Console
<1>3. CASE Look(c)
  BY <1>3 DEF Look
<1>4. CASE ObserveNothing(c)
  BY <1>4 DEF ObserveNothing
<1>5. CASE ReadRevision(c)
  BY ZenonT(60), <1>5 DEF ReadRevision
<1>6. CASE Resolve(c)
  BY <1>6 DEF Resolve
<1>7. CASE ResolveInFrame(c)
  BY <1>7 DEF ResolveInFrame
<1>8. CASE ResolveNode(c)
  BY <1>8 DEF ResolveNode
<1>9. CASE Retry(c)
  BY <1>9 DEF Retry
<1>10. CASE Fill(c)
  BY <1>10 DEF Fill, OnElement
<1>11. CASE Interact(c)
  BY <1>11 DEF Interact, OnElement
<1>12. CASE FillField(c)
  <2>1. k.method = "form" /\ k.pc = "pinned" /\ OnlyCall
    BY <1>12 DEF FillField, OnElement
  <2>2. CASE call' = [call EXCEPT ![c] = NoCall]
    BY <2>1, <2>2
  <2>3. CASE call' = [call EXCEPT ![c] = [k EXCEPT !.pc = "work", !.completed = 1]]
    <3>1. 1 \in 0..1
      OBVIOUS
    <3>2. [k EXCEPT !.pc = "work", !.completed = 1] \in CallState
      BY <3>1
    <3> QED BY <2>1, <2>3, <3>2
  <2>4. CASE call' = [call EXCEPT ![c] = [k EXCEPT !.pc = "observe"]]
    BY <2>1, <2>4
  <2> QED BY <1>12, <2>2, <2>3, <2>4 DEF FillField, OnElement
<1>13. CASE EvaluateOnElement(c)
  BY <1>13 DEF EvaluateOnElement, OnElement
<1>14. CASE FocusElement(c)
  BY <1>14 DEF FocusElement, OnElement
<1>15. CASE TypeText(c)
  BY <1>15 DEF TypeText
<1>16. CASE PressKey(c)
  <2>1. k.pc \in {"typing", "down"} /\ OnlyCall
    BY <1>16 DEF PressKey
  <2>2. ASSUME NEW x \in {"down", "observe"}, Goto(c, x) PROVE PlainFate(c)
    BY <2>1, <2>2
  <2>3. CASE End(c)
    BY <2>1, <2>3
  <2> QED BY <1>16, <2>2, <2>3 DEF PressKey
<1>17. CASE CheckFocus(c)
  <2>1. k.pc = "work" /\ k.ref = None /\ OnlyCall
    BY <1>17 DEF CheckFocus
  <2>2. ASSUME NEW x \in {"typing", "aimed"}, Goto(c, x) PROVE PlainFate(c)
    BY <2>1, <2>2
  <2>3. CASE End(c)
    BY <2>1, <2>3
  <2> QED BY <1>17, <2>2, <2>3 DEF CheckFocus
<1>18. CASE ReadQuads(c)
  BY <1>18 DEF ReadQuads
<1>19. CASE Hover(c)
  BY <1>19 DEF Hover
<1>20. CASE PressMouse(c)
  BY <1>20 DEF PressMouse
<1>21. CASE ReleaseMouse(c)
  BY <1>21 DEF ReleaseMouse
<1>22. CASE Capture(c)
  <2>1. k.pc = "aimed" \/ (k.pc = "work" /\ k.ref = None)
    BY <1>22 DEF Capture
  <2>2. CASE Goto(c, "return")
    BY <1>22, <2>1, <2>2 DEF Capture
  <2>3. CASE End(c)
    BY <1>22, <2>1, <2>3 DEF Capture
  <2> QED BY <1>22, <2>2, <2>3 DEF Capture
<1>23. CASE ActByCss(c)
  BY <1>23 DEF ActByCss
<1>24. CASE Evaluate(c)
  BY <1>24 DEF Evaluate
<1>25. CASE Return(c)
  BY <1>25 DEF Return
<1>26. CASE LookAtElement(c)
  BY <1>26 DEF LookAtElement, OnElement
<1>27. CASE WaitFor(c)
  <2>1. (k.pc = "look" \/ (k.pc = "work" /\ k.ref = None)) /\ OnlyCall
    BY <1>27 DEF WaitFor
  <2>2. ASSUME NEW x \in {"observe", "work"}, Goto(c, x) PROVE PlainFate(c)
    BY <2>1, <2>2
  <2>3. CASE End(c)
    BY <2>1, <2>3
  <2> QED BY <1>27, <2>2, <2>3 DEF WaitFor
<1>28. CASE AimClick(c)
  BY <1>28 DEF AimClick, OnElement
<1>29. CASE Click(c)
  <2>1. k.method = "submit" /\ k.pc = "pressed" /\ k.submits = 0 /\ OnlyCall
    BY <1>29 DEF Click
  <2>2. CASE End(c)
    BY <2>1, <2>2
  <2>3. ASSUME NEW r \in {"none", "late"},
               call' = [call EXCEPT ![c].pc = "effect", ![c].request = r]
        PROVE  PlainFate(c)
    <3>1. call' = [call EXCEPT ![c] = [k EXCEPT !.pc = "effect", !.request = r]]
      BY <2>3
    <3>2. [k EXCEPT !.pc = "effect", !.request = r] \in CallState
      OBVIOUS
    <3> QED BY <2>1, <3>1, <3>2
  <2>4. ASSUME NEW get \in BOOLEAN, call' = [call EXCEPT ![c] = [Sent(c, get) EXCEPT !.pc = "effect"]]
        PROVE  PlainFate(c)
    BY <2>1, <2>4, <1>a
  <2> QED BY <1>29, <2>2, <2>3, <2>4 DEF Click
<1>b. ASSUME OnlyCall, k.pc \in {"effect", "activated"}, Observe(c) PROVE PlainFate(c)
  <2> DEFINE u == [k EXCEPT !.pc = "observe", !.submits = 0, !.request = "none",
                            !.recorded = "none", !.get = FALSE]
  <2>1. call' = [call EXCEPT ![c] = u]
    BY <1>b DEF Observe
  <2>2. 0 \in 0..2
    OBVIOUS
  <2>3. u \in CallState
    BY <2>2
  <2> QED BY <1>b, <2>1, <2>3
<1>30. CASE SeeEffect(c)
  BY <1>30, <1>b DEF SeeEffect
<1>31. CASE EffectTimesOut(c)
  <2>1. CASE Observe(c)
    BY <1>31, <2>1, <1>b DEF EffectTimesOut
  <2>2. CASE k.pc = "effect" /\ Goto(c, "activate")
    <3>1. ~SubmitSignal(c, FALSE)
      BY <1>31 DEF EffectTimesOut, SubmitSignal
    <3> QED BY <1>31, <2>2, <3>1 DEF EffectTimesOut
  <2> QED BY <1>31, <2>1, <2>2 DEF EffectTimesOut
<1>32. CASE SemanticActivate(c)
  <2>1. k.method = "submit" /\ k.pc = "activate" /\ k.submits \in 0..1 /\ OnlyCall
    BY <1>32 DEF SemanticActivate
  <2>2. CASE End(c)
    BY <2>1, <2>2
  <2>3. ASSUME NEW get \in BOOLEAN,
               call' = [call EXCEPT ![c] = [Sent(c, get) EXCEPT !.pc = "activated"]]
        PROVE  PlainFate(c)
    BY <2>1, <2>3, <1>a
  <2> QED BY <1>32, <2>2, <2>3 DEF SemanticActivate
<1>33. CASE PageAnswers(c)
  <2>1. k.method = "submit" /\ k.pc \in Clicked /\ k.request = "pending" /\ OnlyCall
    BY <1>33 DEF PageAnswers
  <2> DEFINE r == IF k.recorded = "sent" /\ Hears(k.target) THEN "completed" ELSE k.recorded
  <2>2. r \in {"none", "sent", "completed"}
    OBVIOUS
  <2>3. PICK get \in BOOLEAN :
          call' = [call EXCEPT ![c] = [k EXCEPT !.request = "answered", !.get = get, !.recorded = r]]
    <3>1. PICK get \in {k.get, TRUE} :
            call' = [call EXCEPT ![c].request = "answered", ![c].get = get,
                                 ![c].recorded = IF @ = "sent" /\ Hears(k.target)
                                                 THEN "completed" ELSE @]
      BY <1>33 DEF PageAnswers
    <3>2. get \in BOOLEAN
      OBVIOUS
    <3> QED BY <3>1, <3>2
  <2> HIDE DEF r
  <2>4. [k EXCEPT !.request = "answered", !.get = get, !.recorded = r] \in CallState
    BY <2>2
  <2> QED BY <2>1, <2>3, <2>4 DEF r
<1>34. CASE PageSubmits(c)
  <2>1. k.method = "submit" /\ k.submits = 0 /\ k.pc \in Clicked /\ OnlyCall /\ k.request = "late"
    BY <1>34 DEF PageSubmits
  <2>2. PICK get \in BOOLEAN : call' = [call EXCEPT ![c] = Sent(c, get)]
    BY <1>34 DEF PageSubmits
  <2>3. k.submits \in 0..1
    BY <2>1
  <2>4. Sent(c, get) \in CallState /\ call'[c] = Sent(c, get)
    BY <2>2, <2>3, <1>a
  <2>5. Sends(c)
    <3> HIDE DEF GoesOn, ReferenceFate, PlainFate, SubmitFate
    <3> QED BY <2>1, <2>3, <2>4, <1>a
  <2>6. GoesOn(c)
    <3> HIDE DEF ReferenceFate, PlainFate, SubmitFate, Sends
    <3> QED BY <2>1, <2>3, <2>4, <1>a
  <2>7. ReferenceFate(c)
    <3> HIDE DEF GoesOn, PlainFate, SubmitFate, Sends
    <3> QED BY <2>1, <2>3, <2>4, <1>a
  <2> HIDE DEF GoesOn, ReferenceFate, Sends
  <2> QED BY <2>1, <2>2, <2>4, <2>5, <2>6, <2>7
<1> QED
  BY <1>1, <1>2, <1>3, <1>4, <1>5, <1>6, <1>7, <1>8, <1>9, <1>10, <1>11, <1>12, <1>13, <1>14, <1>15, <1>16, <1>17, <1>18, <1>19, <1>20, <1>21, <1>22, <1>23, <1>24, <1>25, <1>26, <1>27, <1>28, <1>29, <1>30, <1>31, <1>32, <1>33, <1>34 DEF PlainStep

(***************************************************************************)
(* The broker runs the registry.                                           *)
(***************************************************************************)
\* The steps of a call that do more than move the call on.
DeepStep(c) ==
    \/ Ensure(c) \/ EnableDomains(c) \/ \E m \in Monitors : MarkMonitored(c, m)
    \/ Build(c) \/ Navigate(c) \/ ForgetReferences(c)
    \/ \E b \in Tabs : Claim(c, b)
    \/ Release(c) \/ ResetDiagnostics(c) \/ AwaitMonitor(c) \/ AwaitTimesOut(c)
Background ==
    \/ \E m \in Monitors : MonitorLosesConnection(m) \/ MonitorCleansUp(m)
    \/ \E t \in Targets : PageLogs(t) \/ PageMoves(t)
    \/ SweepForgets

LEMMA StepKinds ==
    ToolNext <=>
        \/ \E s \in Sessions : Begin(s)
        \/ \E c \in Calls : ClientStep(c) \/ PlainStep(c) \/ DeepStep(c)
        \/ Background \/ TimePasses \/ SweepExpire
BY DEF ToolNext, CallStep, PlainStep, DeepStep, Background

\* What a client may send.
Sendable(m, b, t, e) ==
    /\ m \in AllMethods
    /\ b \in Maybe(Tabs) /\ t \in Maybe(Targets) /\ e \in Maybe(issued)
    /\ m \in ClaimMethods => t \in Targets
    /\ m \notin ClaimMethods => t = None /\ b \in Tabs /\ leases[b].state # "unissued"

LEMMA ClientSends ==
    ASSUME Types, NEW c \in Calls, ClientStep(c)
    PROVE  \E m \in AllMethods, s \in Sessions, b \in Maybe(Tabs), t \in Maybe(Targets),
              e \in Maybe(issued) : Sendable(m, b, t, e) /\ Send(c, m, s, b, t, e)
<1>1. profile.methods \subseteq AllMethods
  BY ToolProfilesAssumption DEF Types, Profile
<1> QED BY <1>1 DEF ClientStep, Sendable, Maybe

\* Every step of the broker is a call the registry allows, or none.
LEMMA StepsTheRegistry ==
    ASSUME RegistryInv, Types, Shapes, [ToolNext]_toolVars
    PROVE  [Next]_vars
<1>1. ASSUME NEW s \in Sessions, Begin(s) PROVE [Next]_vars
  BY <1>1 DEF Begin, Next, SessionNext, Maybe
<1>2. ASSUME NEW c \in Calls, ClientStep(c) PROVE [Next]_vars
  BY <1>2, ClientSends DEF Send, Next, SessionNext
<1>3. ASSUME NEW c \in Calls, PlainStep(c) PROVE [Next]_vars
  BY <1>3, PlainSteps DEF PlainFate, OnlyCall, Shapes, RegistryInv
<1>4. ASSUME NEW c \in Calls, DeepStep(c) PROVE [Next]_vars
  <2>1. ASSUME NEW b \in Tabs, Claim(c, b) PROVE [Next]_vars
    <3>1. call[c].session \in Sessions /\ call[c].target \in Targets
      BY <2>1 DEF Claim, At, Is, Shapes, Shape, ShapeOf
    <3> DEFINE takeover == Is(c, {"takeover"})
    <3>2. takeover \in BOOLEAN
      BY DEF Is
    <3>3. ASSUME ClaimTab(call[c].session, call[c].target, b, takeover, TRUE)
          PROVE  [Next]_vars
      <4> HIDE DEF takeover
      <4> QED BY <3>1, <3>2, <3>3 DEF Next, TabNext
    <3> QED BY <2>1, <3>3 DEF Claim
  <2>2. CASE Release(c)
    <3>1. call[c].session \in Sessions /\ call[c].tab \in Tabs
      BY <2>2, Methods DEF Release, At, Is, Shapes, Shape, ShapeOf, ClaimMethods
    <3> QED BY <2>2, <3>1 DEF Release, Next, TabNext
  <2> QED
    BY <1>4, <2>1, <2>2
    DEF DeepStep, Ensure, EnableDomains, MarkMonitored, Build, Navigate, ForgetReferences,
        ResetDiagnostics, AwaitMonitor, AwaitTimesOut
<1>5. CASE Background
  BY <1>5 DEF Background, MonitorLosesConnection, MonitorCleansUp, PageLogs, PageMoves, SweepForgets
<1>6. CASE TimePasses
  BY <1>6 DEF TimePasses, Next
<1>7. CASE SweepExpire
  <2>1. clock \in 0..clock /\ InFlight \in SUBSET Sessions
    BY DEF RegistryInv, TypeOK, InFlight, Types, CallState, Maybe
  <2> QED BY <1>7, <2>1 DEF SweepExpire, Next, ExpiryNext
<1>8. CASE UNCHANGED toolVars
  BY <1>8 DEF toolVars
<1> QED BY <1>1, <1>2, <1>3, <1>4, <1>5, <1>6, <1>7, <1>8, StepKinds

(***************************************************************************)
(* Types and the shape of the calls.                                       *)
(***************************************************************************)
\* A step of another call, or of no call, leaves a call where it is.
Stays(d) ==
    \/ call'[d] = call[d]
    \/ /\ call[d].target # None
       /\ call'[d] \in CallState
       /\ call'[d].pc = call[d].pc
       /\ call'[d].method = call[d].method
       /\ call'[d].session = call[d].session
       /\ call'[d].tab = call[d].tab
       /\ call'[d].target = call[d].target
       /\ call'[d].ref = call[d].ref
       /\ call'[d].revision = call[d].revision
       /\ call'[d].old = call[d].old
       /\ call'[d].submits = call[d].submits
       /\ call'[d].request = call[d].request

LEMMA StayingShape ==
    ASSUME RegistryInv, Types, [Next]_vars, NEW d \in Calls, Shape(d), Stays(d)
    PROVE  Shape(d)'
<1> DEFINE b == call[d].tab
<1>1. b \in Tabs => Fate(b)
  BY LeaseFates
<1>2. b \in Tabs /\ leases[b].state # "unissued" =>
         /\ leases'[b].state # "unissued"
         /\ leases'[b].state # "removed" => Known(b) /\ leases'[b].target = leases[b].target
  BY <1>1 DEF Fate, Ages, Known, Removed
<1>3. ASSUME ShapeOf(call[d]), call[d].pc # "idle" \/ call'[d] = call[d]
      PROVE  ShapeOf(call'[d])
  BY <1>3 DEF ShapeOf, Stays
<1>4. ASSUME Leased(call[d]), call[d].pc # "idle" => call[d].tab \in Tabs \/ call[d].method \in ClaimMethods
      PROVE  Leased(call[d])'
  <2>1. CASE call'[d] = call[d]
    BY <1>2, <1>4, <2>1 DEF Leased, Known
  <2>2. CASE call'[d].pc = call[d].pc /\ call'[d].method = call[d].method
             /\ call'[d].tab = call[d].tab /\ call'[d].target = call[d].target
    BY <1>2, <1>4, <2>2, Methods DEF Leased, Known
  <2> QED BY <2>1, <2>2 DEF Stays
<1>5. call[d].pc # "idle" \/ call'[d] = call[d]
  BY DEF Shape, ShapeOf, Stays, NoCall
<1>6. call[d].pc # "idle" => call[d].tab \in Tabs \/ call[d].method \in ClaimMethods
  BY DEF Shape, ShapeOf
<1> QED BY <1>3, <1>4, <1>5, <1>6 DEF Shape

\* What a replaced document or a lost buffer does to the calls.
LEMMA Reminded ==
    ASSUME Types, NEW t \in Targets
    PROVE  /\ Moving(t) \in [Calls -> CallState] /\ Missing(t) \in [Calls -> CallState]
           /\ \A d \in Calls :
                /\ call'[d] = Moving(t)[d] => Stays(d)
                /\ call'[d] = Missing(t)[d] => Stays(d)
<1>1. \A k \in CallState : /\ [k EXCEPT !.moved = TRUE] \in CallState
                           /\ [k EXCEPT !.recorded = "none", !.missed = TRUE] \in CallState
  BY DEF CallState
<1>2. t # None
  BY NoneAssumption
<1>3. ASSUME NEW d \in Calls
      PROVE  /\ Moving(t)[d] \in CallState /\ Missing(t)[d] \in CallState
             /\ call'[d] = Moving(t)[d] => Stays(d)
             /\ call'[d] = Missing(t)[d] => Stays(d)
  <2>1. call[d] \in CallState
    BY DEF Types
  <2>2. CASE call[d].target # t
    BY <2>1, <2>2 DEF Moving, Missing, Stays
  <2>3. CASE call[d].target = t
    <3>1. Moving(t)[d] \in {call[d], [call[d] EXCEPT !.moved = TRUE]}
          /\ Missing(t)[d] \in {call[d], [call[d] EXCEPT !.recorded = "none", !.missed = TRUE]}
      BY DEF Moving, Missing
    <3>2. ASSUME NEW r \in {call[d], [call[d] EXCEPT !.moved = TRUE],
                            [call[d] EXCEPT !.recorded = "none", !.missed = TRUE]}
          PROVE  r \in CallState /\ (call'[d] = r => Stays(d))
      <4>1. r \in CallState
        BY <1>1, <2>1, <3>2
      <4>2. CASE r = call[d]
        BY <4>1, <4>2 DEF Stays
      <4>3. CASE r # call[d]
        <5>1. /\ r.pc = call[d].pc /\ r.method = call[d].method /\ r.session = call[d].session
              /\ r.tab = call[d].tab /\ r.target = call[d].target /\ r.ref = call[d].ref
              /\ r.revision = call[d].revision /\ r.old = call[d].old
              /\ r.submits = call[d].submits /\ r.request = call[d].request
          BY <2>1, <3>2 DEF CallState
        <5> QED BY <1>2, <2>3, <4>1, <5>1 DEF Stays
      <4> QED BY <4>2, <4>3
    <3> QED BY <3>1, <3>2
  <2> QED BY <2>2, <2>3
<1>4. Moving(t) \in [Calls -> CallState]
  <2>1. \A d \in Calls : Moving(t)[d] \in CallState
    BY <1>3
  <2> QED BY <2>1 DEF Moving
<1>5. Missing(t) \in [Calls -> CallState]
  <2>1. \A d \in Calls : Missing(t)[d] \in CallState
    BY <1>3
  <2> QED BY <2>1 DEF Missing
<1> QED BY <1>3, <1>4, <1>5

LEMMA Records ==
    /\ NoCall \in CallState /\ ShapeOf(NoCall) /\ NoMonitor.phase = "none" /\ NoMonitor.target = None
    /\ NoReferences \in [session : Maybe(Sessions), revision : Maybe(Documents),
                         by_ref : SUBSET Reference]
BY Methods DEF NoCall, CallState, Steps, Maybe, ShapeOf, NoMonitor, NoReferences, ClaimMethods

\* What a call is after a lock section that is not its last.
LEMMA CallUpdates ==
    ASSUME NEW k \in CallState, NEW x \in Steps
    PROVE  /\ [k EXCEPT !.pc = x] \in CallState
           /\ [k EXCEPT !.pc = x, !.old = None] \in CallState
           /\ \A m \in Monitors : [k EXCEPT !.pc = x, !.old = m] \in CallState
           /\ \A w \in BOOLEAN : [k EXCEPT !.pc = x, !.missed = w] \in CallState
           /\ \A t \in Targets : [k EXCEPT !.pc = x, !.target = t] \in CallState
           /\ \A b \in Tabs : [k EXCEPT !.tab = b, !.pc = x] \in CallState
<1>1. None \in Maybe(Monitors) /\ Monitors \subseteq Maybe(Monitors)
      /\ Targets \subseteq Maybe(Targets) /\ Tabs \subseteq Maybe(Tabs)
  BY DEF Maybe
<1> QED BY <1>1 DEF CallState

\* A step of call c: the others stay, and its own record is one it may have.
CallMoves(c) ==
    /\ call' \in [Calls -> CallState]
    /\ \A d \in Calls \ {c} : Stays(d)
    /\ call'[c] = NoCall \/ (ShapeOf(call'[c]) /\ Leased(call[c])')

LEMMA MovedShapes ==
    ASSUME RegistryInv, Types, Shapes, [Next]_vars, NEW c \in Calls, CallMoves(c)
    PROVE  Shapes'
<1>1. ASSUME NEW d \in Calls, d # c PROVE Shape(d)'
  BY <1>1, StayingShape DEF Shapes, CallMoves
<1>2. Shape(c)'
  <2>1. CASE call'[c] = NoCall
    <3>1. ShapeOf(call'[c]) /\ call'[c].pc = "idle"
      BY <2>1, Records DEF NoCall
    <3> QED BY <3>1 DEF Shape, Leased
  <2>2. CASE ShapeOf(call'[c]) /\ Leased(call[c])'
    BY <2>2 DEF Shape
  <2> QED BY <2>1, <2>2 DEF CallMoves
<1> QED BY <1>1, <1>2 DEF Shapes

\* A client sends what a call of this shape knows.
LEMMA SendMoves ==
    ASSUME TypeOK, Types, NEW c \in Calls, ClientStep(c)
    PROVE  CallMoves(c) /\ call[c].pc = "idle" /\ call'[c].pc = "handle"
           /\ \A d \in Calls \ {c} : call'[d] = call[d]
<1>1. PICK m \in AllMethods, s \in Sessions, b \in Maybe(Tabs), t \in Maybe(Targets),
           e \in Maybe(issued) : Sendable(m, b, t, e) /\ Send(c, m, s, b, t, e)
  BY ClientSends
<1> DEFINE n == [NoCall EXCEPT !.pc = "handle", !.method = m, !.session = s,
                               !.tab = b, !.target = t, !.ref = e]
<1>2. /\ n.pc = "handle" /\ n.method = m /\ n.session = s /\ n.tab = b /\ n.target = t
      /\ n # NoCall /\ n.old = None /\ n.request = "none" /\ n.submits = 0
  BY DEF NoCall
<1>3. n \in CallState
  <2>1. s \in Maybe(Sessions) /\ e \in Maybe(Reference) /\ "handle" \in Steps
        /\ m \in AllMethods \cup {"none"}
    BY DEF Maybe, Types, Steps
  <2> QED BY <2>1, Records DEF CallState
<1>4. call' = [call EXCEPT ![c] = n] /\ call[c].pc = "idle" /\ leases' = leases
  BY <1>1 DEF Send, At, Touch, targetVars
<1> HIDE DEF n
<1>5. ShapeOf(n) /\ Leased(n)'
  BY <1>1, <1>2, <1>4, Methods DEF Sendable, ShapeOf, Leased, Maybe
<1> QED BY <1>2, <1>3, <1>4, <1>5 DEF CallMoves, Types, Stays

\* A plain step.
LEMMA PlainMoves ==
    ASSUME TypeOK, Types, NEW c \in Calls, Shape(c), PlainStep(c), TargetInv
    PROVE  CallMoves(c) /\ \A d \in Calls \ {c} : call'[d] = call[d]
<1>1. PlainFate(c) /\ call[c] \in CallState /\ ShapeOf(call[c]) /\ Leased(call[c])
  BY PlainSteps DEF Types, Shape
<1>2. call'[c] \in CallState
  BY <1>1, Records DEF PlainFate
<1>3. leases' = leases
  BY <1>1 DEF PlainFate, OnlyCall, vars, targetVars
<1>4. ASSUME call'[c] # NoCall
      PROVE  ShapeOf(call'[c]) /\ Leased(call[c])'
  <2>1. GoesOn(c) /\ SubmitFate(c) /\ call[c].method \in TabTools /\ call[c].pc # "idle"
        /\ call[c].tab \in Tabs /\ call[c].old = None
    BY <1>1, <1>4, Methods DEF PlainFate, ShapeOf, Setup
  <2>2. call[c].pc = "handle" => leases[call[c].tab].target \in Targets
    BY <2>1 DEF GoesOn, Owns, RequireOwnedTab, TargetInv, LeasesComplete
  <2>3. Leased(call[c])'
    BY <1>1, <1>3, <2>1 DEF Leased, GoesOn
  <2>4. /\ call'[c].request # "none" => call[c].method = "submit" /\ call'[c].pc \in Clicked
        /\ call'[c].request \in {"none", "late"} => call'[c].submits = 0
        /\ call'[c].submits = 2 => call'[c].pc \in {"activated", "observe", "build"}
    <3>1. /\ call[c].request # "none" => call[c].method = "submit" /\ call[c].pc \in Clicked
          /\ call[c].request \in {"none", "late"} => call[c].submits = 0
          /\ call[c].submits = 2 => call[c].pc \in {"activated", "observe", "build"}
          /\ call[c].submits \in 0..2
      BY <1>1 DEF ShapeOf, CallState
    <3>2. CASE Sends(c)
      BY <2>1, <3>1, <3>2 DEF Sends, GoesOn, Clicked
    <3>3. CASE ~Sends(c)
      BY <2>1, <3>1, <3>3 DEF SubmitFate, GoesOn, Clicked
    <3> QED BY <3>2, <3>3
  <2>5. ShapeOf(call'[c])
    <3>1. /\ call'[c].target \in Targets /\ call'[c].pc \notin {"idle", "handle", "reset"} \cup Setup
          /\ call[c].session \in Sessions /\ call[c].method \in AllMethods
      BY <1>1, <2>1, <2>2 DEF ShapeOf, GoesOn
    <3>2. call'[c].pc \in {"effect", "activate", "activated"} => call'[c].method = "submit"
      BY <2>1 DEF GoesOn
    <3>3. /\ call'[c].method = call[c].method /\ call'[c].session = call[c].session
          /\ call'[c].tab = call[c].tab /\ call'[c].old = None
      BY <2>1 DEF GoesOn
    <3>4. /\ call[c].method \notin ClaimMethods /\ call[c].method # "release"
      BY <2>1, Methods
    <3>5. call'[c].pc = "build" => call'[c].revision \in Documents
      <4>1. call'[c].pc = "build" => call[c].pc # "handle"
        BY <2>1 DEF GoesOn
      <4>2. call'[c].pc = "build" => call[c].target \in Targets
        BY <1>1, <2>1, <4>1 DEF ShapeOf
      <4> QED BY <1>4, <1>1, <4>2 DEF PlainFate, ReferenceFate, ShapeOf, Document, Documents, Types
    <3> QED BY <2>1, <2>4, <3>1, <3>2, <3>3, <3>4, <3>5 DEF ShapeOf, Setup
  <2> QED BY <2>3, <2>5
<1> QED BY <1>1, <1>2, <1>4 DEF CallMoves, PlainFate, Types, Stays

\* A lock section or its end: another record of the same call, or none.
Advances(c, x, t) ==
    /\ call'[c].pc = x /\ call'[c].target = t
    /\ call'[c].method = call[c].method
    /\ call'[c].session = call[c].session
    /\ call'[c].request = call[c].request
    /\ call'[c].submits = call[c].submits
    /\ call[c].method \notin ClaimMethods => call'[c].tab = call[c].tab
    /\ x # "await" => call'[c].old = None

LEMMA AdvancedShape ==
    ASSUME RegistryInv, Types, [Next]_vars, NEW c \in Calls, Shape(c), call[c].pc # "idle",
           NEW x \in Steps \ {"idle", "build"}, NEW t \in Targets, Advances(c, x, t),
           call[c].method \in ClaimMethods => x \in {"handle", "reset", "ensure"} \cup Setup,
           call[c].method = "release" => x \in {"handle", "reset", "await"},
           call[c].method \in TabTools =>
               x \notin {"handle", "reset", "await"} /\ call[c].pc # "handle" /\ t = call[c].target,
           x \in {"effect", "activate", "activated"} => call[c].method = "submit",
           call[c].request # "none" => x \in Clicked,
           call[c].submits = 2 => x \in {"activated", "observe", "build"}
    PROVE  ShapeOf(call'[c]) /\ Leased(call[c])'
<1> DEFINE k == call[c]
<1>1. ShapeOf(k) /\ Leased(k)
  BY DEF Shape
<1>2. ShapeOf(call'[c])
  BY <1>1 DEF ShapeOf, Advances
<1>3. k.method \notin ClaimMethods => k.tab \in Tabs /\ call'[c].tab = k.tab
  BY <1>1 DEF ShapeOf, Advances
<1>4. \A b \in Tabs : leases[b].state # "unissued" =>
         /\ leases'[b].state # "unissued"
         /\ leases'[b].state # "removed" => Known(b) /\ leases'[b].target = leases[b].target
  BY LeaseFates DEF Fate, Ages, Known, Removed
<1>5. Leased(call[c])'
  <2> SUFFICES ASSUME k.method \notin ClaimMethods
               PROVE  /\ leases'[k.tab].state # "unissued"
                      /\ k.method \in TabTools /\ leases'[k.tab].state # "removed"
                         => leases'[k.tab].target = t
    BY <1>3 DEF Leased, Advances
  <2> QED BY <1>1, <1>3, <1>4 DEF Leased, Known
<1> QED BY <1>2, <1>5

LEMMA DeepMoves ==
    ASSUME RegistryInv, Types, Shapes, [Next]_vars, NEW c \in Calls, DeepStep(c)
    PROVE  CallMoves(c)
<1> DEFINE k == call[c]
<1>0. /\ call \in [Calls -> CallState] /\ k \in CallState /\ NoCall \in CallState
      /\ ShapeOf(k) /\ Shape(c)
      /\ \A x \in {"mark", "enable", "forget", "work", "observe", "reset", "await", "ensure"} :
            x \in Steps \ {"idle", "build"}
  BY Records DEF Types, Shapes, Shape, Steps
\* one record changes
<1>1. ASSUME NEW r \in CallState, call' = [call EXCEPT ![c] = r],
             r = NoCall \/ (ShapeOf(call'[c]) /\ Leased(call[c])')
      PROVE  CallMoves(c)
  BY <1>0, <1>1 DEF CallMoves, Stays
<1>2. ASSUME End(c) PROVE CallMoves(c)
  BY <1>0, <1>1, <1>2 DEF End
\* a call goes on with the same target
<1>3. ASSUME NEW x \in Steps \ {"idle", "build"}, NEW r \in CallState, r.pc = x, r.target = k.target,
             r.method = k.method, r.session = k.session, r.tab = k.tab,
             r.request = k.request, r.submits = k.submits, x # "await" => r.old = None,
             k.target \in Targets, k.pc \notin {"idle", "handle"} \cup Clicked,
             x \in {"await", "reset"} => k.method \notin TabTools,
             x \in {"mark", "enable", "ensure"} => k.method # "release",
             x \in {"work", "forget", "observe"} => k.method \in TabTools,
             x \in {"mark", "enable", "forget", "work", "observe", "reset", "await", "ensure"},
             call' = [call EXCEPT ![c] = r]
      PROVE  CallMoves(c)
  <2>1. Advances(c, x, k.target)
    BY <1>0, <1>3 DEF Advances
  <2>2. k.request = "none" /\ k.submits # 2
    BY <1>0, <1>3 DEF ShapeOf, Clicked
  <2>3. ShapeOf(call'[c]) /\ Leased(call[c])'
    BY <1>0, <1>3, <2>1, <2>2, AdvancedShape, Methods DEF Setup, Clicked, ShapeOf
  <2> QED BY <1>1, <1>3, <2>3
<1>4. ASSUME NEW x \in {"mark", "enable", "forget", "work", "observe", "ensure"},
             Goto(c, x), k.target \in Targets, k.pc \notin {"idle", "handle"} \cup Clicked,
             x \in {"mark", "enable", "ensure"} => k.method # "release",
             x \in {"work", "forget", "observe"} => k.method \in TabTools,
             k.old = None
      PROVE  CallMoves(c)
  <2> DEFINE r == [k EXCEPT !.pc = x]
  <2>1. r \in CallState
    BY <1>0, <1>4, CallUpdates
  <2>2. /\ r.pc = x /\ r.target = k.target /\ r.method = k.method /\ r.session = k.session
        /\ r.tab = k.tab /\ r.request = k.request /\ r.submits = k.submits /\ r.old = None
    BY <1>0, <1>4 DEF CallState
  <2>3. call' = [call EXCEPT ![c] = r]
    BY <1>0, <1>4 DEF Goto
  <2> HIDE DEF r
  <2> QED BY <1>0, <1>3, <1>4, <2>1, <2>2, <2>3
\* ensure_diagnostics_monitor is done: the tool goes on, and a claim returns
<1>5. ASSUME k.pc \in {"ensure", "mark"}, NEW v \in BOOLEAN, k.method \in ClaimMethods => v = FALSE,
             \/ call' = [call EXCEPT ![c] = AfterEnsure(c)]
             \/ call' = [call EXCEPT ![c] = [AfterEnsure(c) EXCEPT !.missed = v]]
      PROVE  CallMoves(c)
  <2>1. CASE k.method \in ClaimMethods
    <3>0. [NoCall EXCEPT !.missed = FALSE] = NoCall
      <4>1. NoCall.missed = FALSE
        BY DEF NoCall
      <4> QED BY <1>0, <4>1 DEF CallState
    <3>1. AfterEnsure(c) = NoCall /\ [AfterEnsure(c) EXCEPT !.missed = v] = NoCall
      BY <1>5, <2>1, <3>0 DEF AfterEnsure, Is
    <3> QED BY <1>0, <1>1, <1>5, <3>1
  <2>2. CASE k.method \notin ClaimMethods
    <3>1. k.method \in TabTools /\ k.target \in Targets /\ k.old = None
      BY <1>0, <1>5, <2>2, Methods DEF ShapeOf
    <3>2. AfterEnsure(c) = [k EXCEPT !.pc = "work"] /\ AfterEnsure(c) \in CallState
      BY <1>0, <2>2, CallUpdates DEF AfterEnsure, Is
    <3>3. [AfterEnsure(c) EXCEPT !.missed = v] \in CallState
      BY <3>2, <1>5 DEF CallState
    <3>4. ASSUME NEW r \in {AfterEnsure(c), [AfterEnsure(c) EXCEPT !.missed = v]}
          PROVE  /\ r \in CallState /\ r.pc = "work" /\ r.target = k.target
                 /\ r.method = k.method /\ r.session = k.session /\ r.tab = k.tab
                 /\ r.request = k.request /\ r.submits = k.submits /\ r.old = k.old
      <4>1. CASE r = [k EXCEPT !.pc = "work"]
        BY <1>0, <3>2, <4>1 DEF CallState
      <4>2. CASE r = [[k EXCEPT !.pc = "work"] EXCEPT !.missed = v]
        BY <1>0, <3>2, <3>3, <4>2 DEF CallState
      <4> QED BY <3>2, <3>4, <4>1, <4>2
    <3>5. k.pc \notin {"idle", "handle"} \cup Clicked
      BY <1>5 DEF Clicked
    <3>6. ASSUME NEW r \in {AfterEnsure(c), [AfterEnsure(c) EXCEPT !.missed = v]},
                 call' = [call EXCEPT ![c] = r]
          PROVE  CallMoves(c)
      BY <1>0, <1>3, <3>1, <3>4, <3>5, <3>6
    <3> QED BY <1>5, <3>6
  <2> QED BY <2>1, <2>2
<1>6. CASE Ensure(c)
  <2>1. k.pc = "ensure" /\ k.target \in Targets /\ k.method # "release" /\ k.old = None
    BY <1>0, <1>6, Methods DEF Ensure, At, ShapeOf
  <2>2. CASE Goto(c, "enable")
    BY <1>4, <2>1, <2>2 DEF Clicked
  <2>3. CASE ~Goto(c, "enable")
    <3> DEFINE v == Is(c, {"submit"}) /\ ~Listening(monitors[k.target], k.target)
    <3>1. v \in BOOLEAN /\ (k.method \in ClaimMethods => v = FALSE)
      BY DEF Is, ClaimMethods
    <3>2. call' = [call EXCEPT ![c] = [AfterEnsure(c) EXCEPT !.missed = v]]
      BY <1>6, <2>3 DEF Ensure
    <3> HIDE DEF v
    <3> QED BY <1>5, <2>1, <3>1, <3>2
  <2> QED BY <2>2, <2>3
<1>7. CASE EnableDomains(c)
  <2>1. k.pc = "enable" /\ k.target \in Targets /\ k.method # "release" /\ k.old = None
    BY <1>0, <1>7, Methods DEF EnableDomains, At, ShapeOf
  <2> QED BY <1>2, <1>4, <1>7, <2>1 DEF EnableDomains, Clicked
<1>8. ASSUME NEW m \in Monitors, MarkMonitored(c, m) PROVE CallMoves(c)
  BY <1>5, <1>8 DEF MarkMonitored, At
<1>9. CASE Build(c)
  BY <1>2, <1>9 DEF Build
<1>10. CASE Navigate(c)
  <2>1. k.pc = "work" /\ k.method \in TabTools /\ k.target \in Targets /\ k.old = None
    BY <1>0, <1>10, Methods DEF Navigate, At, Is, ShapeOf, ClaimMethods
  <2>2. CASE call' = [Moving(k.target) EXCEPT ![c].pc = "forget"]
    <3>1. Moving(k.target) \in [Calls -> CallState]
      BY <2>1, Reminded
    <3> DEFINE o == Moving(k.target)[c]
               r == [o EXCEPT !.pc = "forget"]
    <3>2. o \in {k, [k EXCEPT !.moved = TRUE]} /\ o \in CallState
      BY <3>1 DEF Moving
    <3>3. r \in CallState /\ r.pc = "forget" /\ r.target = k.target
          /\ r.method = k.method /\ r.session = k.session /\ r.tab = k.tab
          /\ r.request = k.request /\ r.submits = k.submits /\ r.old = k.old
      BY <1>0, <3>2 DEF CallState
    <3>4. call'[c] = r /\ call' \in [Calls -> CallState]
          /\ \A d \in Calls \ {c} : call'[d] = Moving(k.target)[d]
      BY <2>2, <3>1, <3>3
    <3>5. \A d \in Calls \ {c} : Stays(d)
      BY <2>1, <3>4, Reminded
    <3> HIDE DEF r, o
    <3>6. Advances(c, "forget", k.target) /\ k.request = "none" /\ k.submits # 2
      BY <1>0, <2>1, <3>3, <3>4 DEF Advances, ShapeOf, Clicked
    <3>7. ShapeOf(call'[c]) /\ Leased(call[c])'
      BY <1>0, <2>1, <3>6, AdvancedShape, Methods
    <3> QED BY <3>4, <3>5, <3>7 DEF CallMoves
  <2> QED BY <1>2, <1>10, <2>2 DEF Navigate
<1>11. CASE ForgetReferences(c)
  <2>1. k.pc = "forget" /\ k.method \in TabTools /\ k.target \in Targets /\ k.old = None
    BY <1>0, <1>11, Methods DEF ForgetReferences, At, ShapeOf, Setup
  <2> QED BY <1>4, <1>11, <2>1 DEF ForgetReferences, Clicked
<1>12. ASSUME NEW b \in Tabs, Claim(c, b) PROVE CallMoves(c)
  <2>1. k.pc = "handle" /\ k.method \in ClaimMethods /\ k.target \in Targets
    BY <1>0, <1>12 DEF Claim, At, Is, ShapeOf
  <2>2. CASE call' = [call EXCEPT ![c].tab = b, ![c].pc = "reset"]
    <3> DEFINE r == [k EXCEPT !.tab = b, !.pc = "reset"]
    <3>1. r \in CallState
      BY <1>0, CallUpdates
    <3>2. /\ r.pc = "reset" /\ r.target = k.target /\ r.method = k.method /\ r.session = k.session
          /\ r.request = k.request /\ r.submits = k.submits /\ r.old = k.old
      BY <1>0 DEF CallState
    <3>3. call' = [call EXCEPT ![c] = r]
      BY <1>0, <2>2
    <3> HIDE DEF r
    <3>4. Advances(c, "reset", k.target) /\ k.request = "none" /\ k.submits # 2
      BY <1>0, <2>1, <3>2, <3>3 DEF Advances, ShapeOf, Clicked
    <3>5. ShapeOf(call'[c]) /\ Leased(call[c])'
      BY <1>0, <2>1, <3>4, AdvancedShape, Methods
    <3> QED BY <1>1, <3>1, <3>3, <3>5
  <2> QED BY <1>2, <1>12, <2>2 DEF Claim
<1>13. CASE Release(c)
  <2>1. k.pc = "handle" /\ k.method = "release"
    BY <1>13 DEF Release, At, Is
  <2>2. CASE Owns(c)
    <3> DEFINE t == leases[k.tab].target
               r == [k EXCEPT !.pc = "reset", !.target = t]
    <3>1. t \in Targets
      BY <1>0, <2>1, <2>2, Methods
      DEF Owns, RequireOwnedTab, RegistryInv, TargetInv, LeasesComplete, ShapeOf, ClaimMethods
    <3>2. r \in CallState
      BY <1>0, <3>1, CallUpdates
    <3>3. /\ r.pc = "reset" /\ r.target = t /\ r.method = k.method /\ r.session = k.session
          /\ r.request = k.request /\ r.submits = k.submits /\ r.old = k.old /\ r.tab = k.tab
      BY <1>0, <3>1 DEF CallState
    <3>4. call' = [call EXCEPT ![c] = r]
      BY <1>0, <1>13, <2>2 DEF Release
    <3> HIDE DEF r, t
    <3>5. Advances(c, "reset", t) /\ k.request = "none" /\ k.submits # 2
      BY <1>0, <2>1, <3>3, <3>4 DEF Advances, ShapeOf, Clicked
    <3>6. ShapeOf(call'[c]) /\ Leased(call[c])'
      BY <1>0, <2>1, <3>1, <3>5, AdvancedShape, Methods DEF ClaimMethods
    <3> QED BY <1>1, <3>2, <3>4, <3>6
  <2> QED BY <1>2, <1>13, <2>2 DEF Release
\* a release is done with its monitor, and a claim sets up its own
<1>14. ASSUME k.pc \in {"reset", "await"}
       PROVE  /\ AfterAwait(c) \in CallState
              /\ call'[c] = AfterAwait(c) =>
                    call'[c] = NoCall \/ (ShapeOf(call'[c]) /\ Leased(call[c])')
  <2>1. CASE k.method = "release"
    BY <1>0, <2>1 DEF AfterAwait, Is
  <2>2. CASE k.method # "release"
    <3> DEFINE r == [k EXCEPT !.pc = "ensure", !.old = None]
    <3>1. k.method \in ClaimMethods /\ k.target \in Targets
      BY <1>0, <1>14, <2>2, Methods DEF ShapeOf
    <3>2. r \in CallState
      BY <1>0, CallUpdates
    <3>3. /\ r.pc = "ensure" /\ r.target = k.target /\ r.method = k.method /\ r.session = k.session
          /\ r.request = k.request /\ r.submits = k.submits /\ r.old = None
      BY <1>0 DEF CallState
    <3>4. AfterAwait(c) = r
      BY <2>2 DEF AfterAwait, Is
    <3> HIDE DEF r
    <3>5. ASSUME call'[c] = r PROVE ShapeOf(call'[c]) /\ Leased(call[c])'
      <4>1. Advances(c, "ensure", k.target) /\ k.request = "none" /\ k.submits # 2
        BY <1>0, <1>14, <3>1, <3>3, <3>5 DEF Advances, ShapeOf, Clicked
      <4> QED BY <1>0, <1>14, <2>2, <3>1, <4>1, AdvancedShape, Methods
    <3> QED BY <3>2, <3>4, <3>5
  <2> QED BY <2>1, <2>2
<1>15. CASE ResetDiagnostics(c)
  <2>1. k.pc = "reset" /\ k.target \in Targets /\ k.method \notin TabTools
    BY <1>0, <1>15, Methods DEF ResetDiagnostics, At, ShapeOf
  <2> DEFINE m == monitors[k.target]
  <2>2. Missing(k.target) \in [Calls -> CallState]
    BY <2>1, Reminded
  <2>3. ASSUME NEW r \in CallState, call' = [Missing(k.target) EXCEPT ![c] = r],
               r = NoCall \/ (ShapeOf(call'[c]) /\ Leased(call[c])')
        PROVE  CallMoves(c)
    <3>1. call'[c] = r /\ call' \in [Calls -> CallState]
          /\ \A d \in Calls \ {c} : call'[d] = Missing(k.target)[d]
      BY <2>2, <2>3
    <3>2. \A d \in Calls \ {c} : Stays(d)
      BY <2>1, <3>1, Reminded
    <3> QED BY <2>3, <3>1, <3>2 DEF CallMoves
  <2>4. CASE IsMonitored(c)
    <3> DEFINE r == Shutdown(c, m)
    <3>1. m \in Monitors
      BY <2>1, <2>4 DEF IsMonitored, Types, Maybe
    <3>2. r \in CallState
      BY <1>0, <3>1, CallUpdates DEF Shutdown
    <3>3. /\ r.pc = "await" /\ r.target = k.target /\ r.method = k.method /\ r.session = k.session
          /\ r.request = k.request /\ r.submits = k.submits /\ r.tab = k.tab
      BY <1>0, <3>1 DEF CallState, Shutdown
    <3>4. call' = [Missing(k.target) EXCEPT ![c] = r]
      BY <1>15, <2>4 DEF ResetDiagnostics
    <3> HIDE DEF r
    <3>5. call'[c] = r
      BY <2>2, <3>4
    <3>6. Advances(c, "await", k.target) /\ k.request = "none" /\ k.submits # 2
      BY <1>0, <2>1, <3>3, <3>5 DEF Advances, ShapeOf, Clicked
    <3>7. ShapeOf(call'[c]) /\ Leased(call[c])'
      BY <1>0, <2>1, <3>6, AdvancedShape, Methods DEF Setup
    <3> QED BY <2>3, <3>2, <3>4, <3>7
  <2>5. CASE ~IsMonitored(c)
    <3>1. call' = [Missing(k.target) EXCEPT ![c] = AfterAwait(c)]
      BY <1>15, <2>5 DEF ResetDiagnostics
    <3>2. call'[c] = AfterAwait(c)
      BY <2>2, <3>1
    <3> QED BY <1>14, <2>1, <2>3, <3>1, <3>2
  <2> QED BY <2>4, <2>5
<1>16. CASE AwaitMonitor(c) \/ AwaitTimesOut(c)
  <2>1. k.pc = "await" /\ call' = [call EXCEPT ![c] = AfterAwait(c)]
    BY <1>16 DEF AwaitMonitor, AwaitTimesOut, At
  <2>2. call'[c] = AfterAwait(c)
    BY <1>0, <2>1
  <2> QED BY <1>1, <1>14, <2>1, <2>2
<1> QED
  BY <1>6, <1>7, <1>8, <1>9, <1>10, <1>11, <1>12, <1>13, <1>15, <1>16 DEF DeepStep

LEMMA BackgroundMoves ==
    ASSUME Types, EndedMonitors, Background
    PROVE  call' \in [Calls -> CallState] /\ \A d \in Calls : Stays(d)
<1>1. ASSUME NEW m \in Monitors, MonitorLosesConnection(m)
      PROVE  call' \in [Calls -> CallState] /\ \A d \in Calls : Stays(d)
  <2>1. monitor[m].target \in Targets
    BY <1>1 DEF MonitorLosesConnection, EndedMonitors, Types, Maybe
  <2> QED BY <1>1, <2>1, Reminded DEF MonitorLosesConnection
<1>2. ASSUME NEW t \in Targets, PageMoves(t)
      PROVE  call' \in [Calls -> CallState] /\ \A d \in Calls : Stays(d)
  BY <1>2, Reminded DEF PageMoves
<1>3. ASSUME call' = call
      PROVE  call' \in [Calls -> CallState] /\ \A d \in Calls : Stays(d)
  BY <1>3 DEF Types, Stays
<1> QED BY <1>1, <1>2, <1>3 DEF Background, MonitorCleansUp, PageLogs, SweepForgets

LEMMA ShapesStep ==
    ASSUME RegistryInv, Types, Shapes, EndedMonitors, [ToolNext]_toolVars
    PROVE  Shapes' /\ call' \in [Calls -> CallState]
<1>1. [Next]_vars
  BY StepsTheRegistry
<1>2. ASSUME \A d \in Calls : Stays(d) PROVE Shapes'
  BY <1>1, <1>2, StayingShape DEF Shapes
<1>3. ASSUME NEW c \in Calls, CallMoves(c) PROVE Shapes' /\ call' \in [Calls -> CallState]
  BY <1>1, <1>3, MovedShapes DEF CallMoves
<1>4. ASSUME call' = call PROVE Shapes' /\ call' \in [Calls -> CallState]
  BY <1>2, <1>4 DEF Stays, Types
<1>5. ASSUME NEW c \in Calls, ClientStep(c) \/ PlainStep(c) \/ DeepStep(c) PROVE CallMoves(c)
  BY <1>1, <1>5, SendMoves, PlainMoves, DeepMoves DEF RegistryInv, Shapes
<1> QED
  BY <1>2, <1>3, <1>4, <1>5, StepKinds, BackgroundMoves
  DEF Begin, TimePasses, SweepExpire, toolVars

(***************************************************************************)
(* The types of the rest.                                                  *)
(***************************************************************************)
\* Everything but the registry and the calls.
LEMMA TypesStep ==
    ASSUME RegistryInv, Types, Shapes, EndedMonitors, [ToolNext]_toolVars
    PROVE  Types'
<1>0. call' \in [Calls -> CallState]
  BY ShapesStep
<1> USE DEF Types, diagnosticVars, referenceVars
<1>1. ASSUME UNCHANGED <<profile, document, diagnosticVars, referenceVars, sweep>>
      PROVE  Types'
  BY <1>0, <1>1
<1>2. ASSUME NEW c \in Calls, ClientStep(c) PROVE Types'
  BY ZenonT(60), <1>1, <1>2, ClientSends DEF Send, OnlySession
<1>3. ASSUME NEW c \in Calls, PlainStep(c) PROVE Types'
  BY <1>1, <1>3, PlainSteps DEF PlainFate, OnlyCall, Shapes, RegistryInv
<1>4. ASSUME Overlapped PROVE overlapped' \in SUBSET Targets
  BY <1>4 DEF Overlapped
<1>5. ASSUME NEW c \in Calls, DeepStep(c) PROVE Types'
  <2> DEFINE t == call[c].target
  <2>0. Shape(c) /\ call[c] \in CallState
    BY DEF Shapes
  <2>1. CASE Ensure(c)
    BY <1>0, <1>4, <2>1 DEF Ensure
  <2>2. CASE EnableDomains(c)
    BY <1>0, <1>4, <2>2 DEF EnableDomains
  <2>3. ASSUME NEW m \in Monitors, MarkMonitored(c, m) PROVE Types'
    <3>1. t \in Maybe(Targets)
      BY <2>0 DEF CallState
    <3>2. monitor' \in [Monitors -> [phase : {"none", "listening", "stopping"}, target : Maybe(Targets)]]
      BY <2>3, <3>1 DEF MarkMonitored
    <3>3. monitors' \in [Targets -> Maybe(Monitors)]
      BY <2>3 DEF MarkMonitored, Maybe
    <3> QED BY <1>0, <1>4, <2>3, <3>2, <3>3 DEF MarkMonitored
  <2>4. CASE Build(c)
    <3> DEFINE b == call[c].tab
               ref == [session |-> call[c].session, tab |-> b, document |-> call[c].revision]
               fresh == [session |-> call[c].session, revision |-> call[c].revision, by_ref |-> {}]
               kept == IF [references[b] EXCEPT !.by_ref = {}] = fresh THEN references[b].by_ref
                       ELSE {}
    <3>1. /\ call[c].session \in Sessions /\ b \in Tabs /\ call[c].revision \in Documents
      BY <2>0, <2>4, Methods DEF Build, At, Shape, ShapeOf
    <3>2. ref \in Reference /\ kept \subseteq Reference
      BY <3>1 DEF Reference
    <3>3. /\ references' = [references EXCEPT ![b] = [fresh EXCEPT !.by_ref = kept \cup {ref}]]
          /\ issued' = issued \cup {ref}
      BY <2>4 DEF Build
    <3>4. [fresh EXCEPT !.by_ref = kept \cup {ref}]
             \in [session : Maybe(Sessions), revision : Maybe(Documents), by_ref : SUBSET Reference]
      BY <3>1, <3>2 DEF Maybe
    <3> HIDE DEF fresh, kept, ref
    <3> QED BY <1>0, <2>4, <3>1, <3>2, <3>3, <3>4 DEF Build
  <2>5. CASE Navigate(c)
    <3>1. document' \in [Targets -> 0..MaxDocument]
      BY <2>5, ToolProfilesAssumption DEF Navigate
    <3> QED BY <1>0, <2>5, <3>1 DEF Navigate
  <2>6. CASE ForgetReferences(c)
    BY <1>0, <2>6, Records DEF ForgetReferences
  <2>7. ASSUME NEW b \in Tabs, Claim(c, b) PROVE Types'
    BY <1>1, <2>7 DEF Claim, OnlySession
  <2>8. CASE Release(c)
    BY <1>1, <2>8 DEF Release, OnlySession
  <2>9. CASE ResetDiagnostics(c)
    <3>1. /\ buffer' \in [Targets -> SUBSET Maybe(Tabs)]
          /\ monitors' \in [Targets -> Maybe(Monitors)]
      BY <2>9 DEF ResetDiagnostics, BuffersWithout, Maybe
    <3>2. monitor' \in [Monitors -> [phase : {"none", "listening", "stopping"}, target : Maybe(Targets)]]
      <4>1. IsMonitored(c) /\ t \in Targets => monitors[t] \in Monitors
        BY DEF IsMonitored, Maybe
      <4>2. t \in Targets
        BY <2>0, <2>9, Methods DEF ResetDiagnostics, At, Shape, ShapeOf
      <4> QED BY <2>9, <4>1, <4>2 DEF ResetDiagnostics
    <3>3. references' \in [Tabs -> [session : Maybe(Sessions), revision : Maybe(Documents),
                                    by_ref : SUBSET Reference]]
      BY <2>9, Records DEF ResetDiagnostics
    <3> QED BY <1>0, <1>4, <2>9, <3>1, <3>2, <3>3 DEF ResetDiagnostics
  <2>10. CASE AwaitMonitor(c)
    BY <1>0, <1>4, <2>10 DEF AwaitMonitor
  <2>11. CASE AwaitTimesOut(c)
    <3>1. monitor' \in [Monitors -> [phase : {"none", "listening", "stopping"}, target : Maybe(Targets)]]
      BY <2>11 DEF AwaitTimesOut, NoMonitor, Maybe
    <3> QED BY <1>0, <1>4, <2>11, <3>1 DEF AwaitTimesOut
  <2> QED
    BY <1>5, <2>1, <2>2, <2>3, <2>4, <2>5, <2>6, <2>7, <2>8, <2>9, <2>10, <2>11 DEF DeepStep
<1>6. CASE Background
  <2>1. ASSUME NEW m \in Monitors, MonitorLosesConnection(m) PROVE Types'
    BY <1>0, <1>4, <2>1 DEF MonitorLosesConnection
  <2>2. ASSUME NEW m \in Monitors, MonitorCleansUp(m) PROVE Types'
    BY <1>0, <1>4, <2>2 DEF MonitorCleansUp, NoMonitor, Maybe
  <2>3. ASSUME NEW t \in Targets, PageLogs(t) PROVE Types'
    <3>1. active_target_owners[t] \in Maybe(Tabs)
      BY DEF RegistryInv, TypeOK
    <3> QED BY <1>0, <2>3, <3>1 DEF PageLogs
  <2>4. ASSUME NEW t \in Targets, PageMoves(t) PROVE Types'
    <3>1. document' \in [Targets -> 0..MaxDocument]
      BY <2>4, ToolProfilesAssumption DEF PageMoves
    <3> QED BY <1>0, <2>4, <3>1 DEF PageMoves
  <2>5. CASE SweepForgets
    BY <1>0, <2>5, Records DEF SweepForgets
  <2> QED BY <1>6, <2>1, <2>2, <2>3, <2>4, <2>5 DEF Background
<1>7. CASE SweepExpire
  <2>1. sweep' \in SUBSET Tabs
    BY <1>7 DEF SweepExpire, ToRelease
  <2> QED BY <1>0, <1>7, <2>1 DEF SweepExpire
<1> QED
  BY <1>1, <1>2, <1>3, <1>5, <1>6, <1>7, StepKinds DEF Begin, TimePasses, OnlySession, toolVars

(***************************************************************************)
(* The monitors.                                                           *)
(***************************************************************************)
\* A step that leaves the monitor of a target and the work on it alone.
SameWork(d, t) ==
    /\ Works(d, t)' <=> Works(d, t)
    /\ Works(d, t) => call'[d].pc = call[d].pc /\ call'[d].old = call[d].old
Undisturbed(t) ==
    /\ \A d \in Calls : SameWork(d, t)
    /\ \A m \in Monitors : /\ monitor'[m].target = t <=> monitor[m].target = t
                           /\ monitor'[m].phase = "listening" /\ monitor[m].target = t
                              => monitor[m].phase = "listening"
    /\ monitors'[t] = monitors[t]
    /\ domains[t] => domains'[t]

LEMMA StaysOrderly ==
    ASSUME Types, Types', NEW t \in Targets, Orderly(t), Undisturbed(t)
    PROVE  Orderly(t)'
<1>1. \A m \in Maybe(Monitors) : Listening(m, t)' => Listening(m, t)
  BY DEF Listening, Undisturbed, Types, Maybe
<1>2. Listening(monitors[t], t)' => Listening(monitors[t], t)
  BY <1>1 DEF Listening, Undisturbed, Types
<1>3. \A c \in Calls : Works(c, t)' => Works(c, t) /\ call'[c].pc = call[c].pc /\ call'[c].old = call[c].old
  BY DEF Undisturbed, SameWork
<1>4. \A c \in Calls : Works(c, t) => Works(c, t)'
  BY DEF Undisturbed, SameWork
<1>5. domains[t] => domains'[t]
  BY DEF Undisturbed
<1>6. \A c, d \in Calls : Works(c, t)' /\ Works(d, t)' => c = d
  BY <1>3 DEF Orderly
<1>7. \A c \in Calls, m \in Monitors :
          Works(c, t)' /\ monitor'[m].target = t => call'[c].pc = "await" /\ call'[c].old = m
  BY <1>3 DEF Orderly, Undisturbed
<1>8. \A m \in Monitors :
          monitor'[m].target = t => monitors'[t] = m \/ \E c \in Calls : Works(c, t)'
  BY <1>4 DEF Orderly, Undisturbed
<1>9. \A c \in Calls : Works(c, t)' /\ call'[c].pc = "mark" => domains'[t]
  BY <1>3, <1>5 DEF Orderly
<1> QED BY <1>2, <1>5, <1>6, <1>7, <1>8, <1>9 DEF Orderly

\* A call that stays, or is at no lock section of a monitor before and after.
LEMMA WorkKept ==
    ASSUME NEW d \in Calls, Stays(d) \/ (call[d].pc \notin Setup /\ call'[d].pc \notin Setup)
    PROVE  /\ \A t : SameWork(d, t)
           /\ call'[d].pc = "await" =>
                call[d].pc = "await" /\ call'[d].old = call[d].old /\ call'[d].target = call[d].target
BY DEF Stays, SameWork, Works, Setup

LEMMA QuietMonitors ==
    ASSUME Types, Types', MonitorInv, UNCHANGED <<domains, monitor, monitors, overlapped>>,
           \A d \in Calls : Stays(d) \/ (call[d].pc \notin Setup /\ call'[d].pc \notin Setup)
    PROVE  MonitorInv'
<1>1. ASSUME NEW t \in Targets \ overlapped PROVE Orderly(t)'
  BY <1>1, WorkKept, StaysOrderly DEF MonitorInv, Undisturbed
<1>2. EndedMonitors'
  BY DEF MonitorInv, EndedMonitors
<1>3. AwaitsStopped'
  BY WorkKept DEF MonitorInv, AwaitsStopped, At
<1> QED BY <1>1, <1>2, <1>3 DEF MonitorInv

\* What two calls do at once is not undone before all monitors of the target ended.
LEMMA OverlappedOrderly ==
    ASSUME Types, Types', MonitorInv, Overlapped, EndedMonitors', AwaitsStopped',
           ASSUME NEW t \in Targets, t \notin overlapped, t \notin overlapped', Orderly(t),
                  \A c, d \in Calls : Works(c, t)' /\ Works(d, t)' => c = d
           PROVE  Orderly(t)'
    PROVE  MonitorInv'
<1>1. ASSUME NEW t \in Targets, t \notin overlapped' PROVE Orderly(t)'
  <2>1. \A c, d \in Calls : Works(c, t)' /\ Works(d, t)' => c = d
    BY <1>1 DEF Overlapped
  <2>2. CASE t \in overlapped
    <3>1. ~(\E c \in Calls : Works(c, t)') /\ ~(\E m \in Monitors : monitor'[m].target = t)
      BY <1>1, <2>2 DEF Overlapped
    <3>2. ~Listening(monitors[t], t)'
      BY <3>1 DEF Listening, Types, Maybe
    <3> QED BY <3>1, <3>2 DEF Orderly
  <2>3. CASE t \notin overlapped
    BY <1>1, <2>1, <2>3 DEF MonitorInv
  <2> QED BY <2>2, <2>3
<1> QED BY <1>1 DEF MonitorInv

\* The lock sections and waits of setting up and taking down a monitor.
LEMMA WorkingMonitors ==
    ASSUME RegistryInv, Types, Types', Shapes, MonitorInv, NEW c \in Calls, CallMoves(c),
           \/ Ensure(c) \/ EnableDomains(c) \/ \E m \in Monitors : MarkMonitored(c, m)
           \/ ResetDiagnostics(c) \/ AwaitMonitor(c) \/ AwaitTimesOut(c)
    PROVE  MonitorInv'
<1> DEFINE k == call[c]
           u == k.target
<1>0. /\ EndedMonitors /\ AwaitsStopped /\ \A t \in Targets \ overlapped : Orderly(t)
      /\ call \in [Calls -> CallState] /\ k \in CallState /\ NoCall.pc = "idle"
      /\ \A d \in Calls \ {c} : Stays(d)
  BY Records DEF MonitorInv, Types, CallMoves, NoCall
<1>1. u \in Targets /\ Overlapped
  BY Methods
  DEF Ensure, EnableDomains, MarkMonitored, ResetDiagnostics, AwaitMonitor, AwaitTimesOut, At,
      Shapes, Shape, ShapeOf
<1>2. /\ \A d \in Calls \ {c}, t \in Targets : SameWork(d, t)
      /\ \A d \in Calls \ {c} : call'[d].pc = "await" =>
            call[d].pc = "await" /\ call'[d].old = call[d].old /\ call'[d].target = call[d].target
  BY <1>0, WorkKept
\* another target is not touched
<1>3. ASSUME NEW t \in Targets, t # u, Works(c, t)' => call'[c].target # t
      PROVE  SameWork(c, t)
  BY <1>3 DEF SameWork, Works
<1>4. CASE Ensure(c) /\ IsMonitored(c)
  <2>1. /\ k.pc = "ensure" /\ call'[c].pc \in {"idle", "work"}
        /\ UNCHANGED <<domains, monitor, monitors>>
    <3>1. AfterEnsure(c) \in CallState /\ AfterEnsure(c).pc \in {"idle", "work"}
      <4>1. "work" \in Steps
        BY DEF Steps
      <4>2. [k EXCEPT !.pc = "work"] \in CallState
        BY <1>0, <4>1, CallUpdates
      <4>3. [k EXCEPT !.pc = "work"].pc = "work"
        BY <1>0 DEF CallState
      <4> QED BY <1>0, <4>2, <4>3, Records DEF AfterEnsure
    <3>2. \A w : [AfterEnsure(c) EXCEPT !.missed = w].pc = AfterEnsure(c).pc
      BY <3>1 DEF CallState
    <3> QED BY ZenonT(60), <1>0, <1>4, <3>1, <3>2 DEF Ensure, At
  <2>2. EndedMonitors' /\ AwaitsStopped'
    BY <1>0, <1>2, <2>1 DEF EndedMonitors, AwaitsStopped, At
  <2>3. ASSUME NEW t \in Targets, Orderly(t) PROVE Orderly(t)'
    BY <1>2, <2>1, <2>3, StaysOrderly DEF Undisturbed, SameWork, Works
  <2> QED BY <1>1, <2>2, <2>3, OverlappedOrderly
<1>5. CASE Ensure(c) /\ ~IsMonitored(c)
  <2>1. /\ k.pc = "ensure" /\ call'[c].pc = "enable" /\ call'[c].target = u
        /\ UNCHANGED <<domains, monitor, monitors>>
    BY <1>0, <1>5 DEF Ensure, At, Goto, CallState
  <2>2. EndedMonitors' /\ AwaitsStopped'
    BY <1>0, <1>2, <2>1 DEF EndedMonitors, AwaitsStopped, At
  <2>3. ASSUME NEW t \in Targets, t \notin overlapped, t \notin overlapped', Orderly(t),
               \A d, e \in Calls : Works(d, t)' /\ Works(e, t)' => d = e
        PROVE  Orderly(t)'
    <3>1. CASE t # u
      BY <1>2, <2>1, <2>3, <3>1, StaysOrderly DEF Undisturbed, SameWork, Works
    <3>2. CASE t = u
      <4>1. Works(c, t)' /\ \A d \in Calls \ {c} : ~Works(d, t)' /\ ~Works(d, t)
        BY <1>2, <2>1, <2>3, <3>2 DEF Works, SameWork
      <4>2. \A m \in Monitors : monitor[m].target # t
        <5>1. ~Works(c, t)
          BY <2>1 DEF Works
        <5>2. ASSUME NEW m \in Monitors, monitor[m].target = t PROVE FALSE
          <6>1. monitors[t] = m
            BY <2>3, <4>1, <5>1, <5>2 DEF Orderly
          <6> QED BY <1>5, <3>2, <5>2, <6>1, ToolNamesAssumption DEF IsMonitored
        <5> QED BY <5>2
      <4>3. ~Listening(monitors[t], t)'
        BY <2>1, <4>2 DEF Listening, Types, Maybe
      <4> QED BY <2>1, <2>3, <4>1, <4>2, <4>3 DEF Orderly
    <3> QED BY <3>1, <3>2
  <2> QED BY <1>1, <2>2, <2>3, OverlappedOrderly
<1>6. CASE EnableDomains(c)
  <2>1. /\ k.pc = "enable" /\ UNCHANGED <<monitor, monitors>>
        /\ domains' \in {domains, [domains EXCEPT ![u] = TRUE]}
        /\ \/ call'[c].pc = "mark" /\ call'[c].target = u /\ domains'[u]
           \/ call'[c].pc = "idle"
    BY <1>0, <1>1, <1>6 DEF EnableDomains, At, Goto, End, CallState, Types
  <2>2. EndedMonitors' /\ AwaitsStopped'
    BY <1>0, <1>2, <2>1 DEF EndedMonitors, AwaitsStopped, At
  <2>3. ASSUME NEW t \in Targets, t \notin overlapped, t \notin overlapped', Orderly(t),
               \A d, e \in Calls : Works(d, t)' /\ Works(e, t)' => d = e
        PROVE  Orderly(t)'
    <3>1. CASE t # u
      <4>1. SameWork(c, t)
        BY <2>1, <3>1 DEF SameWork, Works
      <4>2. domains'[t] = domains[t]
        BY <2>1, <3>1 DEF Types
      <4> QED BY <1>2, <2>1, <2>3, <4>1, <4>2, StaysOrderly DEF Undisturbed
    <3>2. CASE t = u
      <4>1. Works(c, t) /\ \A d \in Calls \ {c} : ~Works(d, t) /\ ~Works(d, t)'
        BY <1>2, <2>1, <2>3, <3>2 DEF Works, Orderly, SameWork
      <4>2. \A m \in Monitors : monitor[m].target # t
        BY <2>1, <2>3, <4>1 DEF Orderly
      <4>3. ~Listening(monitors[t], t)'
        BY <2>1, <4>2 DEF Listening, Types, Maybe
      <4>4. Works(c, t)' => domains'[t]
        BY <2>1, <3>2 DEF Works
      <4> QED BY <2>1, <2>3, <4>1, <4>2, <4>3, <4>4 DEF Orderly
    <3> QED BY <3>1, <3>2
  <2> QED BY <1>1, <2>2, <2>3, OverlappedOrderly
<1>7. ASSUME NEW m \in Monitors, MarkMonitored(c, m) PROVE MonitorInv'
  <2>1. /\ k.pc = "mark" /\ UNCHANGED domains
        /\ monitors' = [monitors EXCEPT ![u] = m]
        /\ FreshMonitor(m) /\ call'[c].pc \in {"idle", "work"}
    BY <1>0, <1>7 DEF MarkMonitored, At, AfterEnsure, CallState
  <2>2. \A n \in Monitors :
          /\ monitor'[n].target = IF n = m THEN u ELSE monitor[n].target
          /\ monitor'[n].phase = IF n = m THEN "listening"
                                 ELSE IF n = monitors[u] /\ monitor[n].target = u THEN "stopping"
                                 ELSE monitor[n].phase
    BY <1>7 DEF MarkMonitored, Types
  <2>3. monitor[m].target = None /\ (\A t \in Targets : monitors[t] # m)
        /\ \A d \in Calls : call[d].old # m
    BY <2>1, Records DEF FreshMonitor
  <2>4. EndedMonitors'
    BY <1>0, <1>1, <2>2, NoneAssumption DEF EndedMonitors
  <2>5. AwaitsStopped'
    BY <1>0, <1>2, <2>1, <2>2, <2>3 DEF AwaitsStopped, At
  <2>6. ASSUME NEW t \in Targets, t \notin overlapped, t \notin overlapped', Orderly(t),
               \A d, e \in Calls : Works(d, t)' /\ Works(e, t)' => d = e
        PROVE  Orderly(t)'
    <3>0. t # None
      BY NoneAssumption
    <3>1. CASE t # u
      <4>1. SameWork(c, t)
        BY <2>1, <3>1 DEF SameWork, Works
      <4>2. monitors'[t] = monitors[t]
        BY <2>1, <3>1 DEF Types
      <4>3. \A n \in Monitors : /\ monitor'[n].target = t <=> monitor[n].target = t
                                /\ monitor'[n].phase = "listening" /\ monitor[n].target = t
                                   => monitor[n].phase = "listening"
        BY <2>2, <2>3, <3>0, <3>1
      <4>4. \A d \in Calls : SameWork(d, t)
        BY <1>2, <4>1
      <4> QED BY <2>1, <2>6, <4>2, <4>3, <4>4, StaysOrderly DEF Undisturbed
    <3>2. CASE t = u
      <4>1. Works(c, t) /\ \A d \in Calls : ~Works(d, t)'
        BY <1>2, <2>1, <2>6, <3>2 DEF Works, Orderly, SameWork
      <4>2. domains[t] /\ \A n \in Monitors : monitor[n].target # t
        BY <2>1, <2>6, <4>1 DEF Orderly
      <4>3. monitors'[t] = m /\ domains'[t]
        BY <2>1, <3>2, <4>2 DEF Types
      <4>4. \A n \in Monitors : monitor'[n].target = t => n = m
        BY <2>2, <4>2
      <4> QED BY <4>1, <4>3, <4>4 DEF Orderly
    <3> QED BY <3>1, <3>2
  <2> QED BY <1>1, <2>4, <2>5, <2>6, OverlappedOrderly
<1>8. CASE ResetDiagnostics(c) /\ IsMonitored(c)
  <2> DEFINE m == monitors[u]
  <2>1. m \in Monitors /\ monitor[m].target = u
    BY <1>1, <1>8 DEF IsMonitored, Types, Maybe
  <2>2. /\ k.pc = "reset" /\ UNCHANGED domains
        /\ monitors' = [monitors EXCEPT ![u] = None]
        /\ monitor' = [monitor EXCEPT ![m].phase = "stopping"]
    BY <1>8 DEF ResetDiagnostics, At
  <2>3. call'[c].pc = "await" /\ call'[c].old = m /\ call'[c].target = u
    <3>1. Missing(u) \in [Calls -> CallState] /\ call' = [Missing(u) EXCEPT ![c] = Shutdown(c, m)]
      BY <1>1, <1>8, Reminded DEF ResetDiagnostics
    <3> QED BY <1>0, <3>1 DEF Shutdown, CallState
  <2>4. \A n \in Monitors :
          /\ monitor'[n].target = monitor[n].target
          /\ monitor'[n].phase = IF n = m THEN "stopping" ELSE monitor[n].phase
    BY <2>2 DEF Types
  <2>5. EndedMonitors'
    BY <1>0, <1>1, <2>1, <2>4, NoneAssumption DEF EndedMonitors
  <2>6. AwaitsStopped'
    BY <1>0, <1>2, <2>1, <2>3, <2>4 DEF AwaitsStopped, At
  <2>7. ASSUME NEW t \in Targets, t \notin overlapped, t \notin overlapped', Orderly(t),
               \A d, e \in Calls : Works(d, t)' /\ Works(e, t)' => d = e
        PROVE  Orderly(t)'
    <3>1. CASE t # u
      <4>1. SameWork(c, t)
        BY <2>2, <2>3, <3>1 DEF SameWork, Works
      <4>2. monitors'[t] = monitors[t]
        BY <2>2, <3>1 DEF Types
      <4> QED BY <1>2, <2>2, <2>4, <2>7, <4>1, <4>2, StaysOrderly DEF Undisturbed
    <3>2. CASE t = u
      <4>1. Works(c, t)' /\ \A d \in Calls \ {c} : ~Works(d, t) /\ ~Works(d, t)'
        BY <1>2, <2>3, <2>7, <3>2 DEF Works, SameWork
      <4>2. ~Works(c, t)
        BY <2>2 DEF Works
      <4>3. \A n \in Monitors : monitor'[n].target = t => n = m
        BY <2>4, <2>7, <3>2, <4>1, <4>2 DEF Orderly
      <4>4. ~Listening(monitors[t], t)'
        BY <2>2, <3>2 DEF Listening, Types
      <4> QED BY <2>3, <2>7, <4>1, <4>3, <4>4 DEF Orderly
    <3> QED BY <3>1, <3>2
  <2> QED BY <1>1, <2>5, <2>6, <2>7, OverlappedOrderly
<1>9. ASSUME k.pc \in {"reset", "await"}, call'[c].pc \in {"idle", "ensure"}, UNCHANGED domains,
             \A t \in Targets \ {u} : monitors'[t] = monitors[t],
             monitors'[u] \in {None, monitors[u]},
             \A n \in Monitors :
                /\ monitor'[n].target = monitor[n].target \/ (monitor'[n].target = None /\ monitor[n].target \in {None, u})
                /\ monitor'[n].phase \in {monitor[n].phase, "none"}
                /\ monitor'[n].phase = "none" <=> monitor'[n].target = None,
             \A n \in Monitors : monitor'[n].target = u /\ u \notin overlapped =>
                monitors'[u] = n \/ \E d \in Calls \ {c} : Works(d, u)
      PROVE  MonitorInv'
  <2>1. EndedMonitors'
    BY <1>9 DEF EndedMonitors
  <2>2. AwaitsStopped'
    BY <1>0, <1>2, <1>9 DEF AwaitsStopped, At
  <2>3. ASSUME NEW t \in Targets, t \notin overlapped, t \notin overlapped', Orderly(t),
               \A d, e \in Calls : Works(d, t)' /\ Works(e, t)' => d = e
        PROVE  Orderly(t)'
    <3>0. t # None
      BY NoneAssumption
    <3>1. CASE t # u
      <4>1. SameWork(c, t)
        BY <1>9, <3>1 DEF SameWork, Works
      <4> QED BY <1>2, <1>9, <2>3, <3>0, <3>1, <4>1, StaysOrderly DEF Undisturbed
    <3>2. CASE t = u
      <4>1. ~Works(c, t)' /\ \A d \in Calls \ {c} : Works(d, t)' <=> Works(d, t)
        BY <1>2, <1>9 DEF Works, SameWork
      <4>2. \A n \in Monitors : monitor'[n].target = t => monitor[n].target = t
        BY <1>9, <3>0
      <4>3. \A d \in Calls, n \in Monitors :
              Works(d, t)' /\ monitor'[n].target = t => call'[d].pc = "await" /\ call'[d].old = n
        BY <1>2, <2>3, <4>1, <4>2 DEF Orderly, SameWork
      <4>4. \A n \in Monitors :
              monitor'[n].target = t => monitors'[t] = n \/ \E d \in Calls : Works(d, t)'
        BY <1>9, <2>3, <3>2, <4>1
      <4>5. \A d \in Calls : Works(d, t)' /\ call'[d].pc = "mark" => domains'[t]
        BY <1>2, <1>9, <2>3, <4>1 DEF Orderly, SameWork
      <4>6. Listening(monitors[t], t)' => domains'[t]
        BY <1>9, <2>3, <3>0, <3>2 DEF Orderly, Listening, Types, Maybe
      <4> QED BY <2>3, <4>3, <4>4, <4>5, <4>6 DEF Orderly
    <3> QED BY <3>1, <3>2
  <2> QED BY <1>1, <2>1, <2>2, <2>3, OverlappedOrderly
<1>a. k.pc \in {"reset", "await"} /\ call'[c] = AfterAwait(c) => call'[c].pc \in {"idle", "ensure"}
  BY <1>0 DEF AfterAwait, CallState
<1>10. CASE ResetDiagnostics(c) /\ ~IsMonitored(c)
  <2>1. /\ k.pc = "reset" /\ UNCHANGED <<domains, monitor>>
        /\ monitors' = [monitors EXCEPT ![u] = None]
    BY <1>10 DEF ResetDiagnostics, At
  <2>2. call'[c] = AfterAwait(c)
    <3>1. Missing(u) \in [Calls -> CallState] /\ call' = [Missing(u) EXCEPT ![c] = AfterAwait(c)]
      BY <1>1, <1>10, Reminded DEF ResetDiagnostics
    <3> QED BY <3>1
  <2>3. ASSUME NEW n \in Monitors, monitor[n].target = u, u \notin overlapped
        PROVE  \E d \in Calls \ {c} : Works(d, u)
    <3>1. monitors[u] # n
      BY <1>10, <2>3, ToolNamesAssumption DEF IsMonitored
    <3>2. ~Works(c, u)
      BY <2>1 DEF Works
    <3> QED BY <1>0, <1>1, <2>3, <3>1, <3>2 DEF Orderly
  <2>4. /\ \A t \in Targets \ {u} : monitors'[t] = monitors[t]
        /\ monitors'[u] = None
    BY <1>1, <2>1 DEF Types
  <2>5. \A n \in Monitors : monitor[n].phase = "none" <=> monitor[n].target = None
    BY <1>0 DEF EndedMonitors
  <2> QED BY <1>9, <1>a, <2>1, <2>2, <2>3, <2>4, <2>5
<1>11. CASE AwaitMonitor(c) \/ AwaitTimesOut(c)
  <2>1. k.pc = "await" /\ UNCHANGED <<domains, monitors>> /\ call'[c] = AfterAwait(c)
    BY <1>0, <1>11 DEF AwaitMonitor, AwaitTimesOut, At
  <2>2. /\ k.old \in Monitors /\ monitor[k.old].target \in {None, u}
    BY <1>0, <2>1 DEF AwaitsStopped, At
  <2>3. /\ \A n \in Monitors \ {k.old} : monitor'[n] = monitor[n]
        /\ monitor'[k.old].phase = "none" /\ monitor'[k.old].target = None
    BY <1>0, <1>11, <2>2, Records DEF AwaitMonitor, AwaitTimesOut, Ended, EndedMonitors, Types
  <2>4. \A n \in Monitors : monitor'[n].phase = "none" <=> monitor'[n].target = None
    BY <1>0, <2>3 DEF EndedMonitors
  <2>5. ASSUME NEW n \in Monitors, monitor'[n].target = u, u \notin overlapped PROVE FALSE
    <3>1. n # k.old /\ monitor[n].target = u
      BY <1>1, <2>3, <2>5, NoneAssumption
    <3>2. Works(c, u)
      BY <2>1 DEF Works
    <3> QED BY <1>0, <1>1, <2>5, <3>1, <3>2 DEF Orderly
  <2>6. \A n \in Monitors :
          /\ monitor'[n].target = monitor[n].target \/ (monitor'[n].target = None /\ monitor[n].target \in {None, u})
          /\ monitor'[n].phase \in {monitor[n].phase, "none"}
    BY <2>2, <2>3
  <2> QED BY <1>9, <1>a, <2>1, <2>4, <2>5, <2>6
<1> QED
  BY <1>4, <1>5, <1>6, <1>7, <1>8, <1>10, <1>11

\* A monitor task that loses its connection, and the end of one.
LEMMA EndingMonitors ==
    ASSUME Types, Types', MonitorInv, \A d \in Calls : Stays(d), NEW m \in Monitors,
           MonitorLosesConnection(m) \/ MonitorCleansUp(m)
    PROVE  MonitorInv'
<1> DEFINE u == monitor[m].target
<1>0. /\ EndedMonitors /\ AwaitsStopped /\ \A t \in Targets \ overlapped : Orderly(t)
      /\ u \in Targets /\ Overlapped
  BY DEF MonitorInv, EndedMonitors, MonitorLosesConnection, MonitorCleansUp, Types, Maybe
<1>1. /\ \A d \in Calls, t \in Targets : SameWork(d, t)
      /\ \A d \in Calls : call'[d].pc = "await" =>
            call[d].pc = "await" /\ call'[d].old = call[d].old /\ call'[d].target = call[d].target
  BY WorkKept
<1>2. \A t \in Targets : t # None
  BY NoneAssumption
<1>3. CASE MonitorLosesConnection(m)
  <2>1. /\ UNCHANGED <<domains, monitors>>
        /\ \A n \in Monitors : /\ monitor'[n].target = monitor[n].target
                               /\ monitor'[n].phase = IF n = m THEN "stopping" ELSE monitor[n].phase
    BY <1>3 DEF MonitorLosesConnection, Types
  <2>2. EndedMonitors'
    BY <1>0, <1>2, <2>1 DEF EndedMonitors
  <2>3. AwaitsStopped'
    BY <1>0, <1>1, <2>1 DEF AwaitsStopped, At
  <2>4. ASSUME NEW t \in Targets, Orderly(t) PROVE Orderly(t)'
    BY <1>1, <2>1, <2>4, StaysOrderly DEF Undisturbed
  <2> QED BY <1>0, <2>2, <2>3, <2>4, OverlappedOrderly
<1>4. CASE MonitorCleansUp(m)
  <2>1. /\ UNCHANGED monitors
        /\ \A t \in Targets : t # u => domains'[t] = domains[t]
        /\ \A n \in Monitors : n # m => monitor'[n] = monitor[n]
        /\ monitor'[m].target = None /\ monitor'[m].phase = "none"
    BY <1>4, Records DEF MonitorCleansUp, Types
  <2>2. EndedMonitors'
    BY <1>0, <2>1 DEF EndedMonitors
  <2>3. AwaitsStopped'
    BY <1>0, <1>1, <2>1 DEF AwaitsStopped, At
  <2>4. ASSUME NEW t \in Targets, t \notin overlapped, t \notin overlapped', Orderly(t),
               \A d, e \in Calls : Works(d, t)' /\ Works(e, t)' => d = e
        PROVE  Orderly(t)'
    <3>1. CASE t # u
      <4>1. \A n \in Monitors : monitor'[n].target = t <=> monitor[n].target = t
        BY <1>2, <2>1, <3>1
      <4>2. \A n \in Monitors : monitor'[n].phase = "listening" => monitor[n].phase = "listening"
        BY <2>1
      <4> QED BY <1>1, <2>1, <2>4, <3>1, <4>1, <4>2, StaysOrderly DEF Undisturbed
    <3>2. CASE t = u
      <4>1. \A n \in Monitors : monitor'[n].target = t => n # m /\ monitor[n].target = t
        BY <1>2, <2>1
      \* who works on the target waits for this monitor
      <4>2. ASSUME NEW d \in Calls, Works(d, t)'
            PROVE  call'[d].pc = "await" /\ call'[d].old = m /\ \A n \in Monitors : monitor'[n].target # t
        <5>1. Works(d, t)
          BY <1>1, <4>2 DEF SameWork
        <5>2. call[d].pc = "await" /\ call[d].old = m
          BY <2>4, <3>2, <5>1 DEF Orderly
        <5>3. call'[d].pc = "await" /\ call'[d].old = m
          BY <1>1, <5>1, <5>2 DEF SameWork
        <5>4. ASSUME NEW n \in Monitors, monitor'[n].target = t PROVE FALSE
          BY <2>4, <4>1, <5>1, <5>2, <5>4 DEF Orderly
        <5> QED BY <5>3, <5>4
      <4>3. \A n \in Monitors : monitor'[n].target # t
        <5>1. ASSUME NEW n \in Monitors, monitor'[n].target = t PROVE FALSE
          <6>1. monitors[t] = n \/ \E d \in Calls : Works(d, t)
            BY <2>4, <4>1, <5>1 DEF Orderly
          <6>2. monitors[t] = m \/ \E d \in Calls : Works(d, t)
            BY <2>4, <3>2 DEF Orderly
          <6>3. ~(\E d \in Calls : Works(d, t))
            BY <1>1, <4>2, <5>1 DEF SameWork
          <6> QED BY <4>1, <5>1, <6>1, <6>2, <6>3
        <5> QED BY <5>1
      <4>4. ~Listening(monitors[t], t)'
        BY <4>3 DEF Listening, Types, Maybe
      <4> QED BY <2>4, <4>2, <4>3, <4>4 DEF Orderly
    <3> QED BY <3>1, <3>2
  <2> QED BY <1>0, <2>2, <2>3, <2>4, OverlappedOrderly
<1> QED BY <1>3, <1>4

LEMMA MonitorStep ==
    ASSUME RegistryInv, Types, Shapes, MonitorInv, [ToolNext]_toolVars
    PROVE  MonitorInv'
<1>0. Types /\ Types' /\ MonitorInv /\ EndedMonitors /\ [Next]_vars /\ TypeOK /\ TargetInv
  BY TypesStep, StepsTheRegistry DEF MonitorInv, RegistryInv
<1>1. ASSUME NEW c \in Calls, CallMoves(c), call[c].pc \notin Setup, call'[c].pc \notin Setup,
             UNCHANGED <<domains, monitor, monitors, overlapped>>
      PROVE  MonitorInv'
  BY <1>0, <1>1, QuietMonitors DEF CallMoves
<1>2. ASSUME \A d \in Calls : Stays(d), UNCHANGED <<domains, monitor, monitors, overlapped>>
      PROVE  MonitorInv'
  BY <1>0, <1>2, QuietMonitors
<1>3. ASSUME call' = call, UNCHANGED <<domains, monitor, monitors, overlapped>>
      PROVE  MonitorInv'
  BY <1>2, <1>3 DEF Stays
<1>4. ASSUME NEW c \in Calls, ClientStep(c) PROVE MonitorInv'
  BY <1>0, <1>1, <1>4, SendMoves, ClientSends DEF Setup, Send, OnlySession, diagnosticVars
<1>5. ASSUME NEW c \in Calls, PlainStep(c) PROVE MonitorInv'
  <2>1. PlainFate(c) /\ CallMoves(c)
    BY <1>0, <1>5, PlainSteps, PlainMoves DEF Shapes
  <2>2. call'[c].pc \notin Setup
    BY <2>1 DEF PlainFate, GoesOn, NoCall, Setup
  <2> QED BY <1>1, <2>1, <2>2 DEF PlainFate, OnlyCall, diagnosticVars
<1>6. ASSUME NEW c \in Calls, DeepStep(c) PROVE MonitorInv'
  <2>0. CallMoves(c) /\ call \in [Calls -> CallState]
    BY <1>0, <1>6, DeepMoves DEF Types
  <2>1. CASE Build(c) \/ ForgetReferences(c)
    <3>1. call[c].pc \notin Setup /\ call'[c].pc \notin Setup
      BY <2>0, <2>1 DEF Build, ForgetReferences, At, Goto, End, NoCall, Setup, CallState
    <3> QED BY <1>1, <2>0, <2>1, <3>1 DEF Build, ForgetReferences, diagnosticVars
  <2>2. CASE Navigate(c)
    <3>1. call[c].pc \notin Setup /\ call[c].target \in Targets
      BY <2>2, Methods DEF Navigate, At, Is, Setup, Shapes, Shape, ShapeOf, TabTools
    <3>2. call'[c].pc \notin Setup
      BY <2>0, <2>2, <3>1, Reminded DEF Navigate, End, NoCall, Setup, CallState
    <3> QED BY <1>1, <2>0, <2>2, <3>1, <3>2 DEF Navigate, diagnosticVars
  <2>3. ASSUME NEW b \in Tabs, Claim(c, b) PROVE MonitorInv'
    <3>1. call[c].pc \notin Setup /\ call'[c].pc \notin Setup
      <4>1. call[c].pc = "handle" /\ call'[c] \in {NoCall, [call[c] EXCEPT !.tab = b, !.pc = "reset"]}
        BY <2>0, <2>3 DEF Claim, At, End
      <4>2. NoCall.pc = "idle" /\ [call[c] EXCEPT !.tab = b, !.pc = "reset"].pc = "reset"
        BY <2>0 DEF NoCall, CallState
      <4> QED BY <4>1, <4>2 DEF Setup
    <3> QED BY <1>1, <2>0, <2>3, <3>1 DEF Claim, OnlySession, diagnosticVars
  <2>4. CASE Release(c)
    <3>1. call[c].pc \notin Setup /\ call'[c].pc \notin Setup
      <4> DEFINE t == leases[call[c].tab].target
      <4>1. call[c].pc = "handle" /\ call'[c] \in {NoCall, [call[c] EXCEPT !.pc = "reset", !.target = t]}
        BY <2>0, <2>4 DEF Release, At, End
      <4>2. NoCall.pc = "idle" /\ [call[c] EXCEPT !.pc = "reset", !.target = t].pc = "reset"
        BY <2>0 DEF NoCall, CallState
      <4> QED BY <4>1, <4>2 DEF Setup
    <3> QED BY <1>1, <2>0, <2>4, <3>1 DEF Release, OnlySession, diagnosticVars
  <2> QED
    BY <1>0, <1>6, <2>0, <2>1, <2>2, <2>3, <2>4, WorkingMonitors DEF DeepStep
<1>7. CASE Background
  <2>1. \A d \in Calls : Stays(d)
    BY <1>0, <1>7, BackgroundMoves
  <2>2. ASSUME NEW m \in Monitors, MonitorLosesConnection(m) \/ MonitorCleansUp(m) PROVE MonitorInv'
    BY <1>0, <2>1, <2>2, EndingMonitors
  <2> QED
    BY <1>2, <1>7, <2>1, <2>2 DEF Background, PageLogs, PageMoves, SweepForgets, diagnosticVars
<1> QED
  BY <1>3, <1>4, <1>5, <1>6, <1>7, StepKinds
  DEF Begin, TimePasses, SweepExpire, OnlySession, toolVars, diagnosticVars

(***************************************************************************)
(* The messages.                                                           *)
(***************************************************************************)
\* Only a claim gives a target to another tab.
LEMMA OwnersStay ==
    ASSUME RegistryInv, Types, Shapes, ToolNext, NEW t \in Targets
    PROVE  \/ active_target_owners'[t] \in {active_target_owners[t], None}
           \/ \E c \in Calls, b \in Tabs :
                 Claim(c, b) /\ call[c].target = t /\ call' = [call EXCEPT ![c].tab = b, ![c].pc = "reset"]
<1> DEFINE Kept == active_target_owners'[t] \in {active_target_owners[t], None}
<1>1. ASSUME UNCHANGED active_target_owners PROVE Kept
  BY <1>1
<1>2. ASSUME NEW c \in Calls, ClientStep(c) PROVE Kept
  BY <1>1, <1>2, ClientSends DEF Send, Touch, targetVars, Types
<1>3. ASSUME NEW c \in Calls, PlainStep(c) PROVE Kept
  BY <1>1, <1>3, PlainSteps DEF PlainFate, OnlyCall, vars, targetVars, Shapes, RegistryInv
<1>4. CASE SweepExpire
  <2>1. PICK batch : ExpireBatch(ExpiredIds(clock, InFlight), batch)
    BY <1>4 DEF SweepExpire, ExpireSessions
  <2>2. PICK B : active_target_owners' = WithoutActive(B)
    BY <2>1 DEF ExpireBatch
  <2> QED BY <2>2 DEF WithoutActive
<1>5. ASSUME NEW c \in Calls, Release(c) PROVE Kept
  BY <1>5 DEF Release, ReleaseTab, WithoutActive, vars, targetVars
<1>6. ASSUME NEW c \in Calls, NEW b \in Tabs, Claim(c, b)
      PROVE  Kept \/ (call[c].target = t /\ call' = [call EXCEPT ![c].tab = b, ![c].pc = "reset"])
  <2>1. CASE ClaimTab(call[c].session, call[c].target, b, Is(c, {"takeover"}), TRUE)
    BY <1>6, <2>1 DEF Claim, ClaimTab, RegistryInv, TypeOK, HasActiveLease
  <2>2. CASE UNCHANGED vars
    BY <2>2 DEF vars, targetVars
  <2> QED BY <1>6, <2>1, <2>2 DEF Claim
<1>7. ASSUME UNCHANGED vars PROVE Kept
  BY <1>7 DEF vars, targetVars
<1>8. ASSUME NEW c \in Calls, DeepStep(c)
      PROVE  Kept \/ \E b \in Tabs : Claim(c, b) /\ call[c].target = t
                                       /\ call' = [call EXCEPT ![c].tab = b, ![c].pc = "reset"]
  BY <1>5, <1>6, <1>7, <1>8
  DEF DeepStep, Ensure, EnableDomains, MarkMonitored, Build, Navigate, ForgetReferences,
      ResetDiagnostics, AwaitMonitor, AwaitTimesOut
<1>9. CASE Background
  BY <1>7, <1>9
  DEF Background, MonitorLosesConnection, MonitorCleansUp, PageLogs, PageMoves, SweepForgets
<1> QED
  BY <1>1, <1>2, <1>3, <1>4, <1>8, <1>9, StepKinds
  DEF Begin, StartSession, TimePasses, Tick, targetVars

\* What a step does to the buffers.
LEMMA BuffersStay ==
    ASSUME RegistryInv, Types, Shapes, EndedMonitors, ToolNext, NEW t \in Targets
    PROVE  \/ buffer'[t] = buffer[t] /\ \A d \in Calls : At(d, "reset") => Stays(d)
           \/ \E c \in Calls : /\ ResetDiagnostics(c)
                               /\ IF call[c].target = t THEN buffer'[t] = {}
                                  ELSE buffer'[t] = buffer[t]
                               /\ \A d \in Calls \ {c} : Stays(d)
           \/ buffer'[t] = buffer[t] \cup {active_target_owners[t]} /\ PageLogs(t)
<1> DEFINE Still == buffer'[t] = buffer[t] /\ \A d \in Calls : At(d, "reset") => Stays(d)
<1>0. [Next]_vars /\ TypeOK /\ TargetInv
  BY StepsTheRegistry DEF RegistryInv
<1>1. ASSUME NEW c \in Calls, CallMoves(c), call[c].pc # "reset", UNCHANGED buffer PROVE Still
  BY <1>1 DEF CallMoves, At
<1>2. ASSUME \A d \in Calls : Stays(d), UNCHANGED buffer PROVE Still
  BY <1>2
<1>3. ASSUME UNCHANGED <<call, buffer>> PROVE Still
  BY <1>3 DEF Stays
<1>4. ASSUME NEW c \in Calls, ClientStep(c) PROVE Still
  BY <1>0, <1>1, <1>4, SendMoves, ClientSends DEF Send, OnlySession, diagnosticVars
<1>5. ASSUME NEW c \in Calls, PlainStep(c) PROVE Still
  <2>1. PlainFate(c) /\ CallMoves(c)
    BY <1>0, <1>5, PlainSteps, PlainMoves DEF Shapes
  <2> QED BY <1>1, <2>1 DEF PlainFate, OnlyCall, diagnosticVars
<1>6. ASSUME NEW c \in Calls, DeepStep(c), ~ResetDiagnostics(c) PROVE Still
  <2>1. CallMoves(c) /\ call[c].pc # "reset" /\ UNCHANGED buffer
    BY <1>0, <1>6, DeepMoves
    DEF DeepStep, Ensure, EnableDomains, MarkMonitored, Build, Navigate, ForgetReferences, Claim,
        Release, AwaitMonitor, AwaitTimesOut, At, OnlySession, diagnosticVars
  <2> QED BY <1>1, <2>1
<1>7. ASSUME NEW c \in Calls, ResetDiagnostics(c)
      PROVE  /\ IF call[c].target = t THEN buffer'[t] = {} ELSE buffer'[t] = buffer[t]
             /\ \A d \in Calls \ {c} : Stays(d)
  <2>1. CallMoves(c)
    BY <1>0, <1>7, DeepMoves DEF DeepStep
  <2> QED BY <1>7, <2>1 DEF CallMoves, ResetDiagnostics, BuffersWithout, Types
<1>8. CASE Background
  <2>1. \A d \in Calls : Stays(d)
    BY <1>8, BackgroundMoves
  <2>2. ASSUME NEW u \in Targets, PageLogs(u)
        PROVE  Still \/ (buffer'[t] = buffer[t] \cup {active_target_owners[t]} /\ PageLogs(t))
    <3>1. CASE u = t
      BY <2>2, <3>1 DEF PageLogs, Types
    <3>2. CASE u # t
      BY <2>1, <2>2, <3>2 DEF PageLogs, Types
    <3> QED BY <3>1, <3>2
  <2> QED
    BY <1>2, <1>8, <2>1, <2>2
    DEF Background, MonitorLosesConnection, MonitorCleansUp, PageMoves, SweepForgets, diagnosticVars
<1> QED
  BY <1>3, <1>4, <1>5, <1>6, <1>7, <1>8, StepKinds
  DEF Begin, TimePasses, SweepExpire, OnlySession, diagnosticVars

LEMMA BufferStep ==
    ASSUME RegistryInv, Types, Types', Shapes, EndedMonitors, OwnersBuffer, [ToolNext]_toolVars
    PROVE  OwnersBuffer'
<1>1. CASE UNCHANGED toolVars
  BY <1>1 DEF toolVars, vars, targetVars, diagnosticVars, OwnersBuffer, At
<1>2. ASSUME ToolNext, NEW t \in Targets, active_target_owners'[t] # None
      PROVE  \/ buffer'[t] \subseteq {active_target_owners'[t]}
             \/ \E d \in Calls : At(d, "reset")' /\ call'[d].target = t
  <2> DEFINE b == active_target_owners[t]
  <2>1. CASE \E c \in Calls, x \in Tabs :
                Claim(c, x) /\ call[c].target = t /\ call' = [call EXCEPT ![c].tab = x, ![c].pc = "reset"]
    <3>1. PICK c \in Calls, x \in Tabs :
                call[c].target = t /\ call' = [call EXCEPT ![c].tab = x, ![c].pc = "reset"]
      BY <2>1
    <3>2. call[c] \in CallState /\ call \in [Calls -> CallState]
      BY DEF Types
    <3>3. call'[c] = [call[c] EXCEPT !.tab = x, !.pc = "reset"]
      BY <3>1, <3>2
    <3>4. call'[c].pc = "reset" /\ call'[c].target = t
      BY <3>1, <3>2, <3>3 DEF CallState
    <3> QED BY <3>4 DEF At
  <2>2. CASE active_target_owners'[t] = b
    <3>1. buffer[t] \subseteq {b} \/ \E d \in Calls : At(d, "reset") /\ call[d].target = t
      BY <1>2, <2>2 DEF OwnersBuffer
    <3>2. CASE buffer'[t] = buffer[t] /\ \A d \in Calls : At(d, "reset") => Stays(d)
      BY <2>2, <3>1, <3>2 DEF Stays, At
    <3>3. ASSUME NEW c \in Calls, ResetDiagnostics(c), call[c].target # t, buffer'[t] = buffer[t],
                 \A d \in Calls \ {c} : Stays(d)
          PROVE  \/ buffer'[t] \subseteq {b}
                 \/ \E d \in Calls : At(d, "reset")' /\ call'[d].target = t
      BY <3>1, <3>3 DEF Stays, At
    <3>4. CASE buffer'[t] = buffer[t] \cup {b} /\ PageLogs(t)
      BY <2>2, <3>1, <3>4 DEF PageLogs, At
    <3> QED BY <1>2, <2>2, <3>2, <3>3, <3>4, BuffersStay
  <2> QED BY <1>2, <2>1, <2>2, OwnersStay
<1> QED BY <1>1, <1>2 DEF OwnersBuffer

(***************************************************************************)
(* The references.                                                         *)
(***************************************************************************)
LEMMA MissingKeeps ==
    ASSUME Types, NEW t, NEW d \in Calls
    PROVE  /\ Missing(t)[d].moved = call[d].moved
           /\ Missing(t)[d].request = call[d].request
           /\ Missing(t)[d].ref = call[d].ref
BY DEF Missing, Types, CallState

\* A call that stays, while the document stays.
LEMMA ReferencesStay ==
    ASSUME NEW d \in Calls, RevisionCurrent(d), ResolvedIssued(d), Stays(d),
           call'[d].moved = call[d].moved, UNCHANGED document, issued \subseteq issued'
    PROVE  RevisionCurrent(d)' /\ ResolvedIssued(d)'
BY DEF RevisionCurrent, ResolvedIssued, Current, Stays, Document

\* The document of a target is replaced: who has read its revision is told.
LEMMA DocumentMoves ==
    ASSUME Types, NEW t \in Targets, document' = [document EXCEPT ![t] = @ + 1], UNCHANGED issued,
           NEW d \in Calls, RevisionCurrent(d), ResolvedIssued(d), Shape(d), call'[d] = Moving(t)[d]
    PROVE  RevisionCurrent(d)' /\ ResolvedIssued(d)'
<1>1. Stays(d) /\ call[d] \in CallState
  BY Reminded DEF Types
<1>2. ASSUME call'[d].pc \in Resolved \cup {"resolve"}, Current(d)'
      PROVE  call[d].target # t
  <2>1. SUFFICES ASSUME call[d].target = t PROVE FALSE
    OBVIOUS
  <2>2. call[d].revision = None
    BY <1>1, <1>2, <2>1 DEF Moving, Current, CallState
  <2>3. Current(d) /\ call[d].pc \in Resolved \cup {"resolve"}
    BY <1>1, <1>2, <2>1, <2>2 DEF Moving, Current, Stays
  <2>4. Document(t) \in [target : Targets, number : 0..MaxDocument]
    BY DEF Types, Document
  <2> QED BY <2>1, <2>2, <2>3, <2>4, ToolNamesAssumption DEF RevisionCurrent
<1>3. call[d].target # t => call'[d] = call[d]
  BY DEF Moving
<1>4. ASSUME call[d].target # t PROVE Document(call[d].target)' = Document(call[d].target)
  BY <1>3, <1>4 DEF Document, Types
<1> QED BY <1>2, <1>3, <1>4 DEF RevisionCurrent, ResolvedIssued, Current

LEMMA PlainReferences ==
    ASSUME TypeOK, Types, NEW c \in Calls, Shape(c), PlainStep(c), KeptIssued,
           RevisionCurrent(c), ResolvedIssued(c)
    PROVE  RevisionCurrent(c)' /\ ResolvedIssued(c)'
<1> DEFINE k == call[c]
           u == k.target
<1>1. PlainFate(c) /\ k \in CallState /\ ShapeOf(k)
  BY PlainSteps DEF Types, Shape
<1>2. UNCHANGED <<document, references, issued>>
  BY <1>1 DEF PlainFate, OnlyCall, referenceVars
<1>3. CASE call'[c] = NoCall
  <2>1. call'[c].pc = "idle"
    BY <1>3 DEF NoCall
  <2> QED BY <2>1 DEF RevisionCurrent, ResolvedIssued, Resolved
<1>4. CASE call'[c] # NoCall
  <2>1. GoesOn(c) /\ ReferenceFate(c)
    BY <1>1, <1>4 DEF PlainFate
  <2>2. SUFFICES ASSUME call'[c].pc \in Resolved \cup {"resolve"}, Current(c)'
                 PROVE  /\ call'[c].revision = Document(call[c].target)
                        /\ call'[c].pc \in Resolved =>
                             [session |-> k.session, tab |-> k.tab, document |-> Document(u)] \in issued
                        /\ call'[c].target = u
    BY <1>2, <2>1, <2>2 DEF RevisionCurrent, ResolvedIssued, GoesOn, Document
  <2>3. call'[c].target = u /\ call'[c].ref = k.ref
    BY <2>1, <2>2 DEF GoesOn, Resolved
  <2>4. CASE call'[c].pc = "resolve" /\ call'[c].revision = Document(u)
    BY <2>3, <2>4 DEF Resolved
  <2>5. CASE k.pc = "resolve" /\ Resolves(c) /\ call'[c].revision = k.revision
             /\ call'[c].moved = k.moved
    <3>1. k.revision = Document(u)
      BY <2>2, <2>3, <2>5 DEF RevisionCurrent, Current
    <3>2. k.tab \in Tabs
      BY <1>1, <2>5, Methods DEF ShapeOf, PlainFate
    <3>3. k.ref \in issued /\ k.ref \in Reference
      BY <2>5, <3>2 DEF Resolves, KeptIssued, Types
    <3>4. k.ref = [session |-> k.session, tab |-> k.tab, document |-> Document(u)]
      BY <2>5, <3>1, <3>3 DEF Resolves, Reference
    <3> QED BY <2>3, <2>5, <3>1, <3>3, <3>4
  <2>6. CASE k.pc \in Resolved /\ call'[c].moved = k.moved
    BY <2>1, <2>2, <2>3, <2>6 DEF RevisionCurrent, ResolvedIssued, Current, ReferenceFate
  <2>7. k.ref # None
    BY <2>2, <2>3 DEF Current
  <2> QED BY <2>1, <2>2, <2>4, <2>5, <2>6, <2>7 DEF ReferenceFate
<1> QED BY <1>3, <1>4

\* Between the lock sections of a monitor and after a claim, no reference is in use.
LEMMA DeepReferences ==
    ASSUME RegistryInv, Types, Shapes, ReferenceInv, [Next]_vars, NEW c \in Calls, DeepStep(c),
           ~Navigate(c)
    PROVE  \A d \in Calls : RevisionCurrent(d)' /\ ResolvedIssued(d)'
<1> DEFINE k == call[c]
<1>0. /\ call \in [Calls -> CallState] /\ k \in CallState /\ CallMoves(c)
      /\ AfterEnsure(c).pc \in {"idle", "work"} /\ AfterAwait(c).pc \in {"idle", "ensure"}
      /\ \A m : Shutdown(c, m).pc = "await"
      /\ \A w : [AfterEnsure(c) EXCEPT !.missed = w].pc = AfterEnsure(c).pc
      /\ \A x : Goto(c, x) => call'[c].pc = x /\ \A d \in Calls \ {c} : call'[d] = call[d]
      /\ Ensure(c) /\ IsMonitored(c) => call'[c].pc \in {"idle", "work"}
      /\ End(c) => call'[c].pc = "idle" /\ \A d \in Calls \ {c} : call'[d] = call[d]
  <2>1. call \in [Calls -> CallState] /\ k \in CallState /\ CallMoves(c)
    BY DeepMoves DEF Types
  <2>2. AfterEnsure(c).pc \in {"idle", "work"}
    BY <2>1 DEF AfterEnsure, NoCall, CallState
  <2>3. AfterAwait(c).pc \in {"idle", "ensure"} /\ \A m : Shutdown(c, m).pc = "await"
    BY <2>1 DEF AfterAwait, Shutdown, NoCall, CallState
  <2>4. \A w : [AfterEnsure(c) EXCEPT !.missed = w].pc = AfterEnsure(c).pc
    BY <2>1 DEF AfterEnsure, NoCall, CallState
  <2>5. \A x : Goto(c, x) => call'[c].pc = x /\ \A d \in Calls \ {c} : call'[d] = call[d]
    BY <2>1 DEF Goto, CallState
  <2>6. End(c) => call'[c].pc = "idle" /\ \A d \in Calls \ {c} : call'[d] = call[d]
    BY <2>1 DEF End, NoCall
  <2>7. Ensure(c) /\ IsMonitored(c) => call'[c].pc \in {"idle", "work"}
    BY <2>1, <2>2, <2>4 DEF Ensure, At
  <2> QED BY <2>1, <2>2, <2>3, <2>4, <2>5, <2>6, <2>7
<1> USE <1>0
<1>1. /\ UNCHANGED document /\ issued \subseteq issued'
      /\ \A d \in Calls \ {c} : call'[d] \in {call[d], Missing(k.target)[d]}
      /\ call'[c].pc \in {"idle", "work", "ensure", "enable", "mark", "await", "observe", "reset"}
  <2>1. CASE Ensure(c)
    <3>1. call'[c].pc \in {"idle", "work", "enable"}
      <4>1. CASE IsMonitored(c)
        BY <2>1, <4>1
      <4>2. CASE ~IsMonitored(c)
        <5>1. Goto(c, "enable")
          BY <2>1, <4>2 DEF Ensure
        <5> QED BY <5>1
      <4> QED BY <4>1, <4>2
    <3>2. CASE IsMonitored(c)
      BY <2>1, <3>1, <3>2 DEF Ensure, referenceVars
    <3>3. CASE ~IsMonitored(c)
      <4>1. Goto(c, "enable") /\ UNCHANGED <<document, issued>>
        BY <2>1, <3>3 DEF Ensure, referenceVars
      <4> QED BY <3>1, <4>1
    <3> QED BY <3>2, <3>3
  <2>2. CASE EnableDomains(c)
    BY <2>2 DEF EnableDomains, referenceVars
  <2>3. ASSUME NEW m \in Monitors, MarkMonitored(c, m)
        PROVE  /\ UNCHANGED document /\ issued \subseteq issued'
               /\ \A d \in Calls \ {c} : call'[d] = call[d]
               /\ call'[c].pc \in {"idle", "work"}
    BY <2>3 DEF MarkMonitored, referenceVars
  <2>4. CASE Build(c)
    BY <2>4 DEF Build
  <2>5. CASE ForgetReferences(c)
    BY <2>5 DEF ForgetReferences
  <2>6. ASSUME NEW b \in Tabs, Claim(c, b)
        PROVE  /\ UNCHANGED document /\ issued \subseteq issued'
               /\ \A d \in Calls \ {c} : call'[d] = call[d]
               /\ call'[c].pc \in {"idle", "reset"}
    <3>1. ASSUME call' = [call EXCEPT ![c].tab = b, ![c].pc = "reset"]
          PROVE  call'[c].pc = "reset" /\ \A d \in Calls \ {c} : call'[d] = call[d]
      BY <3>1 DEF CallState
    <3> QED BY <2>6, <3>1 DEF Claim, OnlySession, referenceVars
  <2>7. CASE Release(c)
    <3>1. ASSUME NEW t, call' = [call EXCEPT ![c].pc = "reset", ![c].target = t]
          PROVE  call'[c].pc = "reset" /\ \A d \in Calls \ {c} : call'[d] = call[d]
      BY <3>1 DEF CallState
    <3> QED BY <2>7, <3>1 DEF Release, OnlySession, referenceVars
  <2>8. CASE ResetDiagnostics(c)
    <3>1. call'[c].pc \in {"await", "idle", "ensure"}
      <4>1. ASSUME NEW r, call' = [Missing(k.target) EXCEPT ![c] = r] PROVE call'[c] = r
        BY <4>1 DEF Missing
      <4> QED BY <2>8, <4>1 DEF ResetDiagnostics
    <3> QED BY <2>8, <3>1 DEF ResetDiagnostics, Missing
  <2>9. CASE AwaitMonitor(c)
    BY <2>9 DEF AwaitMonitor, referenceVars
  <2>10. CASE AwaitTimesOut(c)
    BY <2>10 DEF AwaitTimesOut, referenceVars
  <2> QED BY <2>1, <2>2, <2>3, <2>4, <2>5, <2>6, <2>7, <2>8, <2>9, <2>10 DEF DeepStep
<1>2. ASSUME NEW d \in Calls \ {c} PROVE RevisionCurrent(d)' /\ ResolvedIssued(d)'
  <2>1. Stays(d) /\ call'[d].moved = call[d].moved
    BY <1>1, <1>2, MissingKeeps DEF CallMoves
  <2> QED BY <1>1, <2>1, ReferencesStay DEF ReferenceInv, ReferencesHold
<1>3. RevisionCurrent(c)' /\ ResolvedIssued(c)'
  BY <1>1 DEF RevisionCurrent, ResolvedIssued, Resolved
<1> QED BY <1>2, <1>3

\* What a tab has on record was returned by a snapshot.
LEMMA RecordsStep ==
    ASSUME Types, Shapes, KeptIssued, [ToolNext]_toolVars, TypeOK
    PROVE  KeptIssued'
<1>1. ASSUME UNCHANGED referenceVars PROVE KeptIssued'
  BY <1>1 DEF referenceVars, KeptIssued
<1>2. ASSUME UNCHANGED issued,
             \A b \in Tabs : references'[b] \in {references[b], NoReferences}
      PROVE  KeptIssued'
  BY <1>2 DEF KeptIssued, NoReferences
<1>3. ASSUME NEW c \in Calls, Build(c) PROVE KeptIssued'
  <2> DEFINE b == call[c].tab
             ref == [session |-> call[c].session, tab |-> b, document |-> call[c].revision]
             fresh == [session |-> call[c].session, revision |-> call[c].revision, by_ref |-> {}]
             kept == IF [references[b] EXCEPT !.by_ref = {}] = fresh THEN references[b].by_ref
                     ELSE {}
  <2>1. /\ references' = [references EXCEPT ![b] = [fresh EXCEPT !.by_ref = kept \cup {ref}]]
        /\ issued' = issued \cup {ref}
    BY <1>3 DEF Build
  <2>2. ASSUME NEW x \in Tabs PROVE references'[x].by_ref \subseteq issued'
    <3>1. CASE x = b
      <4>1. references'[x].by_ref = kept \cup {ref}
        BY <2>1, <3>1 DEF Types
      <4>2. kept \subseteq issued
        BY <3>1 DEF KeptIssued
      <4> QED BY <2>1, <4>1, <4>2
    <3>2. CASE x # b
      BY <2>1, <3>2 DEF KeptIssued, Types
    <3> QED BY <3>1, <3>2
  <2> QED BY <2>2 DEF KeptIssued
<1>4. ASSUME NEW c \in Calls, DeepStep(c), ~Build(c) PROVE KeptIssued'
  <2>1. CASE ForgetReferences(c)
    BY <1>2, <2>1 DEF ForgetReferences, Types
  <2>2. CASE ResetDiagnostics(c)
    BY <1>2, <2>2 DEF ResetDiagnostics, Types
  <2> QED
    BY <1>1, <1>4, <2>1, <2>2
    DEF DeepStep, Ensure, EnableDomains, MarkMonitored, Navigate, Claim, Release, AwaitMonitor,
        AwaitTimesOut, OnlySession, referenceVars
<1>5. ASSUME NEW c \in Calls, PlainStep(c) PROVE KeptIssued'
  BY <1>1, <1>5, PlainSteps DEF PlainFate, OnlyCall, Shapes
<1>6. ASSUME NEW c \in Calls, ClientStep(c) PROVE KeptIssued'
  BY <1>1, <1>6, ClientSends DEF Send, OnlySession
<1>7. CASE Background
  <2>1. CASE SweepForgets
    BY <1>2, <2>1 DEF SweepForgets, Types
  <2> QED
    BY <1>1, <1>7, <2>1 DEF Background, MonitorLosesConnection, MonitorCleansUp, PageLogs, PageMoves
<1> QED
  BY <1>1, <1>3, <1>4, <1>5, <1>6, <1>7, StepKinds
  DEF Begin, TimePasses, SweepExpire, OnlySession, toolVars, referenceVars

LEMMA ReferenceStep ==
    ASSUME RegistryInv, Types, Shapes, EndedMonitors, ReferenceInv, [ToolNext]_toolVars
    PROVE  ReferenceInv'
<1>0. [Next]_vars /\ TypeOK /\ TargetInv /\ KeptIssued'
  BY StepsTheRegistry, RecordsStep DEF RegistryInv, ReferenceInv
\* the others when one call moves
<1>1. ASSUME UNCHANGED <<document, issued>>, NEW d \in Calls, call'[d] = call[d]
      PROVE  RevisionCurrent(d)' /\ ResolvedIssued(d)'
  BY <1>1, ReferencesStay DEF Stays, ReferenceInv, ReferencesHold
<1>2. ASSUME NEW c \in Calls, ClientStep(c) PROVE ReferencesHold'
  <2>1. call'[c].pc = "handle" /\ \A d \in Calls \ {c} : call'[d] = call[d]
    BY <1>0, <1>2, SendMoves
  <2>2. UNCHANGED <<document, issued>>
    BY <1>2, ClientSends DEF Send, OnlySession, referenceVars
  <2>3. RevisionCurrent(c)' /\ ResolvedIssued(c)'
    BY <2>1 DEF RevisionCurrent, ResolvedIssued, Resolved
  <2> QED BY <1>1, <2>1, <2>2, <2>3 DEF ReferencesHold
<1>3. ASSUME NEW c \in Calls, PlainStep(c) PROVE ReferencesHold'
  <2>1. PlainFate(c) /\ \A d \in Calls \ {c} : call'[d] = call[d]
    BY <1>0, <1>3, PlainSteps, PlainMoves DEF Shapes
  <2>2. RevisionCurrent(c)' /\ ResolvedIssued(c)'
    BY <1>0, <1>3, PlainReferences DEF Shapes, ReferenceInv, ReferencesHold
  <2>3. UNCHANGED <<document, issued>>
    BY <2>1 DEF PlainFate, OnlyCall, referenceVars
  <2> QED BY <1>1, <2>1, <2>2, <2>3 DEF ReferencesHold
<1>4. ASSUME NEW c \in Calls, Navigate(c) PROVE ReferencesHold'
  <2> DEFINE t == call[c].target
  <2>1. t \in Targets /\ call[c].pc = "work" /\ UNCHANGED issued
    BY <1>4, Methods DEF Navigate, At, Is, Shapes, Shape, ShapeOf, TabTools, referenceVars
  <2>2. CASE document' = [document EXCEPT ![t] = @ + 1] /\ call' = [Moving(t) EXCEPT ![c].pc = "forget"]
    <3>1. Moving(t) \in [Calls -> CallState]
      BY <2>1, Reminded
    <3>2. call'[c].pc = "forget" /\ \A d \in Calls \ {c} : call'[d] = Moving(t)[d]
      BY <2>2, <3>1 DEF CallState
    <3>3. RevisionCurrent(c)' /\ ResolvedIssued(c)'
      BY <3>2 DEF RevisionCurrent, ResolvedIssued, Resolved
    <3> QED BY <2>1, <2>2, <3>2, <3>3, DocumentMoves DEF ReferenceInv, ReferencesHold, Shapes
  <2>3. CASE UNCHANGED document /\ End(c)
    <3>1. call'[c].pc = "idle" /\ \A d \in Calls \ {c} : call'[d] = call[d]
      BY <2>3 DEF End, NoCall, Types
    <3>2. RevisionCurrent(c)' /\ ResolvedIssued(c)'
      BY <3>1 DEF RevisionCurrent, ResolvedIssued, Resolved
    <3> QED BY <1>1, <2>1, <2>3, <3>1, <3>2 DEF ReferencesHold
  <2> QED BY <1>4, <2>2, <2>3 DEF Navigate
<1>5. ASSUME NEW c \in Calls, DeepStep(c), ~Navigate(c) PROVE ReferencesHold'
  BY <1>0, <1>5, DeepReferences DEF ReferencesHold
<1>6. ASSUME UNCHANGED <<call, document, issued>> PROVE ReferencesHold'
  BY <1>1, <1>6 DEF ReferencesHold
<1>7. ASSUME Background PROVE ReferencesHold'
  <2>1. ASSUME NEW t \in Targets, PageMoves(t) PROVE ReferencesHold'
    BY <2>1, DocumentMoves DEF PageMoves, ReferenceInv, ReferencesHold, Shapes, referenceVars
  <2>2. ASSUME NEW m \in Monitors, MonitorLosesConnection(m) PROVE ReferencesHold'
    <3>1. UNCHANGED <<document, issued>> /\ call' = Missing(monitor[m].target)
      BY <2>2 DEF MonitorLosesConnection, referenceVars
    <3>2. \A d \in Calls : Stays(d) /\ call'[d].moved = call[d].moved
      BY <1>7, <3>1, BackgroundMoves, MissingKeeps
    <3> QED BY <3>1, <3>2, ReferencesStay DEF ReferenceInv, ReferencesHold
  <2>3. ASSUME NEW m \in Monitors, MonitorCleansUp(m) PROVE ReferencesHold'
    BY <1>6, <2>3 DEF MonitorCleansUp, referenceVars
  <2>4. ASSUME NEW t \in Targets, PageLogs(t) PROVE ReferencesHold'
    BY <1>6, <2>4 DEF PageLogs, referenceVars
  <2>5. ASSUME SweepForgets PROVE ReferencesHold'
    BY <1>6, <2>5 DEF SweepForgets
  <2> QED BY <1>7, <2>1, <2>2, <2>3, <2>4, <2>5 DEF Background
<1>8. ASSUME (\E s \in Sessions : Begin(s)) \/ TimePasses \/ SweepExpire \/ UNCHANGED toolVars
      PROVE  ReferencesHold'
  BY <1>6, <1>8 DEF Begin, TimePasses, SweepExpire, OnlySession, toolVars, referenceVars
<1>9. ReferencesHold'
  BY <1>2, <1>3, <1>4, <1>5, <1>7, <1>8, StepKinds
<1> QED BY <1>0, <1>9 DEF ReferenceInv

(***************************************************************************)
(* The submits.                                                            *)
(***************************************************************************)
\* A step leaves a submit what it has heard, or sets up its monitor.
HearsOn(d) ==
    Heard(d)' =>
        \/ /\ Heard(d)
           /\ call'[d].target = call[d].target
           /\ call'[d].request = call[d].request
           /\ call'[d].recorded = call[d].recorded
        \/ call'[d].request = "none" /\ HasMonitor(d)'

\* The monitor on record goes on listening, or the submits are told.
ListensOn(t) ==
    Listening(monitors[t], t) =>
        \/ Listening(monitors[t], t)'
        \/ \A d \in Calls : call'[d].target = t => ~Heard(d)'

\* Nobody forgets that two calls have met at a target while a monitor of it runs.
MeetingsKept ==
    \A t \in overlapped : t \in overlapped' \/ \A m \in Monitors : monitor'[m].target # t

LEMMA SubmitsKept ==
    ASSUME Types, Types', Shapes', SubmitInv, MeetingsKept,
           \A d \in Calls : HearsOn(d), \A t \in Targets : ListensOn(t)
    PROVE  SubmitInv'
<1>1. ASSUME NEW d \in Calls, Heard(d)' PROVE HasMonitor(d)' /\ Recorded(d)'
  <2>1. call'[d].target \in Targets
    <3>1. ShapeOf(call'[d])
      BY DEF Shapes, Shape
    <3>2. call'[d].method \in TabTools /\ call'[d].pc \notin {"idle", "handle"}
      BY <1>1, Methods DEF Heard
    <3> QED BY <3>1, <3>2 DEF ShapeOf
  <2>2. CASE call'[d].request = "none" /\ HasMonitor(d)'
    BY <2>2 DEF Recorded
  <2>3. CASE /\ Heard(d) /\ call'[d].target = call[d].target
             /\ call'[d].request = call[d].request /\ call'[d].recorded = call[d].recorded
    <3>1. HasMonitor(d) /\ Recorded(d)
      BY <2>3 DEF SubmitInv, SubmitsHaveMonitors, RequestsRecorded
    <3>2. HasMonitor(d)'
      BY <1>1, <2>1, <2>3, <3>1 DEF HasMonitor, ListensOn
    <3>3. \E m \in Monitors : monitor'[m].target = call'[d].target
      BY <2>1, <3>2 DEF HasMonitor, Listening, Types, Maybe
    <3>4. call[d].target \in overlapped => call'[d].target \in overlapped'
      BY <2>3, <3>3 DEF MeetingsKept
    <3> QED BY <2>3, <3>1, <3>2, <3>4 DEF Recorded
  <2> QED BY <1>1, <2>2, <2>3 DEF HearsOn
<1> QED BY <1>1 DEF SubmitInv, SubmitsHaveMonitors, RequestsRecorded

\* A call that stays, and is told when something is lost.
LEMMA StaysHearing ==
    ASSUME NEW d \in Calls, Stays(d),
           call'[d].missed \/ UNCHANGED <<call[d].missed, call[d].recorded>>
    PROVE  HearsOn(d)
BY DEF HearsOn, Heard, Stays

LEMMA RecordsKept ==
    ASSUME Types, NEW t, NEW d \in Calls
    PROVE  /\ Moving(t)[d].missed = call[d].missed /\ Moving(t)[d].recorded = call[d].recorded
           /\ Missing(t)[d].missed \/ Missing(t)[d] = call[d]
           /\ call[d].target = t /\ call[d].method = "submit" => Missing(t)[d].missed
BY DEF Moving, Missing, Is, Types, CallState

LEMMA MeetingsStay ==
    ASSUME Overlapped \/ UNCHANGED overlapped, Types
    PROVE  MeetingsKept
BY DEF Overlapped, MeetingsKept, Types

\* The request of a submit that has its monitor is recorded, and its answer too.
LEMMA PlainSubmits ==
    ASSUME RegistryInv, Types, Types', Shapes, Shapes', MonitorInv, SubmitInv, NEW c \in Calls, PlainStep(c)
    PROVE  SubmitInv'
<1> DEFINE k == call[c]
           u == k.target
<1>1. /\ PlainFate(c) /\ \A d \in Calls \ {c} : call'[d] = call[d]
  BY PlainSteps, PlainMoves DEF Shapes, RegistryInv
<1>2. UNCHANGED <<domains, monitor, monitors, overlapped>>
  BY <1>1 DEF PlainFate, OnlyCall, diagnosticVars
<1>3. ASSUME NEW d \in Calls, d # c
      PROVE  (Heard(d) => HasMonitor(d) /\ Recorded(d))'
  BY <1>1, <1>2, <1>3
  DEF SubmitInv, SubmitsHaveMonitors, RequestsRecorded, Heard, HasMonitor, Recorded, Listening
<1>4. (Heard(c) => HasMonitor(c) /\ Recorded(c))'
  <2>1. SUFFICES ASSUME Heard(c)' PROVE HasMonitor(c)' /\ Recorded(c)'
    OBVIOUS
  <2>2. call'[c] # NoCall
    BY <2>1 DEF Heard, NoCall
  <2>3. GoesOn(c) /\ SubmitFate(c) /\ k.pc \notin {"idle", "ensure"} \cup Setup
    BY <1>1, <2>2 DEF PlainFate
  <2>4. Heard(c) /\ call'[c].target = u
    BY <2>1, <2>3 DEF Heard, GoesOn, Setup
  <2>5. HasMonitor(c) /\ Recorded(c)
    BY <2>4 DEF SubmitInv, SubmitsHaveMonitors, RequestsRecorded
  <2>6. HasMonitor(c)'
    BY <1>2, <2>4, <2>5 DEF HasMonitor, Listening
  <2>7. u \in Targets
    <3>1. ShapeOf(k) /\ k.method \in TabTools /\ k.pc \notin {"idle", "handle"}
      BY <2>4, Methods DEF Heard, Shapes, Shape
    <3> QED BY <3>1 DEF ShapeOf
  <2>8. u \in overlapped \/ Hears(u)
    <3>1. SUFFICES ASSUME u \notin overlapped PROVE Hears(u)
      OBVIOUS
    <3>2. Listening(monitors[u], u) /\ domains[u]
      BY <2>5, <2>7, <3>1 DEF HasMonitor, MonitorInv, Orderly
    <3>3. monitors[u] \in Monitors /\ monitor[monitors[u]].target = u
          /\ monitor[monitors[u]].phase = "listening"
      BY <2>7, <3>2 DEF Listening, Types, Maybe
    <3> QED BY <3>2, <3>3 DEF Hears
  <2>9. Recorded(c)'
    BY <1>2, <2>3, <2>4, <2>5, <2>8 DEF SubmitFate, Sends, Recorded
  <2> QED BY <2>6, <2>9
<1> QED BY <1>3, <1>4 DEF SubmitInv, SubmitsHaveMonitors, RequestsRecorded

LEMMA DeepSubmits ==
    ASSUME RegistryInv, Types, Types', Shapes, Shapes', MonitorInv, SubmitInv, [Next]_vars,
           NEW c \in Calls, DeepStep(c)
    PROVE  SubmitInv'
<1> DEFINE k == call[c]
           u == k.target
<1>0. /\ call \in [Calls -> CallState] /\ k \in CallState /\ ShapeOf(k) /\ CallMoves(c)
      /\ EndedMonitors /\ AwaitsStopped /\ NoCall.method = "none"
  BY DeepMoves DEF Types, Shapes, Shape, MonitorInv, NoCall
<1>1. /\ \A x : Goto(c, x) => call'[c] = [k EXCEPT !.pc = x] /\ \A d \in Calls \ {c} : call'[d] = call[d]
      /\ End(c) => call'[c].method = "none" /\ \A d \in Calls \ {c} : call'[d] = call[d]
  BY <1>0 DEF Goto, End
<1>2. \A x : /\ [k EXCEPT !.pc = x].pc = x
             /\ [k EXCEPT !.pc = x].method = k.method /\ [k EXCEPT !.pc = x].target = k.target
             /\ [k EXCEPT !.pc = x].missed = k.missed /\ [k EXCEPT !.pc = x].recorded = k.recorded
             /\ [k EXCEPT !.pc = x].request = k.request
  BY <1>0 DEF CallState
\* the other calls
<1>3. ASSUME NEW d \in Calls, d # c, call'[d] = call[d] \/ call'[d] = Moving(u)[d] \/ call'[d] = Missing(u)[d]
      PROVE  HearsOn(d)
  <2>1. Stays(d)
    BY <1>0, <1>3 DEF CallMoves
  <2> QED BY <1>3, <2>1, RecordsKept, StaysHearing
\* no step of this call but the setting up of a monitor lets it hear
<1>4. ASSUME call'[c].method # "submit" \/ call'[c].pc \in {"idle", "enable", "mark"} PROVE HearsOn(c)
  BY <1>4 DEF HearsOn, Heard
<1>5. ASSUME UNCHANGED <<monitor, monitors>>, NEW t \in Targets PROVE ListensOn(t)
  BY <1>5 DEF ListensOn, Listening
<1>6. ASSUME \A d \in Calls : HearsOn(d), \A t \in Targets : ListensOn(t),
             Overlapped \/ UNCHANGED overlapped
      PROVE  SubmitInv'
  BY <1>6, MeetingsStay, SubmitsKept
<1> USE <1>0
<1>7. CASE Ensure(c)
  <2>1. Overlapped /\ UNCHANGED <<monitor, monitors>> /\ k.pc = "ensure"
    BY <1>7 DEF Ensure, At
  <2>2. CASE IsMonitored(c)
    <3> DEFINE w == Is(c, {"submit"}) /\ ~Listening(monitors[u], u)
    <3>1. /\ call'[c] = [AfterEnsure(c) EXCEPT !.missed = w]
          /\ \A d \in Calls \ {c} : call'[d] = call[d]
      BY <1>7, <2>2 DEF Ensure
    <3>2. HearsOn(c)
      <4>1. CASE k.method = "submit"
        <5>1. call'[c] = [[k EXCEPT !.pc = "work"] EXCEPT !.missed = w]
          BY <3>1, <4>1, Methods DEF AfterEnsure, Is
        <5>2. call'[c].missed = w /\ call'[c].request = k.request /\ call'[c].target = u
          BY <5>1 DEF CallState
        <5>3. k.request = "none"
          BY <2>1 DEF ShapeOf, Clicked
        <5>4. ASSUME ~call'[c].missed PROVE HasMonitor(c)'
          <6>1. Listening(monitors[u], u)
            BY <4>1, <5>2, <5>4 DEF Is
          <6> QED BY <2>1, <5>2, <6>1 DEF HasMonitor, Listening
        <5> QED BY <5>2, <5>3, <5>4 DEF HearsOn, Heard
      <4>2. CASE k.method # "submit"
        <5>1. AfterEnsure(c).method # "submit"
          BY <1>2, <4>2 DEF AfterEnsure
        <5>2. call'[c].method # "submit"
          <6>1. AfterEnsure(c) \in [DOMAIN k -> UNION {{AfterEnsure(c)[x]} : x \in DOMAIN k}]
            BY DEF AfterEnsure, NoCall, CallState
          <6> QED BY <3>1, <5>1, <6>1
        <5> QED BY <1>4, <5>2
      <4> QED BY <4>1, <4>2
    <3> QED BY <1>3, <1>5, <1>6, <2>1, <3>1, <3>2
  <2>3. CASE ~IsMonitored(c)
    <3>1. Goto(c, "enable")
      BY <1>7, <2>3 DEF Ensure
    <3> QED BY ZenonT(60), <1>1, <1>2, <1>3, <1>4, <1>5, <1>6, <2>1, <3>1
  <2> QED BY <2>2, <2>3
<1>8. CASE EnableDomains(c)
  <2>1. Overlapped /\ UNCHANGED <<monitor, monitors>> /\ (Goto(c, "mark") \/ End(c))
    BY <1>8 DEF EnableDomains
  <2> QED BY <1>1, <1>2, <1>3, <1>4, <1>5, <1>6, <2>1
<1>9. ASSUME NEW m \in Monitors, MarkMonitored(c, m) PROVE SubmitInv'
  <2>1. /\ k.pc = "mark" /\ Overlapped /\ FreshMonitor(m) /\ u \in Targets
        /\ call'[c] = AfterEnsure(c) /\ \A d \in Calls \ {c} : call'[d] = call[d]
    BY <1>9, Methods DEF MarkMonitored, At, ShapeOf, Setup
  <2>2. /\ monitors'[u] = m /\ monitor'[m] = [phase |-> "listening", target |-> u]
        /\ \A t \in Targets : t # u => monitors'[t] = monitors[t]
        /\ \A n \in Monitors : n # m /\ monitor[n].target # u => monitor'[n] = monitor[n]
    BY <1>9, <2>1 DEF MarkMonitored, Types
  <2>3. m # None
    BY ToolNamesAssumption
  <2>4. \A t \in Targets : t = u => Listening(monitors[t], t)'
    BY <2>1, <2>2, <2>3 DEF Listening
  <2>5. ASSUME NEW t \in Targets PROVE ListensOn(t)
    <3>1. CASE t = u
      BY <2>4, <3>1 DEF ListensOn
    <3>2. CASE t # u
      BY <2>1, <2>2, <3>2 DEF ListensOn, Listening, FreshMonitor, Types, Maybe
    <3> QED BY <3>1, <3>2
  <2>6. HearsOn(c)
    <3>1. CASE k.method = "submit"
      <4>1. call'[c] = [k EXCEPT !.pc = "work"]
        BY <2>1, <3>1, Methods DEF AfterEnsure, Is
      <4>2. call'[c].request = "none" /\ call'[c].target = u
        BY <1>2, <2>1, <4>1 DEF ShapeOf, Clicked
      <4> QED BY <2>1, <2>4, <4>2 DEF HearsOn, HasMonitor
    <3>2. CASE k.method # "submit"
      BY <1>2, <1>4, <2>1, <3>2 DEF AfterEnsure
    <3> QED BY <3>1, <3>2
  <2> QED BY <1>3, <1>6, <2>1, <2>5, <2>6
<1>10. CASE Build(c)
  BY <1>1, <1>3, <1>4, <1>5, <1>6, <1>10 DEF Build, diagnosticVars
<1>11. CASE Navigate(c)
  <2>1. k.method = "navigate" /\ UNCHANGED <<monitor, monitors, overlapped>>
    BY <1>11 DEF Navigate, Is, diagnosticVars
  <2>2. CASE call' = [Moving(u) EXCEPT ![c].pc = "forget"]
    <3>1. \A d \in Calls \ {c} : call'[d] = Moving(u)[d]
      BY <2>2 DEF Moving
    <3>2. call'[c].method = "navigate"
      BY <2>1, <2>2 DEF Moving, CallState
    <3> QED BY <1>3, <1>4, <1>5, <1>6, <2>1, <3>1, <3>2
  <2>3. CASE End(c)
    BY <1>1, <1>3, <1>4, <1>5, <1>6, <2>1, <2>3
  <2> QED BY <1>11, <2>2, <2>3 DEF Navigate
<1>12. CASE ForgetReferences(c)
  <2>1. k.pc = "forget" /\ Goto(c, "observe") /\ UNCHANGED <<monitor, monitors, overlapped>>
    BY <1>12 DEF ForgetReferences, At, diagnosticVars
  <2>2. HearsOn(c)
    <3>1. call'[c] = [k EXCEPT !.pc = "observe"]
      BY <1>1, <2>1
    <3>2. /\ call'[c].method = k.method /\ call'[c].missed = k.missed /\ call'[c].target = u
          /\ call'[c].request = k.request /\ call'[c].recorded = k.recorded
      BY <1>2, <3>1
    <3> QED BY <2>1, <3>2 DEF HearsOn, Heard
  <2> QED BY <1>1, <1>3, <1>5, <1>6, <2>1, <2>2
<1>13. ASSUME NEW b \in Tabs, Claim(c, b) PROVE SubmitInv'
  <2>1. k.method \in ClaimMethods /\ UNCHANGED <<monitor, monitors, overlapped>>
    BY <1>13 DEF Claim, Is, OnlySession, diagnosticVars
  <2>2. CASE call' = [call EXCEPT ![c].tab = b, ![c].pc = "reset"]
    <3>1. call'[c].method = k.method /\ \A d \in Calls \ {c} : call'[d] = call[d]
      BY <2>2 DEF CallState
    <3> QED BY <1>3, <1>4, <1>5, <1>6, <2>1, <3>1 DEF ClaimMethods
  <2>3. CASE End(c)
    BY <1>1, <1>3, <1>4, <1>5, <1>6, <2>1, <2>3
  <2> QED BY <1>13, <2>2, <2>3 DEF Claim
<1>14. CASE Release(c)
  <2>1. k.method = "release" /\ UNCHANGED <<monitor, monitors, overlapped>>
    BY <1>14 DEF Release, Is, OnlySession, diagnosticVars
  <2>2. ASSUME NEW t, call' = [call EXCEPT ![c].pc = "reset", ![c].target = t] PROVE SubmitInv'
    <3>1. call'[c].method = k.method /\ \A d \in Calls \ {c} : call'[d] = call[d]
      BY <2>2 DEF CallState
    <3> QED BY <1>3, <1>4, <1>5, <1>6, <2>1, <3>1
  <2>3. CASE End(c)
    BY <1>1, <1>3, <1>4, <1>5, <1>6, <2>1, <2>3
  <2> QED BY <1>14, <2>2, <2>3 DEF Release
\* a claim or a release waits for the monitor
<1>15. ASSUME k.pc \in {"reset", "await"}
       PROVE  /\ k.method \in {"claim", "takeover", "release"} /\ u \in Targets
              /\ AfterAwait(c).method # "submit" /\ \A m : Shutdown(c, m).method # "submit"
  <2>1. k.method \in {"claim", "takeover", "release"} /\ u \in Targets
    BY <1>15, Methods DEF ShapeOf, ClaimMethods
  <2>2. AfterAwait(c).method # "submit" /\ \A m : Shutdown(c, m).method # "submit"
    BY <2>1 DEF AfterAwait, Shutdown, CallState
  <2> QED BY <2>1, <2>2
<1>16. CASE ResetDiagnostics(c)
  <2>1. k.pc = "reset" /\ Overlapped /\ u \in Targets
    BY <1>15, <1>16 DEF ResetDiagnostics, At
  <2>2. call'[c].method # "submit" /\ \A d \in Calls \ {c} : call'[d] = Missing(u)[d]
    <3>1. ASSUME NEW r, call' = [Missing(u) EXCEPT ![c] = r]
          PROVE  call'[c] = r /\ \A d \in Calls \ {c} : call'[d] = Missing(u)[d]
      BY <3>1 DEF Missing
    <3>2. \E r : call' = [Missing(u) EXCEPT ![c] = r] /\ r.method # "submit"
      <4>1. CASE IsMonitored(c)
        BY <1>15, <1>16, <2>1, <4>1 DEF ResetDiagnostics
      <4>2. CASE ~IsMonitored(c)
        BY <1>15, <1>16, <2>1, <4>2 DEF ResetDiagnostics
      <4> QED BY <4>1, <4>2
    <3> QED BY <3>1, <3>2
  <2>3. ASSUME NEW t \in Targets PROVE ListensOn(t)
    <3>1. CASE t = u
      <4>1. ASSUME NEW d \in Calls, call'[d].target = t PROVE ~Heard(d)'
        <5>1. CASE d = c
          BY <2>2, <5>1 DEF Heard
        <5>2. CASE d # c
          <6>1. Stays(d)
            BY <5>2 DEF CallMoves
          <6> QED BY <2>2, <3>1, <4>1, <5>2, <6>1, RecordsKept DEF Heard, Stays
        <5> QED BY <5>1, <5>2
      <4> QED BY <4>1 DEF ListensOn
    <3>2. CASE t # u
      <4>1. monitors'[t] = monitors[t]
        BY <1>16, <3>2 DEF ResetDiagnostics, Types
      <4>2. \A n \in Monitors : monitor[n].target # u => monitor'[n] = monitor[n]
        BY <1>16 DEF ResetDiagnostics, IsMonitored, Types
      <4> QED BY <3>2, <4>1, <4>2 DEF ListensOn, Listening, Types, Maybe
    <3> QED BY <3>1, <3>2
  <2> QED BY <1>3, <1>4, <1>6, <2>1, <2>2, <2>3
<1>17. CASE AwaitMonitor(c)
  <2>1. /\ k.pc = "await" /\ Overlapped /\ UNCHANGED <<monitor, monitors>>
        /\ call'[c] = AfterAwait(c) /\ \A d \in Calls \ {c} : call'[d] = call[d]
    BY <1>17 DEF AwaitMonitor, At
  <2> QED BY <1>3, <1>4, <1>5, <1>6, <1>15, <2>1
<1>18. CASE AwaitTimesOut(c)
  <2>1. /\ k.pc = "await" /\ Overlapped /\ UNCHANGED monitors
        /\ monitor' = [monitor EXCEPT ![k.old] = NoMonitor]
        /\ call'[c] = AfterAwait(c) /\ \A d \in Calls \ {c} : call'[d] = call[d]
    BY <1>18 DEF AwaitTimesOut, At
  <2>2. monitor[k.old].phase # "listening"
    BY <2>1 DEF AwaitsStopped, At
  <2>3. ASSUME NEW t \in Targets PROVE ListensOn(t)
    BY <2>1, <2>2 DEF ListensOn, Listening, Types, Maybe
  <2> QED BY <1>3, <1>4, <1>6, <1>15, <2>1, <2>3
<1> QED
  BY <1>7, <1>8, <1>9, <1>10, <1>11, <1>12, <1>13, <1>14, <1>16, <1>17, <1>18 DEF DeepStep

LEMMA SubmitStep ==
    ASSUME RegistryInv, Types, Types', Shapes, Shapes', MonitorInv, SubmitInv, [ToolNext]_toolVars
    PROVE  SubmitInv'
<1>0. [Next]_vars /\ TypeOK /\ EndedMonitors
  BY StepsTheRegistry DEF RegistryInv, MonitorInv
<1>1. ASSUME UNCHANGED <<monitor, monitors>>, NEW t \in Targets PROVE ListensOn(t)
  BY <1>1 DEF ListensOn, Listening
<1>2. ASSUME NEW d \in Calls, call'[d] = call[d] PROVE HearsOn(d)
  BY <1>2 DEF HearsOn, Heard
<1>3. ASSUME \A d \in Calls : HearsOn(d), \A t \in Targets : ListensOn(t),
             Overlapped \/ UNCHANGED overlapped
      PROVE  SubmitInv'
  BY <1>3, MeetingsStay, SubmitsKept
<1>4. ASSUME UNCHANGED <<monitor, monitors, call>>, Overlapped \/ UNCHANGED overlapped
      PROVE  SubmitInv'
  BY <1>1, <1>2, <1>3, <1>4
<1>5. ASSUME NEW c \in Calls, ClientStep(c) PROVE SubmitInv'
  <2>1. call'[c].pc = "handle" /\ \A d \in Calls \ {c} : call'[d] = call[d]
    BY <1>0, <1>5, SendMoves
  <2>2. UNCHANGED <<monitor, monitors, overlapped>>
    BY <1>5, ClientSends DEF Send, OnlySession, diagnosticVars
  <2>3. HearsOn(c)
    BY <2>1 DEF HearsOn, Heard
  <2> QED BY <1>1, <1>2, <1>3, <2>1, <2>2, <2>3
<1>6. ASSUME NEW c \in Calls, PlainStep(c) \/ DeepStep(c) PROVE SubmitInv'
  BY <1>0, <1>6, PlainSubmits, DeepSubmits
<1>7. ASSUME NEW m \in Monitors, MonitorLosesConnection(m) PROVE SubmitInv'
  <2> DEFINE u == monitor[m].target
  <2>1. /\ Overlapped /\ UNCHANGED monitors /\ call' = Missing(u) /\ u \in Targets
        /\ monitor' = [monitor EXCEPT ![m].phase = "stopping"]
    BY <1>0, <1>7 DEF MonitorLosesConnection, EndedMonitors, Types, Maybe
  <2>2. ASSUME NEW d \in Calls PROVE Stays(d) /\ HearsOn(d)
    <3>1. Stays(d)
      BY <2>1, Reminded
    <3> QED BY <2>1, <3>1, RecordsKept, StaysHearing
  <2>3. ASSUME NEW t \in Targets PROVE ListensOn(t)
    <3>1. CASE t = u
      BY <2>1, <2>2, <3>1, RecordsKept DEF ListensOn, Heard, Stays
    <3>2. CASE t # u
      BY <2>1, <3>2 DEF ListensOn, Listening, Types, Maybe
    <3> QED BY <3>1, <3>2
  <2> QED BY <1>3, <2>1, <2>2, <2>3
<1>8. ASSUME NEW m \in Monitors, MonitorCleansUp(m) PROVE SubmitInv'
  <2>1. /\ Overlapped /\ UNCHANGED <<monitors, call>> /\ monitor[m].phase = "stopping"
        /\ \A n \in Monitors : n # m => monitor'[n] = monitor[n]
    BY <1>8 DEF MonitorCleansUp, Types
  <2>2. ASSUME NEW t \in Targets PROVE ListensOn(t)
    BY <2>1 DEF ListensOn, Listening, Types, Maybe
  <2> QED BY <1>2, <1>3, <2>1, <2>2
<1>9. ASSUME NEW t \in Targets, PageMoves(t) PROVE SubmitInv'
  <2>1. UNCHANGED <<monitor, monitors, overlapped>> /\ call' = Moving(t)
    BY <1>9 DEF PageMoves, diagnosticVars
  <2>2. ASSUME NEW d \in Calls PROVE HearsOn(d)
    BY <2>1, Reminded, RecordsKept, StaysHearing
  <2> QED BY <1>1, <1>3, <2>1, <2>2
<1>10. ASSUME Background PROVE SubmitInv'
  <2>1. ASSUME NEW t \in Targets, PageLogs(t) PROVE SubmitInv'
    BY <1>4, <2>1 DEF PageLogs
  <2>2. ASSUME SweepForgets PROVE SubmitInv'
    BY <1>4, <2>2 DEF SweepForgets, diagnosticVars
  <2> QED BY <1>7, <1>8, <1>9, <1>10, <2>1, <2>2 DEF Background
<1>11. ASSUME (\E s \in Sessions : Begin(s)) \/ TimePasses \/ SweepExpire \/ UNCHANGED toolVars
       PROVE  SubmitInv'
  BY <1>4, <1>11 DEF Begin, TimePasses, SweepExpire, OnlySession, toolVars, diagnosticVars
<1> QED BY <1>5, <1>6, <1>10, <1>11, StepKinds

(***************************************************************************)
(* The theorems.                                                           *)
(***************************************************************************)
\* What holds in every state of the broker.
ToolInv ==
    /\ RegistryInv /\ Types /\ Shapes /\ MonitorInv /\ OwnersBuffer
    /\ ReferenceInv /\ SubmitInv

LEMMA InitTools == ToolInit => ToolInv
<1> SUFFICES ASSUME ToolInit PROVE ToolInv
  OBVIOUS
<1>1. RegistryInv
  BY InitType, InitTargets DEF ToolInit, RegistryInv
<1>2. NoMonitor \in [phase : {"none", "listening", "stopping"}, target : Maybe(Targets)]
  BY DEF NoMonitor, Maybe
<1>3. Types
  BY <1>2, Records, ToolProfilesAssumption DEF ToolInit, Types, Maybe
<1>4. /\ \A c \in Calls : call[c] = NoCall /\ call[c].pc = "idle"
      /\ \A m \in Monitors : monitor[m].phase = "none" /\ monitor[m].target = None
      /\ \A t \in Targets : monitors[t] = None /\ active_target_owners[t] = None
      /\ \A b \in Tabs : references[b].by_ref = {}
  BY DEF ToolInit, Init, NoCall, NoMonitor, NoReferences
<1>5. Shapes
  BY <1>4, Records DEF Shapes, Shape, Leased
<1>6. MonitorInv
  <2>1. ASSUME NEW t \in Targets PROVE Orderly(t)
    BY <1>4, NoneAssumption DEF Orderly, Works, Listening
  <2> QED BY <1>4, <2>1 DEF MonitorInv, EndedMonitors, AwaitsStopped, At
<1>7. OwnersBuffer
  BY <1>4 DEF OwnersBuffer
<1>8. ReferenceInv
  BY <1>4 DEF ReferenceInv, KeptIssued, ReferencesHold, RevisionCurrent, ResolvedIssued, Resolved
<1>9. SubmitInv
  BY <1>4 DEF SubmitInv, SubmitsHaveMonitors, RequestsRecorded, Heard
<1> QED BY <1>1, <1>3, <1>5, <1>6, <1>7, <1>8, <1>9 DEF ToolInv

LEMMA ToolStep == ToolInv /\ [ToolNext]_toolVars => ToolInv' /\ [Next]_vars
<1> SUFFICES ASSUME ToolInv, [ToolNext]_toolVars PROVE ToolInv' /\ [Next]_vars
  OBVIOUS
<1>1. /\ RegistryInv /\ Types /\ Shapes /\ MonitorInv /\ EndedMonitors /\ OwnersBuffer
      /\ ReferenceInv /\ SubmitInv
  BY DEF ToolInv, MonitorInv
<1>2. [Next]_vars
  BY <1>1, StepsTheRegistry
<1>3. RegistryInv' /\ Types' /\ Shapes'
  BY <1>1, <1>2, RegistryStep, TypesStep, ShapesStep
<1>4. MonitorInv' /\ OwnersBuffer' /\ ReferenceInv' /\ SubmitInv'
  BY <1>1, <1>3, MonitorStep, BufferStep, ReferenceStep, SubmitStep
<1> QED BY <1>2, <1>3, <1>4 DEF ToolInv

LEMMA ToolsSafe == ToolSpec => []ToolInv
BY InitTools, ToolStep, PTL DEF ToolSpec

\* The state of the page tools keeps its types, and a tab's record holds only
\* references that snapshots have returned (ElementReferenceRegistry).
THEOREM ToolTypesCorrect == ToolSpec => []ToolTypeOK
<1>1. ToolInv => ToolTypeOK
  BY DEF ToolInv, Types, ReferenceInv, KeptIssued, ToolTypeOK, CallState, Reference
<1> QED BY <1>1, ToolsSafe, PTL

\* Claims, takeovers, releases, tool calls and the expiry sweep call the lease
\* registry only as it allows: what is proved of the registry holds here.
THEOREM ToolsRunTheRegistry == ToolSpec => Spec
<1>1. ToolInit => Init
  BY DEF ToolInit
<1> QED BY <1>1, ToolsSafe, ToolStep, PTL DEF ToolSpec, Spec

\* A monitor that DiagnosticsRegistry has on record hears its page: no cleanup of
\* an earlier monitor disables the domains behind it, unless two calls set up or
\* took down monitors of the target at once.
THEOREM MonitorsAreHeard == ToolSpec => []MonitorsListen
<1>1. ToolInv => MonitorsListen
  BY DEF ToolInv, MonitorInv, Orderly, MonitorsListen
<1> QED BY <1>1, ToolsSafe, PTL

\* console returns what the page logged under the caller's own lease, once the
\* claim has come to DiagnosticsRegistry::reset_target.
THEOREM MessagesAreTheOwners == ToolSpec => []OwnMessagesOnly
<1>1. ASSUME ToolInv, NEW c \in Calls, At(c, "work"), Is(c, {"console"}), Owns(c)
      PROVE  \/ buffer[call[c].target] \subseteq {call[c].tab}
             \/ \E d \in Calls : At(d, "reset") /\ call[d].target = call[c].target
  <2> DEFINE b == call[c].tab
             t == call[c].target
  <2>1. RegistryInv /\ ShapeOf(call[c]) /\ Leased(call[c]) /\ OwnersBuffer
    BY <1>1 DEF ToolInv, Shapes, Shape
  <2>2. call[c].method = "console" /\ call[c].pc = "work" /\ call[c].method \in TabTools
    BY <1>1 DEF At, Is, TabTools
  <2>3. b \in Tabs /\ t \in Targets
    BY <2>1, <2>2, Methods DEF ShapeOf
  <2>4. leases[b].state = "active" /\ leases[b].target = t
    BY <1>1, <2>1, <2>2, Methods DEF Owns, Leased
  <2>5. active_target_owners[t] = b /\ b # None
    BY <2>1, <2>3, <2>4, NoneAssumption DEF RegistryInv, TargetInv, ActiveIndexExact
  <2> QED BY <2>1, <2>3, <2>5 DEF OwnersBuffer
<1>2. ToolInv => OwnMessagesOnly
  BY <1>1 DEF OwnMessagesOnly
<1> QED BY <1>2, ToolsSafe, PTL

\* An element action -- call_on_element, the events of a click, a drag, a hover or
\* a key -- touches only a document for which its session got the reference from a
\* snapshot of that tab, unless the page was replaced after document_revision.
THEOREM ReferencesAreForTheirDocument == ToolSpec => ReferencesActInTheirDocument
<1>1. ASSUME ToolInv, NEW c \in Calls, Touches(c), call[c].ref # None, ~call[c].moved
      PROVE  [session |-> call[c].session, tab |-> call[c].tab, document |-> Document(call[c].target)]
                \in issued
  BY <1>1 DEF ToolInv, ReferenceInv, ReferencesHold, ResolvedIssued, Touches, Resolved, Current
<1>2. ToolInv => [\A c \in Calls :
          Touches(c) /\ call[c].ref # None /\ ~call[c].moved
          => [session |-> call[c].session, tab |-> call[c].tab, document |-> Document(call[c].target)]
                \in issued]_toolVars
  BY <1>1
<1> QED BY <1>2, ToolsSafe, PTL DEF ReferencesActInTheirDocument

\* Only a wait that saw no answer to a request that is not a GET lets a click submit
\* again.
LEMMA ActivatesUnanswered ==
    ASSUME ToolInv, [ToolNext]_toolVars, NEW c \in Calls, At(c, "effect"), call'[c].pc = "activate"
    PROVE  ~SubmitSignal(c, FALSE)
<1>0. /\ RegistryInv /\ Types /\ Shapes /\ EndedMonitors /\ [Next]_vars /\ TypeOK /\ TargetInv
      /\ call[c].pc = "effect" /\ call[c] \in CallState
  BY ToolStep DEF ToolInv, MonitorInv, RegistryInv, At, Types
<1>1. ~Stays(c) /\ call'[c] # call[c]
  BY <1>0 DEF Stays
<1>2. ASSUME NEW d \in Calls, ClientStep(d) PROVE FALSE
  BY <1>0, <1>1, <1>2, SendMoves
<1>3. ASSUME NEW d \in Calls, DeepStep(d) PROVE FALSE
  <2>1. d = c
    BY <1>0, <1>1, <1>3, DeepMoves DEF CallMoves
  <2> QED
    BY <1>0, <1>3, <2>1, Methods
    DEF DeepStep, Ensure, EnableDomains, MarkMonitored, Build, Navigate, ForgetReferences, Claim,
        Release, ResetDiagnostics, AwaitMonitor, AwaitTimesOut, At
<1>4. ASSUME NEW d \in Calls, PlainStep(d) PROVE ~SubmitSignal(c, FALSE)
  <2>1. PlainFate(d) /\ d = c
    BY <1>0, <1>1, <1>4, PlainSteps, PlainMoves DEF Shapes
  <2>2. call'[c] # NoCall
    BY DEF NoCall
  <2>3. SubmitFate(c)
    BY <2>1, <2>2 DEF PlainFate
  <2> QED BY <1>0, <2>3 DEF SubmitFate, Sends
<1>5. ~Background
  BY <1>0, <1>1, BackgroundMoves
<1>6. ~(\E s \in Sessions : Begin(s)) /\ ~TimePasses /\ ~SweepExpire /\ ~UNCHANGED toolVars
  BY <1>1 DEF Begin, TimePasses, SweepExpire, toolVars
<1> QED BY <1>2, <1>3, <1>4, <1>5, <1>6, StepKinds

\* A click whose request, neither a GET nor redirected to one, was answered while it
\* waited is not followed by requestSubmit: its monitor has recorded the answer
\* (effect_has_completed_submit_request), unless the buffers or the connection were
\* lost, or two calls met at the monitor.
THEOREM SubmitsAreNotRepeated == ToolSpec => AnsweredSubmitsAreNotRepeated
<1>1. ASSUME ToolInv, [ToolNext]_toolVars, NEW c \in Calls,
             At(c, "effect"), call'[c].pc = "activate",
             call[c].request = "answered", ~call[c].get
      PROVE  call[c].missed \/ call[c].target \in overlapped
  <2>1. call[c].recorded # "completed"
    BY <1>1, ActivatesUnanswered DEF SubmitSignal
  <2>2. call[c].method = "submit"
    BY <1>1 DEF ToolInv, Shapes, Shape, ShapeOf, At
  <2>3. Heard(c) => Recorded(c)
    BY <1>1 DEF ToolInv, SubmitInv, RequestsRecorded
  <2> QED BY <1>1, <2>1, <2>2, <2>3 DEF Heard, Recorded, At
<1>2. ToolInv /\ [ToolNext]_toolVars
      => [\A c \in Calls :
            /\ At(c, "effect") /\ call'[c].pc = "activate"
            /\ call[c].request = "answered" /\ ~call[c].get
            => call[c].missed \/ call[c].target \in overlapped]_toolVars
  BY <1>1
<1> QED BY <1>2, ToolsSafe, PTL DEF ToolSpec, AnsweredSubmitsAreNotRepeated
=============================================================================
