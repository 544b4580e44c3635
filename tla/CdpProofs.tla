----------------------------- MODULE CdpProofs -----------------------------
(***************************************************************************)
(* Proofs about the two models of a page's protocol session, PageSessions  *)
(* and Screencast.  The two specifications share nothing; each theorem     *)
(* names the one it is about.                                              *)
(*                                                                         *)
(* PageSessions, for any targets, calls, profiles and bounds: its types    *)
(* and the two safety properties of its run, from an invariant that says   *)
(* what each call knows of the reports and of the handlers of its target.  *)
(*                                                                         *)
(* Screencast, for every queue capacity, number of chunks, number of       *)
(* frames and set of things that go wrong: its types, that a recording     *)
(* that becomes an artifact is whole, and that the lie told to the page is *)
(* taken back.  The file is whole because file, channel and wire together  *)
(* always hold the recorder's messages one after the other, from the first *)
(* on, and because the recorder says it is done only after the frame       *)
(* worker is: by then every accepted frame is encoded (FrameInv, ChunkInv).*)
(***************************************************************************)
EXTENDS PageSessions, Screencast, TLAPS

(***************************************************************************)
(* Types.  A step rewrites one call, in the forms the helpers give.        *)
(***************************************************************************)
\* The step gives the call a state of these generations and revisions, with a target
\* unless it is idle.
Becomes(x, g, v) ==
    \E u \in CallState(g, v) : /\ call' = [call EXCEPT ![x] = u]
                               /\ u.pc # "idle" => u.target \in Targets
CallsTyped(g, v) == /\ call \in [Calls -> CallState(g, v)]
                    /\ \A x \in Calls : ~At(x, "idle") => Target(x) \in Targets

\* Updates of a call's fields keep it a call.
LEMMA Fields ==
    ASSUME NEW g \in Nat, NEW v \in Nat, NEW r \in CallState(g, v), NEW to \in Pcs,
         NEW next \in Nexts,
           NEW b \in BOOLEAN
    PROVE  /\ [r EXCEPT !.pc = to] \in CallState(g, v)
           /\ [r EXCEPT !.pc = to, !.next = next] \in CallState(g, v)
           /\ [r EXCEPT !.pc = to, !.next = next, !.failed = b] \in CallState(g, v)
           /\ [r EXCEPT !.pc = to, !.next = next, !.pending = b] \in CallState(g, v)
           /\ [r EXCEPT !.pc = to, !.next = next, !.retried = b] \in CallState(g, v)
           /\ [r EXCEPT !.pc = to, !.clean = b] \in CallState(g, v)
           /\ [r EXCEPT !.pending = FALSE] \in CallState(g, v)
           /\ [r EXCEPT !.clean = FALSE] \in CallState(g, v)
BY Zenon DEF CallState
\* The same for the fields that are numbers, with their bounds.
LEMMA NumberFields ==
    ASSUME NEW g \in Nat, NEW v \in Nat, NEW r \in CallState(g, v), NEW to \in Pcs
    PROVE  /\ \A n \in 0..g : [r EXCEPT !.pc = to, !.generation = n] \in CallState(g, v)
           /\ \A n \in 0..MaxDocument : [r EXCEPT !.pc = to, !.seen = n] \in CallState(g, v)
           /\ \A n \in 0..v : [r EXCEPT !.pc = to, !.revision = n] \in CallState(g, v)
BY Zenon DEF CallState
\* A call of some generations and revisions is one of more of them.
LEMMA Wider ==
    ASSUME NEW g \in Nat, NEW v \in Nat, NEW h \in Nat, NEW w \in Nat, g <= h, v <= w
    PROVE  CallState(g, v) \subseteq CallState(h, w)
BY DEF CallState
\* The call of nobody is a call.
LEMMA NoneYet == ASSUME NEW g \in Nat, NEW v \in Nat PROVE NoCall \in CallState(g, v)
BY SessionProfilesAssumption DEF CallState, NoCall, Methods, Policies, Pcs, Nexts

\* A step that changes one call so keeps the calls typed.
LEMMA BecomesTyped ==
    ASSUME NEW g \in Nat, NEW v \in Nat, NEW h \in Nat, NEW w \in Nat, g <= h, v <= w,
           CallsTyped(g, v), NEW x \in Calls, Becomes(x, h, w)
    PROVE  /\ call' \in [Calls -> CallState(h, w)]
           /\ \A y \in Calls : call'[y].pc # "idle" => call'[y].target \in Targets
<1>1. call \in [Calls -> CallState(h, w)]
  BY Wider DEF CallsTyped
<1>2. PICK u \in CallState(h, w) : /\ call' = [call EXCEPT ![x] = u]
                                   /\ u.pc # "idle" => u.target \in Targets
  BY DEF Becomes
<1> QED BY <1>1, <1>2 DEF CallsTyped, At, Target

\* The forms of a call's step.
LEMMA GotoBecomes ==
    ASSUME NEW g \in Nat, NEW v \in Nat, CallsTyped(g, v), NEW x \in Calls, ~At(x, "idle"),
           NEW to \in Pcs, Goto(x, to)
    PROVE  Becomes(x, g, v)
<1> DEFINE u == [call[x] EXCEPT !.pc = to]
<1>1. u \in CallState(g, v)
  BY Fields DEF CallsTyped, Nexts
<1>2. call' = [call EXCEPT ![x] = u]
  BY DEF Goto
<1>3. u.target \in Targets
  BY DEF CallsTyped, CallState, Target
<1> QED BY <1>1, <1>2, <1>3 DEF Becomes

LEMMA EndBecomes ==
    ASSUME NEW g \in Nat, NEW v \in Nat, NEW x \in Calls, End(x)
    PROVE  Becomes(x, g, v)
BY NoneYet DEF End, Becomes, NoCall

LEMMA ReattachBecomes ==
    ASSUME NEW g \in Nat, NEW v \in Nat, CallsTyped(g, v), NEW x \in Calls, ~At(x, "idle"),
           NEW next \in Nexts, Reattach(x, next)
    PROVE  Becomes(x, g, v)
<1> DEFINE u == [call[x] EXCEPT !.pc = "connect", !.next = next]
<1>1. u \in CallState(g, v)
  BY Fields DEF CallsTyped, Pcs
<1>2. call' = [call EXCEPT ![x] = u]
  BY DEF Reattach
<1>3. u.target \in Targets
  BY DEF CallsTyped, CallState, Target
<1> QED BY <1>1, <1>2, <1>3 DEF Becomes

LEMMA FinishBecomes ==
    ASSUME NEW g \in Nat, NEW v \in Nat, CallsTyped(g, v), NEW x \in Calls, ~At(x, "idle"),
           NEW b \in BOOLEAN, Finish(x, b)
    PROVE  Becomes(x, g, v)
<1>1. CASE call[x].policy = "accept"
  <2> DEFINE u == [call[x] EXCEPT !.pc = "connect", !.next = "restore", !.failed = b]
  <2>1. u \in CallState(g, v)
    BY Fields DEF CallsTyped, Pcs, Nexts
  <2>2. call' = [call EXCEPT ![x] = u]
    BY <1>1 DEF Finish
  <2>3. u.target \in Targets
    BY DEF CallsTyped, CallState, Target
  <2> QED BY <2>1, <2>2, <2>3 DEF Becomes
<1>2. CASE call[x].policy # "accept"
  BY <1>2, EndBecomes DEF Finish
<1> QED BY <1>1, <1>2

LEMMA RestoreFailsBecomes ==
    ASSUME NEW g \in Nat, NEW v \in Nat, CallsTyped(g, v), spoiled \subseteq Targets,
           NEW x \in Calls, ~At(x, "idle"), RestoreFails(x)
    PROVE  Becomes(x, g, v) /\ spoiled' \subseteq Targets
<1>1. CASE End(x) /\ spoiled' = spoiled \cup {Target(x)}
  BY <1>1, EndBecomes DEF CallsTyped
<1>2. CASE /\ UNCHANGED spoiled
           /\ call' = [call EXCEPT ![x].pc = "connect", ![x].next = "restore", ![x].retried = TRUE]
  <2> DEFINE u == [call[x] EXCEPT !.pc = "connect", !.next = "restore", !.retried = TRUE]
  <2>1. u \in CallState(g, v)
    BY Fields DEF CallsTyped, Pcs, Nexts
  <2>2. call' = [call EXCEPT ![x] = u]
    BY <1>2
  <2>3. u.target \in Targets
    BY DEF CallsTyped, CallState, Target
  <2> QED BY <1>2, <2>1, <2>2, <2>3 DEF Becomes
<1> QED BY <1>1, <1>2 DEF RestoreFails

LEMMA PageFailsBecomes ==
    ASSUME NEW g \in Nat, NEW v \in Nat, CallsTyped(g, v), spoiled \subseteq Targets,
           NEW x \in Calls, ~At(x, "idle"), PageFails(x)
    PROVE  Becomes(x, g, v) /\ spoiled' \subseteq Targets
<1>1. CASE End(x) /\ UNCHANGED spoiled
  BY <1>1, EndBecomes
<1>2. CASE Finish(x, TRUE) /\ UNCHANGED spoiled
  BY <1>2, FinishBecomes
<1>3. CASE RestoreFails(x)
  BY <1>3, RestoreFailsBecomes
<1> QED BY <1>1, <1>2, <1>3 DEF PageFails

\* Taking the handlers off a page and putting them back.
LEMMA PagesTyped ==
    ASSUME NEW p \in PageState
    PROVE  Unguarded(p) \in PageState /\ Restored(p) \in PageState
<1>1. Unguarded(p) \in PageState
  <2> DEFINE s == IF p.guarded THEN "handlers" ELSE "nothing"
  <2>1. s \in {"none", "handlers", "nothing"}
    OBVIOUS
  <2>2. \A w \in {"none", "handlers", "nothing"} : [p EXCEPT !.guarded = FALSE,
       !.stash = w] \in PageState
    BY Zenon DEF PageState
  <2> QED BY <2>1, <2>2 DEF Unguarded
<1>2. Restored(p) \in PageState
  <2> DEFINE b == p.guarded \/ p.stash = "handlers"
  <2>1. b \in BOOLEAN
    BY DEF PageState
  <2>2. \A w \in BOOLEAN : [p EXCEPT !.guarded = w, !.stash = "none"] \in PageState
    BY Zenon DEF PageState
  <2> QED BY <2>1, <2>2 DEF Restored
<1> QED BY <1>1, <1>2

\* A new document, of a target or of a call that has none yet.
LEMMA NewDocumentTyped ==
    ASSUME SessionTypeOK, NEW t, NewDocument(t)
    PROVE  page' \in [Targets -> PageState] /\ spoiled' \subseteq Targets
<1>1. CASE t \in Targets
  <2>1. page[t].document + 1 \in 0..MaxDocument
    BY <1>1, SessionProfilesAssumption DEF SessionTypeOK, NewDocument, PageState
  <2>2. [document |-> page[t].document + 1, guarded |-> TRUE, stash |-> "none"] \in PageState
    BY <2>1 DEF PageState
  <2> QED BY <1>1, <2>2 DEF SessionTypeOK, NewDocument
<1>2. CASE t \notin Targets
  BY <1>2 DEF SessionTypeOK, NewDocument
<1> QED BY <1>1, <1>2

LEMMA NavigatedBecomes ==
    ASSUME NEW g \in Nat, NEW v \in Nat, CallsTyped(g, v), NEW x \in Calls, ~At(x, "idle"),
           NEW b \in BOOLEAN, Navigated(x, b)
    PROVE  Becomes(x, g, v)
<1>1. CASE call' = [call EXCEPT ![x].pc = "connect", ![x].next = "poll", ![x].pending = b]
  <2> DEFINE u == [call[x] EXCEPT !.pc = "connect", !.next = "poll", !.pending = b]
  <2>1. u \in CallState(g, v)
    BY Fields DEF CallsTyped, Pcs, Nexts
  <2>2. call' = [call EXCEPT ![x] = u]
    BY <1>1
  <2>3. u.target \in Targets
    BY DEF CallsTyped, CallState, Target
  <2> QED BY <2>1, <2>2, <2>3 DEF Becomes
<1>2. CASE Goto(x, "restore")
  BY <1>2, GotoBecomes DEF Pcs
<1>3. CASE Finish(x, FALSE)
  BY <1>3, FinishBecomes
<1> QED BY <1>1, <1>2, <1>3 DEF Navigated

\* A report of a stale context touches only what the other calls have seen.
LEMMA ReportedTyped ==
    ASSUME NEW g \in Nat, NEW v \in Nat, NEW c \in [Calls -> CallState(g, v)], NEW t,
           call' = Reported(t, c)
    PROVE  /\ call' \in [Calls -> CallState(g, v + 1)]
           /\ \A y \in Calls : call'[y].pc = c[y].pc /\ call'[y].target = c[y].target
<1>1. \A y \in Calls : [c[y] EXCEPT !.clean = FALSE] \in CallState(g, v)
  BY Fields DEF Pcs, Nexts
<1>2. Reported(t, c) \in [Calls -> CallState(g, v)]
  BY <1>1 DEF Reported
<1>3. CallState(g, v) \subseteq CallState(g, v + 1)
  BY Wider
<1>4. ASSUME NEW y \in Calls
      PROVE  Reported(t, c)[y].pc = c[y].pc /\ Reported(t, c)[y].target = c[y].target
  BY DEF Reported, CallState
<1> QED BY <1>2, <1>3, <1>4

\* The report itself.
LEMMA MarkStaleTyped ==
    ASSUME SessionTypeOK, NEW t \in Targets, MarkStale(t)
    PROVE  /\ stale' \in [Targets -> 0..revision'] /\ revision' \in 0..MaxRevision
           /\ refreshed' \in [Targets -> BOOLEAN] /\ revision' = revision + 1
BY SessionProfilesAssumption DEF SessionTypeOK, MarkStale

\* A navigation that may have committed.
LEMMA CommitsOrNotTyped ==
    ASSUME SessionTypeOK, NEW x \in Calls, CommitsOrNot(x)
    PROVE  page' \in [Targets -> PageState] /\ spoiled' \subseteq Targets
<1>1. CASE NewDocument(Target(x))
  BY <1>1, NewDocumentTyped
<1>2. CASE UNCHANGED <<page, spoiled>>
  BY <1>2 DEF SessionTypeOK
<1> QED BY <1>1, <1>2 DEF CommitsOrNot

\* Every step keeps the types.
LEMMA TypeNext == SessionTypeOK /\ [SessionNext]_sessionVars => SessionTypeOK'
<1> SUFFICES ASSUME SessionTypeOK, [SessionNext]_sessionVars PROVE SessionTypeOK'
  OBVIOUS
<1>a. /\ MaxDocument \in Nat /\ MaxGeneration \in Nat /\ MaxRevision \in Nat
      /\ profile.documents \in 0..MaxDocument
      /\ generation \in Nat /\ revision \in Nat
      /\ CallsTyped(generation, revision)
      /\ \A y \in Calls : call[y] \in CallState(generation, revision)
      /\ \A t \in Targets : page[t].document \in 0..MaxDocument /\ stale[t] \in 0..revision
  BY SessionProfilesAssumption DEF SessionTypeOK, CallsTyped, PageState
<1>b. ASSUME NEW x \in Calls, Becomes(x, generation, revision),
             generation' = generation, revision' = revision
      PROVE  /\ call' \in [Calls -> CallState(generation', revision')]
             /\ \A y \in Calls : ~At(y, "idle")' => Target(y)' \in Targets
  BY <1>a, <1>b, BecomesTyped DEF At, Target
<1> USE <1>a DEF At, Target, May, Connected, Invalidate,
     Unlock, KeepRuntime, KeepContexts, LosesConnection, CommandFails, runtimeVars, contextVars
<1>1. ASSUME NEW t \in Targets, Moves(t) PROVE SessionTypeOK'
  BY <1>1, NewDocumentTyped DEF Moves, SessionTypeOK
<1>2. CASE ConnectionDrops
  BY <1>2 DEF ConnectionDrops, SessionTypeOK
<1>3. ASSUME NEW x \in Calls, HistoryCommits(x) PROVE SessionTypeOK'
  <2> DEFINE u == [call[x] EXCEPT !.pending = FALSE]
  <2>1. u \in CallState(generation, revision)
    BY Fields DEF Pcs, Nexts
  <2>2. call' = [call EXCEPT ![x] = u]
    BY <1>3 DEF HistoryCommits
  <2>3. u.pc # "idle" => u.target \in Targets
    BY DEF CallsTyped, CallState
  <2>4. Becomes(x, generation, revision)
    BY <2>1, <2>2, <2>3 DEF Becomes
  <2> QED BY <1>3, <1>b, <2>4, NewDocumentTyped DEF HistoryCommits, SessionTypeOK
<1>4. ASSUME NEW x \in Calls, TakeActionLock(x) PROVE SessionTypeOK'
  <2>1. PICK to \in Pcs : Goto(x, to)
    BY <1>4 DEF TakeActionLock, Pcs
  <2>2. Becomes(x, generation, revision)
    BY <1>4, <2>1, GotoBecomes DEF TakeActionLock
  <2>3. Target(x) \in Targets
    BY <1>4 DEF TakeActionLock, CallsTyped
  <2> QED BY <1>4, <1>b, <2>2, <2>3 DEF TakeActionLock, SessionTypeOK
<1>5. ASSUME NEW x \in Calls, Connect(x) PROVE SessionTypeOK'
  <2>1. CASE connection # 0 /\ live
    <3> DEFINE u == [call[x] EXCEPT !.pc = "attach", !.generation = connection]
    <3>1. u \in CallState(generation, revision)
      <4>1. connection \in 0..generation
        BY DEF SessionTypeOK
      <4> QED BY <4>1, NumberFields DEF Pcs
    <3>2. call' = [call EXCEPT ![x] = u]
      BY <1>5, <2>1 DEF Connect
    <3>3. u.target \in Targets
      BY <1>5 DEF Connect, CallsTyped, CallState
    <3>4. Becomes(x, generation, revision)
      BY <3>1, <3>2, <3>3 DEF Becomes
    <3> QED BY <1>5, <1>b, <2>1, <3>4 DEF Connect, SessionTypeOK
  <2>2. CASE /\ generation < MaxGeneration
             /\ generation' = generation + 1 /\ connection' = generation + 1 /\ live' = TRUE
             /\ call' = [call EXCEPT ![x].pc = "attach", ![x].generation = generation + 1]
             /\ UNCHANGED spoiled
    <3> DEFINE u == [call[x] EXCEPT !.pc = "attach", !.generation = generation + 1]
    <3>1. call[x] \in CallState(generation + 1, revision)
      BY Wider
    <3>2. u \in CallState(generation + 1, revision)
      <4>1. generation + 1 \in Nat /\ generation + 1 \in 0..(generation + 1)
        OBVIOUS
      <4> QED BY <3>1, <4>1, NumberFields DEF Pcs
    <3>3. call' = [call EXCEPT ![x] = u]
      BY <2>2
    <3>4. u.target \in Targets
      BY <1>5 DEF Connect, CallsTyped, CallState
    <3>5. Becomes(x, generation + 1, revision)
      BY <3>2, <3>3, <3>4 DEF Becomes
    <3>6. /\ call' \in [Calls -> CallState(generation + 1, revision)]
          /\ \A y \in Calls : call'[y].pc # "idle" => call'[y].target \in Targets
      BY <3>5, BecomesTyped
    <3> QED BY <1>5, <2>2, <3>6 DEF Connect, SessionTypeOK
  <2>3. CASE connection' = 0 /\ UNCHANGED <<generation, live>> /\ PageFails(x)
    <3>1. Becomes(x, generation, revision) /\ spoiled' \subseteq Targets
      BY <1>5, <2>3, PageFailsBecomes DEF Connect, SessionTypeOK
    <3> QED BY <1>5, <1>b, <2>3, <3>1 DEF Connect, SessionTypeOK
  <2> QED BY <1>5, <2>1, <2>2, <2>3 DEF Connect
<1>6. ASSUME NEW x \in Calls, Attach(x) PROVE SessionTypeOK'
  <2>1. Becomes(x, generation, revision) /\ spoiled' \subseteq Targets
    BY <1>6, GotoBecomes, PageFailsBecomes DEF Attach, Pcs, SessionTypeOK
  <2> QED BY <1>6, <1>b, <2>1 DEF Attach, SessionTypeOK
<1>7. ASSUME NEW x \in Calls, CheckContext(x) PROVE SessionTypeOK'
  <2>0. Target(x) \in Targets
    BY <1>7 DEF CheckContext, CallsTyped
  <2>1. CASE stale[Target(x)] = 0
    <3> DEFINE u == [call[x] EXCEPT !.pc = call[x].next, !.seen = page[Target(x)].document]
    <3>1. u \in CallState(generation, revision)
      <4>1. call[x].next \in Pcs
        BY DEF CallState, Nexts, Pcs
      <4> QED BY <2>0, <4>1, NumberFields
    <3>2. call' = [call EXCEPT ![x] = u]
      BY <1>7, <2>1 DEF CheckContext
    <3>3. u.target \in Targets
      BY <2>0 DEF CallState
    <3>4. Becomes(x, generation, revision)
      BY <3>1, <3>2, <3>3 DEF Becomes
    <3> QED BY <1>7, <1>b, <2>0, <2>1, <3>4 DEF CheckContext, SessionTypeOK
  <2>2. CASE stale[Target(x)] # 0
    <3> DEFINE u == [call[x] EXCEPT !.pc = "refresh", !.revision = stale[Target(x)]]
    <3>1. u \in CallState(generation, revision)
      BY <2>0, NumberFields DEF Pcs
    <3>2. call' = [call EXCEPT ![x] = u]
      BY <1>7, <2>2 DEF CheckContext
    <3>3. u.target \in Targets
      BY <2>0 DEF CallState
    <3>4. Becomes(x, generation, revision)
      BY <3>1, <3>2, <3>3 DEF Becomes
    <3> QED BY <1>7, <1>b, <2>2, <3>4 DEF CheckContext, SessionTypeOK
  <2> QED BY <2>1, <2>2
<1>8. ASSUME NEW x \in Calls, DisableRuntime(x) PROVE SessionTypeOK'
  <2>0. Target(x) \in Targets
    BY <1>8 DEF DisableRuntime, CallsTyped
  <2>1. Becomes(x, generation, revision) /\ spoiled' \subseteq Targets
    <3> DEFINE u == [call[x] EXCEPT !.pc = "context", !.clean = TRUE]
    <3>1. u \in CallState(generation, revision)
      BY Fields DEF Pcs, Nexts
    <3>2. u.target \in Targets
      BY <2>0 DEF CallState
    <3>3. CASE call' = [call EXCEPT ![x] = u] /\ UNCHANGED spoiled
      BY <3>1, <3>2, <3>3 DEF Becomes, SessionTypeOK
    <3>4. CASE PageFails(x)
      BY <1>8, <3>4, PageFailsBecomes DEF DisableRuntime, SessionTypeOK
    <3> QED BY <1>8, <3>3, <3>4 DEF DisableRuntime
  <2> QED BY <1>8, <1>b, <2>0, <2>1 DEF DisableRuntime, SessionTypeOK
<1>9. ASSUME NEW x \in Calls, ContextCreated(x) PROVE SessionTypeOK'
  <2>0. Target(x) \in Targets
    BY <1>9 DEF ContextCreated, CallsTyped
  <2>1. Becomes(x, generation, revision) /\ spoiled' \subseteq Targets
    <3> DEFINE u == [call[x] EXCEPT !.pc = IF call[x].next = "run" THEN "run" ELSE "clear",
                                    !.seen = page[Target(x)].document]
    <3>1. u \in CallState(generation, revision)
      BY <2>0, NumberFields DEF Pcs
    <3>2. u.target \in Targets
      BY <2>0 DEF CallState
    <3>3. CASE call' = [call EXCEPT ![x] = u] /\ UNCHANGED spoiled
      BY <3>1, <3>2, <3>3 DEF Becomes, SessionTypeOK
    <3>4. CASE PageFails(x)
      BY <1>9, <3>4, PageFailsBecomes DEF ContextCreated, SessionTypeOK
    <3> QED BY <1>9, <3>3, <3>4 DEF ContextCreated
  <2>2. refreshed' \in [Targets -> BOOLEAN]
    <3>1. call[x].clean \in BOOLEAN
      BY DEF CallState
    <3> QED BY <1>9, <2>0, <3>1 DEF ContextCreated, SessionTypeOK
  <2> QED BY <1>9, <1>b, <2>0, <2>1, <2>2 DEF ContextCreated, SessionTypeOK
<1>10. ASSUME NEW x \in Calls, ClearStale(x) PROVE SessionTypeOK'
  <2>0. Target(x) \in Targets
    BY <1>10 DEF ClearStale, CallsTyped
  <2>1. PICK to \in Pcs : Goto(x, to)
    <3>1. call[x].next \in Pcs /\ "check" \in Pcs
      BY DEF CallState, Nexts, Pcs
    <3> QED BY <1>10, <3>1 DEF ClearStale
  <2>2. Becomes(x, generation, revision)
    BY <1>10, <2>1, GotoBecomes DEF ClearStale
  <2> QED BY <1>10, <1>b, <2>0, <2>2 DEF ClearStale, SessionTypeOK
<1>11. ASSUME NEW x \in Calls, Act(x) PROVE SessionTypeOK'
  <2>1. CASE call[x].method = "evaluate"
    <3> DEFINE u == [call[x] EXCEPT !.pc = "lock", !.next = "run"]
    <3>1. u \in CallState(generation, revision)
      BY Fields DEF Pcs, Nexts
    <3>2. call' = [call EXCEPT ![x] = u]
      BY <1>11, <2>1 DEF Act
    <3>3. u.target \in Targets
      BY <1>11 DEF Act, CallsTyped, CallState
    <3>4. Becomes(x, generation, revision)
      BY <3>1, <3>2, <3>3 DEF Becomes
    <3> QED BY <1>11, <1>b, <3>4 DEF Act, SessionTypeOK
  <2>2. CASE call[x].method # "evaluate"
    <3>1. Becomes(x, generation, revision)
      BY <1>11, <2>2, GotoBecomes DEF Act, Pcs
    <3> QED BY <1>11, <1>b, <3>1 DEF Act, SessionTypeOK
  <2> QED BY <2>1, <2>2
<1>12. ASSUME NEW x \in Calls, Run(x) PROVE SessionTypeOK'
  <2>0. Target(x) \in Targets
    BY <1>12 DEF Run, CallsTyped
  <2>1. CASE End(x) /\ KeepContexts
    <3>1. Becomes(x, generation, revision)
      BY <2>1, EndBecomes
    <3> QED BY <1>12, <1>b, <2>0, <2>1, <3>1 DEF Run, SessionTypeOK
  <2>2. CASE MarkStale(Target(x)) /\ call' = Reported(Target(x), [call EXCEPT ![x] = NoCall])
    <3> DEFINE c == [call EXCEPT ![x] = NoCall]
    <3>1. /\ c \in [Calls -> CallState(generation, revision)]
          /\ \A y \in Calls : c[y].pc # "idle" => c[y].target \in Targets
      BY NoneYet DEF CallsTyped, NoCall
    <3> HIDE DEF c
    <3>2. /\ call' \in [Calls -> CallState(generation, revision + 1)]
          /\ \A y \in Calls : call'[y].pc = c[y].pc /\ call'[y].target = c[y].target
      <4>1. call' = Reported(Target(x), c)
        BY <2>2 DEF c
      <4> QED BY ZenonT(60), <4>1, <3>1, ReportedTyped
    <3>3. \A y \in Calls : call'[y].pc # "idle" => call'[y].target \in Targets
      BY <3>1, <3>2
    <3> QED BY <1>12, <2>0, <2>2, <3>2, <3>3, MarkStaleTyped DEF Run, SessionTypeOK
  <2> QED BY <1>12, <2>1, <2>2 DEF Run
<1>13. ASSUME NEW x \in Calls, ClearHandlers(x) PROVE SessionTypeOK'
  <2>0. Target(x) \in Targets
    BY <1>13 DEF ClearHandlers, CallsTyped
  <2>1. Becomes(x, generation, revision)
    BY <1>13, GotoBecomes, EndBecomes DEF ClearHandlers, Pcs
  <2>2. page' \in [Targets -> PageState]
    <3>1. Unguarded(page[Target(x)]) \in PageState
      BY <2>0, PagesTyped DEF SessionTypeOK
    <3> QED BY <1>13, <2>0, <3>1 DEF ClearHandlers, SessionTypeOK
  <2>3. /\ profile' = profile /\ generation' = generation /\ live' = live
        /\ connection' \in {0, connection}
        /\ UNCHANGED contextVars /\ spoiled' \subseteq Targets
    BY <1>13, <2>0 DEF ClearHandlers, SessionTypeOK
  <2> QED BY <1>b, <2>1, <2>2, <2>3 DEF SessionTypeOK
<1>14. ASSUME NEW x \in Calls, Commits(x) PROVE SessionTypeOK'
  <2>0. Target(x) \in Targets
    BY <1>14 DEF Commits, CallsTyped
  <2>1. Becomes(x, generation, revision)
    BY <1>14, NavigatedBecomes DEF Commits
  <2> QED BY <1>14, <1>b, <2>0, <2>1, NewDocumentTyped DEF Commits, SessionTypeOK
<1>15. ASSUME NEW x \in Calls, StaysInDocument(x) PROVE SessionTypeOK'
  <2>1. Becomes(x, generation, revision)
    BY <1>15, NavigatedBecomes DEF StaysInDocument
  <2> QED BY <1>15, <1>b, <2>1 DEF StaysInDocument, SessionTypeOK
<1>16. ASSUME NEW x \in Calls, Rejected(x) PROVE SessionTypeOK'
  <2>1. Becomes(x, generation, revision)
    BY <1>16, FinishBecomes, ReattachBecomes DEF Rejected, Nexts
  <2> QED BY <1>16, <1>b, <2>1, CommitsOrNotTyped DEF Rejected, SessionTypeOK
<1>17. ASSUME NEW x \in Calls, Dismissed(x) PROVE SessionTypeOK'
  <2>1. Becomes(x, generation, revision)
    BY <1>17, EndBecomes DEF Dismissed
  <2> QED BY <1>17, <1>b, <2>1 DEF Dismissed, SessionTypeOK
<1>18. ASSUME NEW x \in Calls, TimesOut(x) PROVE SessionTypeOK'
  <2>1. Becomes(x, generation, revision)
    BY <1>18, FinishBecomes, ReattachBecomes DEF TimesOut, Nexts
  <2> QED BY <1>18, <1>b, <2>1, CommitsOrNotTyped DEF TimesOut, SessionTypeOK
<1>19. ASSUME NEW x \in Calls, NavigationLost(x) PROVE SessionTypeOK'
  <2>1. Becomes(x, generation, revision)
    BY <1>19, FinishBecomes DEF NavigationLost
  <2> QED BY <1>19, <1>b, <2>1, CommitsOrNotTyped DEF NavigationLost, SessionTypeOK
<1>20. ASSUME NEW x \in Calls, Poll(x) PROVE SessionTypeOK'
  <2> DEFINE u == [call[x] EXCEPT !.pc = "connect"]
  <2>0. Target(x) \in Targets
    BY <1>20 DEF Poll, CallsTyped
  <2>a. u \in CallState(generation, revision) /\ u.target = call[x].target /\ u.pc = "connect"
    <3>1. u \in CallState(generation, revision)
      BY Fields DEF Pcs, Nexts
    <3> QED BY <3>1 DEF CallState
  <2> HIDE DEF u
  <2>1. CASE UNCHANGED contextVars /\ call' = [call EXCEPT ![x] = u]
    <3>1. Becomes(x, generation, revision)
      BY <2>0, <2>1, <2>a DEF Becomes
    <3> QED BY <1>20, <1>b, <2>1, <3>1 DEF Poll, SessionTypeOK
  <2>2. CASE UNCHANGED contextVars /\ \E failed \in BOOLEAN : Finish(x, failed)
    <3>1. Becomes(x, generation, revision)
      BY <1>20, <2>2, FinishBecomes DEF Poll
    <3> QED BY <1>20, <1>b, <2>2, <3>1 DEF Poll, SessionTypeOK
  <2>3. CASE /\ MarkStale(Target(x)) /\ call' = Reported(Target(x), [call EXCEPT ![x] = u])
             /\ UNCHANGED <<runtimeVars, action_lock>>
    <3> DEFINE c == [call EXCEPT ![x] = u]
    <3>1. /\ c \in [Calls -> CallState(generation, revision)]
          /\ \A y \in Calls : c[y].pc # "idle" => c[y].target \in Targets
      BY <2>0, <2>a DEF CallsTyped
    <3> HIDE DEF c
    <3>2. /\ call' \in [Calls -> CallState(generation, revision + 1)]
          /\ \A y \in Calls : call'[y].pc = c[y].pc /\ call'[y].target = c[y].target
      <4>1. call' = Reported(Target(x), c)
        BY <2>3 DEF c
      <4> QED BY ZenonT(60), <4>1, <3>1, ReportedTyped
    <3>3. \A y \in Calls : call'[y].pc # "idle" => call'[y].target \in Targets
      BY <3>1, <3>2
    <3> QED BY <1>20, <2>0, <2>3, <3>2, <3>3, MarkStaleTyped DEF Poll, SessionTypeOK
  <2>4. [call EXCEPT ![x].pc = "connect"] = [call EXCEPT ![x] = u]
    BY DEF u
  <2> QED BY <1>20, <2>1, <2>2, <2>3, <2>4 DEF Poll
<1>21. ASSUME NEW x \in Calls, Recover(x) PROVE SessionTypeOK'
  <2>1. Becomes(x, generation, revision)
    BY <1>21, FinishBecomes DEF Recover
  <2> QED BY <1>21, <1>b, <2>1 DEF Recover, SessionTypeOK
<1>22. ASSUME NEW x \in Calls, RestoreHandlers(x) PROVE SessionTypeOK'
  <2>0. Target(x) \in Targets
    BY <1>22 DEF RestoreHandlers, CallsTyped
  <2>1. Becomes(x, generation, revision) /\ spoiled' \subseteq Targets
    BY <1>22, <2>0, RestoreFailsBecomes, EndBecomes DEF RestoreHandlers, SessionTypeOK
  <2>2. page' \in [Targets -> PageState]
    <3>1. Restored(page[Target(x)]) \in PageState
      BY <2>0, PagesTyped DEF SessionTypeOK
    <3> QED BY <1>22, <2>0, <3>1 DEF RestoreHandlers, SessionTypeOK
  <2>3. /\ profile' = profile /\ generation' = generation /\ live' = live
        /\ connection' \in {0, connection} /\ UNCHANGED contextVars
    BY <1>22 DEF RestoreHandlers
  <2> QED BY <1>b, <2>1, <2>2, <2>3 DEF SessionTypeOK
<1>23. ASSUME NEW x \in Calls, NEW m \in Methods, NEW p \in Policies, NEW t \in Targets,
            Begin(x, m, p, t)
      PROVE  SessionTypeOK'
  <2> DEFINE u == [NoCall EXCEPT !.pc = "connect", !.method = m, !.policy = p, !.target = t]
  <2>1. u \in CallState(generation, revision)
    BY NoneYet, Zenon DEF CallState, Pcs
  <2>2. u.target \in Targets
    BY DEF NoCall
  <2>3. Becomes(x, generation, revision)
    BY <1>23, <2>1, <2>2 DEF Begin, Becomes
  <2> QED BY <1>23, <1>b, <2>3 DEF Begin, SessionTypeOK
<1>24. CASE UNCHANGED sessionVars
  BY <1>24 DEF sessionVars, SessionTypeOK
<1> QED
  BY <1>1, <1>2, <1>3, <1>4, <1>5, <1>6, <1>7, <1>8, <1>9, <1>10, <1>11, <1>12, <1>13, <1>14,
       <1>15, <1>16, <1>17, <1>18, <1>19, <1>20, <1>21, <1>22, <1>23, <1>24 DEF SessionNext, Step

(***************************************************************************)
(* The invariants.                                                         *)
(***************************************************************************)
\* The revision a report was given is still the one it was refreshed for, unless a
\* later report came; a refresh no report fell into has made the context fresh.
RefreshTracksReports ==
    /\ \A t \in Targets : stale[t] = 0 => refreshed[t]
    /\ \A x \in Calls : call[x].next # "run" =>
         /\ At(x, "refresh") \/ At(x, "context") \/ At(x, "clear") => call[x].revision > 0
         /\ At(x, "context") /\ stale[Target(x)] = call[x].revision => call[x].clean
         /\ At(x, "clear") /\ stale[Target(x)] = call[x].revision => refreshed[Target(x)]

\* Where an accepting navigation is once it has taken the handlers off.
TookHandlers(x) ==
    \/ call[x].pc \in {"navigate", "poll", "recover", "restore"}
    \/ call[x].next \in {"poll", "recover", "restore"}
\* What follows what in a call.
Routes ==
    \A x \in Calls :
        /\ At(x, "idle") => call[x].policy = "none"
        /\ At(x, "act") \/ At(x, "unguard") \/ At(x, "navigate") => call[x].next = "act"
        /\ At(x, "run") \/ call[x].next = "run" => call[x].policy = "none"
        /\ At(x, "poll") => call[x].next = "poll"
        /\ At(x, "recover") => call[x].next = "recover"
        /\ At(x, "restore") => call[x].next \in {"act", "restore"}
        /\ call[x].method = "evaluate" => call[x].policy = "none"
        /\ At(x, "clear") => call[x].next # "run"
\* Handlers that are off a page are in its stash, and an accepting navigation that is
\* still to restore them has them.
HandlersAreHeld ==
    \A t \in Targets : t \notin spoiled /\ ~page[t].guarded =>
        /\ page[t].stash = "handlers"
        /\ \E x \in Accepting(t) : TookHandlers(x)

\* Every step keeps a call on its route.
LEMMA RoutesNext == SessionTypeOK /\ Routes /\ [SessionNext]_sessionVars => Routes'
<1> SUFFICES ASSUME SessionTypeOK, Routes, [SessionNext]_sessionVars PROVE Routes'
  OBVIOUS
<1>a. /\ call \in [Calls -> CallState(generation, revision)]
      /\ \A x \in Calls : ~At(x, "idle") => Target(x) \in Targets
  BY SessionProfilesAssumption DEF SessionTypeOK
<1> USE <1>a DEF Routes, At, Target, Goto, End, May, NoCall, Connected, Reattach, Finish,
     PageFails, RestoreFails, Invalidate, NewDocument, MarkStale, Reported, Unlock, KeepRuntime,
     KeepContexts, LosesConnection, CommandFails, CommitsOrNot, Recovers, runtimeVars,
     contextVars, CallState, Navigated, Methods, Policies, Nexts
<1>1. ASSUME NEW t \in Targets, Moves(t) PROVE Routes'
  BY <1>1 DEF Moves
<1>2. CASE ConnectionDrops
  BY <1>2 DEF ConnectionDrops
<1>3. ASSUME NEW x \in Calls, HistoryCommits(x) PROVE Routes'
  BY <1>3 DEF HistoryCommits
<1>4. ASSUME NEW x \in Calls, TakeActionLock(x) PROVE Routes'
  BY <1>4 DEF TakeActionLock
<1>5. ASSUME NEW x \in Calls, Connect(x) PROVE Routes'
  BY <1>5 DEF Connect
<1>6. ASSUME NEW x \in Calls, Attach(x) PROVE Routes'
  BY <1>6 DEF Attach
<1>7. ASSUME NEW x \in Calls, CheckContext(x) PROVE Routes'
  BY <1>7 DEF CheckContext
<1>8. ASSUME NEW x \in Calls, DisableRuntime(x) PROVE Routes'
  BY <1>8 DEF DisableRuntime
<1>9. ASSUME NEW x \in Calls, ContextCreated(x) PROVE Routes'
  BY <1>9 DEF ContextCreated
<1>10. ASSUME NEW x \in Calls, ClearStale(x) PROVE Routes'
  BY <1>10 DEF ClearStale
<1>11. ASSUME NEW x \in Calls, Act(x) PROVE Routes'
  BY <1>11 DEF Act
<1>12. ASSUME NEW x \in Calls, Run(x) PROVE Routes'
  BY <1>12 DEF Run
<1>13. ASSUME NEW x \in Calls, ClearHandlers(x) PROVE Routes'
  BY <1>13 DEF ClearHandlers
<1>14. ASSUME NEW x \in Calls, Commits(x) PROVE Routes'
  BY <1>14 DEF Commits
<1>15. ASSUME NEW x \in Calls, StaysInDocument(x) PROVE Routes'
  BY <1>15 DEF StaysInDocument
<1>16. ASSUME NEW x \in Calls, Rejected(x) PROVE Routes'
  BY <1>16 DEF Rejected
<1>17. ASSUME NEW x \in Calls, Dismissed(x) PROVE Routes'
  BY <1>17 DEF Dismissed
<1>18. ASSUME NEW x \in Calls, TimesOut(x) PROVE Routes'
  BY <1>18 DEF TimesOut
<1>19. ASSUME NEW x \in Calls, NavigationLost(x) PROVE Routes'
  BY <1>19 DEF NavigationLost
<1>20. ASSUME NEW x \in Calls, Poll(x) PROVE Routes'
  BY <1>20 DEF Poll
<1>21. ASSUME NEW x \in Calls, Recover(x) PROVE Routes'
  BY <1>21 DEF Recover
<1>22. ASSUME NEW x \in Calls, RestoreHandlers(x) PROVE Routes'
  BY <1>22 DEF RestoreHandlers
<1>23. ASSUME NEW x \in Calls, NEW m \in Methods, NEW p \in Policies, NEW t \in Targets,
            Begin(x, m, p, t)
      PROVE  Routes'
  BY <1>23 DEF Begin
<1>24. CASE UNCHANGED sessionVars
  BY <1>24 DEF sessionVars
<1> QED
  BY ZenonT(60), <1>1, <1>2, <1>3, <1>4, <1>5, <1>6, <1>7, <1>8, <1>9, <1>10, <1>11, <1>12, <1>13, <1>14,
       <1>15, <1>16, <1>17, <1>18, <1>19, <1>20, <1>21, <1>22, <1>23, <1>24 DEF SessionNext, Step

\* Every step keeps the refreshes in step with the reports.
LEMMA RefreshNext ==
    SessionTypeOK /\ Routes /\ RefreshTracksReports /\ [SessionNext]_sessionVars
        => RefreshTracksReports'
<1> SUFFICES ASSUME SessionTypeOK, Routes, RefreshTracksReports, [SessionNext]_sessionVars
         PROVE  RefreshTracksReports'
  OBVIOUS
<1>a. /\ generation \in Nat /\ revision \in Nat
      /\ stale \in [Targets -> 0..revision] /\ refreshed \in [Targets -> BOOLEAN]
      /\ call \in [Calls -> CallState(generation, revision)]
      /\ \A x \in Calls : ~At(x, "idle") => Target(x) \in Targets
  BY SessionProfilesAssumption DEF SessionTypeOK
<1> USE <1>a DEF RefreshTracksReports, At, Target, Goto, End, May, NoCall, Connected, Reattach,
     Finish, PageFails, RestoreFails, Invalidate, NewDocument, MarkStale, Reported, Unlock,
     KeepRuntime, KeepContexts, LosesConnection, CommandFails, CommitsOrNot, Recovers,
     runtimeVars, contextVars, CallState, Nexts
<1>1. ASSUME NEW t \in Targets, Moves(t) PROVE RefreshTracksReports'
  BY <1>1 DEF Moves
<1>2. CASE ConnectionDrops
  BY <1>2 DEF ConnectionDrops
<1>3. ASSUME NEW x \in Calls, HistoryCommits(x) PROVE RefreshTracksReports'
  BY <1>3 DEF HistoryCommits
<1>4. ASSUME NEW x \in Calls, TakeActionLock(x) PROVE RefreshTracksReports'
  BY <1>4 DEF TakeActionLock
<1>5. ASSUME NEW x \in Calls, Connect(x) PROVE RefreshTracksReports'
  BY <1>5 DEF Connect
<1>6. ASSUME NEW x \in Calls, Attach(x) PROVE RefreshTracksReports'
  BY <1>6 DEF Attach
<1>7. ASSUME NEW x \in Calls, CheckContext(x) PROVE RefreshTracksReports'
  BY <1>7 DEF CheckContext
<1>8. ASSUME NEW x \in Calls, DisableRuntime(x) PROVE RefreshTracksReports'
  BY <1>8 DEF DisableRuntime
<1>9. ASSUME NEW x \in Calls, ContextCreated(x) PROVE RefreshTracksReports'
  BY <1>9 DEF ContextCreated
<1>10. ASSUME NEW x \in Calls, ClearStale(x) PROVE RefreshTracksReports'
  BY <1>10 DEF ClearStale, UnchangedSince, Routes
<1>11. ASSUME NEW x \in Calls, Act(x) PROVE RefreshTracksReports'
  BY <1>11 DEF Act
<1>12. ASSUME NEW x \in Calls, Run(x) PROVE RefreshTracksReports'
  <2>1. CASE End(x) /\ KeepContexts
    BY <2>1
  <2>2. CASE MarkStale(Target(x)) /\ call' = Reported(Target(x), [call EXCEPT ![x] = NoCall])
    BY <1>12, <2>2 DEF Run
  <2> QED BY <1>12, <2>1, <2>2 DEF Run
<1>13. ASSUME NEW x \in Calls, ClearHandlers(x) PROVE RefreshTracksReports'
  BY <1>13 DEF ClearHandlers
<1>14. ASSUME NEW x \in Calls, Commits(x) PROVE RefreshTracksReports'
  BY <1>14 DEF Commits, Navigated
<1>15. ASSUME NEW x \in Calls, StaysInDocument(x) PROVE RefreshTracksReports'
  BY <1>15 DEF StaysInDocument, Navigated
<1>16. ASSUME NEW x \in Calls, Rejected(x) PROVE RefreshTracksReports'
  BY <1>16 DEF Rejected
<1>17. ASSUME NEW x \in Calls, Dismissed(x) PROVE RefreshTracksReports'
  BY <1>17 DEF Dismissed
<1>18. ASSUME NEW x \in Calls, TimesOut(x) PROVE RefreshTracksReports'
  BY <1>18 DEF TimesOut
<1>19. ASSUME NEW x \in Calls, NavigationLost(x) PROVE RefreshTracksReports'
  <2>1. UNCHANGED <<stale, revision, refreshed>>
    BY <1>19 DEF NavigationLost
  <2>2. /\ \A y \in Calls \ {x} : call'[y] = call[y]
        /\ call'[x].pc \in {"idle", "connect"}
    BY <1>19 DEF NavigationLost
  <2> QED BY <2>1, <2>2
<1>20. ASSUME NEW x \in Calls, Poll(x) PROVE RefreshTracksReports'
  BY <1>20 DEF Poll
<1>21. ASSUME NEW x \in Calls, Recover(x) PROVE RefreshTracksReports'
  BY <1>21 DEF Recover
<1>22. ASSUME NEW x \in Calls, RestoreHandlers(x) PROVE RefreshTracksReports'
  BY <1>22 DEF RestoreHandlers
<1>23. ASSUME NEW x \in Calls, NEW m \in Methods, NEW p \in Policies, NEW t \in Targets,
            Begin(x, m, p, t)
      PROVE  RefreshTracksReports'
  BY <1>23 DEF Begin
<1>24. CASE UNCHANGED sessionVars
  BY <1>24 DEF sessionVars
<1> QED
  BY <1>1, <1>2, <1>3, <1>4, <1>5, <1>6, <1>7, <1>8, <1>9, <1>10, <1>11, <1>12, <1>13, <1>14,
       <1>15, <1>16, <1>17, <1>18, <1>19, <1>20, <1>21, <1>22, <1>23, <1>24 DEF SessionNext, Step

\* What HandlersAreHeld reads of a call.
Kept(y) == /\ call'[y].pc = call[y].pc /\ call'[y].next = call[y].next
           /\ call'[y].policy = call[y].policy /\ call'[y].target = call[y].target
\* The call holds its target's handlers.
Holds(x) == call[x].policy = "accept" /\ TookHandlers(x)
\* A step of one call that takes no handlers off keeps them held, if it does not
\* let go of those it holds.
LEMMA HeldOn ==
    ASSUME HandlersAreHeld, NEW x \in Calls, \A y \in Calls \ {x} : Kept(y),
           \A t \in Targets : t \notin spoiled' /\ ~page'[t].guarded =>
               t \notin spoiled /\ ~page[t].guarded /\ page'[t].stash = page[t].stash,
           Holds(x) => \/ Holds(x)' /\ call'[x].target = call[x].target
                       \/ Target(x) \in spoiled' \/ page'[Target(x)].guarded
    PROVE  HandlersAreHeld'
BY DEF HandlersAreHeld, Accepting, TookHandlers, Kept, Holds, Target

\* Every step keeps the handlers held.
LEMMA HandlersNext ==
    SessionTypeOK /\ Routes /\ HandlersAreHeld /\ [SessionNext]_sessionVars => HandlersAreHeld'
<1> SUFFICES ASSUME SessionTypeOK, Routes, HandlersAreHeld, [SessionNext]_sessionVars
         PROVE  HandlersAreHeld'
  OBVIOUS
<1>a. /\ call \in [Calls -> CallState(generation, revision)]
      /\ page \in [Targets -> PageState]
      /\ \A x \in Calls : ~At(x, "idle") => Target(x) \in Targets
  BY SessionProfilesAssumption DEF SessionTypeOK
<1> USE <1>a DEF Routes, At, Target, Goto, End, May, NoCall, Connected, Reattach, Finish,
     PageFails, RestoreFails, Invalidate, NewDocument, MarkStale, Reported, Unlock, KeepRuntime,
     KeepContexts, LosesConnection, CommandFails, CommitsOrNot, Recovers, runtimeVars,
     contextVars, CallState, Nexts, Unguarded, Restored, PageState
<1>1. ASSUME NEW t \in Targets, Moves(t) PROVE HandlersAreHeld'
  BY <1>1 DEF Moves, HandlersAreHeld, TookHandlers, Accepting
<1>2. CASE ConnectionDrops
  BY <1>2 DEF ConnectionDrops, HandlersAreHeld, TookHandlers, Accepting
<1>3. ASSUME NEW x \in Calls, HistoryCommits(x) PROVE HandlersAreHeld'
  BY <1>3 DEF HistoryCommits, HandlersAreHeld, TookHandlers, Accepting
<1>4. ASSUME NEW x \in Calls, TakeActionLock(x) PROVE HandlersAreHeld'
  BY <1>4 DEF TakeActionLock, HandlersAreHeld, TookHandlers, Accepting
<1>5. ASSUME NEW x \in Calls, Connect(x) PROVE HandlersAreHeld'
  <2>1. \A y \in Calls \ {x} : Kept(y)
    BY <1>5 DEF Connect, Kept
  <2>2. \A t \in Targets : t \notin spoiled' /\ ~page'[t].guarded =>
               t \notin spoiled /\ ~page[t].guarded /\ page'[t].stash = page[t].stash
    BY <1>5, SMTT(30) DEF Connect
  <2>3. Holds(x) => \/ Holds(x)' /\ call'[x].target = call[x].target
                    \/ Target(x) \in spoiled' \/ page'[Target(x)].guarded
    BY <1>5 DEF Connect, Holds, TookHandlers
  <2> QED BY <2>1, <2>2, <2>3, HeldOn
<1>6. ASSUME NEW x \in Calls, Attach(x) PROVE HandlersAreHeld'
  <2>1. \A y \in Calls \ {x} : Kept(y)
    BY <1>6 DEF Attach, Kept
  <2>2. \A t \in Targets : t \notin spoiled' /\ ~page'[t].guarded =>
               t \notin spoiled /\ ~page[t].guarded /\ page'[t].stash = page[t].stash
    BY <1>6, SMTT(30) DEF Attach
  <2>3. Holds(x) => \/ Holds(x)' /\ call'[x].target = call[x].target
                    \/ Target(x) \in spoiled' \/ page'[Target(x)].guarded
    BY <1>6 DEF Attach, Holds, TookHandlers
  <2> QED BY <2>1, <2>2, <2>3, HeldOn
<1>7. ASSUME NEW x \in Calls, CheckContext(x) PROVE HandlersAreHeld'
  BY <1>7 DEF CheckContext, HandlersAreHeld, TookHandlers, Accepting
<1>8. ASSUME NEW x \in Calls, DisableRuntime(x) PROVE HandlersAreHeld'
  <2>1. \A y \in Calls \ {x} : Kept(y)
    BY <1>8 DEF DisableRuntime, Kept
  <2>2. \A t \in Targets : t \notin spoiled' /\ ~page'[t].guarded =>
               t \notin spoiled /\ ~page[t].guarded /\ page'[t].stash = page[t].stash
    BY <1>8, SMTT(30) DEF DisableRuntime
  <2>3. Holds(x) => \/ Holds(x)' /\ call'[x].target = call[x].target
                    \/ Target(x) \in spoiled' \/ page'[Target(x)].guarded
    BY <1>8 DEF DisableRuntime, Holds, TookHandlers
  <2> QED BY <2>1, <2>2, <2>3, HeldOn
<1>9. ASSUME NEW x \in Calls, ContextCreated(x) PROVE HandlersAreHeld'
  <2>1. \A y \in Calls \ {x} : Kept(y)
    BY <1>9 DEF ContextCreated, Kept
  <2>2. \A t \in Targets : t \notin spoiled' /\ ~page'[t].guarded =>
               t \notin spoiled /\ ~page[t].guarded /\ page'[t].stash = page[t].stash
    BY <1>9, SMTT(30) DEF ContextCreated
  <2>3. Holds(x) => \/ Holds(x)' /\ call'[x].target = call[x].target
                    \/ Target(x) \in spoiled' \/ page'[Target(x)].guarded
    BY <1>9 DEF ContextCreated, Holds, TookHandlers
  <2> QED BY <2>1, <2>2, <2>3, HeldOn
<1>10. ASSUME NEW x \in Calls, ClearStale(x) PROVE HandlersAreHeld'
  <2>1. \A y \in Calls \ {x} : Kept(y)
    BY <1>10 DEF ClearStale, Kept
  <2>2. page' = page /\ spoiled' = spoiled
    BY <1>10 DEF ClearStale
  <2>3. Holds(x) => Holds(x)' /\ call'[x].target = call[x].target
    BY <1>10 DEF ClearStale, Holds, TookHandlers
  <2> QED BY <2>1, <2>2, <2>3, HeldOn
<1>11. ASSUME NEW x \in Calls, Act(x) PROVE HandlersAreHeld'
  <2>1. \A y \in Calls \ {x} : Kept(y)
    BY <1>11 DEF Act, Kept
  <2>2. \A t \in Targets : t \notin spoiled' /\ ~page'[t].guarded =>
               t \notin spoiled /\ ~page[t].guarded /\ page'[t].stash = page[t].stash
    BY <1>11, SMTT(30) DEF Act
  <2>3. Holds(x) => \/ Holds(x)' /\ call'[x].target = call[x].target
                    \/ Target(x) \in spoiled' \/ page'[Target(x)].guarded
    BY <1>11 DEF Act, Holds, TookHandlers
  <2> QED BY <2>1, <2>2, <2>3, HeldOn
<1>12. ASSUME NEW x \in Calls, Run(x) PROVE HandlersAreHeld'
  <2>1. \A y \in Calls \ {x} : Kept(y)
    BY <1>12 DEF Run, Kept
  <2>2. \A t \in Targets : t \notin spoiled' /\ ~page'[t].guarded =>
               t \notin spoiled /\ ~page[t].guarded /\ page'[t].stash = page[t].stash
    BY <1>12, SMTT(30) DEF Run
  <2>3. Holds(x) => \/ Holds(x)' /\ call'[x].target = call[x].target
                    \/ Target(x) \in spoiled' \/ page'[Target(x)].guarded
    BY <1>12 DEF Run, Holds, TookHandlers
  <2> QED BY <2>1, <2>2, <2>3, HeldOn
<1>13. ASSUME NEW x \in Calls, ClearHandlers(x) PROVE HandlersAreHeld'
  <2>1. \A y \in Calls \ {x} : Kept(y)
    BY <1>13 DEF ClearHandlers, Kept
  <2>a. ~Holds(x)
    BY <1>13 DEF ClearHandlers, Holds, TookHandlers
  <2>2. CASE CommandFails(x) /\ End(x) /\ UNCHANGED <<page, spoiled>>
    BY <2>1, <2>2, <2>a, HeldOn
  <2>4. CASE /\ page' = [page EXCEPT ![Target(x)] = Unguarded(@)]
             /\ spoiled' = spoiled \cup {Target(x)}
    <3>1. \A t \in Targets : t \notin spoiled' => t \notin spoiled /\ page'[t] = page[t]
      BY <2>4
    <3> QED BY <2>1, <2>a, <3>1, HeldOn
  <2>3. CASE /\ page' = [page EXCEPT ![Target(x)] = Unguarded(@)]
             /\ spoiled' = IF Accepting(Target(x)) = {x} THEN spoiled
                                                        ELSE spoiled \cup {Target(x)}
             /\ Goto(x, "navigate")
    <3> DEFINE T == Target(x)
    <3>1. /\ page' = [page EXCEPT ![T] = Unguarded(@)] /\ call' = [call EXCEPT ![x].pc = "navigate"]
          /\ spoiled' = IF Accepting(T) = {x} THEN spoiled ELSE spoiled \cup {T}
          /\ T \in Targets /\ call[x].pc = "unguard" /\ call[x].next = "act"
      BY <1>13, <2>3 DEF ClearHandlers
    <3>2. ASSUME NEW t \in Targets \ {T}, t \notin spoiled', ~page'[t].guarded
          PROVE  page'[t].stash = "handlers" /\ \E y \in Accepting(t)' : TookHandlers(y)'
      <4>1. page'[t] = page[t] /\ t \notin spoiled
        BY <3>1, <3>2
      <4>2. PICK y \in Accepting(t) : TookHandlers(y)
        BY <3>2, <4>1 DEF HandlersAreHeld
      <4>3. y \in Accepting(t)' /\ TookHandlers(y)'
        BY <2>1, <3>2, <4>2 DEF Kept, TookHandlers, Accepting
      <4> QED BY <3>2, <4>1, <4>3 DEF HandlersAreHeld
    <3>3. ASSUME NEW t \in {T}, t \notin spoiled'
          PROVE  page'[t].stash = "handlers" /\ \E y \in Accepting(t)' : TookHandlers(y)'
      <4>1. Accepting(t) = {x} /\ t \notin spoiled
        BY <3>1, <3>3 DEF Accepting
      <4>2. page[t].guarded
        BY <3>1, <4>1 DEF HandlersAreHeld, TookHandlers
      <4>3. page'[t].stash = "handlers"
        BY <3>1, <4>2
      <4>4. x \in Accepting(t)' /\ TookHandlers(x)'
        BY <3>1, <4>1 DEF Accepting, TookHandlers
      <4> QED BY <4>3, <4>4
    <3>4. \A t \in Targets : t \in {T} \/ t \in Targets \ {T}
      OBVIOUS
    <3> HIDE DEF T
    <3> QED BY <3>2, <3>3, <3>4 DEF HandlersAreHeld
  <2> QED BY <1>13, <2>2, <2>3, <2>4 DEF ClearHandlers
<1>14. ASSUME NEW x \in Calls, Commits(x) PROVE HandlersAreHeld'
  <2>1. \A y \in Calls \ {x} : Kept(y)
    BY <1>14 DEF Commits, Navigated, Kept
  <2>2. \A t \in Targets : t \notin spoiled' /\ ~page'[t].guarded =>
               t \notin spoiled /\ ~page[t].guarded /\ page'[t].stash = page[t].stash
    BY <1>14, SMTT(30) DEF Commits, Navigated
  <2>3. Holds(x) => \/ Holds(x)' /\ call'[x].target = call[x].target
                    \/ Target(x) \in spoiled' \/ page'[Target(x)].guarded
    BY <1>14 DEF Commits, Navigated, Holds, TookHandlers
  <2> QED BY <2>1, <2>2, <2>3, HeldOn
<1>15. ASSUME NEW x \in Calls, StaysInDocument(x) PROVE HandlersAreHeld'
  <2>1. \A y \in Calls \ {x} : Kept(y)
    BY <1>15 DEF StaysInDocument, Navigated, Kept
  <2>2. \A t \in Targets : t \notin spoiled' /\ ~page'[t].guarded =>
               t \notin spoiled /\ ~page[t].guarded /\ page'[t].stash = page[t].stash
    BY <1>15, SMTT(30) DEF StaysInDocument, Navigated
  <2>3. Holds(x) => \/ Holds(x)' /\ call'[x].target = call[x].target
                    \/ Target(x) \in spoiled' \/ page'[Target(x)].guarded
    BY <1>15 DEF StaysInDocument, Navigated, Holds, TookHandlers
  <2> QED BY <2>1, <2>2, <2>3, HeldOn
<1>16. ASSUME NEW x \in Calls, Rejected(x) PROVE HandlersAreHeld'
  <2>1. \A y \in Calls \ {x} : Kept(y)
    BY <1>16 DEF Rejected, Kept
  <2>2. \A t \in Targets : t \notin spoiled' /\ ~page'[t].guarded =>
               t \notin spoiled /\ ~page[t].guarded /\ page'[t].stash = page[t].stash
    BY <1>16, SMTT(30) DEF Rejected
  <2>3. Holds(x) => \/ Holds(x)' /\ call'[x].target = call[x].target
                    \/ Target(x) \in spoiled' \/ page'[Target(x)].guarded
    BY <1>16 DEF Rejected, Holds, TookHandlers
  <2> QED BY <2>1, <2>2, <2>3, HeldOn
<1>17. ASSUME NEW x \in Calls, Dismissed(x) PROVE HandlersAreHeld'
  BY <1>17 DEF Dismissed, HandlersAreHeld, TookHandlers, Accepting
<1>18. ASSUME NEW x \in Calls, TimesOut(x) PROVE HandlersAreHeld'
  <2>1. \A y \in Calls \ {x} : Kept(y)
    BY <1>18 DEF TimesOut, Kept
  <2>2. \A t \in Targets : t \notin spoiled' /\ ~page'[t].guarded =>
               t \notin spoiled /\ ~page[t].guarded /\ page'[t].stash = page[t].stash
    BY <1>18, SMTT(30) DEF TimesOut
  <2>3. Holds(x) => \/ Holds(x)' /\ call'[x].target = call[x].target
                    \/ Target(x) \in spoiled' \/ page'[Target(x)].guarded
    BY <1>18 DEF TimesOut, Holds, TookHandlers
  <2> QED BY <2>1, <2>2, <2>3, HeldOn
<1>19. ASSUME NEW x \in Calls, NavigationLost(x) PROVE HandlersAreHeld'
  <2>1. \A y \in Calls \ {x} : Kept(y)
    BY <1>19 DEF NavigationLost, Kept
  <2>2. \A t \in Targets : t \notin spoiled' /\ ~page'[t].guarded =>
               t \notin spoiled /\ ~page[t].guarded /\ page'[t].stash = page[t].stash
    BY <1>19, SMTT(30) DEF NavigationLost
  <2>3. Holds(x) => \/ Holds(x)' /\ call'[x].target = call[x].target
                    \/ Target(x) \in spoiled' \/ page'[Target(x)].guarded
    BY <1>19 DEF NavigationLost, Holds, TookHandlers
  <2> QED BY <2>1, <2>2, <2>3, HeldOn
<1>20. ASSUME NEW x \in Calls, Poll(x) PROVE HandlersAreHeld'
  <2>1. \A y \in Calls \ {x} : Kept(y)
    BY <1>20 DEF Poll, Kept
  <2>2. \A t \in Targets : t \notin spoiled' /\ ~page'[t].guarded =>
               t \notin spoiled /\ ~page[t].guarded /\ page'[t].stash = page[t].stash
    BY <1>20, SMTT(30) DEF Poll
  <2>3. Holds(x) => \/ Holds(x)' /\ call'[x].target = call[x].target
                    \/ Target(x) \in spoiled' \/ page'[Target(x)].guarded
    BY <1>20 DEF Poll, Holds, TookHandlers
  <2> QED BY <2>1, <2>2, <2>3, HeldOn
<1>21. ASSUME NEW x \in Calls, Recover(x) PROVE HandlersAreHeld'
  <2>1. \A y \in Calls \ {x} : Kept(y)
    BY <1>21 DEF Recover, Kept
  <2>2. \A t \in Targets : t \notin spoiled' /\ ~page'[t].guarded =>
               t \notin spoiled /\ ~page[t].guarded /\ page'[t].stash = page[t].stash
    BY <1>21, SMTT(30) DEF Recover
  <2>3. Holds(x) => \/ Holds(x)' /\ call'[x].target = call[x].target
                    \/ Target(x) \in spoiled' \/ page'[Target(x)].guarded
    BY <1>21 DEF Recover, Holds, TookHandlers
  <2> QED BY <2>1, <2>2, <2>3, HeldOn
<1>22. ASSUME NEW x \in Calls, RestoreHandlers(x) PROVE HandlersAreHeld'
  <2>1. \A y \in Calls \ {x} : Kept(y)
    BY <1>22 DEF RestoreHandlers, Kept
  <2> DEFINE T == Target(x)
  <2>a. T \in Targets /\ spoiled \subseteq spoiled'
    BY <1>22 DEF RestoreHandlers
  <2>2. CASE page' = [page EXCEPT ![T] = Restored(@)]
    <3>1. T \in spoiled \/ page'[T].guarded
      BY <2>2, <2>a DEF HandlersAreHeld
    <3>2. \A t \in Targets \ {T} : page'[t] = page[t]
      BY <2>2
    <3> QED BY <2>1, <2>a, <3>1, <3>2, HeldOn
  <2>3. CASE /\ page' = page
             /\ RestoreFails(x) \/ spoiled' = spoiled \cup {Target(x)}
    <3>1. Holds(x) => \/ Holds(x)' /\ call'[x].target = call[x].target
                      \/ Target(x) \in spoiled'
      BY <2>3 DEF Holds, TookHandlers
    <3> QED BY <2>1, <2>3, <2>a, <3>1, HeldOn
  <2> QED BY <1>22, <2>2, <2>3 DEF RestoreHandlers
<1>23. ASSUME NEW x \in Calls, NEW m \in Methods, NEW p \in Policies, NEW t \in Targets,
            Begin(x, m, p, t)
      PROVE  HandlersAreHeld'
  <2>1. \A y \in Calls \ {x} : Kept(y)
    BY <1>23 DEF Begin, Kept
  <2>2. \A q \in Targets : q \notin spoiled' /\ ~page'[q].guarded =>
               q \notin spoiled /\ ~page[q].guarded /\ page'[q].stash = page[q].stash
    BY <1>23, SMTT(30) DEF Begin
  <2>3. Holds(x) => \/ Holds(x)' /\ call'[x].target = call[x].target
                    \/ Target(x) \in spoiled' \/ page'[Target(x)].guarded
    BY <1>23 DEF Begin, Holds, TookHandlers
  <2> QED BY <2>1, <2>2, <2>3, HeldOn
<1>24. CASE UNCHANGED sessionVars
  BY <1>24 DEF sessionVars, HandlersAreHeld, TookHandlers, Accepting
<1> QED
  BY <1>1, <1>2, <1>3, <1>4, <1>5, <1>6, <1>7, <1>8, <1>9, <1>10, <1>11, <1>12, <1>13, <1>14,
       <1>15, <1>16, <1>17, <1>18, <1>19, <1>20, <1>21, <1>22, <1>23, <1>24 DEF SessionNext, Step

(***************************************************************************)
(* The theorems.                                                           *)
(***************************************************************************)
\* In every reachable state the runtime, the pages and the calls have the types
\* declared, and an operation under way has a target.
THEOREM TypeCorrect == SessionSpec => []SessionTypeOK
<1>1. SessionInit => SessionTypeOK
  <2> SUFFICES ASSUME SessionInit PROVE SessionTypeOK
    OBVIOUS
  <2>1. NoCall \in CallState(0, 0)
    BY NoneYet
  <2>2. call \in [Calls -> CallState(generation, revision)]
    BY <2>1 DEF SessionInit
  <2>3. \A x \in Calls : ~At(x, "idle") => Target(x) \in Targets
    BY DEF SessionInit, At, NoCall
  <2>4. page \in [Targets -> PageState] /\ generation \in 0..MaxGeneration /\ revision \in 0..MaxRevision
    BY SessionProfilesAssumption DEF SessionInit, PageState
  <2>5. stale \in [Targets -> 0..revision] /\ action_lock \in [Targets -> Calls \cup {None}]
    BY DEF SessionInit
  <2> QED
    BY <2>2, <2>3, <2>4, <2>5 DEF SessionInit, SessionTypeOK
<1> QED BY <1>1, TypeNext, PTL DEF SessionSpec

\* In every reachable state each call is on its route, refreshes track the reports and
\* the handlers taken off a page are held by a navigation (comment of
\* finish_beforeunload_navigation in cdp.rs).
THEOREM SessionInvariant == SessionSpec => [](Routes /\ RefreshTracksReports /\ HandlersAreHeld)
<1>1. SessionInit => Routes /\ RefreshTracksReports /\ HandlersAreHeld
  BY DEF SessionInit, Routes, RefreshTracksReports, HandlersAreHeld, NoCall, At
<1> QED BY <1>1, TypeCorrect, RoutesNext, RefreshNext, HandlersNext, PTL DEF SessionSpec

\* Once no accepting navigation works on a page its document's beforeunload handlers are
\* back, except where two of them overlapped on it, clearing them failed although it had
\* taken effect, or restoring them failed (clear_beforeunload_handlers and the returns
\* after it, finish_beforeunload_navigation, restore_beforeunload_handlers).
THEOREM HandlersComeBack == SessionSpec => []LoneHandlersComeBack
<1>1. HandlersAreHeld => LoneHandlersComeBack
  BY DEF HandlersAreHeld, LoneHandlersComeBack
<1> QED BY <1>1, SessionInvariant, PTL

\* A target without a report of a stale context had its context refreshed, from start to
\* end, since the last report: clear_stale_page_context_if_unchanged never clears a report
\* its refresh has not seen.
THEOREM ReportsLast == SessionSpec => []ReportsLastUntilRefreshed
<1>1. RefreshTracksReports => ReportsLastUntilRefreshed
  BY DEF RefreshTracksReports, ReportsLastUntilRefreshed
<1> QED BY <1>1, SessionInvariant, PTL

-----------------------------------------------------------------------------
(***************************************************************************)
(* Type correctness.  The record types have names here, and every update   *)
(* of a record an action makes stays in its type.                          *)
(***************************************************************************)
Stages == {"start", "connected", "created", "ready", "recording", "engaging", "engaged", "restoring",
        "stopping", "unfocusing", "disabling", "draining", "finishing", "completing",
        "closing", "ended"}
Results   == {"none", "refused", "good", "bad", "cancelled"}
Outcome   == [phase : {"recording", "finalizing"}, failure : BOOLEAN, cancelled : BOOLEAN,
              result : Results, encoded : Nat, trouble : BOOLEAN]
Source    == [state : {"idle", "casting", "stopped", "gone"}, frame : BOOLEAN]
Queue     == [held : BOOLEAN, open : BOOLEAN, accepted : Nat]
Recorder  == [page : {"none", "open", "closed"}, chunks : 0..MaxChunks, data : BOOLEAN,
              media : {"off", "on", "stopping", "done"}]
Focus     == [override : BOOLEAN, emulated : BOOLEAN, hidden : BOOLEAN, echo : BOOLEAN,
              seen : Seq(BOOLEAN)]

TaskTypes ==
    /\ scenario \in Scenario /\ pc \in Stages
    /\ control \in {"record", "stop", "cancel"} /\ outcome \in Outcome
FrameTypes ==
    /\ source \in Source /\ queue \in Queue
    /\ worker \in {"none", "waiting", "pushing", "done", "failed", "aborted"}
RecorderTypes == recorder \in Recorder /\ raw \in {"none", "up", "down"}
StreamTypes ==
    /\ wire \in Seq(Messages) /\ events \in Seq(Messages) /\ Len(events) <= EventCap
    /\ writer \in {"none", "writing", "done", "failed", "aborted"}
    /\ written \in Seq(1..MaxChunks)
FocusTypes == focus \in Focus /\ activation \in {"idle", "shown", "removing"}

Types == TaskTypes /\ FrameTypes /\ RecorderTypes /\ StreamTypes /\ FocusTypes

\* The names are those of the type invariant.
LEMMA TypesNamed == CastTypeOK <=> Types
BY DEF CastTypeOK, Types, TaskTypes, FrameTypes, RecorderTypes, StreamTypes, FocusTypes,
       Stages, Results, Outcome, Source, Queue, Recorder, Focus

\* What the task does to what it knows stays in its type.
LEMMA OutcomeClosed ==
    ASSUME NEW o \in Outcome
    PROVE  /\ \A r \in Results : [o EXCEPT !.result = r] \in Outcome
           /\ Troubled(o) \in Outcome /\ Failing(o) \in Outcome
           /\ [o EXCEPT !.cancelled = TRUE] \in Outcome
           /\ [o EXCEPT !.encoded = @ + 1] \in Outcome
           /\ [o EXCEPT !.failure = o.failure \/ ~o.cancelled, !.trouble = TRUE] \in Outcome
           /\ \A f, c \in BOOLEAN :
                [o EXCEPT !.failure = f, !.cancelled = c,
                          !.phase = IF f \/ c THEN @ ELSE "finalizing"] \in Outcome
<1>1. \A r \in Results : [o EXCEPT !.result = r] \in Outcome
  BY DEF Outcome
<1>2. Troubled(o) \in Outcome
  BY DEF Outcome, Troubled
<1>3. Failing(o) \in Outcome
  BY DEF Outcome, Failing
<1>4. [o EXCEPT !.cancelled = TRUE] \in Outcome
  BY DEF Outcome
<1>5. [o EXCEPT !.encoded = @ + 1] \in Outcome
  BY DEF Outcome
<1>6. [o EXCEPT !.failure = o.failure \/ ~o.cancelled, !.trouble = TRUE] \in Outcome
  BY DEF Outcome
<1>7. ASSUME NEW f \in BOOLEAN, NEW c \in BOOLEAN
      PROVE  [o EXCEPT !.failure = f, !.cancelled = c,
                          !.phase = IF f \/ c THEN @ ELSE "finalizing"] \in Outcome
  BY DEF Outcome
<1> QED BY <1>1, <1>2, <1>3, <1>4, <1>5, <1>6, <1>7

\* So does what becomes of the source and the queue,
LEMMA FrameClosed ==
    ASSUME NEW s \in Source, NEW q \in Queue
    PROVE  /\ [s EXCEPT !.state = "casting"] \in Source /\ [s EXCEPT !.state = "gone"] \in Source
           /\ [s EXCEPT !.state = IF @ = "casting" THEN "stopped" ELSE @] \in Source
           /\ \A b \in BOOLEAN : [s EXCEPT !.frame = b] \in Source
           /\ [q EXCEPT !.held = TRUE, !.accepted = @ + 1] \in Queue
           /\ \A b \in BOOLEAN : [q EXCEPT !.held = b] \in Queue /\ [q EXCEPT !.open = b] \in Queue
<1>1. [s EXCEPT !.state = "casting"] \in Source /\ [s EXCEPT !.state = "gone"] \in Source
  BY DEF Source
<1>2. [s EXCEPT !.state = IF @ = "casting" THEN "stopped" ELSE @] \in Source
  BY DEF Source
<1>3. \A b \in BOOLEAN : [s EXCEPT !.frame = b] \in Source
  BY DEF Source
<1>4. [q EXCEPT !.held = TRUE, !.accepted = @ + 1] \in Queue
  <2>1. q.accepted + 1 \in Nat
    BY DEF Queue
  <2>2. \A n \in Nat : [q EXCEPT !.held = TRUE, !.accepted = n] \in Queue
    BY DEF Queue
  <2> QED BY <2>1, <2>2
<1>5. \A b \in BOOLEAN : [q EXCEPT !.held = b] \in Queue
  BY DEF Queue
<1>6. \A b \in BOOLEAN : [q EXCEPT !.open = b] \in Queue
  BY DEF Queue
<1> QED BY <1>1, <1>2, <1>3, <1>4, <1>5, <1>6

\* of the recorder,
LEMMA RecorderClosed ==
    ASSUME NEW r \in Recorder
    PROVE  /\ [r EXCEPT !.page = "open"] \in Recorder /\ [r EXCEPT !.page = "closed"] \in Recorder
           /\ [r EXCEPT !.media = "on"] \in Recorder /\ [r EXCEPT !.media = "done"] \in Recorder
           /\ [r EXCEPT !.media = IF @ = "on" THEN "stopping" ELSE @] \in Recorder
           /\ [r EXCEPT !.data = @ \/ r.media = "on"] \in Recorder
           /\ r.chunks < MaxChunks =>
                [r EXCEPT !.chunks = @ + 1, !.data = FALSE] \in Recorder
                /\ Chunk(r.chunks + 1) \in Messages
<1>1. [r EXCEPT !.page = "open"] \in Recorder /\ [r EXCEPT !.page = "closed"] \in Recorder
  BY DEF Recorder
<1>2. [r EXCEPT !.media = "on"] \in Recorder /\ [r EXCEPT !.media = "done"] \in Recorder
  BY DEF Recorder
<1>3. [r EXCEPT !.media = IF @ = "on" THEN "stopping" ELSE @] \in Recorder
  BY DEF Recorder
<1>4. [r EXCEPT !.data = @ \/ r.media = "on"] \in Recorder
  BY DEF Recorder
<1>5. ASSUME r.chunks < MaxChunks
      PROVE  /\ [r EXCEPT !.chunks = @ + 1, !.data = FALSE] \in Recorder
             /\ Chunk(r.chunks + 1) \in Messages
  <2>1. r.chunks + 1 \in 1..MaxChunks
    BY <1>5, CastAssumption DEF Recorder
  <2>2. Chunk(r.chunks + 1) \in Messages
    BY <2>1 DEF Messages
  <2>3. \A n \in 0..MaxChunks : [r EXCEPT !.chunks = n, !.data = FALSE] \in Recorder
    BY DEF Recorder
  <2>4. r.chunks + 1 \in 0..MaxChunks
    BY <2>1
  <2> QED BY <2>2, <2>3, <2>4
<1> QED BY <1>1, <1>2, <1>3, <1>4, <1>5

\* of the focus
LEMMA SeeingType ==
    ASSUME NEW g \in Focus, focus \in Focus
    PROVE  Seeing(g) \in Focus
<1>1. Observed(g) \in BOOLEAN
  BY DEF Observed, Focus
<1>2. Append(g.seen, Observed(g)) \in Seq(BOOLEAN)
  BY <1>1 DEF Focus
<1>3. [g EXCEPT !.seen = Append(@, Observed(g))] \in Focus
  BY <1>2 DEF Focus
<1> QED BY <1>3 DEF Seeing

LEMMA FocusClosed ==
    ASSUME focus \in Focus
    PROVE  /\ [focus EXCEPT !.seen = <<Observed(focus)>>] \in Focus
           /\ focus.seen # <<>> =>
                /\ [focus EXCEPT !.seen = Tail(@)] \in Focus
                /\ [focus EXCEPT !.seen = Tail(@), !.override = TRUE, !.echo = TRUE] \in Focus
                /\ [focus EXCEPT !.seen = Tail(@), !.echo = FALSE,
                                 !.override = @ /\ focus.echo] \in Focus
           /\ Seeing([focus EXCEPT !.emulated = TRUE]) \in Focus
           /\ Seeing([focus EXCEPT !.hidden = ~@]) \in Focus
           /\ Seeing([focus EXCEPT !.hidden = FALSE]) \in Focus
           /\ [focus EXCEPT !.echo = FALSE, !.override = FALSE] \in Focus
           /\ [focus EXCEPT !.echo = @ /\ focus.override] \in Focus
           /\ [focus EXCEPT !.override = FALSE] \in Focus
           /\ [focus EXCEPT !.emulated = FALSE, !.hidden = FALSE, !.seen = <<>>] \in Focus
           /\ Disabled \subseteq Focus
<1>1. Observed(focus) \in BOOLEAN /\ <<Observed(focus)>> \in Seq(BOOLEAN)
  BY DEF Observed, Focus
<1>2. focus.seen # <<>> => Tail(focus.seen) \in Seq(BOOLEAN)
  BY DEF Focus
<1>3. \A b \in BOOLEAN : /\ [focus EXCEPT !.emulated = b] \in Focus
                          /\ [focus EXCEPT !.hidden = b] \in Focus
  BY DEF Focus
<1>4. [focus EXCEPT !.hidden = ~@] \in Focus
  BY DEF Focus
<1>5. Disabled \subseteq Focus
  BY <1>3, SeeingType DEF Disabled
<1>6. [focus EXCEPT !.seen = <<Observed(focus)>>] \in Focus
  BY <1>1 DEF Focus
<1>7. focus.seen # <<>> =>
        /\ [focus EXCEPT !.seen = Tail(@)] \in Focus
        /\ [focus EXCEPT !.seen = Tail(@), !.override = TRUE, !.echo = TRUE] \in Focus
        /\ [focus EXCEPT !.seen = Tail(@), !.echo = FALSE, !.override = @ /\ focus.echo] \in Focus
  BY <1>2 DEF Focus
<1>8. /\ [focus EXCEPT !.echo = FALSE, !.override = FALSE] \in Focus
      /\ [focus EXCEPT !.override = FALSE] \in Focus
  BY DEF Focus
<1>9. [focus EXCEPT !.echo = @ /\ focus.override] \in Focus
  BY DEF Focus
<1>10. [focus EXCEPT !.emulated = FALSE, !.hidden = FALSE, !.seen = <<>>] \in Focus
  <2>1. \A q \in Seq(BOOLEAN) :
            [focus EXCEPT !.emulated = FALSE, !.hidden = FALSE, !.seen = q] \in Focus
    BY DEF Focus
  <2>2. <<>> \in Seq(BOOLEAN)
    OBVIOUS
  <2> QED BY <2>1, <2>2
<1> QED BY <1>3, <1>4, <1>5, <1>6, <1>7, <1>8, <1>9, <1>10, SeeingType

\* and of the scenario.
LEMMA ProfileClosed ==
    ASSUME NEW p \in Scenario
    PROVE  /\ p.frames > 0 => [p EXCEPT !.frames = @ - 1] \in Scenario
           /\ p.switches > 0 => [p EXCEPT !.switches = @ - 1] \in Scenario
<1>1. \A n \in Nat : [p EXCEPT !.frames = n] \in Scenario /\ [p EXCEPT !.switches = n] \in Scenario
  BY DEF Scenario
<1>2. (p.frames > 0 => p.frames - 1 \in Nat) /\ (p.switches > 0 => p.switches - 1 \in Nat)
  BY DEF Scenario
<1> QED BY <1>1, <1>2

\* What the recorder sends.
LEMMA MessagesNamed ==
    /\ Done \in Messages /\ Failed \in Messages
    /\ \A m \in Messages : m.kind = "chunk" => m.n \in 1..MaxChunks
    /\ \A m \in Messages : m.kind \in {"chunk", "done", "error"}
BY DEF Messages, Chunk, Done, Failed


LEMMA TypeStep == Types /\ [CastNext]_castVars => Types'
<1> SUFFICES ASSUME Types, [CastNext]_castVars PROVE Types'
  OBVIOUS
<1> USE DEF Types, TaskTypes, FrameTypes, RecorderTypes, StreamTypes, FocusTypes,
            taskVars, frameVars, chunkVars, focusVars
<1>1. CASE ConnectRaw
  <2>1. TaskTypes'
    BY <1>1, OutcomeClosed DEF ConnectRaw, Stages, Results
  <2>2. RecorderTypes'
    BY <1>1, RecorderClosed DEF ConnectRaw
  <2>3. FrameTypes' /\ StreamTypes' /\ FocusTypes'
    BY <1>1 DEF ConnectRaw
  <2> QED BY <2>1, <2>2, <2>3
<1>2. CASE CreateRecorder
  <2>1. TaskTypes'
    BY <1>2, OutcomeClosed DEF CreateRecorder, Stages, Results
  <2>2. RecorderTypes'
    BY <1>2, RecorderClosed DEF CreateRecorder
  <2>3. FrameTypes' /\ StreamTypes' /\ FocusTypes'
    BY <1>2 DEF CreateRecorder
  <2> QED BY <2>1, <2>2, <2>3
<1>3. CASE InitializeRecorder
  <2>1. TaskTypes'
    BY <1>3, OutcomeClosed DEF InitializeRecorder, Stages, Results
  <2>2. RecorderTypes'
    BY <1>3, RecorderClosed DEF InitializeRecorder
  <2>3. FrameTypes' /\ StreamTypes' /\ FocusTypes'
    BY <1>3 DEF InitializeRecorder
  <2> QED BY <2>1, <2>2, <2>3
<1>4. CASE StartSource
  <2>1. TaskTypes'
    BY <1>4, OutcomeClosed DEF StartSource, Stages, Results
  <2>2. FrameTypes'
    BY <1>4, FrameClosed DEF StartSource
  <2>3. StreamTypes'
    BY <1>4 DEF StartSource
  <2>4. FocusTypes'
    BY <1>4, FocusClosed DEF StartSource
  <2>5. RecorderTypes'
    BY <1>4 DEF StartSource
  <2> QED BY <2>1, <2>2, <2>3, <2>4, <2>5
<1>5. CASE StartFails
  <2>1. TaskTypes'
    BY <1>5, OutcomeClosed DEF StartFails, Stages, Results
  <2>2. RecorderTypes'
    BY <1>5, RecorderClosed DEF StartFails
  <2>3. FrameTypes' /\ StreamTypes' /\ FocusTypes'
    BY <1>5 DEF StartFails
  <2> QED BY <2>1, <2>2, <2>3
<1>6. CASE ReachDeadline
  <2>1. TaskTypes'
    BY <1>6, OutcomeClosed DEF ReachDeadline, Leave, Stages, Results
  <2>2. FrameTypes' /\ RecorderTypes' /\ StreamTypes' /\ FocusTypes'
    BY <1>6 DEF ReachDeadline, Leave
  <2> QED BY <2>1, <2>2
<1>7. CASE SeeControl
  <2>1. TaskTypes'
    BY <1>7, OutcomeClosed DEF SeeControl, Leave, Stages, Results
  <2>2. FrameTypes' /\ RecorderTypes' /\ StreamTypes' /\ FocusTypes'
    BY <1>7 DEF SeeControl, Leave
  <2> QED BY <2>1, <2>2
<1>8. CASE LoseSource
  <2>1. TaskTypes'
    BY <1>8, OutcomeClosed DEF LoseSource, Leave, Stages, Results
  <2>2. FrameTypes' /\ RecorderTypes' /\ StreamTypes' /\ FocusTypes'
    BY <1>8 DEF LoseSource, Leave
  <2> QED BY <2>1, <2>2
<1>9. CASE TakeFrame
  <2>1. FrameTypes'
    BY <1>9, FrameClosed DEF TakeFrame
  <2>2. TaskTypes' /\ RecorderTypes' /\ StreamTypes' /\ FocusTypes'
    BY <1>9 DEF TakeFrame
  <2> QED BY <2>1, <2>2
<1>10. CASE SeeHidden
  <2>1. TaskTypes'
    BY <1>10, OutcomeClosed DEF SeeHidden, Stages, Results
  <2>2. FocusTypes'
    BY <1>10, FocusClosed DEF SeeHidden
  <2>3. FrameTypes' /\ RecorderTypes' /\ StreamTypes'
    BY <1>10 DEF SeeHidden
  <2> QED BY <2>1, <2>2, <2>3
<1>11. CASE SeeVisible
  <2>1. TaskTypes'
    BY <1>11, OutcomeClosed DEF SeeVisible, Stages, Results
  <2>2. FocusTypes'
    BY <1>11, FocusClosed DEF SeeVisible
  <2>3. FrameTypes' /\ RecorderTypes' /\ StreamTypes'
    BY <1>11 DEF SeeVisible
  <2> QED BY <2>1, <2>2, <2>3
<1>12. CASE Engage
  <2>1. TaskTypes'
    BY <1>12, OutcomeClosed DEF Engage, Stages, Results
  <2>2. FocusTypes'
    BY <1>12, FocusClosed DEF Engage
  <2>3. FrameTypes' /\ RecorderTypes' /\ StreamTypes'
    BY <1>12 DEF Engage
  <2> QED BY <2>1, <2>2, <2>3
<1>13. CASE CheckEngaged
  <2>1. TaskTypes'
    BY <1>13, OutcomeClosed DEF CheckEngaged, Stages, Results
  <2>2. FocusTypes'
    BY <1>13, FocusClosed DEF CheckEngaged
  <2>3. FrameTypes' /\ RecorderTypes' /\ StreamTypes'
    BY <1>13 DEF CheckEngaged
  <2> QED BY <2>1, <2>2, <2>3
<1>14. CASE Restore
  <2>1. TaskTypes'
    BY <1>14, OutcomeClosed DEF Restore, LeftOn, Stages, Results
  <2>2. FocusTypes'
    BY <1>14, FocusClosed DEF Restore, LeftOn
  <2>3. FrameTypes' /\ RecorderTypes' /\ StreamTypes'
    BY <1>14 DEF Restore, LeftOn
  <2> QED BY <2>1, <2>2, <2>3
<1>15. CASE StopSource
  <2>1. TaskTypes'
    BY <1>15, OutcomeClosed DEF StopSource, SourceErrors, StoppedSource, Stages, Results
  <2>2. FrameTypes'
    BY <1>15, FrameClosed DEF StopSource, SourceErrors, StoppedSource
  <2>3. RecorderTypes' /\ StreamTypes' /\ FocusTypes'
    BY <1>15 DEF StopSource, SourceErrors, StoppedSource
  <2> QED BY <2>1, <2>2, <2>3
<1>16. CASE Unfocus
  <2>1. TaskTypes'
    BY <1>16, OutcomeClosed DEF Unfocus, Stages, Results
  <2>2. FrameTypes'
    BY <1>16, FrameClosed DEF Unfocus
  <2>3. FocusTypes'
    BY <1>16, FocusClosed DEF Unfocus
  <2>4. RecorderTypes' /\ StreamTypes'
    BY <1>16 DEF Unfocus
  <2> QED BY <2>1, <2>2, <2>3, <2>4
<1>17. CASE DisableFocus
  <2>1. TaskTypes'
    BY <1>17, OutcomeClosed DEF DisableFocus, LeftOn, Stages, Results
  <2>2. FrameTypes'
    BY <1>17, FrameClosed DEF DisableFocus, LeftOn
  <2>3. FocusTypes'
    BY <1>17, FocusClosed DEF DisableFocus, LeftOn
  <2>4. RecorderTypes' /\ StreamTypes'
    BY <1>17 DEF DisableFocus, LeftOn
  <2> QED BY <2>1, <2>2, <2>3, <2>4
<1>18. CASE SeeCancel
  <2>1. TaskTypes'
    BY <1>18, OutcomeClosed DEF SeeCancel, Return, Stages, Results
  <2>2. FrameTypes'
    BY <1>18, FrameClosed DEF SeeCancel, Return
  <2>3. StreamTypes'
    BY <1>18 DEF SeeCancel, Return
  <2>4. RecorderTypes' /\ FocusTypes'
    BY <1>18 DEF SeeCancel, Return
  <2> QED BY <2>1, <2>2, <2>3, <2>4
<1>19. CASE Drain
  <2>1. TaskTypes'
    BY <1>19, OutcomeClosed DEF Drain, Drained, Stages, Results
  <2>2. StreamTypes'
    BY <1>19 DEF Drain, Drained
  <2>3. FrameTypes' /\ RecorderTypes' /\ FocusTypes'
    BY <1>19 DEF Drain, Drained
  <2> QED BY <2>1, <2>2, <2>3
<1>20. CASE DrainTimesOut
  <2>1. TaskTypes'
    BY <1>20, OutcomeClosed DEF DrainTimesOut, Drained, Stages, Results
  <2>2. FrameTypes'
    BY <1>20, FrameClosed DEF DrainTimesOut, Drained
  <2>3. StreamTypes'
    BY <1>20 DEF DrainTimesOut, Drained
  <2>4. RecorderTypes' /\ FocusTypes'
    BY <1>20 DEF DrainTimesOut, Drained
  <2> QED BY <2>1, <2>2, <2>3, <2>4
<1>21. CASE FinishRecorder
  <2>1. TaskTypes'
    <3>1. [Troubled(outcome) EXCEPT !.result = "bad"] \in Outcome
      <4>1. Troubled(outcome) \in Outcome
        BY OutcomeClosed
      <4> HIDE DEF Outcome
      <4> QED BY <4>1, OutcomeClosed DEF Results
    <3> QED BY <1>21, <3>1 DEF FinishRecorder, Stages
  <2>2. RecorderTypes'
    BY <1>21, RecorderClosed DEF FinishRecorder
  <2>3. StreamTypes'
    BY <1>21 DEF FinishRecorder
  <2>4. FrameTypes' /\ FocusTypes'
    BY <1>21 DEF FinishRecorder
  <2> QED BY <2>1, <2>2, <2>3, <2>4
<1>22. CASE Complete
  <2>1. TaskTypes'
    <3>1. [Troubled(outcome) EXCEPT !.result = "bad"] \in Outcome
      <4>1. Troubled(outcome) \in Outcome
        BY OutcomeClosed
      <4> HIDE DEF Outcome
      <4> QED BY <4>1, OutcomeClosed DEF Results
    <3>2. \A r \in {"good", "bad"} : [outcome EXCEPT !.result = r] \in Outcome
      BY OutcomeClosed DEF Results
    <3>3. outcome' \in Outcome
      <4>1. \/ \E r \in {"good", "bad"} : outcome' = [outcome EXCEPT !.result = r]
            \/ outcome' = [Troubled(outcome) EXCEPT !.result = "bad"]
        BY <1>22 DEF Complete
      <4> QED BY <3>1, <3>2, <4>1
    <3>4. UNCHANGED <<scenario, control>> /\ pc' = "closing"
      BY <1>22 DEF Complete
    <3> QED BY <3>3, <3>4 DEF Stages
  <2>2. FrameTypes' /\ RecorderTypes' /\ StreamTypes' /\ FocusTypes'
    BY <1>22 DEF Complete
  <2> QED BY <2>1, <2>2
<1>23. CASE CompletionTimesOut
  <2>1. TaskTypes'
    BY <1>23, OutcomeClosed DEF CompletionTimesOut, Stages, Results
  <2>2. StreamTypes'
    BY <1>23 DEF CompletionTimesOut
  <2>3. FrameTypes' /\ RecorderTypes' /\ FocusTypes'
    BY <1>23 DEF CompletionTimesOut
  <2> QED BY <2>1, <2>2, <2>3
<1>24. CASE CloseRecorder
  <2>1. TaskTypes'
    BY <1>24, OutcomeClosed DEF CloseRecorder, Stages, Results
  <2>2. RecorderTypes'
    BY <1>24, RecorderClosed DEF CloseRecorder
  <2>3. StreamTypes'
    BY <1>24 DEF CloseRecorder
  <2>4. FrameTypes' /\ FocusTypes'
    BY <1>24 DEF CloseRecorder
  <2> QED BY <2>1, <2>2, <2>3, <2>4
<1>25. CASE WorkerTakes
  <2>1. FrameTypes'
    BY <1>25, FrameClosed DEF WorkerTakes, OnlyWorker
  <2>2. TaskTypes' /\ RecorderTypes' /\ StreamTypes' /\ FocusTypes'
    BY <1>25 DEF WorkerTakes, OnlyWorker
  <2> QED BY <2>1, <2>2
<1>26. CASE WorkerPushes
  <2>1. TaskTypes'
    BY <1>26, OutcomeClosed DEF WorkerPushes, OnlyWorker, Stages, Results
  <2>2. FrameTypes'
    BY <1>26, FrameClosed DEF WorkerPushes, OnlyWorker
  <2>3. RecorderTypes'
    BY <1>26, RecorderClosed DEF WorkerPushes, OnlyWorker
  <2>4. StreamTypes' /\ FocusTypes'
    BY <1>26 DEF WorkerPushes, OnlyWorker
  <2> QED BY <2>1, <2>2, <2>3, <2>4
<1>27. CASE PushFails
  <2>1. FrameTypes'
    BY <1>27, FrameClosed DEF PushFails, OnlyWorker
  <2>2. RecorderTypes'
    BY <1>27, RecorderClosed DEF PushFails, OnlyWorker
  <2>3. TaskTypes' /\ StreamTypes' /\ FocusTypes'
    BY <1>27 DEF PushFails, OnlyWorker
  <2> QED BY <2>1, <2>2, <2>3
<1>28. CASE WorkerEnds
  <2>1. FrameTypes'
    BY <1>28, FrameClosed DEF WorkerEnds, OnlyWorker
  <2>2. TaskTypes' /\ RecorderTypes' /\ StreamTypes' /\ FocusTypes'
    BY <1>28 DEF WorkerEnds, OnlyWorker
  <2> QED BY <2>1, <2>2
<1>29. CASE EmitChunk
  <2>1. RecorderTypes'
    BY <1>29, RecorderClosed DEF EmitChunk, OnlyRecorder
  <2>2. StreamTypes'
    <3>1. Chunk(recorder.chunks + 1) \in Messages
      BY <1>29, RecorderClosed DEF EmitChunk
    <3>2. Append(wire, Chunk(recorder.chunks + 1)) \in Seq(Messages)
      BY <3>1
    <3> QED BY <1>29, <3>2 DEF EmitChunk, OnlyRecorder
  <2>3. TaskTypes' /\ FrameTypes' /\ FocusTypes'
    BY <1>29 DEF EmitChunk, OnlyRecorder
  <2> QED BY <2>1, <2>2, <2>3
<1>30. CASE EmitDone
  <2>1. RecorderTypes'
    BY <1>30, RecorderClosed DEF EmitDone, OnlyRecorder
  <2>2. StreamTypes'
    BY <1>30, MessagesNamed DEF EmitDone, OnlyRecorder
  <2>3. TaskTypes' /\ FrameTypes' /\ FocusTypes'
    BY <1>30 DEF EmitDone, OnlyRecorder
  <2> QED BY <2>1, <2>2, <2>3
<1>31. CASE EmitError
  <2>1. RecorderTypes'
    BY <1>31, RecorderClosed DEF EmitError, OnlyRecorder
  <2>2. StreamTypes'
    BY <1>31, MessagesNamed DEF EmitError, OnlyRecorder
  <2>3. TaskTypes' /\ FrameTypes' /\ FocusTypes'
    BY <1>31 DEF EmitError, OnlyRecorder
  <2> QED BY <2>1, <2>2, <2>3
<1>32. CASE RecorderGoes
  <2>1. RecorderTypes'
    BY <1>32, RecorderClosed DEF RecorderGoes, OnlyRecorder
  <2>2. TaskTypes' /\ FrameTypes' /\ StreamTypes' /\ FocusTypes'
    BY <1>32 DEF RecorderGoes, OnlyRecorder
  <2> QED BY <2>1, <2>2
<1>33. CASE Forward
  <2>1. RecorderTypes'
    BY <1>33, RecorderClosed DEF Forward, Overflow
  <2>2. StreamTypes'
    <3>1. wire # <<>> /\ Head(wire) \in Messages /\ Tail(wire) \in Seq(Messages)
      BY <1>33 DEF Forward
    <3>2. Len(events) < EventCap => Append(events, Head(wire)) \in Seq(Messages)
                                    /\ Len(Append(events, Head(wire))) <= EventCap
      BY <3>1, CastAssumption
    <3>3. CASE Overflow(Head(wire))
      <4>1. <<>> \in Seq(Messages)
        OBVIOUS
      <4> QED BY <1>33, <3>3, <4>1 DEF Forward, Overflow
    <3>4. CASE Len(events) < EventCap /\ events' = Append(events, Head(wire)) /\ wire' = Tail(wire)
      BY <1>33, <3>1, <3>2, <3>4 DEF Forward
    <3> QED BY <1>33, <3>3, <3>4 DEF Forward
  <2>3. TaskTypes' /\ FrameTypes' /\ FocusTypes'
    BY <1>33 DEF Forward, Overflow
  <2> QED BY <2>1, <2>2, <2>3
<1>34. CASE WriteEvent
  <2>1. StreamTypes'
    <3>1. events # <<>> /\ Head(events) \in Messages /\ Tail(events) \in Seq(Messages)
      BY <1>34 DEF WriteEvent
    <3>2. Len(Tail(events)) <= EventCap
      BY <3>1, CastAssumption
    <3>3. Head(events).kind = "chunk" => Append(written, Head(events).n) \in Seq(1..MaxChunks)
      BY <3>1, MessagesNamed
    <3> QED BY <1>34, <3>1, <3>2, <3>3 DEF WriteEvent, OnlyWriter
  <2>2. TaskTypes' /\ FrameTypes' /\ RecorderTypes' /\ FocusTypes'
    BY <1>34 DEF WriteEvent, OnlyWriter
  <2> QED BY <2>1, <2>2
<1>35. CASE WriterLosesEvents
  <2>1. StreamTypes'
    BY <1>35 DEF WriterLosesEvents, OnlyWriter
  <2>2. TaskTypes' /\ FrameTypes' /\ RecorderTypes' /\ FocusTypes'
    BY <1>35 DEF WriterLosesEvents, OnlyWriter
  <2> QED BY <2>1, <2>2
<1>36. CASE ConnectionLost
  <2>1. RecorderTypes'
    BY <1>36, RecorderClosed DEF ConnectionLost
  <2>2. StreamTypes'
    BY <1>36 DEF ConnectionLost
  <2>3. TaskTypes' /\ FrameTypes' /\ FocusTypes'
    BY <1>36 DEF ConnectionLost
  <2> QED BY <2>1, <2>2, <2>3
<1>37. CASE SendFrame
  <2>1. TaskTypes'
    BY <1>37, ProfileClosed DEF SendFrame, taskVars
  <2>2. FrameTypes'
    BY <1>37, FrameClosed DEF SendFrame
  <2>3. RecorderTypes' /\ StreamTypes' /\ FocusTypes'
    BY <1>37 DEF SendFrame
  <2> QED BY <2>1, <2>2, <2>3
<1>38. CASE SourceCloses
  <2>1. FrameTypes'
    BY <1>38, FrameClosed DEF SourceCloses
  <2>2. FocusTypes'
    BY <1>38, FocusClosed DEF SourceCloses
  <2>3. TaskTypes' /\ RecorderTypes' /\ StreamTypes'
    BY <1>38 DEF SourceCloses
  <2> QED BY <2>1, <2>2, <2>3
<1>39. CASE Controls
  <2>1. TaskTypes'
    BY <1>39, OutcomeClosed DEF Controls, Stages, Results
  <2>2. FrameTypes' /\ RecorderTypes' /\ StreamTypes' /\ FocusTypes'
    BY <1>39 DEF Controls
  <2> QED BY <2>1, <2>2
<1>40. CASE Switch
  <2>1. TaskTypes'
    BY <1>40, ProfileClosed DEF Switch, taskVars
  <2>2. FocusTypes'
    BY <1>40, FocusClosed DEF Switch
  <2>3. FrameTypes' /\ RecorderTypes' /\ StreamTypes'
    BY <1>40 DEF Switch
  <2> QED BY <2>1, <2>2, <2>3
<1>41. CASE Activate
  <2>1. TaskTypes'
    BY <1>41, ProfileClosed DEF Activate, taskVars
  <2>2. FocusTypes'
    BY <1>41, FocusClosed DEF Activate
  <2>3. FrameTypes' /\ RecorderTypes' /\ StreamTypes'
    BY <1>41 DEF Activate
  <2> QED BY <2>1, <2>2, <2>3
<1>42. CASE WithdrawOverride
  <2>1. FocusTypes'
    BY <1>42, FocusClosed DEF WithdrawOverride
  <2>2. TaskTypes' /\ FrameTypes' /\ RecorderTypes' /\ StreamTypes'
    BY <1>42 DEF WithdrawOverride
  <2> QED BY <2>1, <2>2
<1>43. CASE DisableAfterActivation
  <2>1. TaskTypes'
    BY <1>43, OutcomeClosed DEF DisableAfterActivation, LeftOn, Stages, Results
  <2>2. FocusTypes'
    BY <1>43, FocusClosed DEF DisableAfterActivation, LeftOn
  <2>3. FrameTypes' /\ RecorderTypes' /\ StreamTypes'
    BY <1>43 DEF DisableAfterActivation, LeftOn
  <2> QED BY <2>1, <2>2, <2>3
<1>44. CASE UNCHANGED castVars
  <2>1. TaskTypes' /\ FrameTypes' /\ RecorderTypes' /\ StreamTypes' /\ FocusTypes'
    BY <1>44 DEF castVars
  <2> QED BY <2>1
<1> QED
  BY <1>1, <1>2, <1>3, <1>4, <1>5, <1>6, <1>7, <1>8, <1>9, <1>10, <1>11, <1>12, <1>13, <1>14,
     <1>15, <1>16, <1>17, <1>18, <1>19, <1>20, <1>21, <1>22, <1>23, <1>24, <1>25, <1>26, <1>27,
     <1>28, <1>29, <1>30, <1>31, <1>32, <1>33, <1>34, <1>35, <1>36, <1>37, <1>38, <1>39, <1>40,
     <1>41, <1>42, <1>43, <1>44 DEF CastNext, TaskStep, WorkerStep, ConnectionStep, ActivationStep
(***************************************************************************)
(* The invariant.                                                          *)
(***************************************************************************)
Starting == {"start", "connected", "created", "ready"}
Looping  == {"recording", "engaging", "engaged", "restoring"}

\* Where the task stands in its life, and what has not happened by then.
TaskInv ==
    /\ pc \in Starting => /\ worker = "none" /\ writer = "none"
                          /\ ~queue.held /\ queue.accepted = 0 /\ outcome.encoded = 0
    /\ pc = "start" => raw = "none"
    /\ pc \in {"start", "connected", "created"} =>
          recorder.media = "off" /\ recorder.chunks = 0
    /\ pc \in Starting \cup Looping => outcome.phase = "recording"
    /\ pc \notin {"closing", "ended"} => outcome.result = "none"
    /\ pc \in {"finishing", "completing"} => worker = "done"
    /\ recorder.media = "stopping" => worker = "done"

\* Every accepted frame is in the queue, with the worker or encoded, until the
\* worker fails or is aborted.
Count(b) == IF b THEN 1 ELSE 0

FrameInv ==
    /\ worker \notin {"failed", "aborted"} =>
          queue.accepted = outcome.encoded + Count(queue.held) + Count(worker = "pushing")
    /\ worker = "done" => ~queue.held
    /\ recorder.media \in {"on", "stopping"} /\ outcome.encoded > 0 =>
          recorder.data \/ recorder.chunks > 0

\* m may be the k-th message of the recorder.
InPlace(m, k) ==
    \/ m.kind = "chunk" /\ m.n = k /\ k <= recorder.chunks
    \/ /\ m.kind # "chunk" /\ k = recorder.chunks + 1 /\ recorder.media = "done"
       /\ m.kind = "done" => worker = "done" /\ (outcome.encoded > 0 => recorder.chunks > 0)

Counted(n) == [i \in 1..n |-> i]

\* While the writer writes, file, channel and wire hold the recorder's messages
\* one after the other, and all of them while the connection lasts.
Flowing == writer \in {"none", "writing"}

WrittenInPlace == written = Counted(Len(written))
EventsInPlace  == \A i \in 1..Len(events) : InPlace(events[i], Len(written) + i)
WireInPlace    == \A i \in 1..Len(wire) : InPlace(wire[i], Len(written) + Len(events) + i)
NoneMissing    ==
    Len(written) + Len(events) + Len(wire) = recorder.chunks + Count(recorder.media = "done")

\* The writer has seen the end of the recording.
AllWritten ==
    /\ written = Counted(recorder.chunks) /\ recorder.media = "done"
    /\ worker = "done" /\ (outcome.encoded > 0 => recorder.chunks > 0)

ChunkInv ==
    /\ raw # "up" => wire = <<>>
    /\ Flowing => WrittenInPlace /\ EventsInPlace /\ WireInPlace
    /\ Flowing /\ raw # "down" => NoneMissing
    /\ writer = "done" => AllWritten

\* A failure in finalizing is known as trouble, and a result is final.
ResultInv ==
    /\ outcome.phase = "finalizing" /\ outcome.failure => outcome.trouble
    /\ outcome.result = "good" => writer = "done"
    /\ outcome.result = "bad" /\ outcome.phase = "finalizing" =>
          outcome.trouble \/ (outcome.encoded = 0 /\ worker = "done")

\* Whoever leaves the emulation on without the override's record is about to
\* turn it off.
FocusInv ==
    /\ focus.emulated => \/ focus.override \/ outcome.trouble \/ activation = "removing"
                         \/ pc \in {"engaged", "restoring", "disabling"}
    /\ focus.emulated /\ pc = "engaging" => outcome.trouble \/ activation = "removing"

CastInv == Types /\ TaskInv /\ FrameInv /\ ChunkInv /\ ResultInv /\ FocusInv

(***************************************************************************)
(* Every step keeps it.                                                    *)
(***************************************************************************)
\* A frame counts as encoded only when the recorder page has answered.
LEMMA EncodedMoves ==
    ASSUME Types, [CastNext]_castVars
    PROVE  outcome'.encoded = outcome.encoded \/ WorkerPushes
<1> USE DEF Types, TaskTypes, Outcome, Troubled, Failing, taskVars, frameVars, chunkVars, focusVars
<1>1. CASE ConnectRaw
  BY <1>1 DEF ConnectRaw
<1>2. CASE CreateRecorder
  BY <1>2 DEF CreateRecorder
<1>3. CASE InitializeRecorder
  BY <1>3 DEF InitializeRecorder
<1>4. CASE StartSource
  BY <1>4 DEF StartSource
<1>5. CASE StartFails
  BY <1>5 DEF StartFails
<1>6. CASE ReachDeadline
  BY <1>6 DEF ReachDeadline, Leave
<1>7. CASE SeeControl
  BY <1>7 DEF SeeControl, Leave
<1>8. CASE LoseSource
  BY <1>8 DEF LoseSource, Leave
<1>9. CASE SeeHidden
  BY <1>9 DEF SeeHidden
<1>10. CASE SeeVisible
  BY <1>10 DEF SeeVisible
<1>11. CASE Engage
  BY <1>11 DEF Engage
<1>12. CASE CheckEngaged
  BY <1>12 DEF CheckEngaged
<1>13. CASE Restore
  BY <1>13 DEF Restore, LeftOn
<1>14. CASE StopSource
  BY <1>14 DEF StopSource, SourceErrors, StoppedSource
<1>15. CASE Unfocus
  BY <1>15 DEF Unfocus
<1>16. CASE DisableFocus
  BY <1>16 DEF DisableFocus, LeftOn
<1>17. CASE SeeCancel
  BY <1>17 DEF SeeCancel, Return
<1>18. CASE Drain
  BY <1>18 DEF Drain, Drained
<1>19. CASE DrainTimesOut
  BY <1>19 DEF DrainTimesOut, Drained
<1>20. CASE FinishRecorder
  BY <1>20 DEF FinishRecorder
<1>21. CASE Complete
  BY <1>21 DEF Complete
<1>22. CASE CompletionTimesOut
  BY <1>22 DEF CompletionTimesOut
<1>23. CASE CloseRecorder
  BY <1>23 DEF CloseRecorder
<1>24. CASE SendFrame
  BY <1>24 DEF SendFrame
<1>25. CASE Controls
  BY <1>25 DEF Controls
<1>26. CASE Switch
  BY <1>26 DEF Switch
<1>27. CASE Activate
  BY <1>27 DEF Activate
<1>28. CASE DisableAfterActivation
  BY <1>28 DEF DisableAfterActivation, LeftOn
<1>29. CASE TakeFrame \/ WorkerTakes \/ PushFails \/ WorkerEnds \/ EmitChunk \/ EmitDone
            \/ EmitError \/ RecorderGoes \/ Forward \/ WriteEvent \/ WriterLosesEvents
            \/ ConnectionLost \/ SourceCloses \/ WithdrawOverride \/ UNCHANGED castVars
  BY <1>29 DEF ConnectionLost, EmitChunk, EmitDone, EmitError, Forward, OnlyRecorder, OnlyWorker,
     OnlyWriter, Overflow, PushFails, RecorderGoes, SourceCloses, TakeFrame, WithdrawOverride,
     WorkerEnds, WorkerTakes, WriteEvent, WriterLosesEvents, castVars
<1> QED
  BY <1>1, <1>2, <1>3, <1>4, <1>5, <1>6, <1>7, <1>8, <1>9, <1>10, <1>11, <1>12, <1>13, <1>14,
     <1>15, <1>16, <1>17, <1>18, <1>19, <1>20, <1>21, <1>22, <1>23, <1>24, <1>25, <1>26, <1>27,
     <1>28, <1>29 DEF CastNext, TaskStep, WorkerStep, ConnectionStep, ActivationStep

\* The task goes through its life,
LEMMA TaskInvStep == CastInv /\ [CastNext]_castVars => TaskInv'
<1> SUFFICES ASSUME CastInv, [CastNext]_castVars PROVE TaskInv'
  OBVIOUS
<1>1. Types'
  BY TypeStep DEF CastInv
<1>2. outcome'.encoded = outcome.encoded \/ WorkerPushes
  BY EncodedMoves DEF CastInv
<1> USE DEF CastInv, Types, TaskInv, Starting, Looping, Leave, Troubled, Failing, TaskInv,
    Outcome, Queue, Recorder, TaskTypes, FrameTypes, RecorderTypes, StreamTypes, FocusTypes,
    taskVars, frameVars, chunkVars, focusVars
<1>3. CASE ConnectRaw
  BY <1>1, <1>2, <1>3 DEF ConnectRaw
<1>4. CASE CreateRecorder
  BY <1>1, <1>2, <1>4 DEF CreateRecorder
<1>5. CASE InitializeRecorder
  BY <1>1, <1>2, <1>5 DEF InitializeRecorder
<1>6. CASE StartSource
  BY <1>1, <1>2, <1>6 DEF StartSource
<1>7. CASE StartFails
  BY <1>1, <1>2, <1>7 DEF StartFails
<1>8. CASE ReachDeadline
  BY <1>1, <1>2, <1>8 DEF Leave, ReachDeadline
<1>9. CASE SeeControl
  BY <1>1, <1>2, <1>9 DEF Leave, SeeControl
<1>10. CASE LoseSource
  BY <1>1, <1>2, <1>10 DEF Leave, LoseSource
<1>11. CASE TakeFrame
  BY <1>1, <1>2, <1>11 DEF TakeFrame
<1>12. CASE SeeHidden
  BY <1>1, <1>2, <1>12 DEF SeeHidden
<1>13. CASE SeeVisible
  BY <1>1, <1>2, <1>13 DEF SeeVisible
<1>14. CASE Engage
  BY <1>1, <1>2, <1>14 DEF Engage
<1>15. CASE CheckEngaged
  BY <1>1, <1>2, <1>15 DEF CheckEngaged
<1>16. CASE Restore
  BY <1>1, <1>2, <1>16 DEF LeftOn, Restore
<1>17. CASE StopSource
  BY <1>1, <1>2, <1>17 DEF SourceErrors, StopSource, StoppedSource
<1>18. CASE Unfocus
  BY <1>1, <1>2, <1>18 DEF Unfocus
<1>19. CASE DisableFocus
  BY <1>1, <1>2, <1>19 DEF DisableFocus, LeftOn
<1>20. CASE SeeCancel
  BY <1>1, <1>2, <1>20 DEF Return, SeeCancel
<1>21. CASE Drain
  BY <1>1, <1>2, <1>21 DEF Drain, Drained
<1>22. CASE DrainTimesOut
  BY <1>1, <1>2, <1>22 DEF DrainTimesOut, Drained
<1>23. CASE FinishRecorder
  BY <1>1, <1>2, <1>23 DEF FinishRecorder
<1>24. CASE Complete
  BY <1>1, <1>2, <1>24 DEF Complete
<1>25. CASE CompletionTimesOut
  BY <1>1, <1>2, <1>25 DEF CompletionTimesOut
<1>26. CASE CloseRecorder
  BY <1>1, <1>2, <1>26 DEF CloseRecorder
<1>27. CASE WorkerTakes
  BY <1>1, <1>2, <1>27 DEF OnlyWorker, WorkerTakes
<1>28. CASE WorkerPushes
  BY <1>1, <1>2, <1>28 DEF OnlyWorker, WorkerPushes
<1>29. CASE PushFails
  BY <1>1, <1>2, <1>29 DEF OnlyWorker, PushFails
<1>30. CASE WorkerEnds
  BY <1>1, <1>2, <1>30 DEF OnlyWorker, WorkerEnds
<1>31. CASE EmitChunk
  BY <1>1, <1>2, <1>31 DEF EmitChunk, OnlyRecorder
<1>32. CASE EmitDone
  BY <1>1, <1>2, <1>32 DEF EmitDone, OnlyRecorder
<1>33. CASE EmitError
  BY <1>1, <1>2, <1>33 DEF EmitError, OnlyRecorder
<1>34. CASE RecorderGoes
  BY <1>1, <1>2, <1>34 DEF OnlyRecorder, RecorderGoes
<1>35. CASE Forward
  BY <1>1, <1>2, <1>35 DEF Forward, Overflow
<1>36. CASE WriteEvent
  BY <1>1, <1>2, <1>36 DEF OnlyWriter, WriteEvent
<1>37. CASE WriterLosesEvents
  BY <1>1, <1>2, <1>37 DEF OnlyWriter, WriterLosesEvents
<1>38. CASE ConnectionLost
  BY <1>1, <1>2, <1>38 DEF ConnectionLost
<1>39. CASE SendFrame
  BY <1>1, <1>2, <1>39 DEF SendFrame
<1>40. CASE SourceCloses
  BY <1>1, <1>2, <1>40 DEF SourceCloses
<1>41. CASE Controls
  BY <1>1, <1>2, <1>41 DEF Controls
<1>42. CASE Switch
  BY <1>1, <1>2, <1>42 DEF Switch
<1>43. CASE Activate
  BY <1>1, <1>2, <1>43 DEF Activate
<1>44. CASE DisableAfterActivation
  BY <1>1, <1>2, <1>44 DEF DisableAfterActivation, LeftOn
<1>45. CASE WithdrawOverride \/ UNCHANGED castVars
  BY <1>1, <1>2, <1>45 DEF WithdrawOverride, castVars
<1> QED
  BY <1>3, <1>4, <1>5, <1>6, <1>7, <1>8, <1>9, <1>10, <1>11, <1>12, <1>13, <1>14, <1>15, <1>16,
     <1>17, <1>18, <1>19, <1>20, <1>21, <1>22, <1>23, <1>24, <1>25, <1>26, <1>27, <1>28, <1>29,
     <1>30, <1>31, <1>32, <1>33, <1>34, <1>35, <1>36, <1>37, <1>38, <1>39, <1>40, <1>41, <1>42,
     <1>43, <1>44, <1>45 DEF CastNext, TaskStep, WorkerStep, ConnectionStep, ActivationStep

\* no accepted frame is lost on the way to the recorder,
LEMMA FrameInvStep == CastInv /\ [CastNext]_castVars => FrameInv'
<1> SUFFICES ASSUME CastInv, [CastNext]_castVars PROVE FrameInv'
  OBVIOUS
<1>1. Types'
  BY TypeStep DEF CastInv
<1>2. outcome'.encoded = outcome.encoded \/ WorkerPushes
  BY EncodedMoves DEF CastInv
<1>0. outcome.encoded \in Nat /\ queue.accepted \in Nat
  BY DEF CastInv, Types, TaskTypes, FrameTypes, Outcome, Queue
<1> USE <1>0 DEF CastInv, Types, TaskInv, Starting, Looping, Leave, Troubled, Failing, FrameInv,
    Queue, Recorder, Count, TaskTypes, FrameTypes, RecorderTypes, StreamTypes, FocusTypes,
    taskVars, frameVars, chunkVars, focusVars
<1>3. CASE ConnectRaw
  BY <1>1, <1>2, <1>3 DEF ConnectRaw, WorkerPushes, OnlyWorker
<1>4. CASE CreateRecorder
  BY <1>1, <1>2, <1>4 DEF CreateRecorder, WorkerPushes, OnlyWorker
<1>5. CASE InitializeRecorder
  BY <1>1, <1>2, <1>5 DEF InitializeRecorder, WorkerPushes, OnlyWorker
<1>6. CASE StartSource
  BY <1>1, <1>2, <1>6 DEF StartSource, WorkerPushes, OnlyWorker
<1>7. CASE StartFails
  BY <1>1, <1>2, <1>7 DEF StartFails, WorkerPushes, OnlyWorker
<1>8. CASE TakeFrame
  <2>1. CASE UNCHANGED queue
    BY <1>8, <2>1 DEF TakeFrame
  <2>2. CASE /\ ~queue.held /\ worker \in {"waiting", "pushing"}
             /\ queue' = [queue EXCEPT !.held = TRUE, !.accepted = @ + 1]
    <3>1. queue'.held /\ queue'.accepted = queue.accepted + 1
      BY <2>2
    <3>2. UNCHANGED <<outcome, recorder, worker>>
      BY <1>8 DEF TakeFrame
    <3> QED BY <2>2, <3>1, <3>2
  <2> QED BY <1>8, <2>1, <2>2 DEF TakeFrame
<1>9. CASE StopSource
  BY <1>1, <1>2, <1>9 DEF SourceErrors, StopSource, StoppedSource, WorkerPushes, OnlyWorker
<1>10. CASE Unfocus
  BY <1>1, <1>2, <1>10 DEF Unfocus, WorkerPushes, OnlyWorker
<1>11. CASE DisableFocus
  BY <1>1, <1>2, <1>11 DEF DisableFocus, LeftOn, WorkerPushes, OnlyWorker
<1>12. CASE SeeCancel
  BY <1>1, <1>2, <1>12 DEF Return, SeeCancel, WorkerPushes, OnlyWorker
<1>13. CASE DrainTimesOut
  BY <1>1, <1>2, <1>13 DEF DrainTimesOut, Drained, WorkerPushes, OnlyWorker
<1>14. CASE FinishRecorder
  BY <1>1, <1>2, <1>14 DEF FinishRecorder, WorkerPushes, OnlyWorker
<1>15. CASE CloseRecorder
  BY <1>1, <1>2, <1>15 DEF CloseRecorder, WorkerPushes, OnlyWorker
<1>16. CASE WorkerTakes
  BY <1>1, <1>2, <1>16 DEF OnlyWorker, WorkerTakes, WorkerPushes, OnlyWorker
<1>17. CASE WorkerPushes
  BY <1>1, <1>2, <1>17 DEF OnlyWorker, WorkerPushes, Outcome
<1>18. CASE PushFails
  BY <1>1, <1>2, <1>18 DEF OnlyWorker, PushFails, WorkerPushes, OnlyWorker
<1>19. CASE WorkerEnds
  BY <1>1, <1>2, <1>19 DEF OnlyWorker, WorkerEnds, WorkerPushes, OnlyWorker
<1>20. CASE EmitChunk
  BY <1>1, <1>2, <1>20 DEF EmitChunk, OnlyRecorder, WorkerPushes, OnlyWorker
<1>21. CASE EmitDone
  BY <1>1, <1>2, <1>21 DEF EmitDone, OnlyRecorder, WorkerPushes, OnlyWorker
<1>22. CASE EmitError
  BY <1>1, <1>2, <1>22 DEF EmitError, OnlyRecorder, WorkerPushes, OnlyWorker
<1>23. CASE RecorderGoes
  BY <1>1, <1>2, <1>23 DEF OnlyRecorder, RecorderGoes, WorkerPushes, OnlyWorker
<1>24. CASE Forward
  BY <1>1, <1>2, <1>24 DEF Forward, Overflow, WorkerPushes, OnlyWorker
<1>25. CASE ConnectionLost
  BY <1>1, <1>2, <1>25 DEF ConnectionLost, WorkerPushes, OnlyWorker
<1>26. CASE SendFrame
  BY <1>1, <1>2, <1>26 DEF SendFrame, WorkerPushes, OnlyWorker
<1>27. CASE SourceCloses
  BY <1>1, <1>2, <1>27 DEF SourceCloses, WorkerPushes, OnlyWorker
<1>28. CASE ReachDeadline \/ SeeControl \/ LoseSource \/ SeeHidden \/ SeeVisible \/ Engage
            \/ CheckEngaged \/ Restore \/ Drain \/ Complete \/ CompletionTimesOut \/ WriteEvent
            \/ WriterLosesEvents \/ Controls \/ Switch \/ Activate \/ WithdrawOverride
            \/ DisableAfterActivation \/ UNCHANGED castVars
  <2>1. UNCHANGED <<queue, worker, recorder>>
    BY <1>28 DEF Activate, CheckEngaged, Complete, CompletionTimesOut, Controls,
       DisableAfterActivation, Drain, Drained, Engage, Leave, LeftOn, LoseSource, OnlyWriter,
       ReachDeadline, Restore, SeeControl, SeeHidden, SeeVisible, Switch, WithdrawOverride,
       WriteEvent, WriterLosesEvents, castVars
  <2> QED BY <1>2, <2>1 DEF WorkerPushes
<1> QED
  BY <1>3, <1>4, <1>5, <1>6, <1>7, <1>8, <1>9, <1>10, <1>11, <1>12, <1>13, <1>14, <1>15, <1>16,
     <1>17, <1>18, <1>19, <1>20, <1>21, <1>22, <1>23, <1>24, <1>25, <1>26, <1>27,
     <1>28 DEF CastNext, TaskStep, WorkerStep, ConnectionStep, ActivationStep

\* the result says what happened
LEMMA ResultInvStep == CastInv /\ [CastNext]_castVars => ResultInv'
<1> SUFFICES ASSUME CastInv, [CastNext]_castVars PROVE ResultInv'
  OBVIOUS
<1>1. Types'
  BY TypeStep DEF CastInv
<1>2. outcome'.encoded = outcome.encoded \/ WorkerPushes
  BY EncodedMoves DEF CastInv
<1> USE DEF CastInv, Types, TaskInv, Starting, Looping, Leave, Troubled, Failing, ResultInv,
    Outcome, Results, Troubled, Failing, TaskTypes, FrameTypes, RecorderTypes, StreamTypes,
    FocusTypes, taskVars, frameVars, chunkVars, focusVars
<1>3. CASE ConnectRaw
  BY <1>1, <1>2, <1>3 DEF ConnectRaw
<1>4. CASE CreateRecorder
  BY <1>1, <1>2, <1>4 DEF CreateRecorder
<1>5. CASE InitializeRecorder
  BY <1>1, <1>2, <1>5 DEF InitializeRecorder
<1>6. CASE StartSource
  BY <1>1, <1>2, <1>6 DEF StartSource
<1>7. CASE StartFails
  BY <1>1, <1>2, <1>7 DEF StartFails
<1>8. CASE ReachDeadline
  BY <1>1, <1>2, <1>8 DEF Leave, ReachDeadline
<1>9. CASE SeeControl
  BY <1>1, <1>2, <1>9 DEF Leave, SeeControl
<1>10. CASE LoseSource
  BY <1>1, <1>2, <1>10 DEF Leave, LoseSource
<1>11. CASE TakeFrame
  BY <1>1, <1>2, <1>11 DEF TakeFrame
<1>12. CASE SeeHidden
  BY <1>1, <1>2, <1>12 DEF SeeHidden
<1>13. CASE SeeVisible
  BY <1>1, <1>2, <1>13 DEF SeeVisible
<1>14. CASE Engage
  BY <1>1, <1>2, <1>14 DEF Engage
<1>15. CASE CheckEngaged
  BY <1>1, <1>2, <1>15 DEF CheckEngaged
<1>16. CASE Restore
  BY <1>1, <1>2, <1>16 DEF LeftOn, Restore
<1>17. CASE StopSource
  BY ZenonT(60), <1>1, <1>2, <1>17 DEF SourceErrors, StopSource, StoppedSource
<1>18. CASE Unfocus
  BY <1>1, <1>2, <1>18 DEF Unfocus
<1>19. CASE DisableFocus
  BY <1>1, <1>2, <1>19 DEF DisableFocus, LeftOn
<1>20. CASE SeeCancel
  BY <1>1, <1>2, <1>20 DEF Return, SeeCancel
<1>21. CASE Drain
  BY ZenonT(60), <1>1, <1>2, <1>21 DEF Drain, Drained
<1>22. CASE DrainTimesOut
  BY ZenonT(60), <1>1, <1>2, <1>22 DEF DrainTimesOut, Drained
<1>23. CASE FinishRecorder
  BY <1>1, <1>2, <1>23 DEF FinishRecorder
<1>24. CASE Complete
  <2>1. written = <<>> /\ writer = "done" => outcome.encoded = 0 /\ worker = "done"
    <3>1. ASSUME written = <<>>, writer = "done"
          PROVE  /\ recorder.chunks = 0 /\ worker = "done"
                 /\ (outcome.encoded > 0 => recorder.chunks > 0)
      BY <3>1 DEF ChunkInv, AllWritten, Counted, Recorder
    <3> QED BY <3>1
  <2>2. writer = "done" => worker = "done"
    BY DEF ChunkInv, AllWritten
  <2>3. UNCHANGED <<worker, writer>> /\ outcome.result = "none"
    BY <1>24 DEF Complete, chunkVars, frameVars
  <2>4. CASE writer = "done" /\ outcome.encoded > 0 /\ written # <<>>
             /\ outcome' = [outcome EXCEPT !.result = "good"]
    BY <2>3, <2>4
  <2>5. CASE writer = "done" /\ (outcome.encoded = 0 \/ written = <<>>)
             /\ outcome' = [outcome EXCEPT !.result = "bad"]
    BY <2>1, <2>2, <2>3, <2>5
  <2>6. CASE outcome' = [Troubled(outcome) EXCEPT !.result = "bad"]
    BY <2>3, <2>6
  <2> QED BY <1>24, <2>4, <2>5, <2>6 DEF Complete
<1>25. CASE CompletionTimesOut
  BY <1>1, <1>2, <1>25 DEF CompletionTimesOut
<1>26. CASE CloseRecorder
  BY <1>1, <1>2, <1>26 DEF CloseRecorder
<1>27. CASE WorkerTakes
  BY <1>1, <1>2, <1>27 DEF OnlyWorker, WorkerTakes
<1>28. CASE WorkerPushes
  BY <1>1, <1>2, <1>28 DEF OnlyWorker, WorkerPushes
<1>29. CASE PushFails
  BY <1>1, <1>2, <1>29 DEF OnlyWorker, PushFails
<1>30. CASE WorkerEnds
  BY <1>1, <1>2, <1>30 DEF OnlyWorker, WorkerEnds
<1>31. CASE EmitChunk
  BY <1>1, <1>2, <1>31 DEF EmitChunk, OnlyRecorder
<1>32. CASE EmitDone
  BY <1>1, <1>2, <1>32 DEF EmitDone, OnlyRecorder
<1>33. CASE EmitError
  BY <1>1, <1>2, <1>33 DEF EmitError, OnlyRecorder
<1>34. CASE Forward
  BY <1>1, <1>2, <1>34 DEF Forward, Overflow
<1>35. CASE WriteEvent
  BY <1>1, <1>2, <1>35 DEF OnlyWriter, WriteEvent
<1>36. CASE WriterLosesEvents
  BY <1>1, <1>2, <1>36 DEF OnlyWriter, WriterLosesEvents
<1>37. CASE ConnectionLost
  BY <1>1, <1>2, <1>37 DEF ConnectionLost
<1>38. CASE SendFrame
  BY <1>1, <1>2, <1>38 DEF SendFrame
<1>39. CASE SourceCloses
  BY <1>1, <1>2, <1>39 DEF SourceCloses
<1>40. CASE Controls
  BY <1>1, <1>2, <1>40 DEF Controls
<1>41. CASE Switch
  BY <1>1, <1>2, <1>41 DEF Switch
<1>42. CASE Activate
  BY <1>1, <1>2, <1>42 DEF Activate
<1>43. CASE DisableAfterActivation
  BY <1>1, <1>2, <1>43 DEF DisableAfterActivation, LeftOn
<1>44. CASE RecorderGoes \/ WithdrawOverride \/ UNCHANGED castVars
  BY <1>1, <1>2, <1>44 DEF OnlyRecorder, RecorderGoes, WithdrawOverride, castVars
<1> QED
  BY <1>3, <1>4, <1>5, <1>6, <1>7, <1>8, <1>9, <1>10, <1>11, <1>12, <1>13, <1>14, <1>15, <1>16,
     <1>17, <1>18, <1>19, <1>20, <1>21, <1>22, <1>23, <1>24, <1>25, <1>26, <1>27, <1>28, <1>29,
     <1>30, <1>31, <1>32, <1>33, <1>34, <1>35, <1>36, <1>37, <1>38, <1>39, <1>40, <1>41, <1>42,
     <1>43, <1>44 DEF CastNext, TaskStep, WorkerStep, ConnectionStep, ActivationStep

\* and the emulation is not forgotten.
LEMMA FocusInvStep == CastInv /\ [CastNext]_castVars => FocusInv'
<1> SUFFICES ASSUME CastInv, [CastNext]_castVars PROVE FocusInv'
  OBVIOUS
<1>1. Types'
  BY TypeStep DEF CastInv
<1>2. outcome'.encoded = outcome.encoded \/ WorkerPushes
  BY EncodedMoves DEF CastInv
<1> USE DEF CastInv, Types, TaskInv, Starting, Looping, Leave, Troubled, Failing, FocusInv,
    Outcome, Focus, Troubled, Failing, Seeing, Disabled, TaskTypes, FrameTypes, RecorderTypes,
    StreamTypes, FocusTypes, taskVars, frameVars, chunkVars, focusVars
<1>3. CASE ConnectRaw
  BY <1>1, <1>2, <1>3 DEF ConnectRaw
<1>4. CASE CreateRecorder
  BY <1>1, <1>2, <1>4 DEF CreateRecorder
<1>5. CASE InitializeRecorder
  BY <1>1, <1>2, <1>5 DEF InitializeRecorder
<1>6. CASE StartSource
  BY <1>1, <1>2, <1>6 DEF StartSource
<1>7. CASE StartFails
  BY <1>1, <1>2, <1>7 DEF StartFails
<1>8. CASE ReachDeadline
  BY <1>1, <1>2, <1>8 DEF Leave, ReachDeadline
<1>9. CASE SeeControl
  BY <1>1, <1>2, <1>9 DEF Leave, SeeControl
<1>10. CASE LoseSource
  BY <1>1, <1>2, <1>10 DEF Leave, LoseSource
<1>11. CASE SeeHidden
  BY <1>1, <1>2, <1>11 DEF SeeHidden
<1>12. CASE SeeVisible
  BY <1>1, <1>2, <1>12 DEF SeeVisible
<1>13. CASE Engage
  BY <1>1, <1>2, <1>13 DEF Engage
<1>14. CASE CheckEngaged
  BY <1>1, <1>2, <1>14 DEF CheckEngaged
<1>15. CASE Restore
  BY <1>1, <1>2, <1>15 DEF LeftOn, Restore
<1>16. CASE StopSource
  BY <1>1, <1>2, <1>16 DEF SourceErrors, StopSource, StoppedSource
<1>17. CASE Unfocus
  BY <1>1, <1>2, <1>17 DEF Unfocus
<1>18. CASE DisableFocus
  BY <1>1, <1>2, <1>18 DEF DisableFocus, LeftOn
<1>19. CASE SeeCancel
  BY <1>1, <1>2, <1>19 DEF Return, SeeCancel
<1>20. CASE Drain
  BY ZenonT(60), <1>1, <1>2, <1>20 DEF Drain, Drained
<1>21. CASE DrainTimesOut
  BY <1>1, <1>2, <1>21 DEF DrainTimesOut, Drained
<1>22. CASE FinishRecorder
  BY <1>1, <1>2, <1>22 DEF FinishRecorder
<1>23. CASE Complete
  BY <1>1, <1>2, <1>23 DEF Complete
<1>24. CASE CompletionTimesOut
  BY <1>1, <1>2, <1>24 DEF CompletionTimesOut
<1>25. CASE CloseRecorder
  BY <1>1, <1>2, <1>25 DEF CloseRecorder
<1>26. CASE WorkerPushes
  BY <1>1, <1>2, <1>26 DEF OnlyWorker, WorkerPushes
<1>27. CASE SendFrame
  BY <1>1, <1>2, <1>27 DEF SendFrame
<1>28. CASE SourceCloses
  BY <1>1, <1>2, <1>28 DEF SourceCloses
<1>29. CASE Controls
  BY <1>1, <1>2, <1>29 DEF Controls
<1>30. CASE Switch
  BY <1>1, <1>2, <1>30 DEF Switch
<1>31. CASE Activate
  BY <1>1, <1>2, <1>31 DEF Activate
<1>32. CASE WithdrawOverride
  BY <1>1, <1>2, <1>32 DEF WithdrawOverride
<1>33. CASE DisableAfterActivation
  BY <1>1, <1>2, <1>33 DEF DisableAfterActivation, LeftOn
<1>34. CASE TakeFrame \/ WorkerTakes \/ PushFails \/ WorkerEnds \/ EmitChunk \/ EmitDone
            \/ EmitError \/ RecorderGoes \/ Forward \/ WriteEvent \/ WriterLosesEvents
            \/ ConnectionLost \/ UNCHANGED castVars
  BY <1>1, <1>2, <1>34 DEF ConnectionLost, EmitChunk, EmitDone, EmitError, Forward, OnlyRecorder,
     OnlyWorker, OnlyWriter, Overflow, PushFails, RecorderGoes, TakeFrame, WorkerEnds,
     WorkerTakes, WriteEvent, WriterLosesEvents, castVars
<1> QED
  BY <1>3, <1>4, <1>5, <1>6, <1>7, <1>8, <1>9, <1>10, <1>11, <1>12, <1>13, <1>14, <1>15, <1>16,
     <1>17, <1>18, <1>19, <1>20, <1>21, <1>22, <1>23, <1>24, <1>25, <1>26, <1>27, <1>28, <1>29,
     <1>30, <1>31, <1>32, <1>33, <1>34 DEF CastNext, TaskStep, WorkerStep, ConnectionStep,
     ActivationStep

\* A step that neither emits, carries nor writes.
Quiet ==
    /\ UNCHANGED <<wire, events, written>>
    /\ raw' # "up" => wire = <<>>
    /\ raw' # "down" => raw # "down"
    /\ recorder'.chunks = recorder.chunks
    /\ recorder'.media = "done" <=> recorder.media = "done"
    /\ writer' \in {"none", "writing"} => writer \in {"none", "writing"}
    /\ writer' = "done" => writer = "done"

\* A recorder's output and a worker that is done stay what they are.
GoesOn ==
    /\ recorder.chunks <= recorder'.chunks
    /\ recorder.media = "done" => recorder'.media = "done" /\ recorder'.chunks = recorder.chunks
    /\ worker = "done" => worker' = "done" /\ outcome'.encoded = outcome.encoded

LEMMA Onward ==
    ASSUME CastInv, [CastNext]_castVars
    PROVE  GoesOn
<1>1. outcome'.encoded = outcome.encoded \/ WorkerPushes
  BY EncodedMoves DEF CastInv
<1> USE <1>1 DEF CastInv, Types, FrameTypes, RecorderTypes, TaskInv, Starting, Recorder, GoesOn
<1>2. ASSUME ConnectRaw PROVE GoesOn
  BY <1>2 DEF ConnectRaw, WorkerPushes, OnlyWorker, frameVars, chunkVars
<1>3. ASSUME CreateRecorder PROVE GoesOn
  BY <1>3 DEF CreateRecorder, WorkerPushes, OnlyWorker, frameVars, chunkVars
<1>4. ASSUME InitializeRecorder PROVE GoesOn
  BY <1>4 DEF InitializeRecorder, WorkerPushes, OnlyWorker, frameVars, chunkVars
<1>5. ASSUME StartSource PROVE GoesOn
  BY <1>5 DEF StartSource, WorkerPushes, OnlyWorker, frameVars, chunkVars
<1>6. ASSUME StartFails PROVE GoesOn
  BY <1>6 DEF StartFails, WorkerPushes, OnlyWorker, frameVars, chunkVars
<1>7. ASSUME TakeFrame PROVE GoesOn
  BY <1>7 DEF TakeFrame, WorkerPushes, OnlyWorker, frameVars, chunkVars
<1>8. ASSUME StopSource PROVE GoesOn
  BY <1>8 DEF SourceErrors, StopSource, StoppedSource, WorkerPushes, OnlyWorker, frameVars,
     chunkVars
<1>9. ASSUME Unfocus PROVE GoesOn
  BY <1>9 DEF Unfocus, WorkerPushes, OnlyWorker, frameVars, chunkVars
<1>10. ASSUME DisableFocus PROVE GoesOn
  BY <1>10 DEF DisableFocus, LeftOn, WorkerPushes, OnlyWorker, frameVars, chunkVars
<1>11. ASSUME SeeCancel PROVE GoesOn
  BY <1>11 DEF Return, SeeCancel, WorkerPushes, OnlyWorker, frameVars, chunkVars
<1>12. ASSUME DrainTimesOut PROVE GoesOn
  BY <1>12 DEF DrainTimesOut, Drained, WorkerPushes, OnlyWorker, frameVars, chunkVars
<1>13. ASSUME FinishRecorder PROVE GoesOn
  BY <1>13 DEF FinishRecorder, WorkerPushes, OnlyWorker, frameVars, chunkVars
<1>14. ASSUME CloseRecorder PROVE GoesOn
  BY <1>14 DEF CloseRecorder, WorkerPushes, OnlyWorker, frameVars, chunkVars
<1>15. ASSUME WorkerTakes PROVE GoesOn
  BY <1>15 DEF OnlyWorker, WorkerTakes, WorkerPushes, OnlyWorker, frameVars, chunkVars
<1>16. ASSUME WorkerPushes PROVE GoesOn
  BY <1>16 DEF OnlyWorker, WorkerPushes, frameVars, chunkVars
<1>17. ASSUME PushFails PROVE GoesOn
  BY <1>17 DEF OnlyWorker, PushFails, WorkerPushes, OnlyWorker, frameVars, chunkVars
<1>18. ASSUME WorkerEnds PROVE GoesOn
  BY <1>18 DEF OnlyWorker, WorkerEnds, WorkerPushes, OnlyWorker, frameVars, chunkVars
<1>19. ASSUME EmitChunk PROVE GoesOn
  BY <1>19 DEF EmitChunk, OnlyRecorder, WorkerPushes, OnlyWorker, frameVars, chunkVars
<1>20. ASSUME EmitDone PROVE GoesOn
  BY <1>20 DEF EmitDone, OnlyRecorder, WorkerPushes, OnlyWorker, frameVars, chunkVars
<1>21. ASSUME EmitError PROVE GoesOn
  BY <1>21 DEF EmitError, OnlyRecorder, WorkerPushes, OnlyWorker, frameVars, chunkVars
<1>22. ASSUME RecorderGoes PROVE GoesOn
  BY <1>22 DEF OnlyRecorder, RecorderGoes, WorkerPushes, OnlyWorker, frameVars, chunkVars
<1>23. ASSUME Forward PROVE GoesOn
  BY <1>23 DEF Forward, Overflow, WorkerPushes, OnlyWorker, frameVars, chunkVars
<1>24. ASSUME ConnectionLost PROVE GoesOn
  BY <1>24 DEF ConnectionLost, WorkerPushes, OnlyWorker, frameVars, chunkVars
<1>25. ASSUME SendFrame PROVE GoesOn
  BY <1>25 DEF SendFrame, WorkerPushes, OnlyWorker, frameVars, chunkVars
<1>26. ASSUME SourceCloses PROVE GoesOn
  BY <1>26 DEF SourceCloses, WorkerPushes, OnlyWorker, frameVars, chunkVars
<1>27. ASSUME ReachDeadline \/ SeeControl \/ LoseSource \/ SeeHidden \/ SeeVisible \/ Engage
              \/ CheckEngaged \/ Restore \/ Drain \/ Complete \/ CompletionTimesOut \/ WriteEvent
              \/ WriterLosesEvents \/ Controls \/ Switch \/ Activate \/ WithdrawOverride
              \/ DisableAfterActivation \/ UNCHANGED castVars
       PROVE  GoesOn
  <2>1. UNCHANGED <<queue, worker, recorder>>
    BY <1>27 DEF frameVars, chunkVars, Activate, CheckEngaged, Complete, CompletionTimesOut,
       Controls, DisableAfterActivation, Drain, Drained, Engage, Leave, LeftOn, LoseSource,
       OnlyWriter, ReachDeadline, Restore, SeeControl, SeeHidden, SeeVisible, Switch,
       WithdrawOverride, WriteEvent, WriterLosesEvents, castVars
  <2> QED BY <2>1 DEF WorkerPushes
<1>28. GoesOn
  <2> HIDE <1>1 DEF CastInv, Types, FrameTypes, RecorderTypes, TaskInv, Starting, Recorder, GoesOn
  <2> QED
    BY <1>2, <1>3, <1>4, <1>5, <1>6, <1>7, <1>8, <1>9, <1>10, <1>11, <1>12, <1>13, <1>14, <1>15,
       <1>16, <1>17, <1>18, <1>19, <1>20, <1>21, <1>22, <1>23, <1>24, <1>25, <1>26,
       <1>27 DEF CastNext, TaskStep, WorkerStep, ConnectionStep, ActivationStep
<1> QED BY <1>28

\* What is in its place stays there.
LEMMA PlacesStay ==
    ASSUME CastInv, [CastNext]_castVars
    PROVE  /\ \A k \in Nat : \A m : InPlace(m, k) => InPlace(m, k)'
           /\ worker = "done" => worker' = "done" /\ outcome'.encoded = outcome.encoded
<1>1. recorder'.chunks \in Nat /\ recorder.chunks \in Nat
  BY TypeStep DEF CastInv, Types, RecorderTypes, Recorder
<1> QED BY <1>1, Onward DEF GoesOn, InPlace


\* Then the messages stay in order;
LEMMA QuietKeeps ==
    ASSUME CastInv, Quiet, Types',
           \A k \in Nat : \A m : InPlace(m, k) => InPlace(m, k)',
           worker = "done" => worker' = "done" /\ outcome'.encoded = outcome.encoded
    PROVE  ChunkInv'
<1>1. Len(written) \in Nat /\ Len(events) \in Nat /\ Len(wire) \in Nat
  BY DEF CastInv, Types, StreamTypes
<1>2. raw' # "up" => wire' = <<>>
  BY DEF Quiet
<1>3. ASSUME Flowing' PROVE WrittenInPlace' /\ EventsInPlace' /\ WireInPlace'
  <2>1. Flowing /\ UNCHANGED <<wire, events, written>>
    BY <1>3 DEF Flowing, Quiet
  <2>2. WrittenInPlace /\ EventsInPlace /\ WireInPlace
    BY <2>1 DEF CastInv, ChunkInv
  <2>3. EventsInPlace'
    BY <1>1, <2>1, <2>2 DEF EventsInPlace
  <2>4. WireInPlace'
    BY <1>1, <2>1, <2>2 DEF WireInPlace
  <2> QED BY <2>1, <2>2, <2>3, <2>4 DEF WrittenInPlace, Counted
<1>4. Flowing' /\ raw' # "down" => NoneMissing'
  BY DEF Flowing, Quiet, CastInv, ChunkInv, NoneMissing, Count
<1>5. writer' = "done" => AllWritten'
  BY DEF Quiet, CastInv, ChunkInv, AllWritten, Counted
<1> QED BY <1>2, <1>3, <1>4, <1>5 DEF ChunkInv

\* The recorder emits m.
Emitted(m) ==
    /\ recorder.media \in {"on", "stopping"} /\ raw = "up"
    /\ wire' = Append(wire, m)
    /\ UNCHANGED <<events, written, writer, raw, worker, outcome>>
    /\ \/ /\ m = Chunk(recorder.chunks + 1)
          /\ recorder'.chunks = recorder.chunks + 1 /\ recorder'.media = recorder.media
       \/ /\ m = Done /\ worker = "done" /\ (outcome.encoded > 0 => recorder.chunks > 0)
          /\ recorder'.chunks = recorder.chunks /\ recorder'.media = "done"
       \/ /\ m = Failed
          /\ recorder'.chunks = recorder.chunks /\ recorder'.media = "done"

\* they do with one more,
LEMMA EmissionKeeps ==
    ASSUME CastInv, [CastNext]_castVars, NEW m, Emitted(m)
    PROVE  ChunkInv'
<1>1. Types' /\ Types
  BY TypeStep DEF CastInv
<1>2. /\ \A k \in Nat : \A n : InPlace(n, k) => InPlace(n, k)'
      /\ worker = "done" => worker' = "done" /\ outcome'.encoded = outcome.encoded
  BY PlacesStay
<1>3. Len(written) \in Nat /\ Len(events) \in Nat /\ Len(wire) \in Nat /\ recorder.chunks \in Nat
  BY <1>1 DEF Types, StreamTypes, RecorderTypes, Recorder
<1>4. PICK k \in Nat : k = recorder.chunks + 1
  BY <1>3
<1>5. ASSUME Flowing PROVE WrittenInPlace' /\ EventsInPlace' /\ WireInPlace' /\ NoneMissing'
  <2>1. WrittenInPlace /\ EventsInPlace /\ WireInPlace /\ NoneMissing
    BY <1>5 DEF Emitted, CastInv, ChunkInv
  <2>2. WrittenInPlace' /\ EventsInPlace'
    BY <1>2, <1>3, <2>1 DEF Emitted, WrittenInPlace, EventsInPlace, Counted
  <2>3. Len(written) + Len(events) + Len(wire) = recorder.chunks
    BY <1>3, <2>1 DEF Emitted, NoneMissing, Count
  <2>4. InPlace(m, k)'
    BY <1>3, <1>4 DEF Emitted, InPlace, Chunk, Done, Failed
  <2>5. Len(wire') = Len(wire) + 1 /\ wire'[Len(wire) + 1] = m
        /\ \A i \in 1..Len(wire) : wire'[i] = wire[i]
    BY <1>1 DEF Emitted, Types, StreamTypes
  <2>6. WireInPlace'
    <3> SUFFICES ASSUME NEW i \in 1..Len(wire')
                 PROVE  InPlace(wire[i], Len(written) + Len(events) + i)'
      BY DEF WireInPlace
    <3>1. CASE i \in 1..Len(wire)
      <4>1. PICK p \in Nat : p = Len(written) + Len(events) + i
        BY <1>3
      <4>2. InPlace(wire[i], p)
        BY <2>1, <3>1, <4>1 DEF WireInPlace
      <4>3. InPlace(wire[i], p)'
        BY <1>2, <2>5, <3>1, <4>2
      <4> QED BY <4>1, <4>3 DEF Emitted
    <3>2. CASE i = Len(wire) + 1
      BY <1>3, <1>4, <2>3, <2>4, <2>5, <3>2 DEF Emitted
    <3> QED BY <1>3, <2>5, <3>1, <3>2
  <2>7. NoneMissing'
    BY <1>3, <2>3, <2>5 DEF Emitted, NoneMissing, Count
  <2> QED BY <2>2, <2>6, <2>7
<1>6. writer' # "done"
  BY DEF Emitted, CastInv, ChunkInv, AllWritten
<1>7. raw' = "up" /\ (Flowing' => Flowing)
  BY DEF Emitted, Flowing
<1> QED BY <1>5, <1>6, <1>7 DEF ChunkInv

\* The connection ends with what is on the wire.
Cut ==
    /\ wire' = <<>> /\ raw' = "down"
    /\ UNCHANGED <<events, written, writer>>

LEMMA CutKeeps ==
    ASSUME CastInv, [CastNext]_castVars, Cut
    PROVE  ChunkInv'
<1>1. Types
  BY DEF CastInv
<1>2. \A k \in Nat : \A n : InPlace(n, k) => InPlace(n, k)'
  BY PlacesStay
<1>3. Len(written) \in Nat /\ Len(events) \in Nat
  BY <1>1 DEF Types, StreamTypes
<1>4. ASSUME Flowing PROVE WrittenInPlace' /\ EventsInPlace' /\ WireInPlace'
  <2>1. WrittenInPlace /\ EventsInPlace
    BY <1>4 DEF CastInv, ChunkInv
  <2> QED BY <1>2, <1>3, <2>1 DEF Cut, WrittenInPlace, EventsInPlace, WireInPlace, Counted
<1>5. writer = "done" => AllWritten'
  <2>1. worker = "done" => worker' = "done" /\ outcome'.encoded = outcome.encoded
    BY PlacesStay
  <2>2. recorder.media = "done" => recorder'.media = "done" /\ recorder'.chunks = recorder.chunks
    BY Onward DEF GoesOn
  <2> QED BY <2>1, <2>2 DEF Cut, CastInv, ChunkInv, AllWritten, Counted
<1> QED BY <1>4, <1>5 DEF Cut, ChunkInv, Flowing

\* when one goes from the wire to the channel
LEMMA ForwardKeeps ==
    ASSUME CastInv, Forward, [CastNext]_castVars
    PROVE  ChunkInv'
<1>1. Types
  BY DEF CastInv
<1>2. CASE Overflow(Head(wire))
  BY <1>2, CutKeeps DEF Cut, Overflow, Forward
<1>3. CASE Len(events) < EventCap /\ writer \in {"none", "writing"}
           /\ events' = Append(events, Head(wire)) /\ wire' = Tail(wire) /\ raw' = raw
  <2>1. /\ wire # <<>> /\ raw = "up" /\ UNCHANGED <<recorder, writer, written, worker, outcome>>
    BY <1>3 DEF Forward, taskVars, frameVars
  <2>2. WrittenInPlace /\ EventsInPlace /\ WireInPlace /\ NoneMissing
    BY <1>3, <2>1 DEF CastInv, ChunkInv, Flowing
  <2>3. Len(written) \in Nat /\ Len(events) \in Nat /\ Len(wire) \in Nat \ {0}
    BY <1>1, <2>1 DEF Types, StreamTypes
  <2>4. \A k \in Nat : \A n : InPlace(n, k) => InPlace(n, k)'
    BY PlacesStay
  <2>5. /\ Len(events') = Len(events) + 1 /\ events'[Len(events) + 1] = wire[1]
        /\ \A i \in 1..Len(events) : events'[i] = events[i]
    BY <1>1, <1>3, <2>1 DEF Types, StreamTypes
  <2>6. /\ Len(wire') = Len(wire) - 1
        /\ \A i \in 1..Len(wire') : wire'[i] = wire[i + 1]
    BY <1>1, <1>3, <2>1 DEF Types, StreamTypes
  <2>7. EventsInPlace'
    <3> SUFFICES ASSUME NEW i \in 1..Len(events') PROVE InPlace(events[i], Len(written) + i)'
      BY DEF EventsInPlace
    <3>1. CASE i \in 1..Len(events)
      BY SMTT(30), <2>1, <2>2, <2>3, <2>4, <2>5, <3>1 DEF EventsInPlace
    <3>2. CASE i = Len(events) + 1
      <4>1. /\ InPlace(wire[1], Len(written) + Len(events) + 1)
            /\ Len(written) + Len(events) + 1 \in Nat
        BY <2>2, <2>3 DEF WireInPlace
      <4>2. Len(written) + i = Len(written) + Len(events) + 1
        BY <2>3, <3>2
      <4> QED BY <2>1, <2>4, <2>5, <3>2, <4>1, <4>2
    <3> QED BY <2>3, <2>5, <3>1, <3>2
  <2>8. WireInPlace'
    <3> SUFFICES ASSUME NEW i \in 1..Len(wire')
                 PROVE  InPlace(wire[i], Len(written) + Len(events) + i)'
      BY DEF WireInPlace
    <3>1. i + 1 \in 1..Len(wire) /\ wire'[i] = wire[i + 1]
      BY <2>3, <2>6
    <3>2. InPlace(wire[i + 1], Len(written) + Len(events) + (i + 1))
      BY <2>2, <3>1 DEF WireInPlace
    <3>3. Len(written') + Len(events') + i = Len(written) + Len(events) + (i + 1)
          /\ Len(written) + Len(events) + (i + 1) \in Nat
      BY <2>1, <2>3, <2>5, <3>1
    <3> QED BY <2>4, <3>1, <3>2, <3>3
  <2>9. NoneMissing'
    BY <2>1, <2>2, <2>3, <2>5, <2>6 DEF NoneMissing
  <2> QED BY <1>3, <2>1, <2>2, <2>7, <2>8, <2>9 DEF ChunkInv, WrittenInPlace
<1> QED BY <1>2, <1>3 DEF Forward

\* and from there into the file.
LEMMA WriteKeeps ==
    ASSUME CastInv, WriteEvent, [CastNext]_castVars
    PROVE  ChunkInv'
<1>1. Types
  BY DEF CastInv
<1>2. writer = "writing" /\ events # <<>> /\ events' = Tail(events)
      /\ UNCHANGED <<recorder, raw, wire, worker, outcome>>
  BY DEF WriteEvent, OnlyWriter, taskVars, frameVars
<1>3. /\ WrittenInPlace /\ EventsInPlace /\ WireInPlace
      /\ raw # "up" => wire = <<>>
      /\ raw # "down" => NoneMissing
  BY <1>2 DEF CastInv, ChunkInv, Flowing
<1>4. /\ Len(written) \in Nat /\ Len(events) \in Nat \ {0} /\ Len(wire) \in Nat
      /\ recorder.chunks \in Nat
  BY <1>1, <1>2 DEF Types, StreamTypes, RecorderTypes, Recorder
<1>5. InPlace(Head(events), Len(written) + 1)
  BY <1>2, <1>3, <1>4 DEF EventsInPlace
<1>6. CASE /\ Head(events).kind = "chunk" /\ written' = Append(written, Head(events).n)
           /\ writer' = writer
  <2>1. Head(events).n = Len(written) + 1
    BY <1>5, <1>6 DEF InPlace
  <2>2. /\ Len(written') = Len(written) + 1 /\ written'[Len(written) + 1] = Len(written) + 1
        /\ \A i \in 1..Len(written) : written'[i] = written[i]
        /\ DOMAIN written' = 1..Len(written')
    BY <1>1, <1>6, <2>1 DEF Types, StreamTypes
  <2>3. /\ Len(events') = Len(events) - 1
        /\ \A i \in 1..Len(events') : events'[i] = events[i + 1]
    BY <1>1, <1>2 DEF Types, StreamTypes
  <2>4. \A k \in Nat : \A n : InPlace(n, k) => InPlace(n, k)'
    BY PlacesStay
  <2>5. WrittenInPlace'
    <3>1. written' = Append(Counted(Len(written)), Len(written) + 1)
      BY <1>3, <1>6, <2>1 DEF WrittenInPlace
    <3>2. Append(Counted(Len(written)), Len(written) + 1) = Counted(Len(written) + 1)
      BY <1>4 DEF Counted
    <3> QED BY <2>2, <3>1, <3>2 DEF WrittenInPlace, Counted
  <2>6. EventsInPlace'
    <3> SUFFICES ASSUME NEW i \in 1..Len(events') PROVE InPlace(events[i], Len(written) + i)'
      BY DEF EventsInPlace
    <3>1. i + 1 \in 1..Len(events) /\ events'[i] = events[i + 1]
      BY <1>4, <2>3
    <3>2. InPlace(events[i + 1], Len(written) + (i + 1))
      BY <1>3, <3>1 DEF EventsInPlace
    <3>3. Len(written') + i = Len(written) + (i + 1) /\ Len(written) + (i + 1) \in Nat
      BY <1>4, <2>2, <3>1
    <3> QED BY <2>4, <3>1, <3>2, <3>3
  <2>7. WireInPlace'
    <3>1. Len(written') + Len(events') = Len(written) + Len(events)
      BY <1>4, <2>2, <2>3
    <3> SUFFICES ASSUME NEW i \in 1..Len(wire)
                 PROVE  InPlace(wire[i], Len(written) + Len(events) + i)'
      BY <1>2 DEF WireInPlace
    <3>2. InPlace(wire[i], Len(written) + Len(events) + i) /\ Len(written) + Len(events) + i \in Nat
      BY <1>3, <1>4 DEF WireInPlace
    <3> QED BY <1>2, <2>4, <3>1, <3>2
  <2>8. raw # "down" => NoneMissing'
    BY <1>2, <1>3, <1>4, <2>2, <2>3 DEF NoneMissing
  <2> QED BY <1>2, <1>3, <1>6, <2>5, <2>6, <2>7, <2>8 DEF ChunkInv
<1>7. CASE Head(events).kind = "done" /\ writer' = "done" /\ written' = written
  <2>1. AllWritten
    BY <1>3, <1>4, <1>5, <1>7 DEF InPlace, AllWritten, WrittenInPlace
  <2>2. AllWritten'
    BY <1>2, <1>7, <2>1 DEF AllWritten, Counted
  <2> QED BY <1>2, <1>3, <1>7, <2>2 DEF ChunkInv, Flowing
<1>8. CASE writer' = "failed"
  BY <1>2, <1>3, <1>8 DEF ChunkInv, Flowing
<1> QED BY <1>6, <1>7, <1>8 DEF WriteEvent

\* The messages, step by step.
LEMMA ChunkInvStep == CastInv /\ [CastNext]_castVars => ChunkInv'
<1> SUFFICES ASSUME CastInv, [CastNext]_castVars PROVE ChunkInv'
  OBVIOUS
<1>1. Types /\ TaskInv /\ FrameInv /\ (raw # "up" => wire = <<>>)
  BY DEF CastInv, ChunkInv
<1>2. pc = "connected" => wire = <<>>
  <2>1. ASSUME pc = "connected" PROVE Len(wire) = 0
    <3>1. recorder.chunks = 0 /\ recorder.media # "done" /\ writer = "none"
      BY <1>1, <2>1 DEF TaskInv, Starting
    <3>2. raw \in {"none", "up"} => NoneMissing
      BY <3>1 DEF CastInv, ChunkInv, Flowing
    <3>3. raw = "down" => wire = <<>>
      BY <1>1
    <3> QED BY <1>1, <3>1, <3>2, <3>3 DEF NoneMissing, Count, Types, StreamTypes, RecorderTypes
  <2> QED BY <1>1, <2>1 DEF Types, StreamTypes
<1>3. ASSUME ConnectRaw PROVE Quiet
  BY <1>1, <1>2, <1>3 DEF ConnectRaw, Quiet, TaskInv, Starting, Types, RecorderTypes, Recorder,
     chunkVars
<1>4. ASSUME CreateRecorder PROVE Quiet
  BY <1>1, <1>2, <1>4 DEF CreateRecorder, Quiet, TaskInv, Starting, Types, RecorderTypes,
     Recorder, chunkVars
<1>5. ASSUME InitializeRecorder PROVE Quiet
  BY <1>1, <1>2, <1>5 DEF InitializeRecorder, Quiet, TaskInv, Starting, Types, RecorderTypes,
     Recorder, chunkVars
<1>6. ASSUME StartSource PROVE Quiet
  BY <1>1, <1>2, <1>6 DEF StartSource, Quiet, TaskInv, Starting, Types, RecorderTypes, Recorder,
     chunkVars
<1>7. ASSUME StartFails PROVE Quiet
  BY <1>1, <1>2, <1>7 DEF StartFails, Quiet, TaskInv, Starting, Types, RecorderTypes, Recorder,
     chunkVars
<1>8. ASSUME SeeCancel PROVE Quiet
  BY <1>1, <1>2, <1>8 DEF Return, SeeCancel, Quiet, TaskInv, Starting, Types, RecorderTypes,
     Recorder, chunkVars
<1>9. ASSUME Drain PROVE Quiet
  BY <1>1, <1>2, <1>9 DEF Drain, Drained, Quiet, TaskInv, Starting, Types, RecorderTypes,
     Recorder, chunkVars
<1>10. ASSUME DrainTimesOut PROVE Quiet
  BY <1>1, <1>2, <1>10 DEF DrainTimesOut, Drained, Quiet, TaskInv, Starting, Types, RecorderTypes,
     Recorder, chunkVars
<1>11. ASSUME FinishRecorder PROVE Quiet
  BY <1>1, <1>2, <1>11 DEF FinishRecorder, Quiet, TaskInv, Starting, Types, RecorderTypes,
     Recorder, chunkVars
<1>12. ASSUME CompletionTimesOut PROVE Quiet
  BY <1>1, <1>2, <1>12 DEF CompletionTimesOut, Quiet, TaskInv, Starting, Types, RecorderTypes,
     Recorder, chunkVars
<1>13. ASSUME WorkerPushes PROVE Quiet
  BY <1>1, <1>2, <1>13 DEF OnlyWorker, WorkerPushes, Quiet, TaskInv, Starting, Types,
     RecorderTypes, Recorder, chunkVars
<1>14. ASSUME PushFails PROVE Quiet
  BY <1>1, <1>2, <1>14 DEF OnlyWorker, PushFails, Quiet, TaskInv, Starting, Types, RecorderTypes,
     Recorder, chunkVars
<1>15. ASSUME RecorderGoes PROVE Quiet
  BY <1>1, <1>2, <1>15 DEF OnlyRecorder, RecorderGoes, Quiet, TaskInv, Starting, Types,
     RecorderTypes, Recorder, chunkVars
<1>16. ASSUME WriterLosesEvents PROVE Quiet
  BY <1>1, <1>2, <1>16 DEF OnlyWriter, WriterLosesEvents, Quiet, TaskInv, Starting, Types,
     RecorderTypes, Recorder, chunkVars
<1>17. ASSUME ReachDeadline \/ SeeControl \/ LoseSource \/ TakeFrame \/ SeeHidden \/ SeeVisible
              \/ Engage \/ CheckEngaged \/ Restore \/ StopSource \/ Unfocus \/ DisableFocus
              \/ Complete \/ WorkerTakes \/ WorkerEnds \/ SendFrame \/ SourceCloses \/ Controls
              \/ Switch \/ Activate \/ WithdrawOverride \/ DisableAfterActivation
              \/ UNCHANGED castVars
       PROVE  Quiet
  <2>1. UNCHANGED chunkVars
    BY <1>17 DEF castVars, Activate, CheckEngaged, Complete, Controls, DisableAfterActivation,
       DisableFocus, Engage, Leave, LeftOn, LoseSource, OnlyWorker, ReachDeadline, Restore,
       SeeControl, SeeHidden, SeeVisible, SendFrame, SourceCloses, SourceErrors, StopSource,
       StoppedSource, Switch, TakeFrame, Unfocus, WithdrawOverride, WorkerEnds, WorkerTakes,
       castVars, chunkVars
  <2> QED BY <1>1, <2>1 DEF Quiet, chunkVars, Types, RecorderTypes
<1>18. ASSUME Quiet PROVE ChunkInv'
  BY <1>18, QuietKeeps, PlacesStay, TypeStep DEF CastInv
<1>19. ASSUME EmitChunk PROVE ChunkInv'
  <2>1. Emitted(Chunk(recorder.chunks + 1))
    BY <1>1, <1>19 DEF EmitChunk, Emitted, OnlyRecorder, TaskInv, FrameInv, taskVars, frameVars,
       Types, RecorderTypes, Recorder, TaskTypes, Outcome
  <2> QED BY <2>1, EmissionKeeps
<1>20. ASSUME EmitDone PROVE ChunkInv'
  <2>1. Emitted(Done)
    BY <1>1, <1>20 DEF EmitDone, Emitted, OnlyRecorder, TaskInv, FrameInv, taskVars, frameVars,
       Types, RecorderTypes, Recorder, TaskTypes, Outcome
  <2> QED BY <2>1, EmissionKeeps
<1>21. ASSUME EmitError PROVE ChunkInv'
  <2>1. Emitted(Failed)
    BY <1>1, <1>21 DEF EmitError, Emitted, OnlyRecorder, TaskInv, FrameInv, taskVars, frameVars,
       Types, RecorderTypes, Recorder, TaskTypes, Outcome
  <2> QED BY <2>1, EmissionKeeps
<1>22. ASSUME CloseRecorder \/ ConnectionLost PROVE ChunkInv'
  <2>1. Cut
    BY <1>22 DEF CloseRecorder, ConnectionLost, Cut
  <2> QED BY <2>1, CutKeeps
<1> QED
  BY ForwardKeeps, WriteKeeps, <1>3, <1>4, <1>5, <1>6, <1>7, <1>8, <1>9, <1>10, <1>11, <1>12,
     <1>13, <1>14, <1>15, <1>16, <1>17, <1>18, <1>19, <1>20, <1>21, <1>22 DEF CastNext, TaskStep,
     WorkerStep, ConnectionStep, ActivationStep

\* A screencast starts in the invariant
LEMMA CastStart == CastInit => CastInv
<1> SUFFICES ASSUME CastInit PROVE CastInv
  OBVIOUS
<1>1. Types
  <2>1. TaskTypes
    BY CastAssumption DEF CastInit, TaskTypes, Stages, Outcome, Results
  <2>2. FrameTypes /\ RecorderTypes
    BY CastAssumption DEF CastInit, FrameTypes, Source, Queue, RecorderTypes, Recorder
  <2>3. StreamTypes
    BY CastAssumption DEF CastInit, StreamTypes
  <2>4. FocusTypes
    <3>1. <<>> \in Seq(BOOLEAN)
      OBVIOUS
    <3> QED BY <3>1 DEF CastInit, FocusTypes, Focus
  <2> QED BY <2>1, <2>2, <2>3, <2>4 DEF Types
<1>2. TaskInv /\ FrameInv
  BY DEF CastInit, TaskInv, FrameInv, Starting, Looping, Count
<1>3. ChunkInv
  BY DEF CastInit, ChunkInv, Flowing, WrittenInPlace, EventsInPlace, WireInPlace, NoneMissing,
     Counted, Count
<1>4. ResultInv /\ FocusInv
  BY DEF CastInit, ResultInv, FocusInv
<1> QED BY <1>1, <1>2, <1>3, <1>4 DEF CastInv

\* and stays in it.
LEMMA CastStep == CastInv /\ [CastNext]_castVars => CastInv'
BY TypeStep, TaskInvStep, FrameInvStep, ChunkInvStep, ResultInvStep, FocusInvStep DEF CastInv

\* Every reachable state of a screencast is well typed; in particular the channel
\* to the writer never holds more than it can (RECORDER_EVENT_CHANNEL_CAPACITY).
THEOREM CastTypes == CastSpec => []CastTypeOK
<1>1. CastInv => CastTypeOK
  BY TypesNamed DEF CastInv
<1> QED BY <1>1, CastStart, CastStep, PTL DEF CastSpec

\* A file that becomes an artifact is whole, and a recording that got as far as
\* finalizing is lost only when something failed or nothing was encoded
\* (run_streaming_screencast, write_screencast_chunks).
THEOREM RecordingsAreWhole == CastSpec => []FinalizedAsRecorded
<1>1. CastInv => FinalizedAsRecorded
  <2> SUFFICES ASSUME CastInv PROVE FinalizedAsRecorded
    OBVIOUS
  <2>1. ASSUME outcome.result = "good"
        PROVE  written = [i \in 1..recorder.chunks |-> i]
               /\ recorder.media = "done" /\ outcome.encoded = queue.accepted
    <3>1. AllWritten
      BY <2>1 DEF CastInv, ResultInv, ChunkInv
    <3>2. outcome.encoded = queue.accepted
      BY <3>1 DEF AllWritten, CastInv, FrameInv, Count, Types, TaskTypes, FrameTypes, Outcome,
         Queue
    <3> QED BY <3>1, <3>2 DEF AllWritten, Counted
  <2>2. outcome.result = "bad" /\ outcome.phase = "finalizing" =>
            outcome.trouble \/ outcome.encoded = 0
    BY DEF CastInv, ResultInv
  <2> QED BY <2>1, <2>2 DEF FinalizedAsRecorded
<1> QED BY <1>1, CastStart, CastStep, PTL DEF CastSpec

\* Focus emulation that has_focus does not know of is about to be turned off, or
\* could not be (has_focus, activate_target, run_streaming_screencast).
THEOREM LiesEnd == CastSpec => []LiesAreTakenBack
<1>1. CastInv => LiesAreTakenBack
  BY DEF CastInv, FocusInv, LiesAreTakenBack, HasFocus
<1> QED BY <1>1, CastStart, CastStep, PTL DEF CastSpec
====
