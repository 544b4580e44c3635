------------------------- MODULE BrokerTabsProofs -------------------------
(***************************************************************************)
(* Proofs about BrokerTabs: the broker runs the registry as it is meant to *)
(* be run; requests in flight outlive the sweep; pages are closed for      *)
(* their owners; the sweep and the claims meet only the pages they may.    *)
(*                                                                         *)
(* BrokerInv, the inductive invariant, says what a request carries by      *)
(* where it is, that a session's count is the number of its registered     *)
(* requests and each of them was touched within a TTL, that a close under  *)
(* way is its owner's with its target barred to everybody else, and that   *)
(* the duty to close a page goes back to the broker having opened it.      *)
(***************************************************************************)
EXTENDS BrokerTabs, LeaseRegistryProofs

\* What a request carries, by where it is.
RequestShape(r) ==
    LET m == req[r].method
    IN  /\ At(r, "idle") => ~req[r].guarded
        /\ ~At(r, "idle") => /\ req[r].session \in Sessions
                             /\ sessions[req[r].session].status # "unissued"
        /\ ~At(r, "idle") /\ ~req[r].guarded => m = "start_with_url"
        /\ m \in TabMethods => req[r].tab \in Tabs
        /\ m \in TargetMethods => req[r].target \in Targets
        /\ At(r, "register") => m # "start_with_url"
        /\ At(r, "create") \/ At(r, "lease") => m \in {"new_tab", "start_with_url"}
        /\ At(r, "claim") => m \in TargetMethods
        /\ At(r, "release") => m \in {"release_tab", "preserve_tab"}
        /\ At(r, "reserve") \/ At(r, "closing") \/ At(r, "commit") => m = "close_tab"
        /\ At(r, "reconcile") => m \in {"list_tabs", "act_on_tab"}
        /\ At(r, "check") => m = "act_on_tab"
        /\ At(r, "finish") \/ At(r, "drop") => m = "none"
        /\ At(r, "lease") \/ At(r, "closing") \/ At(r, "commit") => req[r].target \in Targets
        /\ m \in profile.methods \cup {"none"}

\* The sweep's reading of the clock, and the close it is about to report.
SweepShape == /\ sweep.now <= clock
              /\ sweep.pc = "report" => sweep.close \in sweep_closes
              /\ ~Sweeps => sweep.pc = "idle" /\ sweep_closes = {}
ShapeInv == BrokerTypeOK /\ SweepShape /\ \A r \in Requests : RequestShape(r)

Registered(r) == req[r].guarded /\ ~At(r, "register")
InFlight(s) == {r \in Requests : Registered(r) /\ req[r].session = s}

InFlightInv ==
    /\ \A s \in Sessions : in_flight_sessions[s] = Cardinality(InFlight(s))
    /\ \A r \in Requests : At(r, "register") /\ Live(req[r].session) =>
          clock <= sessions[req[r].session].updated_at + Ttl
    /\ sweep.pc = "expire" =>
          \A r \in Requests : Registered(r) /\ Live(req[r].session) =>
              \/ req[r].session \in sweep.skip
              \/ sweep.now <= sessions[req[r].session].updated_at + Ttl

\* A tab's close is under way: its owner's, on its target.
Closer(q) == At(q, "closing") \/ At(q, "commit")
Ours(q) == /\ leases[req[q].tab].owner = req[q].session
           /\ leases[req[q].tab].target = req[q].target
           /\ Known(req[q].tab) /\ Live(req[q].session)
\* Nobody gets at the target b is closing.
Barred(t, b) == /\ pending_target_closes[t] = b
                /\ active_target_owners[t] \in {None, b}
                /\ cleanup_owned_targets[t] # None => cleanup_owned_targets[t].tab = b
\* Two closes under way never meet.
Apart(r) == /\ \A q \in Requests \ {r} : At(q, "closing") => req[q].target # req[r].target
            /\ \A q \in Requests : At(q, "commit") => req[q].tab # req[r].tab

CloseInv ==
    \A r \in Requests :
        /\ Closer(r) => Ours(r)
        /\ At(r, "closing") => Barred(req[r].target, req[r].tab) /\ Apart(r)
        /\ At(r, "commit") /\ leases[req[r].tab].state = "active"
              => Barred(req[r].target, req[r].tab)

OriginInv ==
    /\ \A t \in Targets : page[t] = "unborn" <=> origin[t] = "none"
    /\ \A t \in Targets : cleanup_owned_targets[t] # None => origin[t] = "vbl"
    /\ \A c \in sweep_closes : origin[c.target] = "vbl"
    /\ \A r \in Requests : At(r, "lease") => origin[req[r].target] = "vbl"

\* Nobody gets a lease on a page between its creation and its creator's lease.
CreatorsLeaseFirst ==
    \A r \in Requests, b \in Tabs : At(r, "lease") => leases[b].target # req[r].target

\* Leases and claims are of pages that have been opened.
LeasedInv ==
    /\ \A r \in Requests : At(r, "claim") => page[req[r].target] # "unborn"
    /\ \A b \in Tabs : leases[b].target # None => page[leases[b].target] # "unborn"

\* Nobody has to clean t up, nor ever will.
Spare(t) ==
    /\ cleanup_owned_targets[t] = None
    /\ \A c \in sweep_closes : c.target # t
    /\ page[t] # "unborn"
    /\ \A r \in Requests : At(r, "lease") => req[r].target # t
GivenUp(t) == t \in preserved \/ \E b \in Tabs : leases[b].state = "missing" /\ leases[b].target = t
SpareInv == \A t \in Targets : GivenUp(t) => Spare(t)

Closes == "close_tab" \in profile.methods
ClaimInv ==
    /\ Managed => \A r \in Requests : At(r, "claim") =>
          page_lifecycle = r /\ page[req[r].target] # "closed"
    /\ ~Closes => \A t \in Targets : page[t] = "closed" =>
          \/ t \in expired_closed_targets
          \/ sweep.pc = "report" /\ sweep.close.target = t /\ sweep.closed

\* Every step of the broker is a step of the registry, or none: its requests and its
\* sweep call the registry's methods with arguments the methods accept.
LEMMA StepsTheRegistry == ShapeInv /\ [BrokerNext]_brokerVars => [Next]_vars
<1> SUFFICES ASSUME ShapeInv, [BrokerNext]_brokerVars PROVE [Next]_vars
  OBVIOUS
<1> USE
  DEF ShapeInv, SweepShape, RequestShape, At, Handles, registryVars, OnlyRequests,
      NoBrowserWork, OnlySweep
<1>1. ASSUME NEW r \in Requests, Register(r) \/ DropGuard(r) \/ EnsureSession(r) \/
             CreatePageFails(r) \/ LeaseCreatedRefused(r) \/ LookUpClaim(r) \/ ClaimFails(r) \/
             ValidateRelease(r) \/ ReleaseRefused(r) \/ ValidateClose(r) \/
             ReserveRefused(r) \/ ClosePage(r) \/ ReadInventory(r)
      PROVE  [Next]_vars
  BY <1>1
  DEF Register, DropGuard, EnsureSession, CreatePageFails, LeaseCreatedRefused, LookUpClaim,
      ClaimFails, ValidateRelease, ReleaseRefused, ValidateClose, ReserveRefused, ClosePage,
      ReadInventory
<1>2. CASE SweepReadClock \/ SweepReadInFlight
  BY <1>2
  DEF SweepReadClock, SweepReadInFlight
<1>3. ASSUME NEW r \in Requests, NEW m \in profile.methods \ {"start_session", "start_with_url"},
             NEW s \in Sessions, NEW b \in Maybe(Tabs), NEW t \in Maybe(Targets),
             (m \in TabMethods) = (b # None), (m \in TargetMethods) = (t # None),
             Dispatch(r, m, s, b, t)
      PROVE  [Next]_vars
  BY <1>3 DEF Dispatch, Next, SessionNext
<1>4. ASSUME NEW r \in Requests, NEW m \in profile.methods \cap {"start_session", "start_with_url"},
             NEW s \in Sessions, DispatchStartSession(r, s, m)
      PROVE  [Next]_vars
  BY <1>4 DEF DispatchStartSession, Next, SessionNext, Maybe
<1>5. ASSUME NEW r \in Requests, FinalTouch(r)
      PROVE  [Next]_vars
  BY <1>5 DEF FinalTouch, Next, SessionNext
<1>6. ASSUME NEW r \in Requests, Release(r)
      PROVE  [Next]_vars
  <2>1. req[r].session \in Sessions /\ req[r].tab \in Tabs
    BY <1>6 DEF Release, TabMethods
  <2> DEFINE s == req[r].session
             b == req[r].tab
  <2>2. \E leave \in BOOLEAN : ReleaseTab(s, b, leave)
    BY <1>6 DEF Release
  <2> HIDE DEF s, b
  <2> QED BY <2>1, <2>2 DEF s, b, Next, TabNext
<1>7. ASSUME NEW r \in Requests, Reserve(r)
      PROVE  [Next]_vars
  <2>1. req[r].session \in Sessions /\ req[r].tab \in Tabs
    BY <1>7 DEF Reserve, TabMethods
  <2> DEFINE s == req[r].session
             b == req[r].tab
  <2>2. ReserveOwnedTabClose(s, b)
    BY <1>7 DEF Reserve
  <2> QED BY <2>1, <2>2 DEF Next, TabNext
<1>8. ASSUME NEW r \in Requests, ClosePageFails(r)
      PROVE  [Next]_vars
  <2>1. req[r].session \in Sessions /\ req[r].tab \in Tabs /\ req[r].target \in Targets
    BY <1>8 DEF ClosePageFails, TabMethods
  <2>2. CASE EndReservation(r)
    BY <2>1, <2>2 DEF EndReservation, Next, TabNext
  <2>3. CASE CommitOwnedTabClose(req[r].session, req[r].tab)
    BY <2>1, <2>3 DEF Next, TabNext
  <2> QED BY <1>8, <2>2, <2>3 DEF ClosePageFails
<1>9. ASSUME NEW r \in Requests, CommitClose(r)
      PROVE  [Next]_vars
  <2>1. req[r].session \in Sessions /\ req[r].tab \in Tabs /\ req[r].target \in Targets
    BY <1>9 DEF CommitClose, TabMethods
  <2>2. CASE EndReservation(r)
    BY <2>1, <2>2 DEF EndReservation, Next, TabNext
  <2>3. CASE CommitOwnedTabClose(req[r].session, req[r].tab)
    BY <2>1, <2>3 DEF Next, TabNext
  <2> QED BY <1>9, <2>2, <2>3 DEF CommitClose
<1>10. ASSUME NEW r \in Requests, ReconcileMissingTargets(r)
      PROVE  [Next]_vars
  BY <1>10 DEF ReconcileMissingTargets, Next, TabNext, BrokerTypeOK, RequestState
<1>11. ASSUME NEW r \in Requests, CheckActiveOwned(r)
      PROVE  [Next]_vars
  <2>1. req[r].session \in Sessions /\ req[r].tab \in Tabs
    BY <1>11 DEF CheckActiveOwned, TabMethods
  <2> DEFINE s == req[r].session
             b == req[r].tab
  <2>2. CASE RequireActiveOwnedMissing(s, b)
    BY <2>1, <2>2 DEF Next, TabNext
  <2>3. CASE UNCHANGED registryVars
    BY <2>3
  <2> QED BY <1>11, <2>2, <2>3 DEF CheckActiveOwned
<1>12. ASSUME NEW r \in Requests, NEW t \in Targets, CreatePage(r, t)
      PROVE  [Next]_vars
  BY <1>12 DEF CreatePage
<1>13. ASSUME NEW r \in Requests, NEW b \in Tabs, LeaseCreated(r, b)
      PROVE  [Next]_vars
  BY <1>13 DEF LeaseCreated, Next, TabNext
<1>14. ASSUME NEW r \in Requests, NEW b \in Tabs, Claim(r, b)
      PROVE  [Next]_vars
  BY <1>14 DEF Claim, Next, TabNext
<1>15. CASE SweepExpire
  <2>1. sweep.now \in 0..clock /\ sweep.skip \in SUBSET Sessions
    BY DEF BrokerTypeOK, SweepState, TypeOK
  <2> QED BY <1>15, <2>1 DEF SweepExpire, Next, ExpiryNext
<1>16. CASE SweepReport
  <2>1. sweep.closed \in BOOLEAN /\ sweep.close \in sweep_closes
    BY <1>16 DEF SweepReport, BrokerTypeOK, SweepState
  <2> QED BY <1>16, <2>1 DEF SweepReport, Next, ExpiryNext
<1>17. ASSUME NEW c \in sweep_closes, SweepClosePage(c)
      PROVE  [Next]_vars
  BY <1>17 DEF SweepClosePage
<1>18. ASSUME NEW t \in Targets, HumanOpens(t)
      PROVE  [Next]_vars
  BY <1>18 DEF HumanOpens
<1>19. ASSUME NEW t \in Targets, HumanCloses(t)
      PROVE  [Next]_vars
  BY <1>19 DEF HumanCloses
<1>20. CASE TimePasses
  BY <1>20 DEF TimePasses, Next
<1>21. CASE UNCHANGED brokerVars
  BY <1>21 DEF brokerVars
<1> QED
  BY <1>1, <1>2, <1>3, <1>4, <1>5, <1>6, <1>7, <1>8, <1>9, <1>10, <1>11, <1>12, <1>13,
     <1>14, <1>15, <1>16, <1>17, <1>18, <1>19, <1>20, <1>21
  DEF BrokerNext, ClientSends, RequestStep, SweepStep, HumanStep

\* What the steps write into a request keeps its type.
LEMMA RequestFields ==
    ASSUME NEW u \in RequestState
    PROVE  /\ \A pc \in Pcs : [u EXCEPT !.pc = pc] \in RequestState
           /\ \A pc \in Pcs, t \in Targets : [u EXCEPT !.pc = pc, !.target = t] \in RequestState
           /\ \A pc \in Pcs, t \in Targets : [u EXCEPT !.target = t, !.pc = pc] \in RequestState
           /\ \A pc \in Pcs, seen \in SUBSET Targets :
                 [u EXCEPT !.pc = pc, !.seen = seen] \in RequestState
           /\ \A pc \in Pcs, s \in Sessions, g \in BOOLEAN :
                 [u EXCEPT !.pc = pc, !.session = s, !.guarded = g] \in RequestState
           /\ \A pc \in Pcs, m \in AllMethods, s \in Sessions :
                 [u EXCEPT !.pc = pc, !.method = m, !.session = s] \in RequestState
           /\ \A pc \in Pcs, m \in AllMethods, s \in Sessions, b \in Maybe(Tabs),
                t \in Maybe(Targets), g \in BOOLEAN :
                 [u EXCEPT !.pc = pc, !.method = m, !.session = s, !.tab = b, !.target = t,
                           !.guarded = g] \in RequestState
<1>1. \A pc \in Pcs : [u EXCEPT !.pc = pc] \in RequestState
  BY Zenon DEF RequestState, Maybe
<1>2. \A pc \in Pcs, t \in Targets : /\ [u EXCEPT !.pc = pc, !.target = t] \in RequestState
                                     /\ [u EXCEPT !.target = t, !.pc = pc] \in RequestState
  BY Zenon DEF RequestState, Maybe
<1>3. \A pc \in Pcs, seen \in SUBSET Targets : [u EXCEPT !.pc = pc, !.seen = seen] \in RequestState
  BY Zenon DEF RequestState, Maybe
<1>4. \A pc \in Pcs, s \in Sessions, g \in BOOLEAN :
         [u EXCEPT !.pc = pc, !.session = s, !.guarded = g] \in RequestState
  BY Zenon DEF RequestState, Maybe
<1>5. \A pc \in Pcs, m \in AllMethods, s \in Sessions :
         [u EXCEPT !.pc = pc, !.method = m, !.session = s] \in RequestState
  BY Zenon DEF RequestState, Maybe
<1>6. ASSUME NEW pc \in Pcs, NEW m \in AllMethods, NEW s \in Sessions, NEW b \in Maybe(Tabs),
             NEW t \in Maybe(Targets), NEW g \in BOOLEAN
      PROVE  [u EXCEPT !.pc = pc, !.method = m, !.session = s, !.tab = b, !.target = t,
                       !.guarded = g] \in RequestState
  BY Zenon DEF RequestState, Maybe
<1> QED BY <1>1, <1>2, <1>3, <1>4, <1>5, <1>6

\* A step rewrites one request.
Rewrites(r) ==
    /\ req' \in [Requests -> RequestState]
    /\ \A q \in Requests \ {r} : req'[q] = req[q]

\* Goto moves one request and leaves what it carries alone.
LEMMA GotoRewrites ==
    ASSUME req \in [Requests -> RequestState], NEW r \in Requests, NEW pc \in Pcs, Goto(r, pc)
    PROVE  /\ Rewrites(r)
           /\ req'[r].pc = pc /\ req'[r].method = req[r].method /\ req'[r].tab = req[r].tab
           /\ req'[r].session = req[r].session /\ req'[r].target = req[r].target
           /\ req'[r].guarded = req[r].guarded /\ req'[r].seen = req[r].seen
<1> DEFINE u == [req[r] EXCEPT !.pc = pc]
<1>1. u \in RequestState
  BY RequestFields
<1>2. req' = [req EXCEPT ![r] = u]
  BY DEF Goto
<1>3. /\ u.pc = pc /\ u.method = req[r].method /\ u.tab = req[r].tab
      /\ u.session = req[r].session /\ u.target = req[r].target
      /\ u.guarded = req[r].guarded /\ u.seen = req[r].seen
  BY DEF RequestState
<1> HIDE DEF u
<1> QED BY <1>1, <1>2, <1>3 DEF Rewrites

\* A request's handler ends.
Ended(r) == 
    /\ req'[r].method = "none" /\ req'[r].guarded = req[r].guarded
    /\ req[r].guarded => req'[r].pc = "finish" /\ req'[r].session = req[r].session
    /\ ~req[r].guarded => req'[r].pc = "idle"

\* An idle connection is a request state.
LEMMA IdleType == Idle \in RequestState
BY DEF Idle, RequestState, Maybe, Pcs

\* End finishes one request, with its guard still to drop if it has one.
LEMMA EndRewrites ==
    ASSUME req \in [Requests -> RequestState], NEW r \in Requests, End(r),
           req[r].guarded => req[r].session \in Sessions
    PROVE  Rewrites(r) /\ Ended(r)
<1>1. CASE req[r].guarded
  <2> DEFINE u == [Idle EXCEPT !.pc = "finish", !.session = req[r].session, !.guarded = TRUE]
  <2>1. u \in RequestState
    BY <1>1, RequestFields, IdleType DEF Pcs
  <2>3. req' = [req EXCEPT ![r] = u]
    BY <1>1 DEF End
  <2>4. u.method = "none" /\ u.guarded = TRUE /\ u.pc = "finish" /\ u.session = req[r].session
    BY DEF Idle
  <2> HIDE DEF u
  <2> QED BY <1>1, <2>1, <2>3, <2>4 DEF Rewrites, Ended
<1>2. CASE ~req[r].guarded
  <2>1. req' = [req EXCEPT ![r] = Idle]
    BY <1>2 DEF End
  <2>2. req'[r] = Idle /\ Rewrites(r)
    BY <2>1, IdleType DEF Rewrites
  <2>3. Idle.method = "none" /\ Idle.guarded = FALSE /\ Idle.pc = "idle"
    BY DEF Idle
  <2>4. req[r].guarded \in BOOLEAN
    BY DEF RequestState
  <2> QED BY <1>2, <2>2, <2>3, <2>4 DEF Ended
<1> QED BY <1>1, <1>2

StatusStays(s) ==
    /\ sessions[s].status # "unissued" => sessions'[s].status # "unissued"
    /\ sessions[s].status = "gone" => sessions'[s].status = "gone"

\* A session that was issued stays issued, live or gone.
LEMMA SessionsStay ==
    ASSUME TypeOK, [Next]_vars, NEW s \in Sessions
    PROVE  StatusStays(s)
<1> USE DEF TypeOK, SessionRecord
<1>1. CASE SessionNext
  <2>1. ASSUME NEW z \in Sessions, NEW w, StartSession(z, w) PROVE StatusStays(s)
    BY <2>1 DEF StartSession, StatusStays
  <2>2. ASSUME NEW z \in Sessions, Touch(z) PROVE StatusStays(s)
    BY <2>2 DEF Touch, Live, StatusStays
  <2>3. ASSUME NEW i \in Identities, NEW z \in Sessions, NEW w, AmbientSessionCreate(i, z, w)
        PROVE  StatusStays(s)
    BY <2>3 DEF AmbientSessionCreate, StatusStays
  <2>4. ASSUME NEW z \in Sessions, NEW w, BindWorkspaceRoot(z, w) PROVE StatusStays(s)
    BY <2>4 DEF BindWorkspaceRoot, Live, StatusStays
  <2>5. ASSUME NEW i \in Identities, AmbientSessionReuse(i)
        PROVE StatusStays(s)
    <3>1. ambient_sessions[i] \in Sessions /\ Touch(ambient_sessions[i])
      BY <2>5 DEF AmbientSessionReuse, HasAmbientSession, Maybe
    <3> QED BY <3>1 DEF Touch, Live, StatusStays
  <2> QED BY <1>1, <2>1, <2>2, <2>3, <2>4, <2>5 DEF SessionNext
<1>2. CASE TabNext
  BY <1>2
  DEF TabNext, LeaseTab, ClaimTab, ReleaseTab, ReserveOwnedTabClose, CommitOwnedTabClose,
      FinishOwnedTabCloseReservation, RequireActiveOwnedMissing, MarkMissingTargetsNotIn,
      MarkMissing, sessionVars, StatusStays
<1>3. CASE ExpiryNext
  <2>1. CASE \E c \in sweep_closes, closed \in BOOLEAN : FinishExpiredTargetClose(c, closed)
    BY <2>1 DEF FinishExpiredTargetClose, sessionVars, StatusStays
  <2>2. ASSUME NEW E, NEW batch, ExpireBatch(E, batch)
        PROVE  sessions' = [z \in Sessions |-> IF z \in E THEN Gone ELSE sessions[z]]
    BY <2>2 DEF ExpireBatch
  <2>3. CASE \E n \in 0..clock, in_flight \in SUBSET Sessions : ExpireSessions(n, in_flight)
    BY <2>2, <2>3 DEF ExpireSessions, Gone, StatusStays
  <2> QED BY <1>3, <2>1, <2>3 DEF ExpiryNext
<1>4. CASE Tick \/ UNCHANGED vars
  BY <1>4 DEF Tick, vars, sessionVars, StatusStays
<1> QED BY <1>1, <1>2, <1>3, <1>4 DEF Next

\* A request the step leaves alone keeps its shape.
LEMMA ShapeKept ==
    ASSUME NEW q \in Requests, RequestShape(q), req'[q] = req[q], profile' = profile,
           TypeOK, [Next]_vars
    PROVE  RequestShape(q)'
<1>1. ASSUME ~At(q, "idle")
      PROVE  req[q].session \in Sessions /\ sessions'[req[q].session].status # "unissued"
  BY <1>1, SessionsStay DEF RequestShape, StatusStays
<1> QED BY <1>1 DEF RequestShape, At

\* A lease reserved for closing has a target.
LEMMA ReserveHasTarget ==
    ASSUME RegistryInv, NEW s, NEW b \in Tabs, ReserveOwnedTabClose(s, b)
    PROVE  leases[b].target \in Targets
BY DEF RegistryInv, TargetInv, LeasesComplete, ReserveOwnedTabClose, RequireOwnedTab

\* What a request carries fits where it is, after every step.
LEMMA RequestShapeNext ==
    ASSUME ShapeInv, RegistryInv, [BrokerNext]_brokerVars, [Next]_vars
    PROVE  /\ req' \in [Requests -> RequestState]
           /\ \A q \in Requests : RequestShape(q)'
<1> DEFINE Goal == /\ req' \in [Requests -> RequestState]
                   /\ \A q \in Requests : RequestShape(q)'
<1>a. /\ RegistryInv /\ TypeOK /\ req \in [Requests -> RequestState]
      /\ \A q \in Requests : RequestShape(q)
      /\ profile.methods \subseteq AllMethods
  BY BrokerProfilesAssumption DEF ShapeInv, BrokerTypeOK, Profile
<1>b. ASSUME req' = req, profile' = profile PROVE Goal
  BY <1>a, <1>b, ShapeKept
<1>c. ASSUME NEW r \in Requests, Rewrites(r), profile' = profile, RequestShape(r)' PROVE Goal
  BY <1>a, <1>c, ShapeKept DEF Rewrites
<1>d. ASSUME NEW r \in Requests, ~At(r, "idle")
      PROVE  req[r].session \in Sessions /\ sessions'[req[r].session].status # "unissued"
  BY <1>a, <1>d, SessionsStay DEF RequestShape, StatusStays
<1>g. ASSUME NEW r \in Requests, End(r), ~At(r, "idle") PROVE Rewrites(r) /\ Ended(r)
  BY <1>a, <1>d, <1>g, EndRewrites
<1>e. ASSUME NEW r \in Requests, ~At(r, "idle"), Ended(r), profile' = profile PROVE RequestShape(r)'
  BY <1>a, <1>d, <1>e DEF RequestShape, Ended, At, TabMethods, TargetMethods
<1> SUFFICES Goal
  OBVIOUS
<1> HIDE DEF Goal
<1> USE DEF OnlyRequests, NoBrowserWork, OnlySweep, Handles
<1>1. CASE SweepReadClock \/ SweepReadInFlight \/ SweepExpire \/ SweepReport \/ TimePasses
  BY <1>1, <1>b
  DEF SweepReadClock, SweepReadInFlight, SweepExpire, SweepReport, TimePasses, OnlySweep,
      NoBrowserWork
<1>2. ASSUME NEW r \in Requests, NEW m \in profile.methods \ {"start_session", "start_with_url"},
             NEW s \in Sessions, NEW b \in Maybe(Tabs), NEW t \in Maybe(Targets),
             (m \in TabMethods) = (b # None), (m \in TargetMethods) = (t # None),
             Dispatch(r, m, s, b, t)
      PROVE  Goal
  <2>1. /\ m \in AllMethods /\ m # "start_with_url"
        /\ m \in TabMethods => b \in Tabs
        /\ m \in TargetMethods => t \in Targets
    BY <1>2, <1>a, NoneAssumption DEF Maybe
  <2> DEFINE u == NewRequest(m, s, b, t)
  <2>a. u \in RequestState
    BY <2>1, RequestFields, IdleType DEF Pcs, NewRequest
  <2>2. /\ u.pc = "register" /\ u.guarded = TRUE /\ u.method = m
        /\ u.session = s /\ u.tab = b /\ u.target = t
    BY DEF NewRequest, Idle
  <2>b. req' = [req EXCEPT ![r] = u] /\ profile' = profile /\ sessions[s].status # "unissued"
    BY <1>2 DEF Dispatch
  <2> HIDE DEF u
  <2>3. req' = [req EXCEPT ![r] = u] /\ profile' = profile /\ sessions[s].status # "unissued"
    BY <2>b
  <2>4. Rewrites(r) /\ req'[r] = u
    BY <1>a, <2>a, <2>3 DEF Rewrites
  <2>5. sessions'[s].status # "unissued"
    BY <1>a, <2>3, SessionsStay DEF StatusStays
  <2>6. RequestShape(r)'
    BY <2>1, <2>2, <2>3, <2>4, <2>5 DEF RequestShape, At, AllMethods
  <2> QED BY <1>c, <2>3, <2>4, <2>6
<1>3. ASSUME NEW r \in Requests, NEW m \in profile.methods \cap {"start_session", "start_with_url"},
             NEW s \in Sessions, DispatchStartSession(r, s, m)
      PROVE  Goal
  <2>1. sessions'[s].status = "live" /\ profile' = profile
    BY <1>3, <1>a DEF DispatchStartSession, StartSession, TypeOK
  <2>2. CASE m = "start_with_url"
    <3> DEFINE u == [Idle EXCEPT !.pc = "handle", !.method = m, !.session = s]
    <3>1. u \in RequestState
      BY <2>2, RequestFields, IdleType DEF Pcs, AllMethods
    <3>2. /\ u.pc = "handle" /\ u.method = m /\ u.session = s /\ u.tab = None /\ u.target = None
          /\ u.guarded = FALSE
      BY DEF Idle
    <3>3. req' = [req EXCEPT ![r] = u]
      BY <1>3, <2>2 DEF DispatchStartSession
    <3> HIDE DEF u
    <3>4. Rewrites(r) /\ req'[r] = u
      BY <1>a, <3>1, <3>3 DEF Rewrites
    <3>5. RequestShape(r)'
      BY <1>3, <2>1, <2>2, <3>2, <3>4 DEF RequestShape, At, TabMethods, TargetMethods
    <3> QED BY <1>c, <2>1, <3>4, <3>5
  <2>3. CASE m # "start_with_url"
    <3>1. req' = [req EXCEPT ![r] = Idle] /\ Rewrites(r)
      BY <1>3, <1>a, <2>3, IdleType DEF DispatchStartSession, Rewrites
    <3>2. RequestShape(r)'
      BY <1>a, <2>1, <3>1 DEF RequestShape, At, Idle, TabMethods, TargetMethods
    <3> QED BY <1>c, <2>1, <3>1, <3>2
  <2> QED BY <2>2, <2>3
<1>4. ASSUME NEW r \in Requests, Register(r)
      PROVE  Goal
  <2>1. Goto(r, "handle") /\ profile' = profile
    BY <1>4 DEF Register
  <2>2. RequestShape(r) /\ ~At(r, "idle")
    BY <1>a, <1>4 DEF Register, At
  <2>3. RequestShape(r)'
    BY <1>4, <1>a, <1>d, <2>1, <2>2, GotoRewrites
      DEF Register, RequestShape, At, Pcs, TabMethods, TargetMethods
  <2>4. Rewrites(r)
    BY <1>a, <2>1, GotoRewrites DEF Pcs
  <2> QED BY <1>c, <2>1, <2>3, <2>4
<1>5. ASSUME NEW r \in Requests, FinalTouch(r)
      PROVE  Goal
  <2>1. Goto(r, "drop") /\ profile' = profile
    BY <1>5 DEF FinalTouch
  <2>2. RequestShape(r) /\ ~At(r, "idle")
    BY <1>a, <1>5 DEF FinalTouch, At
  <2>3. RequestShape(r)'
    BY <1>5, <1>a, <1>d, <2>1, <2>2, GotoRewrites
      DEF FinalTouch, RequestShape, At, Pcs, TabMethods, TargetMethods
  <2>4. Rewrites(r)
    BY <1>a, <2>1, GotoRewrites DEF Pcs
  <2> QED BY <1>c, <2>1, <2>3, <2>4
<1>6. ASSUME NEW r \in Requests, DropGuard(r)
      PROVE  Goal
  <2>1. /\ req' = [req EXCEPT ![r] = Idle] /\ profile' = profile
        /\ Rewrites(r)
    BY <1>6, <1>a, IdleType DEF DropGuard, Rewrites
  <2>2. RequestShape(r)'
    BY <1>a, <2>1 DEF RequestShape, At, Idle, TabMethods, TargetMethods
  <2> QED BY <1>c, <2>1, <2>2
<1>7. ASSUME NEW r \in Requests, EnsureSession(r)
      PROVE  Goal
  <2>1. /\ Goto(r, "create") \/ End(r)
        /\ profile' = profile /\ ~At(r, "idle")
    BY <1>7 DEF EnsureSession, At
  <2>2. CASE End(r)
    BY <1>c, <1>e, <1>g, <2>1, <2>2
  <2>3. CASE Goto(r, "create")
    <3>1. RequestShape(r)'
      BY <1>7, <1>a, <1>d, <2>1, <2>3, GotoRewrites
      DEF EnsureSession, RequestShape, At, Pcs, TabMethods, TargetMethods
    <3>2. Rewrites(r)
      BY <1>a, <2>3, GotoRewrites DEF Pcs
    <3> QED BY <1>c, <2>1, <3>1, <3>2
  <2> QED BY <2>1, <2>2, <2>3
<1>8. ASSUME NEW r \in Requests, CreatePageFails(r)
      PROVE  Goal
  <2>1. End(r) /\ profile' = profile /\ ~At(r, "idle")
    BY <1>8 DEF CreatePageFails, At
  <2> QED BY <1>c, <1>e, <1>g, <2>1
<1>9. ASSUME NEW r \in Requests, LeaseCreatedRefused(r)
      PROVE  Goal
  <2>1. End(r) /\ profile' = profile /\ ~At(r, "idle")
    BY <1>9 DEF LeaseCreatedRefused, At
  <2> QED BY <1>c, <1>e, <1>g, <2>1
<1>10. ASSUME NEW r \in Requests, LookUpClaim(r)
      PROVE  Goal
  <2>1. /\ Goto(r, "claim") \/ End(r)
        /\ profile' = profile /\ ~At(r, "idle")
    BY <1>10 DEF LookUpClaim, At
  <2>2. CASE End(r)
    BY <1>c, <1>e, <1>g, <2>1, <2>2
  <2>3. CASE Goto(r, "claim")
    <3>1. RequestShape(r)'
      BY <1>10, <1>a, <1>d, <2>1, <2>3, GotoRewrites
      DEF LookUpClaim, RequestShape, At, Pcs, TabMethods, TargetMethods
    <3>2. Rewrites(r)
      BY <1>a, <2>3, GotoRewrites DEF Pcs
    <3> QED BY <1>c, <2>1, <3>1, <3>2
  <2> QED BY <2>1, <2>2, <2>3
<1>11. ASSUME NEW r \in Requests, ClaimFails(r)
      PROVE  Goal
  <2>1. End(r) /\ profile' = profile /\ ~At(r, "idle")
    BY <1>11 DEF ClaimFails, At
  <2> QED BY <1>c, <1>e, <1>g, <2>1
<1>12. ASSUME NEW r \in Requests, ValidateRelease(r)
      PROVE  Goal
  <2>1. /\ Goto(r, "release") \/ End(r)
        /\ profile' = profile /\ ~At(r, "idle")
    BY <1>12 DEF ValidateRelease, At
  <2>2. CASE End(r)
    BY <1>c, <1>e, <1>g, <2>1, <2>2
  <2>3. CASE Goto(r, "release")
    <3>1. RequestShape(r)'
      BY <1>12, <1>a, <1>d, <2>1, <2>3, GotoRewrites
      DEF ValidateRelease, RequestShape, At, Pcs, TabMethods, TargetMethods
    <3>2. Rewrites(r)
      BY <1>a, <2>3, GotoRewrites DEF Pcs
    <3> QED BY <1>c, <2>1, <3>1, <3>2
  <2> QED BY <2>1, <2>2, <2>3
<1>13. ASSUME NEW r \in Requests, Release(r)
      PROVE  Goal
  <2>1. End(r) /\ profile' = profile /\ ~At(r, "idle")
    BY <1>13 DEF Release, At
  <2> QED BY <1>c, <1>e, <1>g, <2>1
<1>14. ASSUME NEW r \in Requests, ReleaseRefused(r)
      PROVE  Goal
  <2>1. End(r) /\ profile' = profile /\ ~At(r, "idle")
    BY <1>14 DEF ReleaseRefused, At
  <2> QED BY <1>c, <1>e, <1>g, <2>1
<1>15. ASSUME NEW r \in Requests, ValidateClose(r)
      PROVE  Goal
  <2>1. /\ Goto(r, "reserve") \/ End(r)
        /\ profile' = profile /\ ~At(r, "idle")
    BY <1>15 DEF ValidateClose, At
  <2>2. CASE End(r)
    BY <1>c, <1>e, <1>g, <2>1, <2>2
  <2>3. CASE Goto(r, "reserve")
    <3>1. RequestShape(r)'
      BY <1>15, <1>a, <1>d, <2>1, <2>3, GotoRewrites
      DEF ValidateClose, RequestShape, At, Pcs, TabMethods, TargetMethods
    <3>2. Rewrites(r)
      BY <1>a, <2>3, GotoRewrites DEF Pcs
    <3> QED BY <1>c, <2>1, <3>1, <3>2
  <2> QED BY <2>1, <2>2, <2>3
<1>16. ASSUME NEW r \in Requests, Reserve(r)
      PROVE  Goal
  <2>0. /\ ~At(r, "idle") /\ At(r, "reserve") /\ profile' = profile /\ req[r].tab \in Tabs
        /\ leases[req[r].tab].target \in Targets
    BY <1>16, <1>a, ReserveHasTarget DEF Reserve, At, RequestShape, TabMethods
  <2> DEFINE t == leases[req[r].tab].target
             pc == IF leases[req[r].tab].state = "active" THEN "closing" ELSE "commit"
             u == [req[r] EXCEPT !.target = t, !.pc = pc]
  <2>1. pc \in {"closing", "commit"} /\ pc \in Pcs
    BY DEF Pcs
  <2>2. req' = [req EXCEPT ![r] = u]
    BY <1>16 DEF Reserve
  <2> HIDE DEF pc, t
  <2>3. u \in RequestState
    BY <1>a, <2>0, <2>1, RequestFields DEF t
  <2>4. /\ u.pc = pc /\ u.target = t /\ u.method = req[r].method /\ u.tab = req[r].tab
        /\ u.session = req[r].session /\ u.guarded = req[r].guarded
    BY <1>a DEF RequestState
  <2> HIDE DEF u
  <2>5. Rewrites(r) /\ req'[r] = u
    BY <1>a, <2>2, <2>3 DEF Rewrites
  <2>6. RequestShape(r)'
    BY <1>a, <1>d, <2>0, <2>1, <2>4, <2>5 DEF RequestShape, At, TabMethods, TargetMethods, t
  <2> QED BY <1>c, <2>0, <2>5, <2>6
<1>17. ASSUME NEW r \in Requests, ReserveRefused(r)
      PROVE  Goal
  <2>1. End(r) /\ profile' = profile /\ ~At(r, "idle")
    BY <1>17 DEF ReserveRefused, At
  <2> QED BY <1>c, <1>e, <1>g, <2>1
<1>18. ASSUME NEW r \in Requests, ClosePage(r)
      PROVE  Goal
  <2>1. Goto(r, "commit") /\ profile' = profile
    BY <1>18 DEF ClosePage
  <2>2. RequestShape(r) /\ ~At(r, "idle")
    BY <1>a, <1>18 DEF ClosePage, At
  <2>3. RequestShape(r)'
    BY <1>18, <1>a, <1>d, <2>1, <2>2, GotoRewrites
      DEF ClosePage, RequestShape, At, Pcs, TabMethods, TargetMethods
  <2>4. Rewrites(r)
    BY <1>a, <2>1, GotoRewrites DEF Pcs
  <2> QED BY <1>c, <2>1, <2>3, <2>4
<1>19. ASSUME NEW r \in Requests, ClosePageFails(r)
      PROVE  Goal
  <2>1. End(r) /\ profile' = profile /\ ~At(r, "idle")
    BY <1>19 DEF ClosePageFails, At
  <2> QED BY <1>c, <1>e, <1>g, <2>1
<1>20. ASSUME NEW r \in Requests, CommitClose(r)
      PROVE  Goal
  <2>1. End(r) /\ profile' = profile /\ ~At(r, "idle")
    BY <1>20 DEF CommitClose, At
  <2> QED BY <1>c, <1>e, <1>g, <2>1
<1>21. ASSUME NEW r \in Requests, ReadInventory(r)
      PROVE  Goal
  <2>0. ~At(r, "idle") /\ profile' = profile
    BY <1>21 DEF ReadInventory, At
  <2>1. CASE End(r)
    BY <1>c, <1>e, <1>g, <2>0, <2>1
  <2>2. CASE req' = [req EXCEPT ![r].pc = "reconcile", ![r].seen = OpenPages]
    <3> DEFINE u == [req[r] EXCEPT !.pc = "reconcile", !.seen = OpenPages]
    <3>1. u \in RequestState
      BY <1>a, RequestFields DEF Pcs, OpenPages
    <3>2. req' = [req EXCEPT ![r] = u]
      BY <2>2
    <3>3. /\ u.pc = "reconcile" /\ u.target = req[r].target /\ u.method = req[r].method
          /\ u.tab = req[r].tab /\ u.session = req[r].session /\ u.guarded = req[r].guarded
      BY <1>a DEF RequestState
    <3> HIDE DEF u
    <3>4. Rewrites(r) /\ req'[r] = u
      BY <1>a, <3>1, <3>2 DEF Rewrites
    <3>5. RequestShape(r)'
      BY <1>21, <1>a, <1>d, <2>0, <3>3, <3>4
        DEF ReadInventory, RequestShape, At, TabMethods, TargetMethods
    <3> QED BY <1>c, <2>0, <3>4, <3>5
  <2> QED BY <1>21, <2>1, <2>2 DEF ReadInventory
<1>22. ASSUME NEW r \in Requests, ReconcileMissingTargets(r)
      PROVE  Goal
  <2>1. profile' = profile /\ ~At(r, "idle") /\ At(r, "reconcile")
    BY <1>22 DEF ReconcileMissingTargets, At
  <2>2. CASE End(r)
    BY <1>c, <1>e, <1>g, <2>1, <2>2
  <2>3. CASE req[r].method = "act_on_tab" /\ Goto(r, "check")
    <3>1. RequestShape(r)'
      BY <1>a, <1>d, <2>1, <2>3, GotoRewrites DEF RequestShape, At, Pcs, TabMethods, TargetMethods
    <3>2. Rewrites(r)
      BY <1>a, <2>3, GotoRewrites DEF Pcs
    <3> QED BY <1>c, <2>1, <3>1, <3>2
  <2> QED BY <1>22, <2>2, <2>3 DEF ReconcileMissingTargets
<1>23. ASSUME NEW r \in Requests, CheckActiveOwned(r)
      PROVE  Goal
  <2>1. End(r) /\ profile' = profile /\ ~At(r, "idle")
    BY <1>23 DEF CheckActiveOwned, At
  <2> QED BY <1>c, <1>e, <1>g, <2>1
<1>24. ASSUME NEW r \in Requests, NEW t \in Targets, CreatePage(r, t)
      PROVE  Goal
  <2>0. ~At(r, "idle") /\ profile' = profile
    BY <1>24 DEF CreatePage, At
  <2>1. CASE End(r)
    BY <1>c, <1>e, <1>g, <2>0, <2>1
  <2>2. CASE req' = [req EXCEPT ![r].pc = "lease", ![r].target = t]
    <3> DEFINE u == [req[r] EXCEPT !.pc = "lease", !.target = t]
    <3>1. u \in RequestState
      BY <1>a, RequestFields DEF Pcs
    <3>2. req' = [req EXCEPT ![r] = u]
      BY <2>2
    <3>3. /\ u.pc = "lease" /\ u.target = t /\ u.method = req[r].method /\ u.tab = req[r].tab
          /\ u.session = req[r].session /\ u.guarded = req[r].guarded
      BY <1>a DEF RequestState
    <3> HIDE DEF u
    <3>4. Rewrites(r) /\ req'[r] = u
      BY <1>a, <3>1, <3>2 DEF Rewrites
    <3>5. RequestShape(r)'
      BY <1>24, <1>a, <1>d, <2>0, <3>3, <3>4
        DEF CreatePage, RequestShape, At, TabMethods, TargetMethods
    <3> QED BY <1>c, <2>0, <3>4, <3>5
  <2> QED BY <1>24, <2>1, <2>2 DEF CreatePage
<1>25. ASSUME NEW r \in Requests, NEW b \in Tabs, LeaseCreated(r, b)
      PROVE  Goal
  <2>1. End(r) /\ profile' = profile /\ ~At(r, "idle")
    BY <1>25 DEF LeaseCreated, At
  <2> QED BY <1>c, <1>e, <1>g, <2>1
<1>26. ASSUME NEW r \in Requests, NEW b \in Tabs, Claim(r, b)
      PROVE  Goal
  <2>1. End(r) /\ profile' = profile /\ ~At(r, "idle")
    BY <1>26 DEF Claim, At
  <2> QED BY <1>c, <1>e, <1>g, <2>1
<1>27. ASSUME NEW c \in sweep_closes, SweepClosePage(c)
      PROVE  Goal
  BY <1>27, <1>b DEF SweepClosePage
<1>28. ASSUME NEW t \in Targets, HumanOpens(t)
      PROVE  Goal
  BY <1>28, <1>b DEF HumanOpens
<1>29. ASSUME NEW t \in Targets, HumanCloses(t)
      PROVE  Goal
  BY <1>29, <1>b DEF HumanCloses
<1>30. CASE UNCHANGED brokerVars
  BY <1>30, <1>b DEF brokerVars
<1> QED
  BY <1>1, <1>2, <1>3, <1>4, <1>5, <1>6, <1>7, <1>8, <1>9, <1>10, <1>11, <1>12, <1>13,
     <1>14, <1>15, <1>16, <1>17, <1>18, <1>19, <1>20, <1>21, <1>22, <1>23, <1>24,
     <1>25, <1>26, <1>27, <1>28, <1>29, <1>30
  DEF BrokerNext, ClientSends, RequestStep, SweepStep, HumanStep, Goal

(***************************************************************************)
(* Only the sweep ends sessions and decides or confirms closes.            *)
(***************************************************************************)
Quiet ==
    /\ UNCHANGED <<sweep_closes, expired_closed_targets>>
    /\ \A s \in Sessions :
          /\ Live(s) => Live(s)'
          /\ Live(s)' => Live(s) \/ sessions[s].status = "unissued"
          /\ Live(s) => sessions'[s].updated_at \in {sessions[s].updated_at, clock}

\* Every other step leaves ended sessions, the sweep's closes and its withdrawals alone.
LEMMA OnlyTheSweep ==
    ASSUME ShapeInv, [BrokerNext]_brokerVars
    PROVE  Quiet \/ SweepExpire \/ SweepReport
<1> DEFINE Goal == Quiet \/ SweepExpire \/ SweepReport
<1>a. sessions \in [Sessions -> SessionRecord]
  BY DEF ShapeInv, BrokerTypeOK, TypeOK
<1>b. ASSUME UNCHANGED <<sweep_closes, expired_closed_targets, sessions>> PROVE Goal
  BY <1>a, <1>b DEF Quiet, Live, SessionRecord
<1>c. ASSUME NEW s \in Sessions, Touch(s) PROVE Goal
  BY <1>a, <1>c DEF Touch, Quiet, Live, SessionRecord, targetVars, expiryVars
<1>d. ASSUME NEW s \in Sessions, StartSession(s, None) PROVE Goal
  BY <1>a, <1>d DEF StartSession, Quiet, Live, SessionRecord, targetVars, expiryVars
<1>e. ASSUME UNCHANGED vars PROVE Goal
  BY <1>b, <1>e DEF vars, sessionVars, targetVars, expiryVars
<1> SUFFICES Goal
  OBVIOUS
<1> HIDE DEF Goal
<1> USE DEF OnlyRequests, NoBrowserWork, OnlySweep, registryVars
<1>1. ASSUME NEW r \in Requests, Register(r) \/ DropGuard(r) \/ EnsureSession(r) \/
             CreatePageFails(r) \/ LeaseCreatedRefused(r) \/ LookUpClaim(r) \/ ClaimFails(r) \/
             ValidateRelease(r) \/ ReleaseRefused(r) \/ ValidateClose(r) \/
             ReserveRefused(r) \/ ClosePage(r) \/ ReadInventory(r)
      PROVE  Goal
  BY <1>1, <1>e
  DEF Register, DropGuard, EnsureSession, CreatePageFails, LeaseCreatedRefused, LookUpClaim,
      ClaimFails, ValidateRelease, ReleaseRefused, ValidateClose, ReserveRefused, ClosePage,
      ReadInventory
<1>2. CASE SweepReadClock \/ SweepReadInFlight
  BY <1>2, <1>e
  DEF SweepReadClock, SweepReadInFlight
<1>3. ASSUME NEW r \in Requests, Release(r) \/ Reserve(r)
      PROVE  Goal
  BY <1>3, <1>b
  DEF Release, Reserve, ReleaseTab, sessionVars, targetVars, expiryVars, ReserveOwnedTabClose
<1>4. ASSUME NEW r \in Requests, ClosePageFails(r) \/ CommitClose(r) \/
             ReconcileMissingTargets(r) \/ CheckActiveOwned(r)
      PROVE  Goal
  BY <1>4, <1>b, <1>e
  DEF ClosePageFails, CommitClose, ReconcileMissingTargets, CheckActiveOwned, EndReservation,
      FinishOwnedTabCloseReservation, sessionVars, targetVars, expiryVars, CommitOwnedTabClose,
      MarkMissingTargetsNotIn, MarkMissing, RequireActiveOwnedMissing
<1>5. ASSUME NEW r \in Requests, NEW m \in profile.methods \ {"start_session", "start_with_url"},
             NEW s \in Sessions, NEW b \in Maybe(Tabs), NEW t \in Maybe(Targets),
             (m \in TabMethods) = (b # None), (m \in TargetMethods) = (t # None),
             Dispatch(r, m, s, b, t)
      PROVE  Goal
  BY <1>5, <1>c, <1>e DEF Dispatch
<1>6. ASSUME NEW r \in Requests, NEW m \in profile.methods \cap {"start_session", "start_with_url"},
             NEW s \in Sessions, DispatchStartSession(r, s, m)
      PROVE  Goal
  BY <1>6, <1>d DEF DispatchStartSession
<1>7. ASSUME NEW r \in Requests, FinalTouch(r)
      PROVE  Goal
  <2>1. CASE UNCHANGED vars
    BY <1>e, <2>1
  <2>2. CASE Live(req[r].session) /\ Touch(req[r].session)
    <3>1. req[r].session \in Sessions
      BY <1>7 DEF FinalTouch, ShapeInv, RequestShape, At
    <3> DEFINE s == req[r].session
    <3>2. UNCHANGED <<sweep_closes, expired_closed_targets>>
          /\ Live(s) /\ sessions' = [sessions EXCEPT ![s].updated_at = clock]
      BY <2>2 DEF Touch, targetVars, expiryVars
    <3> HIDE DEF s
    <3>3. s \in Sessions
      BY <3>1 DEF s
    <3>4. Quiet
      BY <1>a, <3>2, <3>3 DEF Quiet, Live, SessionRecord
    <3> QED BY <3>4 DEF Goal
  <2> QED BY <1>7, <2>1, <2>2 DEF FinalTouch
<1>8. ASSUME NEW r \in Requests, NEW t \in Targets, CreatePage(r, t)
      PROVE  Goal
  BY <1>8, <1>e DEF CreatePage
<1>9. ASSUME NEW r \in Requests, NEW b \in Tabs, LeaseCreated(r, b)
      PROVE  Goal
  BY <1>9, <1>b DEF LeaseCreated, LeaseTab, sessionVars, targetVars, expiryVars
<1>10. ASSUME NEW r \in Requests, NEW b \in Tabs, Claim(r, b)
      PROVE  Goal
  BY <1>10, <1>b DEF Claim, ClaimTab, sessionVars, targetVars, expiryVars
<1>11. CASE SweepExpire
  BY <1>11 DEF Goal
<1>12. CASE SweepReport
  BY <1>12 DEF Goal
<1>13. ASSUME NEW c \in sweep_closes, SweepClosePage(c)
      PROVE  Goal
  BY <1>13, <1>e DEF SweepClosePage
<1>14. ASSUME NEW t \in Targets, HumanOpens(t)
      PROVE  Goal
  BY <1>14, <1>e DEF HumanOpens
<1>15. ASSUME NEW t \in Targets, HumanCloses(t)
      PROVE  Goal
  BY <1>15, <1>e DEF HumanCloses
<1>16. CASE TimePasses
  BY <1>16, <1>b DEF TimePasses, Tick, sessionVars, targetVars, expiryVars
<1>17. CASE UNCHANGED brokerVars
  BY <1>17, <1>e DEF brokerVars
<1> QED
  BY <1>1, <1>2, <1>3, <1>4, <1>5, <1>6, <1>7, <1>8, <1>9, <1>10, <1>11, <1>12, <1>13,
     <1>14, <1>15, <1>16, <1>17
  DEF BrokerNext, ClientSends, RequestStep, SweepStep, HumanStep

(***************************************************************************)
(* The types of everything besides the requests and their counts.          *)
(***************************************************************************)
\* What the steps write into the sweep's state keeps its type.
LEMMA SweepFields ==
    ASSUME NEW u \in SweepState
    PROVE  /\ \A n \in Nat : [u EXCEPT !.pc = "read", !.now = n] \in SweepState
           /\ \A S \in SUBSET Sessions : [u EXCEPT !.pc = "expire", !.skip = S] \in SweepState
           /\ \A c \in SweepClose, b \in BOOLEAN :
                 [u EXCEPT !.pc = "report", !.close = c, !.closed = b] \in SweepState
           /\ \A pc \in {"idle", "reclaim"} : [u EXCEPT !.pc = pc] \in SweepState
<1>1. \A n \in Nat : [u EXCEPT !.pc = "read", !.now = n] \in SweepState
  BY Zenon DEF SweepState, Maybe
<1>2. \A S \in SUBSET Sessions : [u EXCEPT !.pc = "expire", !.skip = S] \in SweepState
  BY Zenon DEF SweepState, Maybe
<1>3. \A c \in SweepClose, b \in BOOLEAN :
         [u EXCEPT !.pc = "report", !.close = c, !.closed = b] \in SweepState
  BY Zenon DEF SweepState, Maybe
<1>4. \A pc \in {"idle", "reclaim"} : [u EXCEPT !.pc = pc] \in SweepState
  BY Zenon DEF SweepState, Maybe
<1> QED BY <1>1, <1>2, <1>3, <1>4

\* The sweep's idle state is a sweep state.
LEMMA SweepIdleType == SweepIdle \in SweepState /\ SweepIdle.now = 0
BY DEF SweepIdle, SweepState, Maybe

\* Every sweep starts over from its idle state.
LEMMA SweepStartsOver ==
    ASSUME TypeOK',
           sweep' = [SweepIdle EXCEPT !.pc = IF sweep_closes' = {} THEN "idle" ELSE "reclaim"],
           profile' = profile, Sweeps
    PROVE  sweep' \in SweepState /\ SweepShape'
<1> DEFINE pc == IF sweep_closes' = {} THEN "idle" ELSE "reclaim"
<1>1. pc \in {"idle", "reclaim"}
  OBVIOUS
<1>2. sweep' = [SweepIdle EXCEPT !.pc = pc]
  OBVIOUS
<1> HIDE DEF pc
<1>3. sweep' \in SweepState
  BY <1>1, <1>2, SweepFields, SweepIdleType
<1>4. sweep'.now = 0 /\ sweep'.pc = pc
  BY <1>2 DEF SweepIdle
<1>5. clock' \in Nat
  BY DEF TypeOK
<1> QED BY <1>1, <1>3, <1>4, <1>5 DEF SweepShape, Sweeps

Others == /\ profile' \in Profiles
          /\ page' \in [Targets -> {"unborn", "open", "closed", "lost", "left"}]
          /\ origin' \in [Targets -> {"none", "vbl", "human"}]
          /\ preserved' \in SUBSET Targets
          /\ page_lifecycle' \in Maybe(Requests)
          /\ sweep' \in SweepState
          /\ SweepShape'

\* Profile, pages, histories, lock and sweep keep their types, and the sweep its shape.
LEMMA OthersNext ==
    ASSUME ShapeInv, RegistryInv, TypeOK', [BrokerNext]_brokerVars
    PROVE  Others
<1>a. /\ profile \in Profiles
      /\ page \in [Targets -> {"unborn", "open", "closed", "lost", "left"}]
      /\ origin \in [Targets -> {"none", "vbl", "human"}]
      /\ preserved \in SUBSET Targets
      /\ page_lifecycle \in Maybe(Requests)
      /\ sweep \in SweepState
      /\ SweepShape /\ TypeOK
      /\ \A r \in Requests : RequestShape(r)
  BY DEF ShapeInv, BrokerTypeOK
<1>b. ASSUME UNCHANGED <<profile, page, origin, preserved, page_lifecycle, sweep>>,
             UNCHANGED <<sweep_closes, clock>>
      PROVE  Others
  BY <1>a, <1>b DEF Others, SweepShape, Sweeps
<1>z. Quiet \/ SweepExpire \/ SweepReport
  BY OnlyTheSweep
<1>y. ASSUME NEW t \in Targets, NEW as \in {"closed", "lost"}
      PROVE  Shut(t, as) \in [Targets -> {"unborn", "open", "closed", "lost", "left"}]
  BY <1>a DEF Shut
<1>x. ASSUME UNCHANGED <<profile, sweep>>, Quiet, clock' >= clock
      PROVE  sweep' \in SweepState /\ SweepShape'
  BY <1>a, <1>x DEF SweepShape, Sweeps, Quiet, SweepState, TypeOK
<1>w. clock' \in Nat /\ clock \in Nat /\ sweep_closes \in SUBSET SweepClose
  BY <1>a DEF TypeOK
<1>v. sweep.now \in Nat
  BY <1>a DEF SweepState
<1> USE DEF OnlyRequests, NoBrowserWork, OnlySweep, registryVars, chromeVars, vars
<1>1. ASSUME NEW r \in Requests, Register(r) \/ DropGuard(r) \/ EnsureSession(r) \/
             CreatePageFails(r) \/ LeaseCreatedRefused(r) \/ ValidateRelease(r) \/
             ReleaseRefused(r) \/ ValidateClose(r) \/ ReserveRefused(r) \/ ReadInventory(r)
      PROVE  Others
  BY <1>1, <1>b
  DEF Register, DropGuard, EnsureSession, CreatePageFails, LeaseCreatedRefused,
      ValidateRelease, ReleaseRefused, ValidateClose, ReserveRefused, ReadInventory, expiryVars
<1>2. ASSUME NEW r \in Requests, LookUpClaim(r) \/ ClaimFails(r)
      PROVE  Others
  BY <1>2, <1>a
  DEF LookUpClaim, ClaimFails, Others, SweepShape, Sweeps, Maybe, expiryVars
<1>3. ASSUME NEW r \in Requests, NEW m \in profile.methods \ {"start_session", "start_with_url"},
             NEW s \in Sessions, NEW b \in Maybe(Tabs), NEW t \in Maybe(Targets),
             (m \in TabMethods) = (b # None), (m \in TargetMethods) = (t # None),
             Dispatch(r, m, s, b, t)
      PROVE  Others
  <2>1. UNCHANGED <<profile, origin, sweep, sweep_closes>> /\ (clock' = clock \/ clock' = clock + 1)
    BY <1>3 DEF Dispatch, Touch, expiryVars
  <2>2. sweep' \in SweepState /\ SweepShape'
    BY <1>a, <1>v, <1>w, <2>1 DEF SweepShape, Sweeps
  <2> QED BY <1>3, <1>a, <2>1, <2>2 DEF Dispatch, Others, Maybe
<1>4. ASSUME NEW r \in Requests, NEW m \in profile.methods \cap {"start_session", "start_with_url"},
             NEW s \in Sessions, DispatchStartSession(r, s, m)
      PROVE  Others
  <2>1. UNCHANGED <<profile, origin, sweep, sweep_closes>> /\ (clock' = clock \/ clock' = clock + 1)
    BY <1>4 DEF DispatchStartSession, StartSession, expiryVars
  <2>2. sweep' \in SweepState /\ SweepShape'
    BY <1>a, <1>v, <1>w, <2>1 DEF SweepShape, Sweeps
  <2> QED BY <1>4, <1>a, <2>1, <2>2 DEF DispatchStartSession, Others, Maybe
<1>5. ASSUME NEW r \in Requests, FinalTouch(r)
      PROVE  Others
  <2>1. UNCHANGED <<profile, origin, sweep, sweep_closes>> /\ (clock' = clock \/ clock' = clock + 1)
    BY <1>5 DEF FinalTouch, Touch, expiryVars
  <2>2. sweep' \in SweepState /\ SweepShape'
    BY <1>a, <1>v, <1>w, <2>1 DEF SweepShape, Sweeps
  <2> QED BY <1>5, <1>a, <2>1, <2>2 DEF FinalTouch, Others, Maybe
<1>6. ASSUME NEW r \in Requests, Release(r)
      PROVE  Others
  <2>1. UNCHANGED <<profile, origin, sweep, sweep_closes>> /\ (clock' = clock \/ clock' = clock + 1)
    BY <1>6 DEF Release, ReleaseTab, expiryVars
  <2>2. sweep' \in SweepState /\ SweepShape'
    BY <1>a, <1>v, <1>w, <2>1 DEF SweepShape, Sweeps
  <2>3. leases[req[r].tab].target \in Targets
    BY <1>6, <1>a
      DEF Release, ReleaseTab, RequireOwnedTab, RegistryInv, TargetInv, LeasesComplete,
       RequestShape, TabMethods
  <2> QED BY <1>6, <1>a, <2>1, <2>2, <2>3 DEF Release, Others, Maybe
<1>7. ASSUME NEW r \in Requests, Reserve(r)
      PROVE  Others
  <2>1. UNCHANGED <<profile, origin, sweep, sweep_closes>> /\ (clock' = clock \/ clock' = clock + 1)
    BY <1>7 DEF Reserve, ReserveOwnedTabClose, expiryVars
  <2>2. sweep' \in SweepState /\ SweepShape'
    BY <1>a, <1>v, <1>w, <2>1 DEF SweepShape, Sweeps
  <2> QED BY <1>7, <1>a, <2>1, <2>2 DEF Reserve, Others, Maybe
<1>8. ASSUME NEW r \in Requests, ClosePage(r)
      PROVE  Others
  <2>1. req[r].target \in Targets
    BY <1>8, <1>a DEF ClosePage, RequestShape
  <2> QED BY <1>8, <1>a, <1>y, <2>1 DEF ClosePage, Others, SweepShape, Sweeps, expiryVars
<1>9. ASSUME NEW r \in Requests, ClosePageFails(r)
      PROVE  Others
  <2>1. UNCHANGED <<profile, origin, sweep, sweep_closes>> /\ (clock' = clock \/ clock' = clock + 1)
    BY <1>9 DEF ClosePageFails, EndReservation, FinishOwnedTabCloseReservation, expiryVars
  <2>2. sweep' \in SweepState /\ SweepShape'
    BY <1>a, <1>v, <1>w, <2>1 DEF SweepShape, Sweeps
  <2>3. req[r].target \in Targets
    BY <1>9, <1>a DEF ClosePageFails, RequestShape
  <2> QED BY <1>9, <1>a, <1>y, <2>1, <2>2, <2>3 DEF ClosePageFails, Others, Maybe
<1>10. ASSUME NEW r \in Requests, CommitClose(r)
      PROVE  Others
  <2>1. UNCHANGED <<profile, origin, sweep, sweep_closes>> /\ (clock' = clock \/ clock' = clock + 1)
    BY <1>10
      DEF CommitClose, EndReservation, FinishOwnedTabCloseReservation, CommitOwnedTabClose,
          expiryVars
  <2>2. sweep' \in SweepState /\ SweepShape'
    BY <1>a, <1>v, <1>w, <2>1 DEF SweepShape, Sweeps
  <2> QED BY <1>10, <1>a, <2>1, <2>2 DEF CommitClose, Others, Maybe
<1>11. ASSUME NEW r \in Requests, ReconcileMissingTargets(r)
      PROVE  Others
  <2>1. UNCHANGED <<profile, origin, sweep, sweep_closes>> /\ (clock' = clock \/ clock' = clock + 1)
    BY <1>11 DEF ReconcileMissingTargets, MarkMissingTargetsNotIn, MarkMissing, expiryVars
  <2>2. sweep' \in SweepState /\ SweepShape'
    BY <1>a, <1>v, <1>w, <2>1 DEF SweepShape, Sweeps
  <2> QED BY <1>11, <1>a, <2>1, <2>2 DEF ReconcileMissingTargets, Others, Maybe
<1>12. ASSUME NEW r \in Requests, CheckActiveOwned(r)
      PROVE  Others
  <2>1. UNCHANGED <<profile, origin, sweep, sweep_closes>> /\ (clock' = clock \/ clock' = clock + 1)
    BY <1>12 DEF CheckActiveOwned, RequireActiveOwnedMissing, MarkMissing, expiryVars
  <2>2. sweep' \in SweepState /\ SweepShape'
    BY <1>a, <1>v, <1>w, <2>1 DEF SweepShape, Sweeps
  <2> QED BY <1>12, <1>a, <2>1, <2>2 DEF CheckActiveOwned, Others, Maybe
<1>13. ASSUME NEW r \in Requests, NEW t \in Targets, CreatePage(r, t)
      PROVE  Others
  BY <1>13, <1>a DEF CreatePage, Others, SweepShape, Sweeps, expiryVars
<1>14. ASSUME NEW r \in Requests, NEW b \in Tabs, LeaseCreated(r, b)
      PROVE  Others
  <2>1. UNCHANGED <<profile, origin, sweep, sweep_closes>> /\ (clock' = clock \/ clock' = clock + 1)
    BY <1>14 DEF LeaseCreated, LeaseTab, expiryVars
  <2>2. sweep' \in SweepState /\ SweepShape'
    BY <1>a, <1>v, <1>w, <2>1 DEF SweepShape, Sweeps
  <2> QED BY <1>14, <1>a, <2>1, <2>2 DEF LeaseCreated, Others, Maybe
<1>15. ASSUME NEW r \in Requests, NEW b \in Tabs, Claim(r, b)
      PROVE  Others
  <2>1. UNCHANGED <<profile, origin, sweep, sweep_closes>> /\ (clock' = clock \/ clock' = clock + 1)
    BY <1>15 DEF Claim, ClaimTab, expiryVars
  <2>2. sweep' \in SweepState /\ SweepShape'
    BY <1>a, <1>v, <1>w, <2>1 DEF SweepShape, Sweeps
  <2> QED BY <1>15, <1>a, <2>1, <2>2 DEF Claim, Others, Maybe
<1>16. CASE SweepReadClock
  <2> DEFINE u == [sweep EXCEPT !.pc = "read", !.now = clock]
  <2>1. u \in SweepState
    BY <1>a, <1>w, SweepFields
  <2>2. u.pc = "read" /\ u.now = clock
    BY <1>a DEF SweepState
  <2>3. sweep' = u
    BY <1>16 DEF SweepReadClock
  <2> HIDE DEF u
  <2> QED BY <1>16, <1>a, <1>w, <2>1, <2>2, <2>3 DEF SweepReadClock, Others, SweepShape, Sweeps
<1>17. CASE SweepReadInFlight
  <2> DEFINE S == {s \in Sessions : in_flight_sessions[s] > 0}
             u == [sweep EXCEPT !.pc = "expire", !.skip = S]
  <2>1. u \in SweepState
    BY <1>a, SweepFields
  <2>2. u.pc = "expire" /\ u.now = sweep.now
    BY <1>a DEF SweepState
  <2>3. sweep' = u
    BY <1>17 DEF SweepReadInFlight
  <2> HIDE DEF u
  <2> QED BY <1>17, <1>a, <1>w, <2>1, <2>2, <2>3
    DEF SweepReadInFlight, Others, SweepShape, Sweeps, OnlySweep, expiryVars
<1>18. CASE SweepExpire
  <2>1. Sweeps /\ profile' = profile
    BY <1>18, <1>a DEF SweepExpire, SweepShape
  <2>2. sweep' \in SweepState /\ SweepShape'
    BY <1>18, <2>1, SweepStartsOver DEF SweepExpire
  <2> QED BY <1>18, <1>a, <2>1, <2>2 DEF SweepExpire, Others
<1>19. CASE SweepReport
  <2>1. Sweeps /\ profile' = profile
    BY <1>19, <1>a DEF SweepReport, SweepShape
  <2>2. sweep' \in SweepState /\ SweepShape'
    BY <1>19, <2>1, SweepStartsOver DEF SweepReport
  <2> QED BY <1>19, <1>a, <2>1, <2>2 DEF SweepReport, Others
<1>20. ASSUME NEW c \in sweep_closes, SweepClosePage(c)
      PROVE  Others
  <2>1. PICK b \in BOOLEAN : sweep' = [sweep EXCEPT !.pc = "report", !.close = c, !.closed = b]
    BY <1>20 DEF SweepClosePage
  <2>c. c \in SweepClose
    BY <1>w
  <2>d. Sweeps
    BY <1>20, <1>a DEF SweepClosePage, SweepShape
  <2>2. c \in SweepClose /\ c.target \in Targets /\ Sweeps
    BY <2>c, <2>d DEF SweepClose
  <2>3. sweep' \in SweepState
    BY <1>a, <2>1, <2>2, SweepFields
  <2>4. sweep'.pc = "report" /\ sweep'.close = c /\ sweep'.now = sweep.now
    BY <1>a, <2>1 DEF SweepState
  <2> QED BY <1>20, <1>a, <1>w, <1>y, <2>2, <2>3, <2>4
    DEF SweepClosePage, Others, SweepShape, Sweeps, expiryVars
<1>21. ASSUME NEW t \in Targets, HumanOpens(t)
      PROVE  Others
  BY <1>21, <1>a DEF HumanOpens, Others, SweepShape, Sweeps, expiryVars
<1>22. ASSUME NEW t \in Targets, HumanCloses(t)
      PROVE  Others
  BY <1>22, <1>a DEF HumanCloses, Others, SweepShape, Sweeps, expiryVars
<1>23. CASE TimePasses
  <2>1. UNCHANGED <<profile, origin, sweep, sweep_closes>> /\ (clock' = clock \/ clock' = clock + 1)
    BY <1>23 DEF TimePasses, Tick, expiryVars
  <2>2. sweep' \in SweepState /\ SweepShape'
    BY <1>a, <1>v, <1>w, <2>1 DEF SweepShape, Sweeps
  <2> QED BY <1>23, <1>a, <2>1, <2>2 DEF TimePasses, Others, Maybe
<1>24. CASE UNCHANGED brokerVars
  BY <1>24, <1>b DEF brokerVars, expiryVars
<1> QED
  BY <1>1, <1>2, <1>3, <1>4, <1>5, <1>6, <1>7, <1>8, <1>9, <1>10, <1>11, <1>12, <1>13,
     <1>14, <1>15, <1>16, <1>17, <1>18, <1>19, <1>20, <1>21, <1>22, <1>23, <1>24
  DEF BrokerNext, ClientSends, RequestStep, SweepStep, HumanStep

(***************************************************************************)
(* The in-flight counts.                                                   *)
(***************************************************************************)
CountsExact == \A s \in Sessions : in_flight_sessions[s] = Cardinality(InFlight(s))
JustTouched(r) == At(r, "register") /\ Live(req[r].session) =>
                     clock <= sessions[req[r].session].updated_at + Ttl
Spared(r) == Registered(r) /\ Live(req[r].session) =>
                \/ req[r].session \in sweep.skip
                \/ sweep.now <= sessions[req[r].session].updated_at + Ttl

\* The step neither registers nor unregisters q, and does not dispatch it.
Keeps(q) == /\ Registered(q)' <=> Registered(q)
            /\ Registered(q) => req'[q].session = req[q].session
            /\ At(q, "register")' => At(q, "register") /\ req'[q].session = req[q].session

\* Moving a request on, except to and from its registration, keeps it registered.
LEMMA GotoKeeps ==
    ASSUME req \in [Requests -> RequestState], NEW r \in Requests, NEW pc \in Pcs \ {"register"},
           ~At(r, "register"), Goto(r, pc)
    PROVE  \A q \in Requests : Keeps(q)
BY GotoRewrites DEF Keeps, Registered, At, Rewrites

\* Ending a request's handler keeps it registered: the guard is dropped later.
LEMMA EndKeeps ==
    ASSUME req \in [Requests -> RequestState], NEW r \in Requests, ~At(r, "register"), End(r),
           req[r].guarded => req[r].session \in Sessions
    PROVE  \A q \in Requests : Keeps(q)
<1>1. Rewrites(r) /\ Ended(r)
  BY EndRewrites
<1>2. req[r].guarded \in BOOLEAN
  BY DEF RequestState
<1> QED BY <1>1, <1>2 DEF Keeps, Registered, At, Rewrites, Ended

\* Only registration, the guard's drop and dispatch change who is registered.
LEMMA StepKeeps ==
    ASSUME ShapeInv, RegistryInv, [BrokerNext]_brokerVars
    PROVE  \/ \A q \in Requests : Keeps(q)
           \/ \E r \in Requests : Register(r) \/ DropGuard(r)
           \/ \E r \in Requests, m \in AllMethods, s \in Sessions,
                b \in Maybe(Tabs), t \in Maybe(Targets) :
                 Dispatch(r, m, s, b, t)
<1> DEFINE Goal == \/ \A q \in Requests : Keeps(q)
                   \/ \E r \in Requests : Register(r) \/ DropGuard(r)
                   \/ \E r \in Requests, m \in AllMethods, s \in Sessions,
                        b \in Maybe(Tabs), t \in Maybe(Targets) :
                         Dispatch(r, m, s, b, t)
<1>a. /\ req \in [Requests -> RequestState] /\ profile.methods \subseteq AllMethods
      /\ \A r \in Requests : RequestShape(r)
  BY BrokerProfilesAssumption DEF ShapeInv, BrokerTypeOK, Profile
<1>b. ASSUME req' = req PROVE Goal
  BY <1>b DEF Keeps, Registered, At
<1>c. ASSUME NEW r \in Requests, NEW pc \in Pcs \ {"register"}, ~At(r, "register"), Goto(r, pc)
      PROVE  Goal
  BY <1>a, <1>c, GotoKeeps
<1>d. ASSUME NEW r \in Requests, ~At(r, "idle"), ~At(r, "register"), End(r) PROVE Goal
  <2>1. req[r].session \in Sessions
    BY <1>a, <1>d DEF RequestShape
  <2> QED BY <1>a, <1>d, <2>1, EndKeeps
<1>e. ASSUME NEW r \in Requests, NEW u, ~At(r, "register"), req' = [req EXCEPT ![r] = u],
             u.guarded = req[r].guarded, u.session = req[r].session, u.pc # "register"
      PROVE  Goal
  BY <1>a, <1>e DEF Keeps, Registered, At
<1> SUFFICES Goal
  OBVIOUS
<1> HIDE DEF Goal
<1> USE DEF OnlyRequests, NoBrowserWork, OnlySweep, Handles
<1>1. CASE SweepReadClock \/ SweepReadInFlight \/ SweepExpire \/ SweepReport \/ TimePasses
  BY <1>1, <1>b
  DEF SweepReadClock, SweepReadInFlight, SweepExpire, SweepReport, TimePasses
<1>2. ASSUME NEW r \in Requests, FinalTouch(r) \/ ClosePage(r)
      PROVE  Goal
  BY <1>2, <1>c
  DEF FinalTouch, ClosePage, At, Pcs
<1>3. ASSUME NEW r \in Requests, CreatePageFails(r) \/ LeaseCreatedRefused(r) \/
             ClaimFails(r) \/ Release(r) \/ ReleaseRefused(r) \/ ReserveRefused(r)
      PROVE  Goal
  BY <1>3, <1>d
  DEF CreatePageFails, LeaseCreatedRefused, ClaimFails, Release, ReleaseRefused,
      ReserveRefused, At
<1>4. ASSUME NEW r \in Requests, ClosePageFails(r) \/ CommitClose(r) \/ CheckActiveOwned(r)
      PROVE  Goal
  BY <1>4, <1>d
  DEF ClosePageFails, CommitClose, CheckActiveOwned, At
<1>5. ASSUME NEW r \in Requests, NEW m \in profile.methods \ {"start_session", "start_with_url"},
             NEW s \in Sessions, NEW b \in Maybe(Tabs), NEW t \in Maybe(Targets),
             (m \in TabMethods) = (b # None), (m \in TargetMethods) = (t # None),
             Dispatch(r, m, s, b, t)
      PROVE  Goal
  <2>1. m \in AllMethods
    BY <1>a
  <2> QED BY <1>5, <2>1 DEF Goal
<1>6. ASSUME NEW r \in Requests, NEW m \in profile.methods \cap {"start_session", "start_with_url"},
             NEW s \in Sessions, DispatchStartSession(r, s, m)
      PROVE  Goal
  <2>1. At(r, "idle") /\ ~req[r].guarded
    BY <1>6, <1>a DEF DispatchStartSession, RequestShape
  <2> DEFINE u == IF m = "start_with_url"
                  THEN [Idle EXCEPT !.pc = "handle", !.method = m, !.session = s] ELSE Idle
  <2>a. req' = [req EXCEPT ![r] = u]
    BY <1>6 DEF DispatchStartSession
  <2>b. u.guarded = FALSE /\ u.pc # "register"
    BY DEF Idle
  <2> HIDE DEF u
  <2>2. req' = [req EXCEPT ![r] = u] /\ u.guarded = FALSE /\ u.pc # "register"
    BY <2>a, <2>b
  <2> QED BY <1>a, <2>1, <2>2 DEF Goal, Keeps, Registered, At
<1>7. ASSUME NEW r \in Requests, Register(r)
      PROVE  Goal
  BY <1>7 DEF Goal
<1>8. ASSUME NEW r \in Requests, DropGuard(r)
      PROVE  Goal
  BY <1>8 DEF Goal
<1>9. ASSUME NEW r \in Requests, EnsureSession(r)
      PROVE  Goal
  <2>1. ~At(r, "idle") /\ ~At(r, "register")
    BY <1>9 DEF EnsureSession, At
  <2> QED BY <1>9, <1>c, <1>d, <2>1 DEF EnsureSession, Pcs
<1>10. ASSUME NEW r \in Requests, LookUpClaim(r)
      PROVE  Goal
  <2>1. ~At(r, "idle") /\ ~At(r, "register")
    BY <1>10 DEF LookUpClaim, At
  <2> QED BY <1>10, <1>c, <1>d, <2>1 DEF LookUpClaim, Pcs
<1>11. ASSUME NEW r \in Requests, ValidateRelease(r)
      PROVE  Goal
  <2>1. ~At(r, "idle") /\ ~At(r, "register")
    BY <1>11 DEF ValidateRelease, At
  <2> QED BY <1>11, <1>c, <1>d, <2>1 DEF ValidateRelease, Pcs
<1>12. ASSUME NEW r \in Requests, ValidateClose(r)
      PROVE  Goal
  <2>1. ~At(r, "idle") /\ ~At(r, "register")
    BY <1>12 DEF ValidateClose, At
  <2> QED BY <1>12, <1>c, <1>d, <2>1 DEF ValidateClose, Pcs
<1>13. ASSUME NEW r \in Requests, Reserve(r)
      PROVE  Goal
  <2> DEFINE u == [req[r] EXCEPT !.target = leases[req[r].tab].target,
                 !.pc = IF leases[req[r].tab].state = "active" THEN "closing" ELSE "commit"]
  <2>1. req' = [req EXCEPT ![r] = u] /\ ~At(r, "register")
    BY <1>13 DEF Reserve, At
  <2>2. u.guarded = req[r].guarded /\ u.session = req[r].session /\ u.pc # "register"
    BY <1>a DEF RequestState
  <2> QED BY <1>e, <2>1, <2>2
<1>14. ASSUME NEW r \in Requests, ReadInventory(r)
      PROVE  Goal
  <2>1. ~At(r, "idle") /\ ~At(r, "register")
    BY <1>14 DEF ReadInventory, At
  <2>2. CASE End(r)
    BY <1>d, <2>1, <2>2
  <2>3. CASE req' = [req EXCEPT ![r].pc = "reconcile", ![r].seen = OpenPages]
    <3> DEFINE u == [req[r] EXCEPT !.pc = "reconcile", !.seen = OpenPages]
    <3>1. req' = [req EXCEPT ![r] = u]
      BY <2>3
    <3>2. u.guarded = req[r].guarded /\ u.session = req[r].session /\ u.pc # "register"
      BY <1>a DEF RequestState
    <3> QED BY <1>e, <2>1, <3>1, <3>2
  <2> QED BY <1>14, <2>2, <2>3 DEF ReadInventory
<1>15. ASSUME NEW r \in Requests, ReconcileMissingTargets(r)
      PROVE  Goal
  <2>1. ~At(r, "idle") /\ ~At(r, "register")
    BY <1>15 DEF ReconcileMissingTargets, At
  <2> QED BY <1>15, <1>c, <1>d, <2>1 DEF ReconcileMissingTargets, Pcs
<1>16. ASSUME NEW r \in Requests, NEW t \in Targets, CreatePage(r, t)
      PROVE  Goal
  <2>1. ~At(r, "idle") /\ ~At(r, "register")
    BY <1>16 DEF CreatePage, At
  <2>2. CASE End(r)
    BY <1>d, <2>1, <2>2
  <2>3. CASE req' = [req EXCEPT ![r].pc = "lease", ![r].target = t]
    <3> DEFINE u == [req[r] EXCEPT !.pc = "lease", !.target = t]
    <3>1. req' = [req EXCEPT ![r] = u]
      BY <2>3
    <3>2. u.guarded = req[r].guarded /\ u.session = req[r].session /\ u.pc # "register"
      BY <1>a DEF RequestState
    <3> QED BY <1>e, <2>1, <3>1, <3>2
  <2> QED BY <1>16, <2>2, <2>3 DEF CreatePage
<1>17. ASSUME NEW r \in Requests, NEW b \in Tabs, LeaseCreated(r, b)
      PROVE  Goal
  BY <1>17, <1>d DEF LeaseCreated, At
<1>18. ASSUME NEW r \in Requests, NEW b \in Tabs, Claim(r, b)
      PROVE  Goal
  BY <1>18, <1>d DEF Claim, At
<1>19. ASSUME NEW c \in sweep_closes, SweepClosePage(c)
      PROVE  Goal
  BY <1>19, <1>b DEF SweepClosePage
<1>20. ASSUME NEW t \in Targets, HumanOpens(t)
      PROVE  Goal
  BY <1>20, <1>b DEF HumanOpens
<1>21. ASSUME NEW t \in Targets, HumanCloses(t)
      PROVE  Goal
  BY <1>21, <1>b DEF HumanCloses
<1>22. CASE UNCHANGED brokerVars
  BY <1>22, <1>b DEF brokerVars
<1> QED
  BY <1>1, <1>2, <1>3, <1>4, <1>5, <1>6, <1>7, <1>8, <1>9, <1>10, <1>11, <1>12, <1>13,
     <1>14, <1>15, <1>16, <1>17, <1>18, <1>19, <1>20, <1>21, <1>22
  DEF BrokerNext, ClientSends, RequestStep, SweepStep, HumanStep

\* What a step does to the clock, the counts and the sweep.
LEMMA StepMoves ==
    ASSUME ShapeInv, [BrokerNext]_brokerVars
    PROVE  /\ sweep' = sweep \/ SweepReadInFlight \/ sweep'.pc # "expire"
           /\ \/ in_flight_sessions' = in_flight_sessions
              \/ \E r \in Requests : Register(r) \/ DropGuard(r)
           /\ clock' = clock \/ TimePasses
<1> DEFINE Goal == /\ sweep' = sweep \/ SweepReadInFlight \/ sweep'.pc # "expire"
                   /\ \/ in_flight_sessions' = in_flight_sessions
                      \/ \E r \in Requests : Register(r) \/ DropGuard(r)
                   /\ clock' = clock \/ TimePasses
<1>a. sweep \in SweepState
  BY DEF ShapeInv, BrokerTypeOK
<1>b. ASSUME UNCHANGED <<sweep, in_flight_sessions, clock>> PROVE Goal
  BY <1>b
<1> SUFFICES Goal
  OBVIOUS
<1> HIDE DEF Goal
<1> USE DEF OnlyRequests, NoBrowserWork, OnlySweep, registryVars, vars
<1>1. ASSUME NEW r \in Requests, EnsureSession(r) \/ CreatePageFails(r) \/
             LeaseCreatedRefused(r) \/ LookUpClaim(r) \/ ClaimFails(r) \/ ValidateRelease(r) \/
             ReleaseRefused(r) \/ ValidateClose(r) \/ ReserveRefused(r) \/ ClosePage(r) \/
             ReadInventory(r)
      PROVE  Goal
  BY <1>1, <1>b
  DEF EnsureSession, CreatePageFails, LeaseCreatedRefused, LookUpClaim, ClaimFails,
      ValidateRelease, ReleaseRefused, ValidateClose, ReserveRefused, ClosePage, ReadInventory
<1>2. ASSUME NEW r \in Requests, Register(r) \/ DropGuard(r)
      PROVE  Goal
  BY <1>2
  DEF Register, DropGuard, Goal
<1>3. ASSUME NEW r \in Requests, FinalTouch(r) \/ Release(r) \/ Reserve(r) \/
             ClosePageFails(r) \/ CommitClose(r) \/ ReconcileMissingTargets(r)
      PROVE  Goal
  BY <1>3, <1>b
  DEF FinalTouch, Release, Reserve, ClosePageFails, CommitClose, ReconcileMissingTargets,
      Touch, ReleaseTab, ReserveOwnedTabClose, EndReservation, FinishOwnedTabCloseReservation,
      CommitOwnedTabClose, MarkMissingTargetsNotIn, MarkMissing
<1>4. CASE SweepReadClock \/ SweepExpire \/ SweepReport
  BY <1>4, <1>a
  DEF SweepReadClock, SweepExpire, SweepReport, Goal, SweepState, SweepIdle, ExpireSessions,
      ExpireBatch, FinishExpiredTargetClose
<1>5. CASE SweepReadInFlight \/ TimePasses
  BY <1>5
  DEF SweepReadInFlight, TimePasses, Goal
<1>6. ASSUME NEW r \in Requests, NEW m \in profile.methods \ {"start_session", "start_with_url"},
             NEW s \in Sessions, NEW b \in Maybe(Tabs), NEW t \in Maybe(Targets),
             (m \in TabMethods) = (b # None), (m \in TargetMethods) = (t # None),
             Dispatch(r, m, s, b, t)
      PROVE  Goal
  BY <1>6, <1>b DEF Dispatch, Touch
<1>7. ASSUME NEW r \in Requests, NEW m \in profile.methods \cap {"start_session", "start_with_url"},
             NEW s \in Sessions, DispatchStartSession(r, s, m)
      PROVE  Goal
  BY <1>7, <1>b DEF DispatchStartSession, StartSession
<1>8. ASSUME NEW r \in Requests, CheckActiveOwned(r)
      PROVE  Goal
  BY <1>8, <1>b DEF CheckActiveOwned, RequireActiveOwnedMissing, MarkMissing
<1>9. ASSUME NEW r \in Requests, NEW t \in Targets, CreatePage(r, t)
      PROVE  Goal
  BY <1>9, <1>b DEF CreatePage
<1>10. ASSUME NEW r \in Requests, NEW b \in Tabs, LeaseCreated(r, b)
      PROVE  Goal
  BY <1>10, <1>b DEF LeaseCreated, LeaseTab
<1>11. ASSUME NEW r \in Requests, NEW b \in Tabs, Claim(r, b)
      PROVE  Goal
  BY <1>11, <1>b DEF Claim, ClaimTab
<1>12. ASSUME NEW c \in sweep_closes, SweepClosePage(c)
      PROVE  Goal
  BY <1>12, <1>a DEF SweepClosePage, Goal, SweepState
<1>13. ASSUME NEW t \in Targets, HumanOpens(t)
      PROVE  Goal
  BY <1>13, <1>b DEF HumanOpens
<1>14. ASSUME NEW t \in Targets, HumanCloses(t)
      PROVE  Goal
  BY <1>14, <1>b DEF HumanCloses
<1>15. CASE UNCHANGED brokerVars
  BY <1>15, <1>b DEF brokerVars
<1> QED
  BY <1>1, <1>2, <1>3, <1>4, <1>5, <1>6, <1>7, <1>8, <1>9, <1>10, <1>11, <1>12, <1>13,
     <1>14, <1>15
  DEF BrokerNext, ClientSends, RequestStep, SweepStep, HumanStep

\* Finitely many requests are registered for a session.
LEMMA InFlightFinite ==
    ASSUME NEW s
    PROVE  IsFiniteSet(InFlight(s)) /\ Cardinality(InFlight(s)) \in Nat
BY RequestsAssumption, FS_Subset, FS_CardinalityType DEF InFlight

\* The count of a session is the number of its registered requests, after every step.
LEMMA CountsNext ==
    ASSUME ShapeInv, RegistryInv, InFlightInv, [BrokerNext]_brokerVars,
           req' \in [Requests -> RequestState]
    PROVE  in_flight_sessions' \in [Sessions -> Nat] /\ CountsExact'
<1>a. /\ req \in [Requests -> RequestState] /\ in_flight_sessions \in [Sessions -> Nat]
      /\ \A r \in Requests : RequestShape(r)
  BY DEF ShapeInv, BrokerTypeOK
<1>b. CountsExact
  BY DEF InFlightInv, CountsExact
<1>1. ASSUME \A q \in Requests : Keeps(q), in_flight_sessions' = in_flight_sessions
      PROVE  in_flight_sessions' \in [Sessions -> Nat] /\ CountsExact'
  <2>1. \A s \in Sessions : InFlight(s)' = InFlight(s)
    BY <1>1 DEF InFlight, Keeps
  <2> QED BY <1>1, <1>a, <1>b, <2>1 DEF CountsExact
<1>2. ASSUME NEW r \in Requests, Register(r)
      PROVE  in_flight_sessions' \in [Sessions -> Nat] /\ CountsExact'
  <2>0. PICK s : s = req[r].session
    OBVIOUS
  <2>1. /\ s \in Sessions /\ r \notin InFlight(s) /\ req[r].guarded
    BY <1>2, <2>0, <1>a DEF Register, RequestShape, At, InFlight, Registered
  <2>2. /\ Rewrites(r) /\ req'[r].session = s /\ req'[r].guarded = req[r].guarded
        /\ req'[r].pc = "handle"
    BY <1>2, <2>0, <1>a, GotoRewrites DEF Register, Pcs
  <2>3. in_flight_sessions' = [in_flight_sessions EXCEPT ![s] = @ + 1]
    BY <1>2, <2>0 DEF Register
  <2>4. InFlight(s)' = InFlight(s) \cup {r}
    BY <2>0, <2>1, <2>2 DEF InFlight, Registered, At, Rewrites
  <2>5. Cardinality(InFlight(s)') = Cardinality(InFlight(s)) + 1
    BY <2>1, <2>4, InFlightFinite, FS_AddElement
  <2>6. \A z \in Sessions \ {s} : InFlight(z)' = InFlight(z)
    BY <1>2, <2>0, <2>2 DEF InFlight, Registered, At, Rewrites, Register
  <2>7. in_flight_sessions' \in [Sessions -> Nat]
    BY <1>a, <2>1, <2>3
  <2>8. ASSUME NEW z \in Sessions PROVE in_flight_sessions'[z] = Cardinality(InFlight(z)')
    BY <1>a, <1>b, <2>1, <2>3, <2>5, <2>6 DEF CountsExact
  <2> QED BY <2>7, <2>8 DEF CountsExact
<1>3. ASSUME NEW r \in Requests, DropGuard(r)
      PROVE  in_flight_sessions' \in [Sessions -> Nat] /\ CountsExact'
  <2>0. PICK s : s = req[r].session
    OBVIOUS
  <2>1. /\ s \in Sessions /\ r \in InFlight(s)
    BY <1>3, <2>0, <1>a DEF DropGuard, RequestShape, At, InFlight, Registered
  <2>2. /\ Rewrites(r) /\ req'[r] = Idle
    BY <1>3, <1>a DEF DropGuard, Rewrites
  <2>3. in_flight_sessions' = [in_flight_sessions EXCEPT ![s] = @ - 1]
    BY <1>3, <2>0 DEF DropGuard
  <2>a. Idle.guarded = FALSE
    BY DEF Idle
  <2>4. InFlight(s)' = InFlight(s) \ {r}
    BY <2>0, <2>1, <2>2, <2>a DEF InFlight, Registered, At, Rewrites
  <2>5. Cardinality(InFlight(s)') = Cardinality(InFlight(s)) - 1
    BY <2>1, <2>4, InFlightFinite, FS_RemoveElement
  <2>6. \A z \in Sessions \ {s} : InFlight(z)' = InFlight(z)
    BY <1>3, <2>0, <2>2, <2>a DEF InFlight, Registered, At, Rewrites
  <2>b. in_flight_sessions[s] > 0
    <3>1. InFlight(s) # {}
      BY <2>1
    <3> QED BY <1>b, <2>1, <3>1, InFlightFinite, FS_EmptySet DEF CountsExact
  <2>7. in_flight_sessions' \in [Sessions -> Nat]
    BY <1>a, <2>1, <2>3, <2>b
  <2>8. ASSUME NEW z \in Sessions PROVE in_flight_sessions'[z] = Cardinality(InFlight(z)')
    BY <1>a, <1>b, <2>1, <2>3, <2>5, <2>6 DEF CountsExact
  <2> QED BY <2>7, <2>8 DEF CountsExact
<1>4. ASSUME NEW r \in Requests, NEW m \in AllMethods, NEW s \in Sessions, NEW b \in Maybe(Tabs),
             NEW t \in Maybe(Targets), Dispatch(r, m, s, b, t)
      PROVE  in_flight_sessions' \in [Sessions -> Nat] /\ CountsExact'
  <2>1. /\ ~req[r].guarded /\ in_flight_sessions' = in_flight_sessions
        /\ req' = [req EXCEPT ![r] = NewRequest(m, s, b, t)]
    BY <1>4, <1>a DEF Dispatch, NoBrowserWork, RequestShape
  <2>2. NewRequest(m, s, b, t).pc = "register"
    BY DEF NewRequest, Idle
  <2>3. \A z \in Sessions : InFlight(z)' = InFlight(z)
    BY <1>a, <2>1, <2>2 DEF InFlight, Registered, At
  <2> QED BY <1>a, <1>b, <2>1, <2>3 DEF CountsExact
<1>5. \/ in_flight_sessions' = in_flight_sessions
      \/ \E r \in Requests : Register(r) \/ DropGuard(r)
  BY StepMoves
<1> QED BY <1>1, <1>2, <1>3, <1>4, <1>5, StepKeeps

\* The clock a request was dispatched at, and what the sweep knows when it expires.
LEMMA SparedNext ==
    ASSUME ShapeInv, RegistryInv, InFlightInv, [BrokerNext]_brokerVars,
           NEW q \in Requests
    PROVE  JustTouched(q)' /\ (sweep'.pc = "expire" => Spared(q)')
<1>a. /\ req \in [Requests -> RequestState] /\ in_flight_sessions \in [Sessions -> Nat]
      /\ RequestShape(q) /\ sweep \in SweepState /\ sweep.now <= clock /\ sweep.now \in Nat
      /\ clock \in Nat /\ sessions \in [Sessions -> SessionRecord] /\ Ttl \in Nat
      /\ \A s \in Sessions : sessions[s].updated_at \in Nat
  BY NumbersAssumption DEF ShapeInv, BrokerTypeOK, TypeOK, SweepShape, SweepState, SessionRecord
<1>b. JustTouched(q) /\ (sweep.pc = "expire" => Spared(q)) /\ CountsExact
  BY DEF InFlightInv, JustTouched, Spared, CountsExact
<1>c. Quiet \/ SweepExpire \/ SweepReport
  BY OnlyTheSweep
<1>d. /\ sweep' = sweep \/ SweepReadInFlight \/ sweep'.pc # "expire"
      /\ clock' = clock \/ TimePasses
  BY StepMoves
<1>s. ~At(q, "idle") => req[q].session \in Sessions /\ sessions[req[q].session].status # "unissued"
  BY <1>a DEF RequestShape
\* What may happen to the session of a request that was there before.
<1>e. ASSUME ~At(q, "idle"), sessions'[req[q].session].status = "live"
      PROVE  /\ Live(req[q].session)
             /\ sessions'[req[q].session].updated_at
                  \in {sessions[req[q].session].updated_at, clock}
  <2>1. CASE Quiet
    BY <1>e, <1>s, <2>1 DEF Quiet, Live
  <2>2. CASE SweepExpire
    <3>1. CASE UNCHANGED registryVars
      BY <1>e, <3>1 DEF registryVars, vars, sessionVars, Live
    <3>2. CASE ExpireSessions(sweep.now, sweep.skip)
      <4>1. PICK E : sessions' = [s \in Sessions |-> IF s \in E THEN Gone ELSE sessions[s]]
        BY <3>2 DEF ExpireSessions, ExpireBatch
      <4> QED BY <1>e, <1>s, <4>1 DEF Live, Gone
    <3> QED BY <2>2, <3>1, <3>2 DEF SweepExpire
  <2>3. CASE SweepReport
    BY <1>e, <2>3 DEF SweepReport, FinishExpiredTargetClose, sessionVars, Live
  <2> QED BY <1>c, <2>1, <2>2, <2>3
<1>1. CASE Keeps(q)
  <2>1. ASSUME At(q, "register")', Live(req[q].session)'
        PROVE  clock' <= sessions'[req'[q].session].updated_at + Ttl
    <3>1. At(q, "register") /\ req'[q].session = req[q].session
      BY <1>1, <2>1 DEF Keeps
    <3>2. /\ Live(req[q].session) /\ req[q].session \in Sessions
          /\ sessions'[req[q].session].updated_at \in {sessions[req[q].session].updated_at, clock}
      BY <1>e, <1>s, <2>1, <3>1 DEF At, Live
    <3>3. clock <= sessions[req[q].session].updated_at + Ttl
      BY <1>b, <3>1, <3>2 DEF JustTouched
    <3>4. CASE clock' = clock
      BY <1>a, <3>1, <3>2, <3>3, <3>4
    <3>5. CASE TimePasses
      BY <1>a, <3>1, <3>2, <3>5 DEF TimePasses, Tick, sessionVars
    <3> QED BY <1>d, <3>4, <3>5
  <2>2. ASSUME sweep'.pc = "expire", Registered(q)', Live(req[q].session)'
        PROVE  \/ req'[q].session \in sweep'.skip
               \/ sweep'.now <= sessions'[req'[q].session].updated_at + Ttl
    <3>1. Registered(q) /\ req'[q].session = req[q].session
      BY <1>1, <2>2 DEF Keeps
    <3>a. ~At(q, "idle")
      BY <1>a, <3>1 DEF RequestShape, Registered
    <3>2. /\ Live(req[q].session) /\ req[q].session \in Sessions
          /\ sessions'[req[q].session].updated_at \in {sessions[req[q].session].updated_at, clock}
      BY <1>e, <1>s, <2>2, <3>1, <3>a DEF Live
    <3>3. CASE sweep' = sweep
      <4>1. \/ req[q].session \in sweep.skip
            \/ sweep.now <= sessions[req[q].session].updated_at + Ttl
        BY <1>b, <2>2, <3>1, <3>2, <3>3 DEF Spared
      <4> QED BY <1>a, <3>1, <3>2, <3>3, <4>1
    <3>4. CASE SweepReadInFlight
      <4>0. PICK s \in Sessions : s = req[q].session
        BY <3>2
      <4>1. q \in InFlight(s)
        BY <3>1, <4>0 DEF InFlight
      <4>2. in_flight_sessions[s] > 0
        BY <1>b, <4>1, InFlightFinite, FS_EmptySet DEF CountsExact
      <4>3. sweep'.skip = {z \in Sessions : in_flight_sessions[z] > 0}
        BY <1>a, <3>4 DEF SweepReadInFlight, SweepState
      <4> QED BY <3>1, <4>0, <4>2, <4>3
    <3> QED BY <1>d, <2>2, <3>3, <3>4
  <2> QED BY <2>1, <2>2 DEF JustTouched, Spared
<1>2. ASSUME NEW r \in Requests, Register(r)
      PROVE  JustTouched(q)' /\ (sweep'.pc = "expire" => Spared(q)')
  <2>1. CASE q = r
    <3>1. /\ req'[r].session = req[r].session /\ req'[r].pc = "handle" /\ At(r, "register")
          /\ UNCHANGED <<sessions, sweep>>
      BY <1>2, <1>a, GotoRewrites DEF Register, Pcs, registryVars, vars, sessionVars
    <3>2. Live(req[r].session) => clock <= sessions[req[r].session].updated_at + Ttl
      BY <1>b, <2>1, <3>1 DEF JustTouched
    <3>3. req[r].session \in Sessions
      BY <1>s, <2>1, <3>1 DEF At
    <3> QED BY <1>a, <2>1, <3>1, <3>2, <3>3 DEF JustTouched, Spared, At, Live
  <2>2. CASE q # r
    <3>1. req'[q] = req[q]
      BY <1>2, <1>a, <2>2, GotoRewrites DEF Register, Pcs, Rewrites
    <3> QED BY <1>1, <3>1 DEF Keeps, Registered, At
  <2> QED BY <2>1, <2>2
<1>3. ASSUME NEW r \in Requests, DropGuard(r)
      PROVE  JustTouched(q)' /\ (sweep'.pc = "expire" => Spared(q)')
  <2>1. CASE q = r
    <3>1. req'[q] = Idle
      BY <1>3, <1>a, <2>1 DEF DropGuard
    <3> QED BY <3>1 DEF JustTouched, Spared, Registered, At, Idle
  <2>2. CASE q # r
    <3>1. req'[q] = req[q]
      BY <1>3, <1>a, <2>2 DEF DropGuard
    <3> QED BY <1>1, <3>1 DEF Keeps, Registered, At
  <2> QED BY <2>1, <2>2
<1>4. ASSUME NEW r \in Requests, NEW m \in AllMethods, NEW s \in Sessions, NEW b \in Maybe(Tabs),
             NEW t \in Maybe(Targets), Dispatch(r, m, s, b, t)
      PROVE  JustTouched(q)' /\ (sweep'.pc = "expire" => Spared(q)')
  <2>1. CASE q = r
    <3>1. req'[q] = NewRequest(m, s, b, t)
      BY <1>4, <1>a, <2>1 DEF Dispatch
    <3>2. req'[q].pc = "register" /\ req'[q].session = s
      BY <3>1 DEF NewRequest, Idle
    <3>3. Live(s)' => sessions'[s].updated_at = clock /\ clock' = clock
      <4>1. CASE ~Live(s) /\ UNCHANGED vars
        BY <4>1 DEF vars, sessionVars, Live
      <4>2. CASE Touch(s)
        BY <1>a, <4>2 DEF Touch, SessionRecord
      <4> QED BY <1>4, <4>1, <4>2 DEF Dispatch, registryVars
    <3> QED BY <1>a, <3>2, <3>3 DEF JustTouched, Spared, Registered, At, Live
  <2>2. CASE q # r
    <3>1. req'[q] = req[q]
      BY <1>4, <1>a, <2>2 DEF Dispatch
    <3> QED BY <1>1, <3>1 DEF Keeps, Registered, At
  <2> QED BY <2>1, <2>2
<1> QED BY <1>1, <1>2, <1>3, <1>4, StepKeeps

\* The part of the invariant about requests in flight is preserved.
LEMMA InFlightNext ==
    ASSUME ShapeInv, RegistryInv, InFlightInv, [BrokerNext]_brokerVars,
           req' \in [Requests -> RequestState]
    PROVE  InFlightInv'
BY CountsNext, SparedNext DEF InFlightInv, CountsExact, JustTouched, Spared

\* The property.
LEMMA ExpirySparesInFlight ==
    ASSUME ShapeInv, RegistryInv, InFlightInv, [BrokerNext]_brokerVars,
           NEW q \in Requests, Registered(q), Live(req[q].session)
    PROVE  sessions'[req[q].session].status = "live"
<1>a. /\ req[q].session \in Sessions /\ Ttl \in Nat /\ clock \in Nat /\ sweep.now \in Nat
      /\ sessions \in [Sessions -> SessionRecord]
      /\ \A s \in Sessions : sessions[s].updated_at \in Nat
  BY NumbersAssumption
  DEF ShapeInv, BrokerTypeOK, RequestShape, Registered, TypeOK, SweepState, SessionRecord
<1>1. CASE Quiet
  BY <1>1, <1>a DEF Quiet, Live
<1>2. CASE SweepExpire
  <2>1. CASE UNCHANGED registryVars
    BY <2>1 DEF registryVars, vars, sessionVars, Live
  <2>2. CASE ExpireSessions(sweep.now, sweep.skip)
    <3>1. sessions' = [s \in Sessions |-> IF s \in ExpiredIds(sweep.now, sweep.skip) THEN Gone
                                                                       ELSE sessions[s]]
      BY <2>2 DEF ExpireSessions, ExpireBatch
    <3>2. req[q].session \notin ExpiredIds(sweep.now, sweep.skip)
      <4>1. \/ req[q].session \in sweep.skip
            \/ sweep.now <= sessions[req[q].session].updated_at + Ttl
        BY <1>2 DEF InFlightInv, SweepExpire
      <4> QED BY <1>a, <4>1 DEF ExpiredIds
    <3> QED BY <1>a, <3>1, <3>2 DEF Live
  <2> QED BY <1>2, <2>1, <2>2 DEF SweepExpire
<1>3. CASE SweepReport
  BY <1>3 DEF SweepReport, FinishExpiredTargetClose, sessionVars, Live
<1> QED BY <1>1, <1>2, <1>3, OnlyTheSweep

(***************************************************************************)
(* How a request gets to the steps that hold something.                    *)
(***************************************************************************)
Holding == {"lease", "closing", "commit", "claim"}
SameRequest(q) == /\ req'[q].method = req[q].method /\ req'[q].session = req[q].session
                  /\ req'[q].tab = req[q].tab /\ req'[q].guarded = req[q].guarded
Enters(q) ==
    \/ req'[q] = req[q]
    \/ req'[q].pc \notin Holding
    \/ \E t \in Targets : CreatePage(q, t) /\ req'[q].pc = "lease" /\ req'[q].target = t
    \/ /\ Reserve(q) /\ SameRequest(q)
       /\ req'[q].target = leases[req[q].tab].target
       /\ req'[q].pc = IF leases[req[q].tab].state = "active" THEN "closing" ELSE "commit"
    \/ ClosePage(q) /\ SameRequest(q) /\ req'[q].target = req[q].target /\ req'[q].pc = "commit"
    \/ LookUpClaim(q) /\ SameRequest(q) /\ req'[q].target = req[q].target /\ req'[q].pc = "claim"

\* The ways into the steps in which a request holds a lease, a lock or a page.
LEMMA StepEnters ==
    ASSUME ShapeInv, [BrokerNext]_brokerVars, NEW q \in Requests
    PROVE  Enters(q)
<1> DEFINE Goal == Enters(q)
<1>a. /\ req \in [Requests -> RequestState]
      /\ \A r \in Requests : RequestShape(r)
  BY DEF ShapeInv, BrokerTypeOK
<1>b. ASSUME req' = req PROVE Goal
  BY <1>b DEF Enters
<1>c. ASSUME NEW r \in Requests, NEW pc \in Pcs \ Holding, Goto(r, pc) PROVE Goal
  BY <1>a, <1>c, GotoRewrites DEF Enters, Rewrites
<1>d. ASSUME NEW r \in Requests, ~At(r, "idle"), End(r) PROVE Goal
  <2>1. req[r].session \in Sessions
    BY <1>a, <1>d DEF RequestShape
  <2>2. Rewrites(r) /\ Ended(r)
    BY <1>a, <1>d, <2>1, EndRewrites
  <2>3. req[r].guarded \in BOOLEAN
    BY <1>a DEF RequestState
  <2> QED BY <2>2, <2>3 DEF Enters, Rewrites, Ended, Holding
<1>e. ASSUME NEW r \in Requests, NEW u, req' = [req EXCEPT ![r] = u], u.pc \notin Holding
      PROVE  Goal
  BY <1>a, <1>e DEF Enters
<1> SUFFICES Goal
  OBVIOUS
<1> HIDE DEF Goal
<1> USE DEF OnlyRequests, NoBrowserWork, OnlySweep, Handles
<1>1. CASE SweepReadClock \/ SweepReadInFlight \/ SweepExpire \/ SweepReport \/ TimePasses
  BY <1>1, <1>b
  DEF SweepReadClock, SweepReadInFlight, SweepExpire, SweepReport, TimePasses
<1>2. ASSUME NEW r \in Requests, Register(r) \/ FinalTouch(r)
      PROVE  Goal
  BY <1>2, <1>c
  DEF Register, FinalTouch, At, Pcs, Holding
<1>3. ASSUME NEW r \in Requests, CreatePageFails(r) \/ LeaseCreatedRefused(r) \/
             ClaimFails(r) \/ Release(r) \/ ReleaseRefused(r) \/ ReserveRefused(r)
      PROVE  Goal
  BY <1>3, <1>d
  DEF CreatePageFails, LeaseCreatedRefused, ClaimFails, Release, ReleaseRefused,
      ReserveRefused, At
<1>4. ASSUME NEW r \in Requests, ClosePageFails(r) \/ CommitClose(r) \/ CheckActiveOwned(r)
      PROVE  Goal
  BY <1>4, <1>d
  DEF ClosePageFails, CommitClose, CheckActiveOwned, At
<1>5. ASSUME NEW r \in Requests, NEW m \in profile.methods \ {"start_session", "start_with_url"},
             NEW s \in Sessions, NEW b \in Maybe(Tabs), NEW t \in Maybe(Targets),
             (m \in TabMethods) = (b # None), (m \in TargetMethods) = (t # None),
             Dispatch(r, m, s, b, t)
      PROVE  Goal
  <2>1. NewRequest(m, s, b, t).pc \notin Holding
    BY DEF Idle, Holding, NewRequest
  <2> QED BY <1>5, <1>e, <2>1 DEF Dispatch
<1>6. ASSUME NEW r \in Requests, NEW m \in profile.methods \cap {"start_session", "start_with_url"},
             NEW s \in Sessions, DispatchStartSession(r, s, m)
      PROVE  Goal
  <2> DEFINE u == IF m = "start_with_url"
                  THEN [Idle EXCEPT !.pc = "handle", !.method = m, !.session = s] ELSE Idle
  <2>1. req' = [req EXCEPT ![r] = u]
    BY <1>6 DEF DispatchStartSession
  <2>2. u.pc \notin Holding
    BY DEF Idle, Holding
  <2> QED BY <1>e, <2>1, <2>2
<1>7. ASSUME NEW r \in Requests, DropGuard(r)
      PROVE  Goal
  <2>1. Idle.pc \notin Holding
    BY DEF Idle, Holding
  <2> QED BY <1>7, <1>e, <2>1 DEF DropGuard
<1>8. ASSUME NEW r \in Requests, EnsureSession(r)
      PROVE  Goal
  <2>1. ~At(r, "idle")
    BY <1>8 DEF EnsureSession, At
  <2> QED BY <1>8, <1>c, <1>d, <2>1 DEF EnsureSession, Pcs, Holding
<1>9. ASSUME NEW r \in Requests, LookUpClaim(r)
      PROVE  Goal
  <2>1. ~At(r, "idle")
    BY <1>9 DEF LookUpClaim, At
  <2>2. CASE Goto(r, "claim")
    <3>1. /\ Rewrites(r) /\ SameRequest(r) /\ req'[r].pc = "claim" /\ req'[r].target = req[r].target
      BY <1>a, <2>2, GotoRewrites DEF Pcs, SameRequest
    <3>2. CASE q = r
      BY <1>9, <3>1, <3>2 DEF Goal, Enters
    <3>3. CASE q # r
      BY <3>1, <3>3 DEF Goal, Enters, Rewrites
    <3> QED BY <3>2, <3>3
  <2> QED BY <1>9, <1>d, <2>1, <2>2 DEF LookUpClaim
<1>10. ASSUME NEW r \in Requests, ValidateRelease(r)
      PROVE  Goal
  <2>1. ~At(r, "idle")
    BY <1>10 DEF ValidateRelease, At
  <2> QED BY <1>10, <1>c, <1>d, <2>1 DEF ValidateRelease, Pcs, Holding
<1>11. ASSUME NEW r \in Requests, ValidateClose(r)
      PROVE  Goal
  <2>1. ~At(r, "idle")
    BY <1>11 DEF ValidateClose, At
  <2> QED BY <1>11, <1>c, <1>d, <2>1 DEF ValidateClose, Pcs, Holding
<1>12. ASSUME NEW r \in Requests, Reserve(r)
      PROVE  Goal
  <2> DEFINE t == leases[req[r].tab].target
             pc == IF leases[req[r].tab].state = "active" THEN "closing" ELSE "commit"
             u == [req[r] EXCEPT !.target = t, !.pc = pc]
  <2>1. req' = [req EXCEPT ![r] = u]
    BY <1>12 DEF Reserve
  <2>2. /\ u.pc = pc /\ u.target = t /\ u.method = req[r].method /\ u.tab = req[r].tab
        /\ u.session = req[r].session /\ u.guarded = req[r].guarded
    BY <1>a DEF RequestState
  <2>3. CASE q = r
    <3>1. req'[r] = u
      BY <1>a, <2>1
    <3> HIDE DEF u
    <3> QED BY <1>12, <2>2, <2>3, <3>1 DEF Goal, Enters, SameRequest
  <2>4. CASE q # r
    BY <1>a, <2>1, <2>4 DEF Goal, Enters
  <2> QED BY <2>3, <2>4
<1>13. ASSUME NEW r \in Requests, ClosePage(r)
      PROVE  Goal
  <2>1. ~At(r, "idle")
    BY <1>13 DEF ClosePage, At
  <2>2. CASE Goto(r, "commit")
    <3>1. /\ Rewrites(r) /\ SameRequest(r)
          /\ req'[r].pc = "commit" /\ req'[r].target = req[r].target
      BY <1>a, <2>2, GotoRewrites DEF Pcs, SameRequest
    <3>2. CASE q = r
      BY <1>13, <3>1, <3>2 DEF Goal, Enters
    <3>3. CASE q # r
      BY <3>1, <3>3 DEF Goal, Enters, Rewrites
    <3> QED BY <3>2, <3>3
  <2> QED BY <1>13, <1>d, <2>1, <2>2 DEF ClosePage
<1>14. ASSUME NEW r \in Requests, ReadInventory(r)
      PROVE  Goal
  <2>1. ~At(r, "idle")
    BY <1>14 DEF ReadInventory, At
  <2>2. CASE req' = [req EXCEPT ![r].pc = "reconcile", ![r].seen = OpenPages]
    <3> DEFINE u == [req[r] EXCEPT !.pc = "reconcile", !.seen = OpenPages]
    <3>1. req' = [req EXCEPT ![r] = u]
      BY <2>2
    <3>2. u.pc \notin Holding
      BY <1>a DEF RequestState, Holding
    <3> QED BY <1>e, <3>1, <3>2
  <2> QED BY <1>14, <1>d, <2>1, <2>2 DEF ReadInventory
<1>15. ASSUME NEW r \in Requests, ReconcileMissingTargets(r)
      PROVE  Goal
  <2>1. ~At(r, "idle")
    BY <1>15 DEF ReconcileMissingTargets, At
  <2> QED BY <1>15, <1>c, <1>d, <2>1 DEF ReconcileMissingTargets, Pcs, Holding
<1>16. ASSUME NEW r \in Requests, NEW t \in Targets, CreatePage(r, t)
      PROVE  Goal
  <2>1. ~At(r, "idle")
    BY <1>16 DEF CreatePage, At
  <2>2. CASE req' = [req EXCEPT ![r].pc = "lease", ![r].target = t]
    <3> DEFINE u == [req[r] EXCEPT !.pc = "lease", !.target = t]
    <3>1. req' = [req EXCEPT ![r] = u]
      BY <2>2
    <3>2. u.pc = "lease" /\ u.target = t
      BY <1>a DEF RequestState
    <3> HIDE DEF u
    <3> QED BY <1>16, <1>a, <3>1, <3>2 DEF Goal, Enters
  <2> QED BY <1>16, <1>d, <2>1, <2>2 DEF CreatePage
<1>17. ASSUME NEW r \in Requests, NEW b \in Tabs, LeaseCreated(r, b)
      PROVE  Goal
  BY <1>17, <1>d DEF LeaseCreated, At
<1>18. ASSUME NEW r \in Requests, NEW b \in Tabs, Claim(r, b)
      PROVE  Goal
  BY <1>18, <1>d DEF Claim, At
<1>19. ASSUME NEW c \in sweep_closes, SweepClosePage(c)
      PROVE  Goal
  BY <1>19, <1>b DEF SweepClosePage
<1>20. ASSUME NEW t \in Targets, HumanOpens(t)
      PROVE  Goal
  BY <1>20, <1>b DEF HumanOpens
<1>21. ASSUME NEW t \in Targets, HumanCloses(t)
      PROVE  Goal
  BY <1>21, <1>b DEF HumanCloses
<1>22. CASE UNCHANGED brokerVars
  BY <1>22, <1>b DEF brokerVars
<1> QED
  BY <1>1, <1>2, <1>3, <1>4, <1>5, <1>6, <1>7, <1>8, <1>9, <1>10, <1>11, <1>12, <1>13,
     <1>14, <1>15, <1>16, <1>17, <1>18, <1>19, <1>20, <1>21, <1>22
  DEF BrokerNext, ClientSends, RequestStep, SweepStep, HumanStep

(***************************************************************************)
(* Where pages come from.                                                  *)
(***************************************************************************)
\* Which targets a step may put into the cleanup map.
GivesDuty(t) ==
    \/ cleanup_owned_targets[t] # None
    \/ \E r \in Requests : At(r, "lease") /\ req[r].target = t
    \/ \E c \in sweep_closes : c.target = t

\* A target gets into the cleanup map from there, by its creator's lease, or from the sweep.
LEMMA DutyNext ==
    ASSUME ShapeInv, RegistryInv, [BrokerNext]_brokerVars, NEW t \in Targets,
           cleanup_owned_targets'[t] # None
    PROVE  GivesDuty(t)
<1>a. /\ cleanup_owned_targets \in [Targets -> Maybe(CleanupOwnership)]
      /\ sweep.pc = "report" => sweep.close \in sweep_closes
      /\ \A r \in Requests : RequestShape(r)
      /\ \A B : WithoutCleanup(B)[t] # None => cleanup_owned_targets[t] # None
  BY DEF ShapeInv, BrokerTypeOK, TypeOK, SweepShape, WithoutCleanup
<1>b. ASSUME UNCHANGED vars PROVE GivesDuty(t)
  BY <1>b DEF vars, targetVars, GivesDuty
<1> USE DEF OnlyRequests, NoBrowserWork, OnlySweep, registryVars
<1>1. ASSUME NEW r \in Requests, Register(r) \/ DropGuard(r) \/ EnsureSession(r) \/
             CreatePageFails(r) \/ LeaseCreatedRefused(r) \/ LookUpClaim(r) \/ ClaimFails(r) \/
             ValidateRelease(r) \/ ReleaseRefused(r) \/ ValidateClose(r) \/
             ReserveRefused(r) \/ ClosePage(r) \/ ReadInventory(r)
      PROVE  GivesDuty(t)
  BY <1>1, <1>b
  DEF Register, DropGuard, EnsureSession, CreatePageFails, LeaseCreatedRefused, LookUpClaim,
      ClaimFails, ValidateRelease, ReleaseRefused, ValidateClose, ReserveRefused, ClosePage,
      ReadInventory
<1>2. CASE SweepReadClock \/ SweepReadInFlight
  BY <1>2, <1>b
  DEF SweepReadClock, SweepReadInFlight
<1>3. ASSUME NEW r \in Requests, NEW m \in profile.methods \ {"start_session", "start_with_url"},
             NEW s \in Sessions, NEW b \in Maybe(Tabs), NEW u \in Maybe(Targets),
             (m \in TabMethods) = (b # None), (m \in TargetMethods) = (u # None),
             Dispatch(r, m, s, b, u)
      PROVE  GivesDuty(t)
  BY <1>3, <1>b DEF Dispatch, Touch, targetVars, GivesDuty
<1>4. ASSUME NEW r \in Requests, NEW m \in profile.methods \cap {"start_session", "start_with_url"},
             NEW s \in Sessions, DispatchStartSession(r, s, m)
      PROVE  GivesDuty(t)
  BY <1>4 DEF DispatchStartSession, StartSession, targetVars, GivesDuty
<1>5. ASSUME NEW r \in Requests, FinalTouch(r)
      PROVE  GivesDuty(t)
  BY <1>5, <1>b DEF FinalTouch, Touch, targetVars, GivesDuty
<1>6. ASSUME NEW r \in Requests, Release(r)
      PROVE  GivesDuty(t)
  <2>1. UNCHANGED vars \/ \E B : cleanup_owned_targets' = WithoutCleanup(B)
    BY <1>6 DEF Release, ReleaseTab
  <2> QED BY <1>a, <1>b, <2>1 DEF GivesDuty
<1>7. ASSUME NEW r \in Requests, Reserve(r)
      PROVE  GivesDuty(t)
  BY <1>7 DEF Reserve, ReserveOwnedTabClose, GivesDuty
<1>8. ASSUME NEW r \in Requests, ClosePageFails(r)
      PROVE  GivesDuty(t)
  BY <1>8, <1>b DEF ClosePageFails, EndReservation, FinishOwnedTabCloseReservation, GivesDuty
<1>9. ASSUME NEW r \in Requests, CommitClose(r)
      PROVE  GivesDuty(t)
  <2>1. CASE EndReservation(r)
    BY <1>b, <2>1 DEF EndReservation, FinishOwnedTabCloseReservation, GivesDuty
  <2>2. CASE CommitOwnedTabClose(req[r].session, req[r].tab)
    BY <1>a, <2>2 DEF CommitOwnedTabClose, GivesDuty
  <2> QED BY <1>9, <2>1, <2>2 DEF CommitClose
<1>10. ASSUME NEW r \in Requests, ReconcileMissingTargets(r)
      PROVE  GivesDuty(t)
  <2>1. UNCHANGED vars \/ \E B : cleanup_owned_targets' = WithoutCleanup(B)
    BY <1>10 DEF ReconcileMissingTargets, MarkMissingTargetsNotIn, MarkMissing
  <2> QED BY <1>a, <1>b, <2>1 DEF GivesDuty
<1>11. ASSUME NEW r \in Requests, CheckActiveOwned(r)
      PROVE  GivesDuty(t)
  <2>1. UNCHANGED vars \/ \E B : cleanup_owned_targets' = WithoutCleanup(B)
    BY <1>11 DEF CheckActiveOwned, RequireActiveOwnedMissing, MarkMissing
  <2> QED BY <1>a, <1>b, <2>1 DEF GivesDuty
<1>12. ASSUME NEW r \in Requests, NEW u \in Targets, CreatePage(r, u)
      PROVE  GivesDuty(t)
  BY <1>12, <1>b DEF CreatePage
<1>13. ASSUME NEW r \in Requests, NEW b \in Tabs, LeaseCreated(r, b)
      PROVE  GivesDuty(t)
  <2>1. /\ At(r, "lease") /\ req[r].target \in Targets
        /\ \E d : cleanup_owned_targets' = [cleanup_owned_targets EXCEPT ![req[r].target] = d]
    BY <1>13, <1>a DEF LeaseCreated, LeaseTab, RequestShape
  <2> QED BY <1>a, <2>1 DEF GivesDuty
<1>14. ASSUME NEW r \in Requests, NEW b \in Tabs, Claim(r, b)
      PROVE  GivesDuty(t)
  <2> DEFINE u == req[r].target
  <2>1. /\ cleanup_owned_targets' =
              [cleanup_owned_targets EXCEPT
                 ![u] = Inherited(cleanup_owned_targets[u], req[r].session, b)]
        /\ u \in Targets
    BY <1>14, <1>a DEF Claim, ClaimTab, RequestShape
  <2> QED BY <1>a, <2>1 DEF GivesDuty, Inherited
<1>15. CASE SweepExpire
  <2>1. UNCHANGED vars \/ \E B : cleanup_owned_targets' = WithoutCleanup(B)
    BY <1>15 DEF SweepExpire, ExpireSessions, ExpireBatch
  <2> QED BY <1>a, <1>b, <2>1 DEF GivesDuty
<1>16. CASE SweepReport
  <2>1. FinishExpiredTargetClose(sweep.close, sweep.closed) /\ sweep.close \in sweep_closes
    BY <1>16, <1>a DEF SweepReport
  <2> QED BY <1>a, <2>1 DEF FinishExpiredTargetClose, GivesDuty
<1>17. ASSUME NEW c \in sweep_closes, SweepClosePage(c)
      PROVE  GivesDuty(t)
  BY <1>17, <1>b DEF SweepClosePage
<1>18. ASSUME NEW u \in Targets, HumanOpens(u)
      PROVE  GivesDuty(t)
  BY <1>18, <1>b DEF HumanOpens
<1>19. ASSUME NEW u \in Targets, HumanCloses(u)
      PROVE  GivesDuty(t)
  BY <1>19, <1>b DEF HumanCloses
<1>20. CASE TimePasses
  BY <1>20 DEF TimePasses, Tick, targetVars, GivesDuty
<1>21. CASE UNCHANGED brokerVars
  BY <1>21, <1>b DEF brokerVars
<1> QED
  BY <1>1, <1>2, <1>3, <1>4, <1>5, <1>6, <1>7, <1>8, <1>9, <1>10, <1>11, <1>12, <1>13,
     <1>14, <1>15, <1>16, <1>17, <1>18, <1>19, <1>20, <1>21
  DEF BrokerNext, ClientSends, RequestStep, SweepStep, HumanStep

\* Pages are born once, and nobody else becomes their origin.
LEMMA BirthNext ==
    ASSUME ShapeInv, OriginInv, [BrokerNext]_brokerVars
    PROVE  \A t \in Targets : /\ page'[t] = "unborn" <=> origin'[t] = "none"
                              /\ origin[t] # "none" => origin'[t] = origin[t]
                              /\ page[t] # "unborn" => page'[t] # "unborn"
<1> DEFINE Goal == \A t \in Targets : /\ page'[t] = "unborn" <=> origin'[t] = "none"
                                      /\ origin[t] # "none" => origin'[t] = origin[t]
                                      /\ page[t] # "unborn" => page'[t] # "unborn"
<1>a. /\ page \in [Targets -> {"unborn", "open", "closed", "lost", "left"}]
      /\ origin \in [Targets -> {"none", "vbl", "human"}]
      /\ \A t \in Targets : page[t] = "unborn" <=> origin[t] = "none"
      /\ \A r \in Requests : RequestShape(r)
      /\ sweep_closes \in SUBSET SweepClose
  BY DEF ShapeInv, BrokerTypeOK, OriginInv, TypeOK
<1>b. ASSUME UNCHANGED chromeVars PROVE Goal
  BY <1>a, <1>b DEF chromeVars
<1>c. ASSUME NEW t \in Targets, NEW as \in {"closed", "lost"}, page' \in {page, Shut(t, as)},
             UNCHANGED origin
      PROVE  Goal
  BY <1>a, <1>c DEF Shut
<1> SUFFICES Goal
  OBVIOUS
<1> HIDE DEF Goal
<1> USE DEF OnlyRequests, NoBrowserWork, OnlySweep
<1>1. ASSUME NEW r \in Requests, Register(r) \/ FinalTouch(r) \/ DropGuard(r) \/
             EnsureSession(r) \/ CreatePageFails(r) \/ LeaseCreatedRefused(r) \/
             LookUpClaim(r) \/ ClaimFails(r) \/ ValidateRelease(r) \/ Release(r) \/
             ReleaseRefused(r) \/ ValidateClose(r) \/ Reserve(r) \/ ReserveRefused(r) \/
             CommitClose(r) \/ ReadInventory(r) \/ ReconcileMissingTargets(r) \/
             CheckActiveOwned(r)
      PROVE  Goal
  BY <1>1, <1>b
  DEF Register, FinalTouch, DropGuard, EnsureSession, CreatePageFails, LeaseCreatedRefused,
      LookUpClaim, ClaimFails, ValidateRelease, Release, ReleaseRefused, ValidateClose,
      Reserve, ReserveRefused, CommitClose, ReadInventory, ReconcileMissingTargets,
      CheckActiveOwned
<1>2. CASE SweepReadClock \/ SweepReadInFlight \/ SweepExpire \/ SweepReport \/ TimePasses
  BY <1>2, <1>b
  DEF SweepReadClock, SweepReadInFlight, SweepExpire, SweepReport, TimePasses
<1>3. ASSUME NEW r \in Requests, NEW m \in profile.methods \ {"start_session", "start_with_url"},
             NEW s \in Sessions, NEW b \in Maybe(Tabs), NEW t \in Maybe(Targets),
             (m \in TabMethods) = (b # None), (m \in TargetMethods) = (t # None),
             Dispatch(r, m, s, b, t)
      PROVE  Goal
  BY <1>3, <1>b DEF Dispatch
<1>4. ASSUME NEW r \in Requests, NEW m \in profile.methods \cap {"start_session", "start_with_url"},
             NEW s \in Sessions, DispatchStartSession(r, s, m)
      PROVE  Goal
  BY <1>4, <1>b DEF DispatchStartSession
<1>5. ASSUME NEW r \in Requests, ClosePage(r)
      PROVE  Goal
  <2>1. req[r].target \in Targets
    BY <1>5, <1>a DEF ClosePage, RequestShape
  <2>2. UNCHANGED origin /\ \E as \in {"closed", "lost"} : page' \in {page, Shut(req[r].target, as)}
    BY <1>5 DEF ClosePage
  <2> QED BY <1>c, <2>1, <2>2
<1>6. ASSUME NEW r \in Requests, ClosePageFails(r)
      PROVE  Goal
  <2>1. req[r].target \in Targets
    BY <1>6, <1>a DEF ClosePageFails, RequestShape
  <2>2. UNCHANGED origin /\ \E as \in {"closed", "lost"} : page' \in {page, Shut(req[r].target, as)}
    BY <1>6 DEF ClosePageFails
  <2> QED BY <1>c, <2>1, <2>2
<1>7. ASSUME NEW r \in Requests, NEW t \in Targets, CreatePage(r, t)
      PROVE  Goal
  BY <1>7, <1>a DEF CreatePage, Goal
<1>8. ASSUME NEW r \in Requests, NEW b \in Tabs, LeaseCreated(r, b)
      PROVE  Goal
  BY <1>8, <1>b DEF LeaseCreated
<1>9. ASSUME NEW r \in Requests, NEW b \in Tabs, Claim(r, b)
      PROVE  Goal
  BY <1>9, <1>b DEF Claim
<1>10. ASSUME NEW c \in sweep_closes, SweepClosePage(c)
      PROVE  Goal
  <2>1. c.target \in Targets
    BY <1>a DEF SweepClose
  <2>2. UNCHANGED origin /\ \E as \in {"closed", "lost"} : page' \in {page, Shut(c.target, as)}
    BY <1>10 DEF SweepClosePage
  <2> QED BY <1>c, <2>1, <2>2
<1>11. ASSUME NEW t \in Targets, HumanOpens(t)
      PROVE  Goal
  BY <1>11, <1>a DEF HumanOpens, Goal
<1>12. ASSUME NEW t \in Targets, HumanCloses(t)
      PROVE  Goal
  BY <1>12, <1>a DEF HumanCloses, Goal
<1>13. CASE UNCHANGED brokerVars
  BY <1>13, <1>b DEF brokerVars, chromeVars
<1> QED
  BY <1>1, <1>2, <1>3, <1>4, <1>5, <1>6, <1>7, <1>8, <1>9, <1>10, <1>11, <1>12, <1>13
  DEF BrokerNext, ClientSends, RequestStep, SweepStep, HumanStep

\* What the sweep sets out to close had to be cleaned up.
LEMMA ClosesNext ==
    ASSUME ShapeInv, RegistryInv, [BrokerNext]_brokerVars, NEW c \in sweep_closes'
    PROVE  \/ c \in sweep_closes
           \/ /\ SweepExpire /\ c.target \in Targets /\ cleanup_owned_targets[c.target] # None
              /\ \E b \in Tabs : leases[b].target = c.target /\ leases'[b].target = c.target
<1>a. leases \in [Tabs -> TabLease] /\ NoneAssumption
  BY NoneAssumption DEF ShapeInv, BrokerTypeOK, TypeOK
<1>1. CASE Quiet
  BY <1>1 DEF Quiet
<1>2. CASE SweepExpire
  <2>1. CASE UNCHANGED registryVars
    BY <2>1 DEF registryVars, vars, expiryVars
  <2>2. CASE ExpireSessions(sweep.now, sweep.skip)
    <3>0. PICK E \in SUBSET Sessions : \E batch : ExpireBatch(E, batch)
      BY <2>2 DEF ExpireSessions, ExpiredIds
    <3>1. PICK batch : ExpireBatch(E, batch)
      BY <3>0
    <3>2. sweep_closes' = sweep_closes \cup {CloseOf(b) : b \in ToClose(E)}
      BY <3>1 DEF ExpireBatch
    <3>3. ASSUME NEW b \in ToClose(E), c = CloseOf(b)
          PROVE  /\ c.target \in Targets /\ cleanup_owned_targets[c.target] # None
                 /\ b \in Tabs /\ leases[b].target = c.target /\ leases'[b].target = c.target
      <4>1. c.target = leases[b].target
        BY <3>3 DEF CloseOf
      <4>2. \A a \in Tabs : leases'[a].target = leases[a].target
        BY <3>1, ExpireEffects
      <4> QED BY <4>1, <4>2, DutiesHandedOver
    <3> QED BY <1>2, <3>2, <3>3
  <2> QED BY <1>2, <2>1, <2>2 DEF SweepExpire
<1>3. CASE SweepReport
  BY <1>3 DEF SweepReport, FinishExpiredTargetClose
<1> QED BY <1>1, <1>2, <1>3, OnlyTheSweep

\* Only pages the broker opened are leased by their creator, cleaned up and swept.
LEMMA OriginNext ==
    ASSUME ShapeInv, RegistryInv, OriginInv, [BrokerNext]_brokerVars, TypeOK'
    PROVE  OriginInv'
<1>a. /\ origin \in [Targets -> {"none", "vbl", "human"}]
      /\ sweep_closes \in SUBSET SweepClose
      /\ \A r \in Requests : RequestShape(r)
  BY DEF ShapeInv, BrokerTypeOK, TypeOK
<1>1. \A t \in Targets : page'[t] = "unborn" <=> origin'[t] = "none"
  BY BirthNext
<1>2. ASSUME NEW t \in Targets, origin[t] = "vbl" PROVE origin'[t] = "vbl"
  BY <1>2, BirthNext
<1>3. ASSUME NEW t \in Targets, cleanup_owned_targets'[t] # None PROVE origin'[t] = "vbl"
  <2>1. GivesDuty(t)
    BY <1>3, DutyNext
  <2>2. origin[t] = "vbl"
    BY <2>1 DEF GivesDuty, OriginInv
  <2> QED BY <1>2, <2>2
<1>4. ASSUME NEW c \in sweep_closes' PROVE origin'[c.target] = "vbl"
  <2>1. c.target \in Targets
    BY <1>4 DEF TypeOK, SweepClose
  <2>2. origin[c.target] = "vbl"
    BY <1>4, <2>1, ClosesNext DEF OriginInv
  <2> QED BY <1>2, <2>1, <2>2
<1>5. ASSUME NEW r \in Requests, At(r, "lease")' PROVE origin'[req'[r].target] = "vbl"
  <2>1. CASE req'[r] = req[r]
    <3>1. At(r, "lease") /\ req[r].target \in Targets
      BY <1>5, <1>a, <2>1 DEF At, RequestShape
    <3> QED BY <1>2, <2>1, <3>1 DEF OriginInv
  <2>2. CASE \E t \in Targets : CreatePage(r, t) /\ req'[r].pc = "lease" /\ req'[r].target = t
    BY <1>a, <2>2 DEF CreatePage
  <2> QED BY <1>5, <2>1, <2>2, StepEnters DEF Enters, At, Holding
<1> QED BY <1>1, <1>3, <1>4, <1>5 DEF OriginInv

(***************************************************************************)
(* A close under way: the lease stays the owner's, and nothing lifts the   *)
(* reservation but the request that made it.                               *)
(***************************************************************************)
\* A lease whose target is reserved is not taken over; other than that, leases
\* keep their owner and target and do not become active again.
LEMMA LeaseStays ==
    ASSUME RegistryInv, [Next]_vars, NEW b \in Tabs, Known(b),
           leases[b].state = "active" => Closing(leases[b].target)
    PROVE  /\ Known(b)' /\ leases'[b].owner = leases[b].owner
           /\ leases'[b].target = leases[b].target
           /\ leases[b].state # "active" => leases'[b].state # "active"
<1> DEFINE Goal == /\ Known(b)' /\ leases'[b].owner = leases[b].owner
                   /\ leases'[b].target = leases[b].target
                   /\ leases[b].state # "active" => leases'[b].state # "active"
<1>a. /\ leases \in [Tabs -> TabLease] /\ leases[b] \in TabLease /\ ActiveIndexExact
      /\ leases[b].state \in {"active", "missing", "released", "closed"}
  BY DEF RegistryInv, TargetInv, TypeOK, Known, TabLease
<1>b. ASSUME leases' = leases PROVE Goal
  BY <1>b DEF Known
<1>1. CASE SessionNext
  BY <1>b, <1>1 DEF SessionNext, StartSession, AmbientSessionReuse, Touch,
        AmbientSessionCreate, BindWorkspaceRoot, targetVars
<1>2. ASSUME NEW s \in Sessions, NEW t \in Targets, NEW c \in Tabs, LeaseTab(s, t, c)
      PROVE  Goal
  BY <1>a, <1>2 DEF LeaseTab, FreshTab, Known
<1>3. ASSUME NEW s \in Sessions, NEW t \in Targets, NEW c \in Tabs,
             NEW takeover \in BOOLEAN, NEW instructed \in BOOLEAN,
             ClaimTab(s, t, c, takeover, instructed)
      PROVE  Goal
  <2>1. b # c
    BY <1>a, <1>3 DEF ClaimTab, FreshTab
  <2>2. ~(HasActiveLease(t) /\ b = active_target_owners[t])
    <3> SUFFICES ASSUME HasActiveLease(t), b = active_target_owners[t] PROVE FALSE
      OBVIOUS
    <3>1. leases[b].state = "active" /\ leases[b].target = t
      BY <1>a DEF HasActiveLease, ActiveIndexExact
    <3> QED BY <1>3, <3>1 DEF ClaimTab, Withdrawn
  <2>3. leases' = [a \in Tabs |->
                     CASE a = c -> ActiveLease(s, t)
                       [] a # c /\ HasActiveLease(t) /\ a = active_target_owners[t] -> Removed
                       [] OTHER -> leases[a]]
    BY <1>3 DEF ClaimTab
  <2>4. leases'[b] = leases[b]
    BY <2>1, <2>2, <2>3
  <2> QED BY <2>4 DEF Known
<1>4. ASSUME NEW s \in Sessions, NEW c \in Tabs, NEW leave \in BOOLEAN, ReleaseTab(s, c, leave)
      PROVE  Goal
  BY <1>a, <1>4 DEF ReleaseTab, Known, TabLease, Releasable
<1>5. ASSUME NEW s \in Sessions, NEW c \in Tabs, CommitOwnedTabClose(s, c)
      PROVE  Goal
  BY <1>a, <1>5 DEF CommitOwnedTabClose, Known, TabLease
<1>6. ASSUME NEW B \in SUBSET Tabs, MarkMissing(B)
      PROVE  Goal
  BY <1>a, <1>6 DEF MarkMissing, Known, TabLease
<1>7. ASSUME NEW E \in SUBSET Sessions, NEW batch, ExpireBatch(E, batch)
      PROVE  Goal
  BY <1>a, <1>7, ExpireEffects DEF Known
<1>8. ASSUME NEW c \in sweep_closes, NEW closed \in BOOLEAN, FinishExpiredTargetClose(c, closed)
      PROVE  Goal
  <2>1. \/ leases' = leases
        \/ leases' = [leases EXCEPT ![c.tab].state = "released"]
    BY <1>8 DEF FinishExpiredTargetClose
  <2> QED BY <1>a, <1>b, <2>1 DEF Known, TabLease
<1>9. CASE TabNext
  <2>1. ASSUME NEW s \in Sessions, NEW c \in Tabs, RequireActiveOwnedMissing(s, c)
        PROVE  Goal
    BY <1>6, <2>1 DEF RequireActiveOwnedMissing
  <2>2. ASSUME NEW visible \in SUBSET Targets, MarkMissingTargetsNotIn(visible)
        PROVE  Goal
    <3>1. Vanished(visible) \in SUBSET Tabs
      BY DEF Vanished, RegistryInv, TypeOK, Maybe
    <3> QED BY <1>6, <2>2, <3>1 DEF MarkMissingTargetsNotIn
  <2>3. ASSUME NEW s \in Sessions, NEW c \in Tabs, ReserveOwnedTabClose(s, c)
        PROVE  Goal
    BY <1>b, <2>3 DEF ReserveOwnedTabClose
  <2>4. ASSUME NEW t \in Targets, NEW c \in Tabs, FinishOwnedTabCloseReservation(t, c)
        PROVE  Goal
    BY <1>b, <2>4 DEF FinishOwnedTabCloseReservation
  <2> QED BY <1>2, <1>3, <1>4, <1>5, <1>9, <2>1, <2>2, <2>3, <2>4 DEF TabNext
<1>10. CASE ExpiryNext
  <2>1. ASSUME NEW n, NEW in_flight, ExpireSessions(n, in_flight)
        PROVE  Goal
    <3>1. ExpiredIds(n, in_flight) \in SUBSET Sessions
      BY DEF ExpiredIds
    <3> QED BY <1>7, <2>1, <3>1 DEF ExpireSessions
  <2> QED BY <1>8, <1>10, <2>1 DEF ExpiryNext
<1>11. CASE Tick \/ UNCHANGED vars
  BY <1>b, <1>11 DEF Tick, vars, targetVars
<1> QED BY <1>1, <1>9, <1>10, <1>11 DEF Next

\* A close under way stays its owner's, and it came about by a reservation.
LEMMA OursNext ==
    ASSUME ShapeInv, RegistryInv, InFlightInv, CloseInv, [BrokerNext]_brokerVars, [Next]_vars,
           NEW q \in Requests, Closer(q)'
    PROVE  /\ Ours(q)'
           /\ Reserve(q) \/ Closer(q)
<1>1. ASSUME Closer(q), req'[q].session = req[q].session, req'[q].tab = req[q].tab,
             req'[q].target = req[q].target
      PROVE  Ours(q)'
  <2>1. PICK b \in Tabs, s \in Sessions, t \in Targets :
            b = req[q].tab /\ s = req[q].session /\ t = req[q].target
    BY <1>1 DEF ShapeInv, RequestShape, Closer, At, TabMethods
  <2>2. Registered(q) /\ Live(req[q].session)
    BY <1>1 DEF CloseInv, ShapeInv, RequestShape, Closer, At, Registered, Ours
  <2>3. sessions'[s].status = "live"
    BY <2>1, <2>2, ExpirySparesInFlight
  <2>4. Known(b) /\ leases[b].owner = s /\ leases[b].target = t
    BY <1>1, <2>1 DEF CloseInv, Ours
  <2>5. leases[b].state = "active" => Closing(leases[b].target)
    BY <1>1, <2>1, <2>4, NoneAssumption DEF CloseInv, Barred, Closing, Closer
  <2>6. leases'[b].owner = s /\ leases'[b].target = t /\ Known(b)'
    BY <2>4, <2>5, LeaseStays
  <2> QED BY <1>1, <2>1, <2>3, <2>6 DEF Ours, Known, Live
<1>2. ASSUME Reserve(q), SameRequest(q), req'[q].target = leases[req[q].tab].target
      PROVE  Ours(q)'
  <2>1. RequireOwnedTab(req[q].session, req[q].tab) /\ UNCHANGED <<sessions, leases>>
    BY <1>2 DEF Reserve, ReserveOwnedTabClose, sessionVars
  <2> QED BY <1>2, <2>1 DEF Ours, RequireOwnedTab, SameRequest, Known, Live
<1>3. Enters(q)
  BY StepEnters
<1>4. CASE req'[q] = req[q]
  BY <1>1, <1>4 DEF Closer, At
<1>5. CASE ClosePage(q) /\ SameRequest(q) /\ req'[q].target = req[q].target /\ req'[q].pc = "commit"
  BY <1>1, <1>5 DEF ClosePage, SameRequest, Closer
<1>6. req'[q].pc \in {"closing", "commit"}
  BY DEF Closer, At
<1> QED BY <1>2, <1>3, <1>4, <1>5, <1>6 DEF Enters, Holding

\* What the sweep's steps leave of a reservation.
LEMMA SweepKeepsBarrier ==
    ASSUME RegistryInv, NEW b \in Tabs, NEW t \in Targets, Barred(t, b),
           leases[b].target = t, leases[b].owner \in Sessions, Live(leases[b].owner),
           \/ \E E \in SUBSET Sessions :
                 leases[b].owner \notin E /\ \E batch : ExpireBatch(E, batch)
           \/ \E c \in sweep_closes, closed \in BOOLEAN : FinishExpiredTargetClose(c, closed)
    PROVE  Barred(t, b)'
<1>1. ASSUME NEW E \in SUBSET Sessions, NEW batch, ExpireBatch(E, batch), leases[b].owner \notin E
      PROVE  Barred(t, b)'
  <2>1. ~ \E c \in ToClose(E) : leases[c].target = t
    <3> SUFFICES ASSUME NEW c \in ToClose(E), leases[c].target = t PROVE FALSE
      OBVIOUS
    <3>1. /\ cleanup_owned_targets[t] # None /\ cleanup_owned_targets[t].tab = c
          /\ leases[c].owner \in E
      BY DutiesHandedOver
    <3> QED BY <1>1, <3>1 DEF Barred
  <2>2. pending_target_closes'[t] = b
    BY <1>1, <2>1 DEF ExpireBatch, Barred
  <2>3. /\ active_target_owners'[t] \in {active_target_owners[t], None}
        /\ cleanup_owned_targets'[t] \in {cleanup_owned_targets[t], None}
    BY <1>1, ExpireEffects
  <2> QED BY <2>2, <2>3 DEF Barred
<1>2. ASSUME NEW c \in sweep_closes, NEW closed \in BOOLEAN, FinishExpiredTargetClose(c, closed)
      PROVE  Barred(t, b)'
  <2>1. c.target # t
    <3> SUFFICES ASSUME c.target = t PROVE FALSE
      OBVIOUS
    <3>1. c.tab = b /\ sessions[c.session].status = "gone" /\ leases[b].owner = c.session
      BY SweptLease DEF RegistryInv, TargetInv, SweepHoldsReservation, Barred
    <3> QED BY <3>1 DEF Live
  <2>2. /\ pending_target_closes'[t] = pending_target_closes[t]
        /\ cleanup_owned_targets'[t] = cleanup_owned_targets[t]
        /\ active_target_owners' = active_target_owners
    BY <1>2, <2>1 DEF FinishExpiredTargetClose, RegistryInv, TypeOK
  <2> QED BY <2>2 DEF Barred
<1> QED BY <1>1, <1>2

\* The barrier around a close that the step leaves where it is.
LEMMA BarrierHolds ==
    ASSUME ShapeInv, RegistryInv, InFlightInv, CloseInv, [BrokerNext]_brokerVars,
           NEW q \in Requests, Closer(q), req'[q] = req[q],
           NEW b \in Tabs, NEW t \in Targets, b = req[q].tab, t = req[q].target,
           At(q, "closing") \/ (leases[b].state = "active" /\ leases'[b].state = "active")
    PROVE  Barred(t, b)'
<1>a. /\ Barred(t, b) /\ leases[b].target = t /\ leases[b].owner = req[q].session
      /\ Known(b) /\ Live(leases[b].owner) /\ leases[b].owner \in Sessions
      /\ Registered(q) /\ ~At(q, "idle")
      /\ leases[b].owner \notin ExpiredIds(sweep.now, sweep.skip) \/ sweep.pc # "expire"
  <2>1. /\ Closer(q) => Ours(q)
        /\ At(q, "closing") => Barred(t, b)
        /\ At(q, "commit") /\ leases[b].state = "active" => Barred(t, b)
    BY DEF CloseInv
  <2>2. /\ Barred(t, b) /\ Ours(q)
    BY <2>1 DEF Closer
  <2>3. Registered(q) /\ ~At(q, "idle") /\ req[q].session \in Sessions
    BY DEF ShapeInv, RequestShape, Closer, At, Registered
  <2>4. sweep.pc = "expire" => req[q].session \notin ExpiredIds(sweep.now, sweep.skip)
    <3>1. /\ Ttl \in Nat /\ sweep.now \in Nat /\ sessions[req[q].session].updated_at \in Nat
      BY <2>3, NumbersAssumption DEF ShapeInv, BrokerTypeOK, TypeOK, SessionRecord, SweepState
    <3>2. sweep.pc = "expire" => \/ req[q].session \in sweep.skip
                                \/ sweep.now <= sessions[req[q].session].updated_at + Ttl
      BY <2>2, <2>3 DEF InFlightInv, Ours
    <3> QED BY <3>1, <3>2 DEF ExpiredIds
  <2> QED BY <2>2, <2>3, <2>4 DEF Ours
<1>b. ASSUME UNCHANGED <<pending_target_closes, active_target_owners, cleanup_owned_targets>>
      PROVE  Barred(t, b)'
  BY <1>a, <1>b DEF Barred
<1>c. ASSUME NEW B, NEW C, UNCHANGED pending_target_closes,
             active_target_owners' = WithoutActive(B),
             cleanup_owned_targets' = WithoutCleanup(C)
      PROVE  Barred(t, b)'
  BY <1>a, <1>c DEF Barred, WithoutActive, WithoutCleanup
<1>d. /\ pending_target_closes \in [Targets -> Maybe(Tabs)]
      /\ active_target_owners \in [Targets -> Maybe(Tabs)]
      /\ cleanup_owned_targets \in [Targets -> Maybe(CleanupOwnership)]
      /\ \A r \in Requests : RequestShape(r)
      /\ req \in [Requests -> RequestState]
  BY DEF ShapeInv, BrokerTypeOK, TypeOK
<1>e. ASSUME NEW r \in Requests, Closer(r), End(r) PROVE r # q
  <2>1. req[r].session \in Sessions
    BY <1>d, <1>e DEF RequestShape, Closer, At
  <2>2. Ended(r)
    BY <1>d, <1>e, <2>1, EndRewrites
  <2>3. req[r].guarded \in BOOLEAN
    BY <1>d DEF RequestState
  <2> QED BY <2>2, <2>3 DEF Ended, Closer, At
\* Another close's reservation is for another target, or this tab is in no danger.
<1>f. ASSUME NEW r \in Requests \ {q}, At(r, "closing"), req[r].tab = b, req[r].target = t
      PROVE  FALSE
  BY <1>f, <1>a DEF CloseInv, Apart, Closer
<1>g. ASSUME NEW r \in Requests \ {q}, At(r, "commit"), req[r].tab = b PROVE ~At(q, "closing")
  BY <1>g DEF CloseInv, Apart
<1>h. Closing(t)
  BY <1>a, NoneAssumption DEF Barred, Closing
<1> USE DEF OnlyRequests, NoBrowserWork, OnlySweep, registryVars, vars, targetVars
<1>1. ASSUME NEW r \in Requests, Register(r) \/ DropGuard(r) \/ EnsureSession(r) \/
             CreatePageFails(r) \/ LeaseCreatedRefused(r) \/ LookUpClaim(r) \/ ClaimFails(r) \/
             ValidateRelease(r) \/ ReleaseRefused(r) \/ ValidateClose(r) \/
             ReserveRefused(r) \/ ClosePage(r) \/ ReadInventory(r)
      PROVE  Barred(t, b)'
  BY <1>1, <1>b
  DEF Register, DropGuard, EnsureSession, CreatePageFails, LeaseCreatedRefused, LookUpClaim,
      ClaimFails, ValidateRelease, ReleaseRefused, ValidateClose, ReserveRefused, ClosePage,
      ReadInventory
<1>2. CASE SweepReadClock \/ SweepReadInFlight
  BY <1>2, <1>b
  DEF SweepReadClock, SweepReadInFlight
<1>3. ASSUME NEW r \in Requests, Release(r) \/ ReconcileMissingTargets(r) \/ CheckActiveOwned(r)
      PROVE  Barred(t, b)'
  BY <1>3, <1>b, <1>c
  DEF Release, ReconcileMissingTargets, CheckActiveOwned, ReleaseTab, MarkMissingTargetsNotIn,
      MarkMissing, RequireActiveOwnedMissing
<1>4. ASSUME NEW r \in Requests, NEW m \in profile.methods \ {"start_session", "start_with_url"},
             NEW s \in Sessions, NEW a \in Maybe(Tabs), NEW u \in Maybe(Targets),
             (m \in TabMethods) = (a # None), (m \in TargetMethods) = (u # None),
             Dispatch(r, m, s, a, u)
      PROVE  Barred(t, b)'
  BY <1>4, <1>b DEF Dispatch, Touch
<1>5. ASSUME NEW r \in Requests, NEW m \in profile.methods \cap {"start_session", "start_with_url"},
             NEW s \in Sessions, DispatchStartSession(r, s, m)
      PROVE  Barred(t, b)'
  BY <1>5, <1>b DEF DispatchStartSession, StartSession
<1>6. ASSUME NEW r \in Requests, FinalTouch(r)
      PROVE  Barred(t, b)'
  BY <1>6, <1>b DEF FinalTouch, Touch
<1>7. ASSUME NEW r \in Requests, Reserve(r)
      PROVE  Barred(t, b)'
  <2> DEFINE u == leases[req[r].tab].target
  <2>1. /\ ~Closing(u)
        /\ pending_target_closes' = [pending_target_closes EXCEPT ![u] = req[r].tab]
        /\ UNCHANGED <<active_target_owners, cleanup_owned_targets>>
    BY <1>7 DEF Reserve, ReserveOwnedTabClose
  <2>2. u # t
    BY <1>h, <2>1
  <2> HIDE DEF u
  <2>3. pending_target_closes'[t] = pending_target_closes[t]
    BY <1>d, <2>1, <2>2
  <2> QED BY <1>a, <2>1, <2>3 DEF Barred
<1>8. ASSUME NEW r \in Requests, ClosePageFails(r)
      PROVE  Barred(t, b)'
  <2>1. r # q /\ At(r, "closing")
    BY <1>8, <1>e DEF ClosePageFails, Closer
  <2>2. CASE pending_target_closes[req[r].target] # req[r].tab
    BY <1>8, <1>b, <2>2 DEF ClosePageFails, EndReservation
  <2>3. CASE FinishOwnedTabCloseReservation(req[r].target, req[r].tab)
    <3>1. req[r].target # t
      <4> SUFFICES ASSUME req[r].target = t PROVE FALSE
        OBVIOUS
      <4>1. req[r].tab = b
        BY <1>a, <2>3 DEF FinishOwnedTabCloseReservation, Barred
      <4> QED BY <1>f, <2>1, <4>1
    <3>2. pending_target_closes'[t] = pending_target_closes[t]
      BY <1>d, <2>3, <3>1 DEF FinishOwnedTabCloseReservation
    <3> QED BY <1>a, <2>3, <3>2 DEF Barred, FinishOwnedTabCloseReservation
  <2> QED BY <1>8, <2>2, <2>3 DEF ClosePageFails, EndReservation
<1>9. ASSUME NEW r \in Requests, CommitClose(r)
      PROVE  Barred(t, b)'
  <2>1. r # q /\ At(r, "commit") /\ Closer(r)
    BY <1>9, <1>e DEF CommitClose, Closer
  <2>2. /\ leases[req[r].tab].target = req[r].target /\ Ours(r)
        /\ req[r].tab \in Tabs /\ req[r].target \in Targets /\ req[r].session \in Sessions
    BY <1>d, <2>1 DEF CloseInv, Ours, RequestShape, At, TabMethods
  <2>3. CASE req[r].target = t /\ req[r].tab = b
    <3>1. ~At(q, "closing")
      BY <1>g, <2>1, <2>3
    <3>2. leases[b].state = "active" /\ leases'[b].state = "active"
      BY <3>1
    <3>3. MayRelease(r)
      BY <2>2, <2>3, <3>2 DEF MayRelease, Ours, RequireOwnedTab, Releasable
    <3>4. leases' = [leases EXCEPT ![b].state = "closed"] /\ leases \in [Tabs -> TabLease]
      BY <1>9, <2>3, <3>3 DEF CommitClose, CommitOwnedTabClose, ShapeInv, BrokerTypeOK, TypeOK
    <3>5. leases'[b].state = "closed"
      BY <3>4 DEF TabLease
    <3> QED BY <3>2, <3>5
  <2>4. CASE ~(req[r].target = t /\ req[r].tab = b)
    <3>1. CASE EndReservation(r)
      <4>1. UNCHANGED <<active_target_owners, cleanup_owned_targets>>
        BY <3>1 DEF EndReservation, FinishOwnedTabCloseReservation
      <4>2. pending_target_closes'[t] = pending_target_closes[t]
        <5>1. CASE pending_target_closes[req[r].target] # req[r].tab
          BY <3>1, <5>1 DEF EndReservation
        <5>2. CASE pending_target_closes[req[r].target] = req[r].tab
          <6>1. req[r].target # t
            BY <1>a, <2>4, <5>2 DEF Barred
          <6> QED BY <1>d, <3>1, <5>2, <6>1 DEF EndReservation, FinishOwnedTabCloseReservation
        <5> QED BY <5>1, <5>2
      <4> QED BY <1>a, <4>1, <4>2 DEF Barred
    <3>2. CASE CommitOwnedTabClose(req[r].session, req[r].tab)
      <4>1. pending_target_closes'[t] = pending_target_closes[t]
        <5>1. pending_target_closes' = [pending_target_closes EXCEPT
                 ![req[r].target] = IF @ = req[r].tab THEN None ELSE @]
          BY <2>2, <3>2 DEF CommitOwnedTabClose
        <5> QED BY <1>a, <1>d, <2>2, <2>4, <5>1 DEF Barred
      <4>2. active_target_owners' = WithoutActive({req[r].tab})
            /\ cleanup_owned_targets' = WithoutCleanup({req[r].tab})
        BY <3>2 DEF CommitOwnedTabClose
      <4> QED BY <1>a, <4>1, <4>2 DEF Barred, WithoutActive, WithoutCleanup
    <3> QED BY <1>9, <3>1, <3>2 DEF CommitClose
  <2> QED BY <2>3, <2>4
<1>10. ASSUME NEW r \in Requests, NEW u \in Targets, CreatePage(r, u)
      PROVE  Barred(t, b)'
  BY <1>10, <1>b DEF CreatePage
<1>11. ASSUME NEW r \in Requests, NEW a \in Tabs, LeaseCreated(r, a)
      PROVE  Barred(t, b)'
  <2>1. ~Closing(req[r].target) /\ req[r].target \in Targets
    BY <1>11, <1>d DEF LeaseCreated, LeaseTab, Withdrawn, RequestShape
  <2>2. req[r].target # t
    BY <1>h, <2>1
  <2>3. /\ UNCHANGED pending_target_closes
        /\ active_target_owners'[t] = active_target_owners[t]
        /\ cleanup_owned_targets'[t] = cleanup_owned_targets[t]
    BY <1>11, <1>d, <2>1, <2>2 DEF LeaseCreated, LeaseTab
  <2> QED BY <1>a, <2>3 DEF Barred
<1>12. ASSUME NEW r \in Requests, NEW a \in Tabs, Claim(r, a)
      PROVE  Barred(t, b)'
  <2>1. ~Closing(req[r].target) /\ req[r].target \in Targets
    BY <1>12, <1>d DEF Claim, ClaimTab, Withdrawn, RequestShape
  <2>2. req[r].target # t
    BY <1>h, <2>1
  <2>3. /\ UNCHANGED pending_target_closes
        /\ active_target_owners'[t] = active_target_owners[t]
        /\ cleanup_owned_targets'[t] = cleanup_owned_targets[t]
    BY <1>12, <1>d, <2>1, <2>2 DEF Claim, ClaimTab
  <2> QED BY <1>a, <2>3 DEF Barred
<1>13. CASE SweepExpire
  <2>1. CASE UNCHANGED registryVars
    BY <1>b, <2>1
  <2>2. CASE ExpireSessions(sweep.now, sweep.skip)
    <3>1. PICK batch : ExpireBatch(ExpiredIds(sweep.now, sweep.skip), batch)
      BY <2>2 DEF ExpireSessions
    <3>2. ExpiredIds(sweep.now, sweep.skip) \in SUBSET Sessions
      BY DEF ExpiredIds
    <3>3. leases[b].owner \notin ExpiredIds(sweep.now, sweep.skip)
      BY <1>13, <1>a DEF SweepExpire
    <3> QED BY <1>a, <3>1, <3>2, <3>3, SweepKeepsBarrier
  <2> QED BY <1>13, <2>1, <2>2 DEF SweepExpire
<1>14. CASE SweepReport
  <2>1. FinishExpiredTargetClose(sweep.close, sweep.closed) /\ sweep.close \in sweep_closes
        /\ sweep.closed \in BOOLEAN
    BY <1>14 DEF SweepReport, ShapeInv, BrokerTypeOK, SweepShape, SweepState
  <2> QED BY <1>a, <2>1, SweepKeepsBarrier
<1>15. ASSUME NEW c \in sweep_closes, SweepClosePage(c)
      PROVE  Barred(t, b)'
  BY <1>15, <1>b DEF SweepClosePage
<1>16. ASSUME NEW u \in Targets, HumanOpens(u)
      PROVE  Barred(t, b)'
  BY <1>16, <1>b DEF HumanOpens
<1>17. ASSUME NEW u \in Targets, HumanCloses(u)
      PROVE  Barred(t, b)'
  BY <1>17, <1>b DEF HumanCloses
<1>18. CASE TimePasses
  BY <1>18, <1>b DEF TimePasses, Tick
<1>19. CASE UNCHANGED brokerVars
  BY <1>19, <1>b DEF brokerVars
<1> QED
  BY <1>1, <1>2, <1>3, <1>4, <1>5, <1>6, <1>7, <1>8, <1>9, <1>10, <1>11, <1>12, <1>13,
     <1>14, <1>15, <1>16, <1>17, <1>18, <1>19
  DEF BrokerNext, ClientSends, RequestStep, SweepStep, HumanStep

\* How a request comes to be closing a page, or committing a close.
ClosesOn(q) ==
    \/ req'[q] = req[q]
    \/ /\ Reserve(q) /\ UNCHANGED leases
       /\ req'[q].tab = req[q].tab /\ req'[q].target = leases[req[q].tab].target
       /\ req'[q].pc = IF leases[req[q].tab].state = "active" THEN "closing" ELSE "commit"
       /\ ~Closing(leases[req[q].tab].target)
       /\ pending_target_closes' =
            [pending_target_closes EXCEPT ![leases[req[q].tab].target] = req[q].tab]
       /\ UNCHANGED <<active_target_owners, cleanup_owned_targets>>
       /\ \A r \in Requests \ {q} : req'[r] = req[r]
    \/ /\ At(q, "closing") /\ req'[q].pc = "commit"
       /\ req'[q].tab = req[q].tab /\ req'[q].target = req[q].target
       /\ UNCHANGED <<leases, pending_target_closes, active_target_owners, cleanup_owned_targets>>
       /\ \A r \in Requests \ {q} : req'[r] = req[r]

\* The ways a request comes to close a page or to commit a close.
LEMMA StepClosesOn ==
    ASSUME ShapeInv, [BrokerNext]_brokerVars, NEW q \in Requests, Closer(q)'
    PROVE  ClosesOn(q)
<1>1. Enters(q)
  BY StepEnters
<1>2. req'[q].pc \in {"closing", "commit"}
  BY DEF Closer, At
<1>3. req \in [Requests -> RequestState]
  BY DEF ShapeInv, BrokerTypeOK
<1>4. CASE Reserve(q) /\ SameRequest(q)
           /\ req'[q].target = leases[req[q].tab].target
           /\ req'[q].pc = IF leases[req[q].tab].state = "active" THEN "closing" ELSE "commit"
  <2>1. \A r \in Requests \ {q} : req'[r] = req[r]
    BY <1>3, <1>4 DEF Reserve
  <2>2. /\ ~Closing(leases[req[q].tab].target) /\ UNCHANGED leases
        /\ pending_target_closes' =
             [pending_target_closes EXCEPT ![leases[req[q].tab].target] = req[q].tab]
        /\ UNCHANGED <<active_target_owners, cleanup_owned_targets>>
    BY <1>4 DEF Reserve, ReserveOwnedTabClose
  <2> QED BY <1>4, <2>1, <2>2 DEF ClosesOn, SameRequest
<1>5. CASE ClosePage(q) /\ SameRequest(q) /\ req'[q].target = req[q].target
           /\ req'[q].pc = "commit"
  <2>1. \A r \in Requests \ {q} : req'[r] = req[r]
    BY <1>3, <1>5 DEF ClosePage, Goto
  <2>2. UNCHANGED <<leases, pending_target_closes, active_target_owners, cleanup_owned_targets>>
    BY <1>5 DEF ClosePage, registryVars, vars, targetVars
  <2> QED BY <1>5, <2>1, <2>2 DEF ClosesOn, SameRequest, ClosePage
<1> QED BY <1>1, <1>2, <1>4, <1>5 DEF Enters, Holding, ClosesOn

\* A close under way keeps its barrier, and no second one reaches its page.
LEMMA CloseNext ==
    ASSUME ShapeInv, RegistryInv, InFlightInv, CloseInv, [BrokerNext]_brokerVars, [Next]_vars,
           \A q \in Requests : RequestShape(q)'
    PROVE  CloseInv'
<1>a. \A q \in Requests : Closer(q) =>
         /\ req[q].tab \in Tabs /\ req[q].target \in Targets
         /\ req[q].tab # None
  BY NoneAssumption DEF ShapeInv, RequestShape, Closer, At, TabMethods
<1>b. \A q \in Requests : Closer(q)' => Ours(q)' /\ (Reserve(q) \/ Closer(q)) /\ ClosesOn(q)
  BY OursNext, StepClosesOn
<1>c. \A q \in Requests : /\ Closer(q) => Ours(q)
                          /\ At(q, "closing") => Barred(req[q].target, req[q].tab) /\ Apart(q)
  BY DEF CloseInv
<1>d. \A q \in Requests : At(q, "closing") => Closing(req[q].target)
  BY <1>a, <1>c DEF Barred, Closing, Closer
<1>1. ASSUME NEW r \in Requests, At(r, "closing")'
      PROVE  Barred(req[r].target, req[r].tab)'
  <2>a. Closer(r)'
    BY <1>1 DEF Closer
  <2>1. CASE req'[r] = req[r]
    <3>1. At(r, "closing") /\ Closer(r)
      BY <1>1, <2>1 DEF At, Closer
    <3>2. PICK b \in Tabs, t \in Targets : b = req[r].tab /\ t = req[r].target
      BY <1>a, <3>1
    <3>3. Barred(t, b)'
      BY <2>1, <3>1, <3>2, BarrierHolds
    <3> QED BY <2>1, <3>2, <3>3 DEF Barred
  <2>2. ASSUME leases[req[r].tab].state = "active",
               pending_target_closes' =
                 [pending_target_closes EXCEPT ![leases[req[r].tab].target] = req[r].tab],
               UNCHANGED <<active_target_owners, cleanup_owned_targets>>,
               Reserve(r), req'[r].tab = req[r].tab, req'[r].target = leases[req[r].tab].target
        PROVE  Barred(req[r].target, req[r].tab)'
    <3>1. PICK b \in Tabs : b = req[r].tab
      BY <2>2 DEF ShapeInv, RequestShape, Reserve, At, TabMethods
    <3>2. PICK t \in Targets : t = leases[b].target
      BY <2>2, <3>1 DEF RegistryInv, TargetInv, LeasesComplete, Known
    <3>3. active_target_owners[t] = b /\ b # None
      BY <2>2, <3>1, <3>2, NoneAssumption DEF RegistryInv, TargetInv, ActiveIndexExact
    <3>4. cleanup_owned_targets[t] # None => cleanup_owned_targets[t].tab = b
      BY <3>2, <3>3 DEF RegistryInv, TargetInv, CleanupFollowsOwner
    <3>5. pending_target_closes'[t] = b
      BY <2>2, <3>1, <3>2 DEF RegistryInv, TypeOK
    <3> QED BY <2>2, <3>1, <3>2, <3>3, <3>4, <3>5 DEF Barred
  <2>3. CASE req'[r] # req[r]
    <3>1. req'[r].pc = "closing" /\ ClosesOn(r)
      BY <1>1, <1>b, <2>a DEF At
    <3> QED BY <2>2, <2>3, <3>1 DEF ClosesOn
  <2> QED BY <2>1, <2>3
<1>2. ASSUME NEW r \in Requests, At(r, "closing")'
      PROVE  Apart(r)'
  <2>a. Closer(r)' /\ ClosesOn(r) /\ Ours(r)' /\ req'[r].pc = "closing"
    BY <1>2, <1>b DEF Closer, At
  <2>b. \/ req'[r] = req[r] /\ At(r, "closing")
        \/ /\ leases[req[r].tab].state = "active" /\ Reserve(r) /\ req'[r].tab = req[r].tab
           /\ req'[r].target = leases[req[r].tab].target
           /\ ~Closing(leases[req[r].tab].target) /\ UNCHANGED leases
           /\ \A q \in Requests \ {r} : req'[q] = req[q]
    BY <2>a DEF ClosesOn, At
  <2>1. ASSUME NEW q \in Requests \ {r}, At(q, "closing")'
        PROVE  req'[q].target # req'[r].target
    <3>a. ClosesOn(q) /\ req'[q].pc = "closing"
      BY <1>b, <2>1 DEF Closer, At
    <3>b. \/ req'[q] = req[q] /\ At(q, "closing")
          \/ /\ req'[q] # req[q] /\ req'[q].target = leases[req[q].tab].target
             /\ ~Closing(leases[req[q].tab].target)
             /\ \A p \in Requests \ {q} : req'[p] = req[p]
      BY <3>a DEF ClosesOn, At
    <3>1. CASE req'[r] = req[r] /\ At(r, "closing") /\ req'[q] = req[q] /\ At(q, "closing")
      BY <1>c, <3>1 DEF Apart
    <3>2. CASE req'[r] = req[r] /\ At(r, "closing")
               /\ req'[q].target = leases[req[q].tab].target /\ ~Closing(leases[req[q].tab].target)
      BY <1>d, <3>2
    <3>3. CASE req'[r].target = leases[req[r].tab].target /\ ~Closing(leases[req[r].tab].target)
               /\ req'[q] = req[q] /\ At(q, "closing")
      BY <1>d, <3>3
    <3> QED BY <2>b, <3>b, <3>1, <3>2, <3>3
  <2>2. ASSUME NEW q \in Requests, At(q, "commit")'
        PROVE  req'[q].tab # req'[r].tab
    <3>a. ClosesOn(q) /\ req'[q].pc = "commit" /\ q # r
      BY <1>b, <2>2, <2>a DEF Closer, At
    <3>b. \/ req'[q] = req[q] /\ At(q, "commit")
          \/ /\ req'[q] # req[q] /\ req'[q].tab = req[q].tab
             /\ ~Closing(leases[req[q].tab].target)
             /\ \A p \in Requests \ {q} : req'[p] = req[p]
          \/ /\ At(q, "closing") /\ req'[q].tab = req[q].tab
             /\ \A p \in Requests \ {q} : req'[p] = req[p]
      BY <3>a DEF ClosesOn, At
    <3>1. CASE At(r, "closing") /\ req'[r] = req[r]
      <4>1. Ours(r) /\ Closing(req[r].target) /\ Apart(r)
        BY <1>c, <1>d, <3>1 DEF Closer
      <4>2. Closing(leases[req[r].tab].target)
        BY <4>1 DEF Ours
      <4>3. CASE req'[q] = req[q] /\ At(q, "commit")
        BY <3>1, <4>1, <4>3 DEF Apart
      <4>4. CASE req'[q].tab = req[q].tab /\ ~Closing(leases[req[q].tab].target)
        BY <3>1, <4>2, <4>4
      <4>5. CASE At(q, "closing") /\ req'[q].tab = req[q].tab
        <5>1. Ours(q) /\ req[q].target # req[r].target
          BY <1>c, <3>a, <4>1, <4>5 DEF Closer, Apart
        <5> QED BY <3>1, <4>1, <4>5, <5>1 DEF Ours
      <4> QED BY <3>b, <4>3, <4>4, <4>5
    <3>2. CASE leases[req[r].tab].state = "active" /\ Reserve(r) /\ req'[r].tab = req[r].tab
               /\ ~Closing(leases[req[r].tab].target)
               /\ \A p \in Requests \ {r} : req'[p] = req[p]
      <4>1. req'[q] = req[q] /\ At(q, "commit")
        BY <3>2, <3>a DEF At
      <4>2. SUFFICES ASSUME req[q].tab = req[r].tab PROVE FALSE
        BY <3>2, <4>1
      <4>3. Ours(q) /\ Barred(req[q].target, req[q].tab)
        BY <3>2, <4>1, <4>2 DEF CloseInv, Closer
      <4>4. pending_target_closes[leases[req[r].tab].target] # None
        BY <1>a, <4>1, <4>2, <4>3 DEF Ours, Barred, Closer
      <4> QED BY <3>2, <4>4 DEF Closing
    <3> QED BY <2>b, <3>1, <3>2
  <2> QED BY <2>1, <2>2 DEF Apart, At
<1>3. ASSUME NEW r \in Requests, At(r, "commit")', leases'[req'[r].tab].state = "active"
      PROVE  Barred(req[r].target, req[r].tab)'
  <2>a. ClosesOn(r) /\ req'[r].pc = "commit"
    BY <1>b, <1>3 DEF Closer, At
  <2>1. CASE req'[r] = req[r]
    <3>1. At(r, "commit") /\ Closer(r)
      BY <2>a, <2>1 DEF At, Closer
    <3>2. PICK b \in Tabs, t \in Targets : b = req[r].tab /\ t = req[r].target
      BY <1>a, <3>1
    <3>3. Known(b) /\ leases[b].target = t
      BY <1>c, <3>1, <3>2 DEF Ours
    <3>4. leases[b].state = "active" => Closing(leases[b].target)
      BY <1>a, <3>1, <3>2, <3>3 DEF CloseInv, Barred, Closing
    <3>5. leases[b].state = "active"
      BY <1>3, <2>1, <3>2, <3>3, <3>4, LeaseStays
    <3>6. Barred(t, b)'
      BY <1>3, <2>1, <3>1, <3>2, <3>5, BarrierHolds
    <3> QED BY <2>1, <3>2, <3>6 DEF Barred
  <2>2. CASE At(r, "closing") /\ req'[r].tab = req[r].tab /\ req'[r].target = req[r].target
             /\ UNCHANGED <<pending_target_closes, active_target_owners, cleanup_owned_targets>>
    <3>1. Barred(req[r].target, req[r].tab)
      BY <1>c, <2>2
    <3> QED BY <2>2, <3>1 DEF Barred
  <2> QED BY <1>3, <2>a, <2>1, <2>2 DEF ClosesOn
<1> QED BY <1>b, <1>1, <1>2, <1>3 DEF CloseInv

(***************************************************************************)
(* Pages and claims.                                                       *)
(***************************************************************************)
\* Who writes what else.
StepTouches ==
    /\ sweep' = sweep \/ SweepReadClock \/ SweepReadInFlight \/ SweepExpire \/ SweepReport
       \/ \E c \in sweep_closes : SweepClosePage(c)
    /\ \/ page_lifecycle' = page_lifecycle
       \/ \E r \in Requests : LookUpClaim(r) \/ ClaimFails(r) \/ \E b \in Tabs : Claim(r, b)
    /\ preserved' = preserved \/ \E r \in Requests : Release(r)

\* The sweep, the lifecycle lock and the preserved pages have few writers.
LEMMA BrokerTouches ==
    ASSUME [BrokerNext]_brokerVars
    PROVE  StepTouches
<1> DEFINE Goal == StepTouches
<1>a. ASSUME UNCHANGED <<sweep, page_lifecycle, preserved>> PROVE Goal
  BY <1>a DEF StepTouches
<1>b. ASSUME UNCHANGED <<page_lifecycle, preserved>>,
             SweepReadClock \/ SweepReadInFlight \/ SweepExpire \/ SweepReport
               \/ \E c \in sweep_closes : SweepClosePage(c)
      PROVE  Goal
  BY <1>b DEF StepTouches
<1>c. ASSUME NEW r \in Requests, UNCHANGED <<sweep, preserved>>,
             LookUpClaim(r) \/ ClaimFails(r) \/ \E b \in Tabs : Claim(r, b)
      PROVE  Goal
  BY <1>c DEF StepTouches
<1> SUFFICES Goal
  OBVIOUS
<1> USE DEF OnlyRequests, NoBrowserWork, OnlySweep
<1>1. ASSUME NEW r \in Requests, Register(r) \/ FinalTouch(r) \/ DropGuard(r) \/
             EnsureSession(r) \/ CreatePageFails(r) \/ LeaseCreatedRefused(r) \/
             ValidateRelease(r) \/ ReleaseRefused(r) \/ ValidateClose(r) \/ Reserve(r) \/
             ReserveRefused(r) \/ ClosePage(r) \/ ClosePageFails(r) \/ CommitClose(r) \/
             ReadInventory(r) \/ ReconcileMissingTargets(r) \/ CheckActiveOwned(r)
      PROVE  Goal
  BY <1>1, <1>a
  DEF Register, FinalTouch, DropGuard, EnsureSession, CreatePageFails, LeaseCreatedRefused,
      ValidateRelease, ReleaseRefused, ValidateClose, Reserve, ReserveRefused, ClosePage,
      ClosePageFails, CommitClose, ReadInventory, ReconcileMissingTargets, CheckActiveOwned
<1>2. ASSUME NEW r \in Requests, LookUpClaim(r) \/ ClaimFails(r)
      PROVE  Goal
  BY <1>2, <1>c
  DEF LookUpClaim, ClaimFails
<1>3. CASE SweepReadClock \/ SweepReadInFlight \/ SweepExpire \/ SweepReport
  BY <1>3, <1>b
  DEF SweepReadClock, SweepReadInFlight, SweepExpire, SweepReport
<1>4. ASSUME NEW r \in Requests, NEW m \in profile.methods \ {"start_session", "start_with_url"},
             NEW s \in Sessions, NEW b \in Maybe(Tabs), NEW t \in Maybe(Targets),
             (m \in TabMethods) = (b # None), (m \in TargetMethods) = (t # None),
             Dispatch(r, m, s, b, t)
      PROVE  Goal
  BY <1>4, <1>a DEF Dispatch
<1>5. ASSUME NEW r \in Requests, NEW m \in profile.methods \cap {"start_session", "start_with_url"},
             NEW s \in Sessions, DispatchStartSession(r, s, m)
      PROVE  Goal
  BY <1>5, <1>a DEF DispatchStartSession
<1>6. ASSUME NEW r \in Requests, Release(r)
      PROVE  Goal
  BY <1>6 DEF Release, StepTouches
<1>7. ASSUME NEW r \in Requests, NEW t \in Targets, CreatePage(r, t)
      PROVE  Goal
  BY <1>7, <1>a DEF CreatePage
<1>8. ASSUME NEW r \in Requests, NEW b \in Tabs, LeaseCreated(r, b)
      PROVE  Goal
  BY <1>8, <1>a DEF LeaseCreated
<1>9. ASSUME NEW r \in Requests, NEW b \in Tabs, Claim(r, b)
      PROVE  Goal
  BY <1>9, <1>c DEF Claim
<1>10. ASSUME NEW c \in sweep_closes, SweepClosePage(c)
      PROVE  Goal
  BY <1>10, <1>b DEF SweepClosePage
<1>11. ASSUME NEW t \in Targets, HumanOpens(t)
      PROVE  Goal
  BY <1>11, <1>a DEF HumanOpens
<1>12. ASSUME NEW t \in Targets, HumanCloses(t)
      PROVE  Goal
  BY <1>12, <1>a DEF HumanCloses
<1>13. CASE TimePasses
  BY <1>13, <1>a DEF TimePasses
<1>14. CASE UNCHANGED brokerVars
  BY <1>14, <1>a DEF brokerVars
<1> HIDE DEF Goal
<1> QED
  BY <1>1, <1>2, <1>3, <1>4, <1>5, <1>6, <1>7, <1>8, <1>9, <1>10, <1>11, <1>12, <1>13,
     <1>14
  DEF BrokerNext, ClientSends, RequestStep, SweepStep, HumanStep

\* The bound on behaviours never changes.
LEMMA ProfileStays == ASSUME [BrokerNext]_brokerVars PROVE profile' = profile
<1> USE DEF OnlyRequests, NoBrowserWork, OnlySweep
<1>1. ASSUME NEW r \in Requests, Register(r) \/ FinalTouch(r) \/ DropGuard(r) \/
             EnsureSession(r) \/ CreatePageFails(r) \/ LeaseCreatedRefused(r) \/
             LookUpClaim(r) \/ ClaimFails(r) \/ ValidateRelease(r) \/ Release(r) \/
             ReleaseRefused(r) \/ ValidateClose(r) \/ Reserve(r) \/ ReserveRefused(r) \/
             ClosePage(r) \/ ClosePageFails(r) \/ CommitClose(r) \/ ReadInventory(r) \/
             ReconcileMissingTargets(r) \/ CheckActiveOwned(r)
      PROVE  profile' = profile
  BY <1>1
  DEF Register, FinalTouch, DropGuard, EnsureSession, CreatePageFails, LeaseCreatedRefused,
      LookUpClaim, ClaimFails, ValidateRelease, Release, ReleaseRefused, ValidateClose,
      Reserve, ReserveRefused, ClosePage, ClosePageFails, CommitClose, ReadInventory,
      ReconcileMissingTargets, CheckActiveOwned
<1>2. CASE SweepReadClock \/ SweepReadInFlight \/ SweepExpire \/ SweepReport \/ TimePasses
  BY <1>2
  DEF SweepReadClock, SweepReadInFlight, SweepExpire, SweepReport, TimePasses
<1>3. ASSUME NEW r \in Requests, NEW m \in profile.methods \ {"start_session", "start_with_url"},
             NEW s \in Sessions, NEW b \in Maybe(Tabs), NEW t \in Maybe(Targets),
             (m \in TabMethods) = (b # None), (m \in TargetMethods) = (t # None),
             Dispatch(r, m, s, b, t)
      PROVE  profile' = profile
  BY <1>3 DEF Dispatch
<1>4. ASSUME NEW r \in Requests, NEW m \in profile.methods \cap {"start_session", "start_with_url"},
             NEW s \in Sessions, DispatchStartSession(r, s, m)
      PROVE  profile' = profile
  BY <1>4 DEF DispatchStartSession
<1>5. ASSUME NEW r \in Requests, NEW t \in Targets, CreatePage(r, t)
      PROVE  profile' = profile
  BY <1>5 DEF CreatePage
<1>6. ASSUME NEW r \in Requests, NEW b \in Tabs, LeaseCreated(r, b)
      PROVE  profile' = profile
  BY <1>6 DEF LeaseCreated
<1>7. ASSUME NEW r \in Requests, NEW b \in Tabs, Claim(r, b)
      PROVE  profile' = profile
  BY <1>7 DEF Claim
<1>8. ASSUME NEW c \in sweep_closes, SweepClosePage(c)
      PROVE  profile' = profile
  BY <1>8 DEF SweepClosePage
<1>9. ASSUME NEW t \in Targets, HumanOpens(t)
      PROVE  profile' = profile
  BY <1>9 DEF HumanOpens
<1>10. ASSUME NEW t \in Targets, HumanCloses(t)
      PROVE  profile' = profile
  BY <1>10 DEF HumanCloses
<1>11. CASE UNCHANGED brokerVars
  BY <1>11 DEF brokerVars
<1> QED
  BY <1>1, <1>2, <1>3, <1>4, <1>5, <1>6, <1>7, <1>8, <1>9, <1>10, <1>11
  DEF BrokerNext, ClientSends, RequestStep, SweepStep, HumanStep

\* A request leaves its claim by the claim or by failing, which changes no lease.
LEMMA LeavesClaim ==
    ASSUME ShapeInv, [BrokerNext]_brokerVars, NEW q \in Requests, At(q, "claim"),
           leases' # leases, req'[q].pc # "claim"
    PROVE  \E b \in Tabs : Claim(q, b)
<1> DEFINE Goal == \E b \in Tabs : Claim(q, b)
<1>a. /\ req \in [Requests -> RequestState]
      /\ \A r \in Requests : RequestShape(r)
  BY DEF ShapeInv, BrokerTypeOK
<1>b. ASSUME leases' = leases PROVE Goal
  BY <1>b
<1>c. ASSUME req' = req PROVE Goal
  BY <1>c DEF At
<1>d. ASSUME NEW r \in Requests, NEW u, ~At(r, "claim"), req' = [req EXCEPT ![r] = u] PROVE Goal
  BY <1>a, <1>d DEF At
<1>e. ASSUME NEW r \in Requests, NEW pc, ~At(r, "claim"), Goto(r, pc) PROVE Goal
  BY <1>a, <1>e DEF At, Goto
<1>f. ASSUME NEW r \in Requests, ~At(r, "claim"), End(r) PROVE Goal
  BY <1>a, <1>f DEF At, End
<1> SUFFICES Goal
  OBVIOUS
<1> USE DEF OnlyRequests, NoBrowserWork, OnlySweep, Handles, registryVars, vars, targetVars
<1>1. ASSUME NEW r \in Requests, Register(r) \/ DropGuard(r) \/ EnsureSession(r) \/
             CreatePageFails(r) \/ LeaseCreatedRefused(r) \/ LookUpClaim(r) \/ ClaimFails(r) \/
             ValidateRelease(r) \/ ReleaseRefused(r) \/ ValidateClose(r) \/
             ReserveRefused(r) \/ ClosePage(r) \/ ReadInventory(r)
      PROVE  Goal
  BY <1>1, <1>b
  DEF Register, DropGuard, EnsureSession, CreatePageFails, LeaseCreatedRefused, LookUpClaim,
      ClaimFails, ValidateRelease, ReleaseRefused, ValidateClose, ReserveRefused, ClosePage,
      ReadInventory
<1>2. CASE SweepReadClock \/ SweepReadInFlight
  BY <1>2, <1>b
  DEF SweepReadClock, SweepReadInFlight
<1>3. ASSUME NEW r \in Requests, FinalTouch(r) \/ Reserve(r) \/ ClosePageFails(r)
      PROVE  Goal
  BY <1>3, <1>b
  DEF FinalTouch, Reserve, ClosePageFails, Touch, ReserveOwnedTabClose, EndReservation,
      FinishOwnedTabCloseReservation
<1>4. ASSUME NEW r \in Requests, NEW m \in profile.methods \ {"start_session", "start_with_url"},
             NEW s \in Sessions, NEW b \in Maybe(Tabs), NEW t \in Maybe(Targets),
             (m \in TabMethods) = (b # None), (m \in TargetMethods) = (t # None),
             Dispatch(r, m, s, b, t)
      PROVE  Goal
  BY <1>4, <1>b DEF Dispatch, Touch
<1>5. ASSUME NEW r \in Requests, NEW m \in profile.methods \cap {"start_session", "start_with_url"},
             NEW s \in Sessions, DispatchStartSession(r, s, m)
      PROVE  Goal
  BY <1>5, <1>b DEF DispatchStartSession, StartSession
<1>6. ASSUME NEW r \in Requests, Release(r)
      PROVE  Goal
  BY <1>6, <1>f DEF Release, At
<1>7. ASSUME NEW r \in Requests, CommitClose(r)
      PROVE  Goal
  BY <1>7, <1>f DEF CommitClose, At
<1>8. ASSUME NEW r \in Requests, ReconcileMissingTargets(r)
      PROVE  Goal
  BY <1>8, <1>e, <1>f DEF ReconcileMissingTargets, At
<1>9. ASSUME NEW r \in Requests, CheckActiveOwned(r)
      PROVE  Goal
  BY <1>9, <1>f DEF CheckActiveOwned, At
<1>10. ASSUME NEW r \in Requests, NEW t \in Targets, CreatePage(r, t)
      PROVE  Goal
  BY <1>10, <1>b DEF CreatePage
<1>11. ASSUME NEW r \in Requests, NEW b \in Tabs, LeaseCreated(r, b)
      PROVE  Goal
  BY <1>11, <1>f DEF LeaseCreated, At
<1>12. ASSUME NEW r \in Requests, NEW b \in Tabs, Claim(r, b)
      PROVE  Goal
  <2>1. CASE r = q
    BY <1>12, <2>1
  <2>2. CASE r # q
    BY <1>12, <1>a, <2>2 DEF Claim, End, At
  <2> QED BY <2>1, <2>2
<1>13. CASE SweepExpire
  BY <1>13, <1>c DEF SweepExpire
<1>14. CASE SweepReport
  BY <1>14, <1>c DEF SweepReport
<1>15. ASSUME NEW c \in sweep_closes, SweepClosePage(c)
      PROVE  Goal
  BY <1>15, <1>b DEF SweepClosePage
<1>16. ASSUME NEW t \in Targets, HumanOpens(t)
      PROVE  Goal
  BY <1>16, <1>b DEF HumanOpens
<1>17. ASSUME NEW t \in Targets, HumanCloses(t)
      PROVE  Goal
  BY <1>17, <1>b DEF HumanCloses
<1>18. CASE TimePasses
  BY <1>18, <1>b DEF TimePasses, Tick
<1>19. CASE UNCHANGED brokerVars
  BY <1>19, <1>b DEF brokerVars
<1> HIDE DEF Goal
<1> QED
  BY <1>1, <1>2, <1>3, <1>4, <1>5, <1>6, <1>7, <1>8, <1>9, <1>10, <1>11, <1>12, <1>13,
     <1>14, <1>15, <1>16, <1>17, <1>18, <1>19
  DEF BrokerNext, ClientSends, RequestStep, SweepStep, HumanStep

\* Who the broker closes a page for: a close under way, or the sweep.
ClosedFor(t) == \/ \E r \in Requests : At(r, "closing") /\ req[r].target = t
                \/ \E c \in sweep_closes : SweepClosePage(c) /\ c.target = t

\* The broker closes a page that was open, with the lifecycle lock free, in a close
\* under way or for the sweep.
LEMMA OnlyClosersClose ==
    ASSUME ShapeInv, [BrokerNext]_brokerVars, NEW t \in Targets,
           page'[t] # page[t], page'[t] \in {"closed", "lost"}
    PROVE  page[t] = "open" /\ LifecycleFree /\ ClosedFor(t)
<1> DEFINE Goal == page[t] = "open" /\ LifecycleFree /\ ClosedFor(t)
<1>a. /\ page \in [Targets -> {"unborn", "open", "closed", "lost", "left"}]
      /\ \A r \in Requests : RequestShape(r)
      /\ sweep_closes \in SUBSET SweepClose
  BY DEF ShapeInv, BrokerTypeOK, TypeOK
<1>b. ASSUME page' = page PROVE Goal
  BY <1>b
<1>c. ASSUME NEW u \in Targets, NEW as \in {"closed", "lost"}, page' \in {page, Shut(u, as)}
      PROVE  u = t /\ page[t] = "open"
  BY <1>a, <1>c DEF Shut
<1> SUFFICES Goal
  OBVIOUS
<1> HIDE DEF Goal
<1> USE DEF OnlyRequests, NoBrowserWork, OnlySweep, chromeVars
<1>1. ASSUME NEW r \in Requests, Register(r) \/ FinalTouch(r) \/ DropGuard(r) \/
             EnsureSession(r) \/ CreatePageFails(r) \/ LeaseCreatedRefused(r) \/
             LookUpClaim(r) \/ ClaimFails(r) \/ ValidateRelease(r) \/ Release(r) \/
             ReleaseRefused(r) \/ ValidateClose(r) \/ Reserve(r) \/ ReserveRefused(r) \/
             CommitClose(r) \/ ReadInventory(r) \/ ReconcileMissingTargets(r) \/
             CheckActiveOwned(r)
      PROVE  Goal
  BY <1>1, <1>b
  DEF Register, FinalTouch, DropGuard, EnsureSession, CreatePageFails, LeaseCreatedRefused,
      LookUpClaim, ClaimFails, ValidateRelease, Release, ReleaseRefused, ValidateClose,
      Reserve, ReserveRefused, CommitClose, ReadInventory, ReconcileMissingTargets,
      CheckActiveOwned
<1>2. CASE SweepReadClock \/ SweepReadInFlight \/ SweepExpire \/ SweepReport \/ TimePasses
  BY <1>2, <1>b
  DEF SweepReadClock, SweepReadInFlight, SweepExpire, SweepReport, TimePasses
<1>3. ASSUME NEW r \in Requests, NEW m \in profile.methods \ {"start_session", "start_with_url"},
             NEW s \in Sessions, NEW b \in Maybe(Tabs), NEW u \in Maybe(Targets),
             (m \in TabMethods) = (b # None), (m \in TargetMethods) = (u # None),
             Dispatch(r, m, s, b, u)
      PROVE  Goal
  BY <1>3, <1>b DEF Dispatch
<1>4. ASSUME NEW r \in Requests, NEW m \in profile.methods \cap {"start_session", "start_with_url"},
             NEW s \in Sessions, DispatchStartSession(r, s, m)
      PROVE  Goal
  BY <1>4, <1>b DEF DispatchStartSession
<1>5. ASSUME NEW r \in Requests, ClosePage(r)
      PROVE  Goal
  <2>1. /\ req[r].target \in Targets /\ At(r, "closing") /\ MayClose(req[r].target)
        /\ \E as \in {"closed", "lost"} : page' \in {page, Shut(req[r].target, as)}
    BY <1>5, <1>a DEF ClosePage, RequestShape
  <2>2. PICK u \in Targets : u = req[r].target
    BY <2>1
  <2>3. \E as \in {"closed", "lost"} : page' \in {page, Shut(u, as)}
    BY <2>1, <2>2
  <2>4. u = t /\ page[t] = "open"
    BY <1>c, <2>3
  <2> QED BY <2>1, <2>2, <2>4 DEF Goal, ClosedFor, MayClose
<1>6. ASSUME NEW r \in Requests, ClosePageFails(r)
      PROVE  Goal
  <2>1. /\ req[r].target \in Targets /\ At(r, "closing") /\ MayClose(req[r].target)
        /\ \E as \in {"closed", "lost"} : page' \in {page, Shut(req[r].target, as)}
    BY <1>6, <1>a DEF ClosePageFails, RequestShape
  <2>2. PICK u \in Targets : u = req[r].target
    BY <2>1
  <2>3. \E as \in {"closed", "lost"} : page' \in {page, Shut(u, as)}
    BY <2>1, <2>2
  <2>4. u = t /\ page[t] = "open"
    BY <1>c, <2>3
  <2> QED BY <2>1, <2>2, <2>4 DEF Goal, ClosedFor, MayClose
<1>7. ASSUME NEW r \in Requests, NEW u \in Targets, CreatePage(r, u)
      PROVE  Goal
  BY <1>7, <1>a DEF CreatePage
<1>8. ASSUME NEW r \in Requests, NEW b \in Tabs, LeaseCreated(r, b)
      PROVE  Goal
  BY <1>8, <1>b DEF LeaseCreated
<1>9. ASSUME NEW r \in Requests, NEW b \in Tabs, Claim(r, b)
      PROVE  Goal
  BY <1>9, <1>b DEF Claim
<1>10. ASSUME NEW c \in sweep_closes, SweepClosePage(c)
      PROVE  Goal
  <2>1. /\ c.target \in Targets /\ MayClose(c.target)
        /\ \E as \in {"closed", "lost"} : page' \in {page, Shut(c.target, as)}
    BY <1>10, <1>a DEF SweepClosePage, SweepClose
  <2>2. PICK u \in Targets : u = c.target
    BY <2>1
  <2>3. \E as \in {"closed", "lost"} : page' \in {page, Shut(u, as)}
    BY <2>1, <2>2
  <2>4. u = t /\ page[t] = "open"
    BY <1>c, <2>3
  <2> QED BY <1>10, <2>1, <2>2, <2>4 DEF Goal, ClosedFor, MayClose
<1>11. ASSUME NEW u \in Targets, HumanOpens(u)
      PROVE  Goal
  BY <1>11, <1>a DEF HumanOpens
<1>12. ASSUME NEW u \in Targets, HumanCloses(u)
      PROVE  Goal
  BY <1>12, <1>a DEF HumanCloses
<1>13. CASE UNCHANGED brokerVars
  BY <1>13, <1>b DEF brokerVars
<1> QED
  BY <1>1, <1>2, <1>3, <1>4, <1>5, <1>6, <1>7, <1>8, <1>9, <1>10, <1>11, <1>12, <1>13
  DEF BrokerNext, ClientSends, RequestStep, SweepStep, HumanStep

\* Whoever the broker closes a page for, nobody else drives it.
LEMMA ClosesStep ==
    ASSUME ShapeInv, RegistryInv, CloseInv, [BrokerNext]_brokerVars, NEW t \in Targets,
           page[t] = "open", page'[t] \in {"closed", "lost"}
    PROVE  \/ Driver(t) = None
           \/ \E r \in Requests : At(r, "closing") /\ req[r].target = t
                                  /\ req[r].session = Driver(t)
<1>1. CASE \E c \in sweep_closes : c.target = t
  BY <1>1 DEF RegistryInv, TargetInv, SweepHoldsReservation, Driver
<1>2. ASSUME NEW r \in Requests, At(r, "closing"), req[r].target = t
      PROVE  Driver(t) = None \/ req[r].session = Driver(t)
  <2>1. Ours(r) /\ Barred(t, req[r].tab)
    BY <1>2 DEF CloseInv, Closer
  <2> QED BY <2>1 DEF Ours, Barred, Driver
<1>3. ClosedFor(t)
  BY OnlyClosersClose
<1> QED BY <1>1, <1>2, <1>3 DEF ClosedFor

\* A claim that goes on holds the lock, and its page stays; a page the broker
\* closed without a close_tab is one the sweep withdrew.
LEMMA ClaimNext ==
    ASSUME ShapeInv, RegistryInv, ClaimInv, [BrokerNext]_brokerVars
    PROVE  ClaimInv'
<1>a. /\ req \in [Requests -> RequestState]
      /\ \A r \in Requests : RequestShape(r)
      /\ page \in [Targets -> {"unborn", "open", "closed", "lost", "left"}]
      /\ page_lifecycle \in Maybe(Requests)
      /\ sweep_closes \in SUBSET SweepClose
      /\ sweep.pc = "report" => sweep.close \in sweep_closes
  BY DEF ShapeInv, BrokerTypeOK, TypeOK, SweepShape
<1>b. profile' = profile
  BY ProfileStays
<1>1. ASSUME NEW r \in Requests, Managed, At(r, "claim")'
      PROVE  page_lifecycle' = r /\ page'[req'[r].target] # "closed"
  <2>1. CASE req'[r] = req[r]
    <3>1. At(r, "claim") /\ req[r].target \in Targets
      BY <1>1, <1>a, <2>1 DEF At, RequestShape
    <3>2. /\ page_lifecycle = r /\ page[req[r].target] # "closed" /\ r # None
          /\ \A q \in Requests : At(q, "claim") => q = r
      BY <1>1, <3>1, RequestsAssumption DEF ClaimInv
    <3>3. ~LifecycleFree
      BY <1>1, <3>2 DEF LifecycleFree
    <3>4. page_lifecycle' = page_lifecycle
      <4>1. ASSUME NEW q \in Requests, At(q, "claim"), End(q) PROVE FALSE
        <5>1. q = r
          BY <3>2, <4>1
        <5>2. req[q].session \in Sessions /\ req[q].guarded \in BOOLEAN
          BY <1>a, <4>1 DEF RequestShape, At, RequestState
        <5>3. Ended(q)
          BY <1>a, <4>1, <5>2, EndRewrites
        <5> QED BY <2>1, <3>1, <5>1, <5>2, <5>3 DEF Ended, At
      <4>2. ASSUME NEW q \in Requests PROVE ~LookUpClaim(q)
        BY <3>3 DEF LookUpClaim
      <4>3. ASSUME NEW q \in Requests PROVE ~ClaimFails(q)
        BY <4>1 DEF ClaimFails
      <4>4. ASSUME NEW q \in Requests, NEW b \in Tabs PROVE ~Claim(q, b)
        BY <4>1 DEF Claim
      <4> QED BY <4>2, <4>3, <4>4, BrokerTouches DEF StepTouches
    <3>5. page'[req[r].target] # "closed"
      BY <3>1, <3>2, <3>3, OnlyClosersClose
    <3> QED BY <2>1, <3>2, <3>4, <3>5
  <2>2. CASE LookUpClaim(r) /\ req'[r].target = req[r].target /\ req'[r].pc = "claim"
    <3>1. ~End(r)
      <4> SUFFICES ASSUME End(r) PROVE FALSE
        OBVIOUS
      <4>1. req[r].session \in Sessions /\ req[r].guarded \in BOOLEAN
        BY <1>a, <2>2 DEF RequestShape, At, RequestState, LookUpClaim, Handles
      <4>2. Ended(r)
        BY <1>a, <4>1, EndRewrites
      <4> QED BY <2>2, <4>1, <4>2 DEF Ended
    <3> QED BY <1>1, <2>2, <3>1 DEF LookUpClaim, chromeVars
  <2> QED BY <1>1, <2>1, <2>2, StepEnters DEF Enters, At, Holding
<1>2. ASSUME NEW t \in Targets, ~Closes, page'[t] = "closed"
      PROVE  \/ t \in expired_closed_targets'
             \/ sweep'.pc = "report" /\ sweep'.close.target = t /\ sweep'.closed
  <2>a. \A r \in Requests : ~At(r, "closing")
    BY <1>2, <1>a DEF RequestShape, Closes
  <2>1. CASE page[t] # "closed"
    <3>1. page[t] = "open" /\ ClosedFor(t)
      BY <1>2, <2>1, OnlyClosersClose
    <3>2. PICK c \in sweep_closes : SweepClosePage(c) /\ c.target = t
      BY <2>a, <3>1 DEF ClosedFor
    <3>3. sweep' = [sweep EXCEPT !.pc = "report", !.close = c, !.closed = TRUE]
      BY <1>2, <1>a, <3>1, <3>2 DEF SweepClosePage, Shut
    <3>4. sweep \in SweepState
      BY DEF ShapeInv, BrokerTypeOK
    <3>5. sweep'.pc = "report" /\ sweep'.close = c /\ sweep'.closed
      BY <3>3, <3>4 DEF SweepState
    <3> QED BY <3>2, <3>5
  <2>2. CASE t \in expired_closed_targets
    <3>1. CASE Quiet
      BY <2>2, <3>1 DEF Quiet
    <3>2. CASE SweepExpire
      BY <2>2, <3>2 DEF SweepExpire, ExpireSessions, ExpireBatch, registryVars, vars, targetVars
    <3>3. CASE SweepReport
      BY <2>2, <3>3 DEF SweepReport, FinishExpiredTargetClose
    <3> QED BY <3>1, <3>2, <3>3, OnlyTheSweep
  <2>3. CASE sweep.pc = "report" /\ sweep.close.target = t /\ sweep.closed
    <3>1. sweep' = sweep \/ SweepReport
      BY <2>3, BrokerTouches DEF StepTouches, SweepReadClock, SweepReadInFlight, SweepExpire,
         SweepClosePage
    <3>2. CASE SweepReport
      <4>1. sweep.close \in sweep_closes
        BY <1>a, <2>3
      <4>2. pending_target_closes[sweep.close.target] = sweep.close.tab
        BY <4>1 DEF RegistryInv, TargetInv, SweepHoldsReservation
      <4> QED BY <2>3, <3>2, <4>2 DEF SweepReport, FinishExpiredTargetClose
    <3> QED BY <2>3, <3>1, <3>2
  <2> QED BY <1>2, <2>1, <2>2, <2>3 DEF ClaimInv
<1> QED BY <1>b, <1>1, <1>2 DEF ClaimInv, Managed, Closes

\* A claim that succeeds is of a page the broker has not closed.
LEMMA ClaimsStep ==
    ASSUME ShapeInv, RegistryInv, ClaimInv, [BrokerNext]_brokerVars, Managed \/ ~Closes,
           NEW r \in Requests, At(r, "claim"), leases' # leases, req'[r].pc # "claim"
    PROVE  page[req[r].target] # "closed"
<1>a. RequestShape(r) /\ req \in [Requests -> RequestState]
  BY DEF ShapeInv, BrokerTypeOK
<1>b. req[r].target \in Targets
  BY <1>a DEF RequestShape
<1>1. CASE Managed
  BY <1>1 DEF ClaimInv
<1>2. CASE ~Managed /\ ~Closes
  <2>1. PICK b \in Tabs : Claim(r, b)
    BY LeavesClaim
  <2>2. ~Withdrawn(req[r].target)
    BY <2>1 DEF Claim, ClaimTab
  <2>3. sweep.pc = "report" => Closing(sweep.close.target)
    <3>1. ASSUME NEW c \in sweep_closes PROVE Closing(c.target)
      <4>1. c.tab \in Tabs
        BY DEF ShapeInv, BrokerTypeOK, TypeOK, SweepClose
      <4> QED BY <4>1, NoneAssumption
          DEF RegistryInv, TargetInv, SweepHoldsReservation, Closing
    <3> QED BY <3>1 DEF ShapeInv, SweepShape
  <2> QED BY <1>b, <1>2, <2>2, <2>3 DEF ClaimInv, Withdrawn
<1> QED BY <1>1, <1>2

(***************************************************************************)
(* Pages given up.                                                         *)
(***************************************************************************)
\* Where a lease's target comes from, and where its being missing does.
MayLease(t) == \E r \in Requests : /\ At(r, "lease") \/ At(r, "claim")
                                   /\ req[r].target = t
                                   /\ req'[r].pc \notin {"lease", "claim"}
LeaseMoves(b) ==
    /\ \/ leases'[b].target \in {leases[b].target, None}
       \/ MayLease(leases'[b].target)
    /\ leases'[b].state = "missing" =>
          /\ leases'[b].target = leases[b].target
          /\ \/ leases[b].state = "missing"
             \/ leases[b].state = "active" /\ UNCHANGED sweep_closes
                /\ \A t \in Targets : cleanup_owned_targets'[t] # None =>
                      cleanup_owned_targets'[t] = cleanup_owned_targets[t]

\* A lease's target stays, goes with a takeover, or is that of the request that leases
\* it; an active lease that goes missing takes its duty along.
LEMMA StepLeases ==
    ASSUME ShapeInv, RegistryInv, [BrokerNext]_brokerVars, NEW b \in Tabs
    PROVE  LeaseMoves(b)
<1> DEFINE Goal == LeaseMoves(b)
<1>a. /\ leases \in [Tabs -> TabLease] /\ leases[b] \in TabLease
      /\ \A r \in Requests : RequestShape(r)
      /\ req \in [Requests -> RequestState] /\ ActiveIndexExact
  BY DEF ShapeInv, BrokerTypeOK, TypeOK, RegistryInv, TargetInv
<1>b. ASSUME leases' = leases PROVE Goal
  BY <1>b DEF LeaseMoves
<1>c. ASSUME leases'[b].target = leases[b].target,
             leases'[b].state = "missing" => leases[b].state = "missing"
      PROVE  Goal
  BY <1>c DEF LeaseMoves
<1>d. ASSUME NEW B, B \subseteq {c \in Tabs : leases[c].state = "active"}, MarkMissing(B) PROVE Goal
  <2>1. /\ leases' = [c \in Tabs |-> IF c \in B THEN [leases[c] EXCEPT !.state = "missing"]
                                                 ELSE leases[c]]
        /\ cleanup_owned_targets' = WithoutCleanup(B) /\ UNCHANGED sweep_closes
    BY <1>d DEF MarkMissing, expiryVars
  <2>2. \A t \in Targets : cleanup_owned_targets'[t] # None =>
            cleanup_owned_targets'[t] = cleanup_owned_targets[t]
    BY <2>1 DEF WithoutCleanup
  <2>3. leases'[b].target = leases[b].target
    BY <1>a, <2>1 DEF TabLease
  <2>4. leases'[b].state = "missing" => leases[b].state \in {"missing", "active"}
    BY <1>d, <2>1
  <2> QED BY <2>1, <2>2, <2>3, <2>4 DEF LeaseMoves
<1> SUFFICES Goal
  OBVIOUS
<1> USE DEF OnlyRequests, NoBrowserWork, OnlySweep, registryVars, vars, targetVars
<1>1. ASSUME NEW r \in Requests, Register(r) \/ DropGuard(r) \/ EnsureSession(r) \/
             CreatePageFails(r) \/ LeaseCreatedRefused(r) \/ LookUpClaim(r) \/ ClaimFails(r) \/
             ValidateRelease(r) \/ ReleaseRefused(r) \/ ValidateClose(r) \/
             ReserveRefused(r) \/ ClosePage(r) \/ ReadInventory(r)
      PROVE  Goal
  BY <1>1, <1>b
  DEF Register, DropGuard, EnsureSession, CreatePageFails, LeaseCreatedRefused, LookUpClaim,
      ClaimFails, ValidateRelease, ReleaseRefused, ValidateClose, ReserveRefused, ClosePage,
      ReadInventory
<1>2. CASE SweepReadClock \/ SweepReadInFlight
  BY <1>2, <1>b
  DEF SweepReadClock, SweepReadInFlight
<1>3. ASSUME NEW r \in Requests, FinalTouch(r) \/ Reserve(r) \/ ClosePageFails(r)
      PROVE  Goal
  BY <1>3, <1>b
  DEF FinalTouch, Reserve, ClosePageFails, Touch, ReserveOwnedTabClose, EndReservation,
      FinishOwnedTabCloseReservation
<1>4. ASSUME NEW r \in Requests, NEW m \in profile.methods \ {"start_session", "start_with_url"},
             NEW s \in Sessions, NEW a \in Maybe(Tabs), NEW t \in Maybe(Targets),
             (m \in TabMethods) = (a # None), (m \in TargetMethods) = (t # None),
             Dispatch(r, m, s, a, t)
      PROVE  Goal
  BY <1>4, <1>b DEF Dispatch, Touch
<1>5. ASSUME NEW r \in Requests, NEW m \in profile.methods \cap {"start_session", "start_with_url"},
             NEW s \in Sessions, DispatchStartSession(r, s, m)
      PROVE  Goal
  BY <1>5, <1>b DEF DispatchStartSession, StartSession
<1>6. ASSUME NEW r \in Requests, Release(r)
      PROVE  Goal
  <2>1. leases' = [leases EXCEPT ![req[r].tab].state = "released"]
    BY <1>6 DEF Release, ReleaseTab
  <2> QED BY <1>a, <1>c, <2>1 DEF TabLease
<1>7. ASSUME NEW r \in Requests, CommitClose(r)
      PROVE  Goal
  <2>1. \/ leases' = leases
        \/ leases' = [leases EXCEPT ![req[r].tab].state = "closed"]
    BY <1>7 DEF CommitClose, CommitOwnedTabClose, EndReservation, FinishOwnedTabCloseReservation
  <2> QED BY <1>a, <1>b, <1>c, <2>1 DEF TabLease
<1>8. ASSUME NEW r \in Requests, ReconcileMissingTargets(r)
      PROVE  Goal
  <2>1. CASE MarkMissingTargetsNotIn(req[r].seen)
    <3>1. Vanished(req[r].seen) \subseteq {c \in Tabs : leases[c].state = "active"}
      BY <1>a DEF Vanished, ActiveIndexExact, RegistryInv, TypeOK, Maybe
    <3> QED BY <1>d, <2>1, <3>1 DEF MarkMissingTargetsNotIn
  <2> QED BY <1>8, <1>b, <2>1 DEF ReconcileMissingTargets
<1>9. ASSUME NEW r \in Requests, CheckActiveOwned(r)
      PROVE  Goal
  <2>1. CASE RequireActiveOwnedMissing(req[r].session, req[r].tab)
    <3>1. {req[r].tab} \subseteq {c \in Tabs : leases[c].state = "active"}
      BY <1>9, <1>a, <2>1
        DEF RequireActiveOwnedMissing, CheckActiveOwned, RequestShape, At, TabMethods
    <3> QED BY <1>d, <2>1, <3>1 DEF RequireActiveOwnedMissing
  <2> QED BY <1>9, <1>b, <2>1 DEF CheckActiveOwned
<1>10. ASSUME NEW r \in Requests, NEW t \in Targets, CreatePage(r, t)
      PROVE  Goal
  BY <1>10, <1>b DEF CreatePage
<1>11. ASSUME NEW r \in Requests, NEW a \in Tabs, LeaseCreated(r, a)
      PROVE  Goal
  <2> DEFINE t == req[r].target
             l == ActiveLease(req[r].session, t)
  <2>1. l.target = t /\ l.state = "active"
    BY DEF ActiveLease
  <2>2. \/ leases'[b] \in {leases[b], l, Removed}
    BY <1>11, <1>a DEF LeaseCreated, LeaseTab
  <2>3. Removed.target = None /\ Removed.state # "missing"
    BY DEF Removed
  <2>4. MayLease(t)
    <3>1. req[r].session \in Sessions /\ req[r].guarded \in BOOLEAN
      BY <1>11, <1>a DEF LeaseCreated, At, RequestShape, RequestState
    <3>2. Ended(r)
      BY <1>11, <1>a, <3>1, EndRewrites DEF LeaseCreated
    <3> QED BY <1>11, <3>1, <3>2 DEF LeaseCreated, MayLease, Ended
  <2> HIDE DEF l
  <2> QED BY <2>1, <2>2, <2>3, <2>4 DEF Goal, LeaseMoves
<1>12. ASSUME NEW r \in Requests, NEW a \in Tabs, Claim(r, a)
      PROVE  Goal
  <2> DEFINE t == req[r].target
             l == ActiveLease(req[r].session, t)
  <2>1. l.target = t /\ l.state = "active"
    BY DEF ActiveLease
  <2>2. \/ leases'[b] \in {leases[b], l, Removed}
    BY <1>12, <1>a DEF Claim, ClaimTab
  <2>3. Removed.target = None /\ Removed.state # "missing"
    BY DEF Removed
  <2>4. MayLease(t)
    <3>1. req[r].session \in Sessions /\ req[r].guarded \in BOOLEAN
      BY <1>12, <1>a DEF Claim, At, RequestShape, RequestState
    <3>2. Ended(r)
      BY <1>12, <1>a, <3>1, EndRewrites DEF Claim
    <3> QED BY <1>12, <3>1, <3>2 DEF Claim, MayLease, Ended
  <2> HIDE DEF l
  <2> QED BY <2>1, <2>2, <2>3, <2>4 DEF Goal, LeaseMoves
<1>13. CASE SweepExpire
  <2>1. CASE UNCHANGED registryVars
    BY <1>b, <2>1
  <2>2. CASE ExpireSessions(sweep.now, sweep.skip)
    <3>0. PICK E \in SUBSET Sessions : \E batch : ExpireBatch(E, batch)
      BY <2>2 DEF ExpireSessions, ExpiredIds
    <3>1. PICK batch : ExpireBatch(E, batch)
      BY <3>0
    <3>2. /\ leases'[b].target = leases[b].target
          /\ leases'[b].state \in {"closed", "released", leases[b].state}
      BY <3>1, ExpireEffects
    <3> QED BY <1>c, <3>2
  <2> QED BY <1>13, <2>1, <2>2 DEF SweepExpire
<1>14. CASE SweepReport
  <2>1. \/ leases' = leases
        \/ leases' = [leases EXCEPT ![sweep.close.tab].state = "released"]
    BY <1>14 DEF SweepReport, FinishExpiredTargetClose
  <2> QED BY <1>a, <1>b, <1>c, <2>1 DEF TabLease
<1>15. ASSUME NEW c \in sweep_closes, SweepClosePage(c)
      PROVE  Goal
  BY <1>15, <1>b DEF SweepClosePage
<1>16. ASSUME NEW t \in Targets, HumanOpens(t)
      PROVE  Goal
  BY <1>16, <1>b DEF HumanOpens
<1>17. ASSUME NEW t \in Targets, HumanCloses(t)
      PROVE  Goal
  BY <1>17, <1>b DEF HumanCloses
<1>18. CASE TimePasses
  BY <1>18, <1>b DEF TimePasses, Tick
<1>19. CASE UNCHANGED brokerVars
  BY <1>19, <1>b DEF brokerVars
<1> HIDE DEF Goal
<1> QED
  BY <1>1, <1>2, <1>3, <1>4, <1>5, <1>6, <1>7, <1>8, <1>9, <1>10, <1>11, <1>12, <1>13,
     <1>14, <1>15, <1>16, <1>17, <1>18, <1>19
  DEF BrokerNext, ClientSends, RequestStep, SweepStep, HumanStep

\* Leases and claims are of pages that were opened.
LEMMA LeasedNext ==
    ASSUME ShapeInv, RegistryInv, OriginInv, LeasedInv, [BrokerNext]_brokerVars, TypeOK'
    PROVE  LeasedInv'
<1>a. /\ \A r \in Requests : RequestShape(r)
      /\ leases \in [Tabs -> TabLease] /\ leases' \in [Tabs -> TabLease]
  BY DEF ShapeInv, BrokerTypeOK, TypeOK
<1>b. \A t \in Targets : page[t] # "unborn" => page'[t] # "unborn"
  BY BirthNext
<1>1. ASSUME NEW r \in Requests, At(r, "claim")' PROVE page'[req'[r].target] # "unborn"
  <2>1. CASE req'[r] = req[r]
    <3>1. At(r, "claim") /\ req[r].target \in Targets
      BY <1>1, <1>a, <2>1 DEF At, RequestShape
    <3> QED BY <1>b, <2>1, <3>1 DEF LeasedInv
  <2>2. CASE LookUpClaim(r) /\ req'[r].target = req[r].target /\ req'[r].pc = "claim"
    <3>1. ~End(r)
      <4> SUFFICES ASSUME End(r) PROVE FALSE
        OBVIOUS
      <4>1. /\ req[r].session \in Sessions /\ req[r].guarded \in BOOLEAN
            /\ req \in [Requests -> RequestState]
        BY <1>a, <2>2 DEF RequestShape, At, RequestState, LookUpClaim, Handles, ShapeInv,
           BrokerTypeOK
      <4>2. Ended(r)
        BY <4>1, EndRewrites
      <4> QED BY <2>2, <4>1, <4>2 DEF Ended
    <3> QED BY <2>2, <3>1 DEF LookUpClaim, chromeVars
  <2> QED BY <1>1, <2>1, <2>2, StepEnters DEF Enters, At, Holding
<1>2. ASSUME NEW b \in Tabs, leases'[b].target # None PROVE page'[leases'[b].target] # "unborn"
  <2>1. PICK t \in Targets : t = leases'[b].target
    BY <1>2, <1>a DEF TabLease, Maybe
  <2>2. LeaseMoves(b)
    BY StepLeases
  <2>3. CASE leases[b].target = t
    BY <1>2, <1>b, <2>1, <2>3 DEF LeasedInv
  <2>4. CASE MayLease(t)
    <3>1. ASSUME NEW r \in Requests, At(r, "lease"), req[r].target = t PROVE page[t] # "unborn"
      BY <3>1 DEF OriginInv
    <3>2. ASSUME NEW r \in Requests, At(r, "claim"), req[r].target = t PROVE page[t] # "unborn"
      BY <3>2 DEF LeasedInv
    <3> QED BY <1>b, <2>1, <2>4, <3>1, <3>2 DEF MayLease
  <2> QED BY <1>2, <2>1, <2>2, <2>3, <2>4 DEF LeaseMoves
<1> QED BY <1>1, <1>2 DEF LeasedInv

\* Nobody comes to owe a page its cleanup once nobody does and its creator is
\* done with it.
LEMMA SpareStays ==
    ASSUME ShapeInv, RegistryInv, OriginInv, [BrokerNext]_brokerVars, NEW t \in Targets,
           \/ Spare(t)
           \/ /\ page[t] # "unborn" /\ cleanup_owned_targets'[t] = None
              /\ \A c \in sweep_closes' : c.target # t
              /\ \A r \in Requests : At(r, "lease") => req[r].target # t
    PROVE  Spare(t)'
<1>1. page'[t] # "unborn"
  BY BirthNext DEF Spare
<1>2. ASSUME NEW r \in Requests, At(r, "lease")' PROVE req'[r].target # t
  <2>1. CASE \E u \in Targets : CreatePage(r, u) /\ req'[r].target = u
    BY <2>1 DEF CreatePage, Spare
  <2>2. CASE req'[r] = req[r]
    BY <1>2, <2>2 DEF At, Spare
  <2> QED BY <1>2, <2>1, <2>2, StepEnters DEF Enters, At, Holding
<1>3. ASSUME Spare(t) PROVE cleanup_owned_targets'[t] = None
  BY <1>3, DutyNext DEF Spare, GivesDuty
<1>4. ASSUME Spare(t), NEW c \in sweep_closes' PROVE c.target # t
  BY <1>4, ClosesNext DEF Spare
<1> QED BY <1>1, <1>2, <1>3, <1>4 DEF Spare

\* A page given up stays spare: an active lease takes the duty with it, and its
\* page was its creator's first.
LEMMA SpareNext ==
    ASSUME ShapeInv, RegistryInv, OriginInv, LeasedInv, SpareInv, CreatorsLeaseFirst,
           [BrokerNext]_brokerVars, RegistryInv'
    PROVE  SpareInv'
<1>a. /\ \A r \in Requests : RequestShape(r)
      /\ leases \in [Tabs -> TabLease]
      /\ ActiveIndexExact /\ SweepHoldsReservation /\ CleanupFollowsOwner
      /\ preserved \subseteq Targets
  BY DEF ShapeInv, BrokerTypeOK, TypeOK, RegistryInv, TargetInv
<1>b. ASSUME NEW b \in Tabs, NEW t \in Targets, leases[b].target = t
      PROVE  /\ page[t] # "unborn"
             /\ \A r \in Requests : At(r, "lease") => req[r].target # t
  <2>1. t # None
    BY NoneAssumption
  <2> QED BY <1>b, <2>1 DEF LeasedInv, CreatorsLeaseFirst
<1>c. ASSUME NEW b \in Tabs, NEW t \in Targets, leases[b].target = t, leases[b].state = "active"
      PROVE  /\ active_target_owners[t] = b /\ b # None
             /\ \A c \in sweep_closes : c.target # t
             /\ cleanup_owned_targets[t] # None => cleanup_owned_targets[t].tab = b
  <2>1. active_target_owners[t] = b /\ b # None
    BY <1>a, <1>c, NoneAssumption DEF ActiveIndexExact
  <2>2. \A c \in sweep_closes : c.target # t
    BY <1>a, <2>1 DEF SweepHoldsReservation
  <2>3. cleanup_owned_targets[t] # None => cleanup_owned_targets[t].tab = b
    BY <1>a, <2>1 DEF CleanupFollowsOwner
  <2> QED BY <2>1, <2>2, <2>3
<1>1. ASSUME NEW t \in Targets, GivenUp(t)
      PROVE  Spare(t)'
  BY <1>1, SpareStays DEF SpareInv
<1>2. ASSUME NEW t \in Targets, NEW b \in Tabs, leases'[b].state = "missing",
             leases'[b].target = t, ~GivenUp(t)
      PROVE  Spare(t)'
  <2>1. /\ leases[b].target = t /\ leases[b].state = "active" /\ UNCHANGED sweep_closes
        /\ cleanup_owned_targets'[t] # None => cleanup_owned_targets'[t] = cleanup_owned_targets[t]
    BY <1>2, StepLeases DEF LeaseMoves, GivenUp
  <2>2. cleanup_owned_targets'[t] = None
    <3> SUFFICES ASSUME cleanup_owned_targets'[t] # None PROVE FALSE
      OBVIOUS
    <3>1. cleanup_owned_targets'[t].tab = b
      BY <1>c, <2>1
    <3>2. leases'[b].state \in {"active", "released"}
      BY <3>1 DEF RegistryInv, TargetInv, CleanupFollowsOwner
    <3> QED BY <1>2, <3>2
  <2> QED BY <1>b, <1>c, <2>1, <2>2, SpareStays
<1>3. ASSUME NEW t \in Targets, t \in preserved', t \notin preserved, ~GivenUp(t)
      PROVE  Spare(t)'
  <2>1. PICK r \in Requests : Release(r)
    BY <1>3, BrokerTouches DEF StepTouches
  <2>2. req[r].method = "preserve_tab" /\ leases[req[r].tab].target = t
    BY <1>3, <2>1 DEF Release
  <2>3. PICK b \in Tabs : b = req[r].tab
    BY <1>a, <2>2 DEF RequestShape, TabMethods
  <2>4. /\ leases[b].target = t /\ Releasable(b) /\ UNCHANGED sweep_closes
        /\ cleanup_owned_targets' = WithoutCleanup({b})
    BY <2>1, <2>2, <2>3 DEF Release, ReleaseTab, expiryVars
  <2>5. leases[b].state = "active"
    BY <1>3, <2>4 DEF Releasable, GivenUp
  <2>6. cleanup_owned_targets'[t] = None
    BY <1>c, <2>4, <2>5 DEF WithoutCleanup, OwnsCleanup
  <2> QED BY <1>b, <1>c, <2>4, <2>5, <2>6, SpareStays
<1> QED BY <1>1, <1>2, <1>3 DEF SpareInv, GivenUp

\* Without claims nobody but the creator can lease a page before its creator.
Unclaimed ==
    /\ CreatorsLeaseFirst
    /\ \A r, q \in Requests : At(r, "lease") /\ At(q, "lease") /\ r # q =>
          req[r].target # req[q].target

\* Without claims, creators stay the first to lease their pages.
LEMMA UnclaimedNext ==
    ASSUME ShapeInv, RegistryInv, OriginInv, LeasedInv, Unclaimed, [BrokerNext]_brokerVars,
           profile.methods \cap TargetMethods = {}
    PROVE  Unclaimed'
<1>a. /\ req \in [Requests -> RequestState]
      /\ \A r \in Requests : RequestShape(r)
  BY DEF ShapeInv, BrokerTypeOK
<1>b. \A r \in Requests : ~At(r, "claim")
  BY <1>a DEF RequestShape, TargetMethods
<1>c. \A r \in Requests : At(r, "lease") =>
         req[r].target \in Targets /\ page[req[r].target] # "unborn"
  BY <1>a DEF RequestShape, OriginInv
<1>d. ASSUME NEW r \in Requests, At(r, "lease")'
      PROVE  \/ req'[r] = req[r] /\ At(r, "lease")
             \/ /\ page[req'[r].target] = "unborn" /\ UNCHANGED leases
                /\ req'[r].target \in Targets
                /\ \A q \in Requests \ {r} : req'[q] = req[q]
  <2>1. ASSUME NEW t \in Targets, CreatePage(r, t), req'[r].target = t
        PROVE  /\ page[req'[r].target] = "unborn" /\ UNCHANGED leases
               /\ \A q \in Requests \ {r} : req'[q] = req[q]
    <3>1. page[req'[r].target] = "unborn" /\ UNCHANGED leases
      BY <2>1 DEF CreatePage, registryVars, vars, targetVars
    <3>2. \A q \in Requests \ {r} : req'[q] = req[q]
      BY <1>a, <2>1 DEF CreatePage, End
    <3> QED BY <3>1, <3>2
  <2> QED BY <1>d, <2>1, StepEnters DEF Enters, At, Holding
<1>1. ASSUME NEW r \in Requests, NEW q \in Requests, At(r, "lease")', At(q, "lease")', r # q
      PROVE  req'[r].target # req'[q].target
  BY <1>1, <1>c, <1>d DEF Unclaimed, At
<1>2. ASSUME NEW r \in Requests, NEW b \in Tabs, At(r, "lease")'
      PROVE  leases'[b].target # req'[r].target
  <2>1. CASE req'[r] = req[r] /\ At(r, "lease")
    <3>1. SUFFICES ASSUME leases'[b].target = req[r].target PROVE FALSE
      BY <2>1
    <3>2. leases[b].target # req[r].target /\ req[r].target # None
      BY <1>c, <2>1, NoneAssumption DEF Unclaimed, CreatorsLeaseFirst
    <3>3. PICK q \in Requests : /\ At(q, "lease") \/ At(q, "claim")
                                /\ req[q].target = req[r].target
                                /\ req'[q].pc \notin {"lease", "claim"}
      BY <3>1, <3>2, StepLeases DEF LeaseMoves, MayLease
    <3>4. q = r
      BY <1>b, <2>1, <3>3 DEF Unclaimed
    <3> QED BY <2>1, <3>3, <3>4 DEF At
  <2>2. CASE page[req'[r].target] = "unborn" /\ UNCHANGED leases /\ req'[r].target \in Targets
    BY <2>2, NoneAssumption DEF LeasedInv
  <2> QED BY <1>2, <1>d, <2>1, <2>2
<1> QED BY <1>1, <1>2 DEF Unclaimed, CreatorsLeaseFirst

(***************************************************************************)
(* The theorems.                                                           *)
(***************************************************************************)
\* The inductive invariant: what requests and sweep carry, the registry's own
\* invariant, the in-flight counts, the closes under way, where pages come from.
BrokerInv == ShapeInv /\ RegistryInv /\ InFlightInv /\ CloseInv /\ OriginInv /\ LeasedInv

\* The invariant holds at the start: nothing runs and nothing is leased.
LEMMA BrokerInitInv == BrokerInit => BrokerInv
<1> SUFFICES ASSUME BrokerInit PROVE BrokerInv
  OBVIOUS
<1>1. RegistryInv
  BY InitType, InitTargets DEF RegistryInv, BrokerInit
<1>2. \A r \in Requests : /\ req[r] = Idle /\ req[r].pc = "idle" /\ ~req[r].guarded
                          /\ req[r].method = "none"
  BY DEF BrokerInit, Idle
<1>3. ShapeInv
  <2>1. BrokerTypeOK
    <3>1. req \in [Requests -> RequestState]
      BY IdleType DEF BrokerInit
    <3>2. sweep \in SweepState
      BY SweepIdleType DEF BrokerInit
    <3> QED BY <1>1, <3>1, <3>2 DEF BrokerInit, BrokerTypeOK, RegistryInv, Maybe
  <2>2. SweepShape
    BY SweepIdleType DEF BrokerInit, Init, SweepShape, SweepIdle
  <2>3. ASSUME NEW r \in Requests PROVE RequestShape(r)
    BY <1>2 DEF RequestShape, At, TabMethods, TargetMethods
  <2> QED BY <2>1, <2>2, <2>3 DEF ShapeInv
<1>4. InFlightInv
  <2>1. \A s : InFlight(s) = {}
    BY <1>2 DEF InFlight, Registered
  <2>2. \A s \in Sessions : in_flight_sessions[s] = Cardinality(InFlight(s))
    BY <2>1, FS_EmptySet DEF BrokerInit
  <2>3. sweep.pc = "idle"
    BY DEF BrokerInit, SweepIdle
  <2> QED BY <1>2, <2>2, <2>3 DEF InFlightInv, At
<1>5. CloseInv
  BY <1>2 DEF CloseInv, Closer, At
<1>6. OriginInv
  BY <1>2 DEF OriginInv, BrokerInit, Init, At
<1>7. LeasedInv
  BY <1>2 DEF LeasedInv, BrokerInit, Init, NoLease, At
<1> QED BY <1>1, <1>3, <1>4, <1>5, <1>6, <1>7 DEF BrokerInv

\* Every step of a request, the sweep, the human or the clock preserves it.
LEMMA BrokerStepInv == BrokerInv /\ [BrokerNext]_brokerVars => BrokerInv'
<1> SUFFICES ASSUME BrokerInv, [BrokerNext]_brokerVars PROVE BrokerInv'
  OBVIOUS
<1> USE DEF BrokerInv
<1>1. [Next]_vars
  BY StepsTheRegistry
<1>2. RegistryInv' /\ TypeOK'
  BY <1>1, RegistryStep DEF RegistryInv
<1>3. req' \in [Requests -> RequestState] /\ \A q \in Requests : RequestShape(q)'
  BY <1>1, RequestShapeNext
<1>4. InFlightInv' /\ in_flight_sessions' \in [Sessions -> Nat]
  BY <1>3, InFlightNext, CountsNext
<1>5. ShapeInv'
  BY <1>2, <1>3, <1>4, OthersNext DEF Others, ShapeInv, BrokerTypeOK
<1>6. CloseInv'
  BY <1>1, <1>3, CloseNext
<1>7. OriginInv' /\ LeasedInv'
  BY <1>2, OriginNext, LeasedNext
<1> QED BY <1>2, <1>4, <1>5, <1>6, <1>7

\* The invariant holds in every behaviour of the broker, whatever may fail and
\* whatever the human does.
THEOREM BrokerInvariant == BrokerSpec => []BrokerInv
BY BrokerInitInv, BrokerStepInv, PTL DEF BrokerSpec

\* Requests, sweep, pages and counts have their types.
THEOREM BrokerTypeCorrect == BrokerSpec => []BrokerTypeOK
<1>1. BrokerInv => BrokerTypeOK
  BY DEF BrokerInv, ShapeInv
<1> QED BY <1>1, BrokerInvariant, PTL

\* The broker calls the registry only as its methods allow, so that everything
\* proved of the registry holds under the broker's interleavings.
THEOREM BrokerRunsTheRegistry == BrokerSpec => Spec
<1>1. BrokerInit => Init
  BY DEF BrokerInit
<1>2. BrokerInv /\ [BrokerNext]_brokerVars => [Next]_vars
  BY StepsTheRegistry DEF BrokerInv
<1> QED BY <1>1, <1>2, BrokerInvariant, PTL DEF BrokerSpec, Spec

\* The sweep never expires a session with a registered request, in whatever
\* order touch, registration and the sweep's two readings interleave
\* (in_flight_sessions, sweep_expired_sessions).
THEOREM RequestsOutliveTheSweep == BrokerSpec => InFlightNeverExpires
<1>1. BrokerInv /\ [BrokerNext]_brokerVars =>
        [\A r \in Requests : req[r].guarded /\ ~At(r, "register") /\ Live(req[r].session)
            => sessions'[req[r].session].status = "live"]_brokerVars
  BY ExpirySparesInFlight DEF BrokerInv, Registered
<1> QED BY <1>1, BrokerInvariant, PTL DEF BrokerSpec, InFlightNeverExpires

\* A page with a driver is closed only by a close_tab of that driver, although
\* the close runs without the registry's lock (close_tab, the sweep).
THEOREM ClosesAreTheOwners == BrokerSpec => ClosesOnlyOwnPages
<1>1. BrokerInv /\ [BrokerNext]_brokerVars =>
        [\A t \in Targets : page[t] = "open" /\ page'[t] \in {"closed", "lost"} =>
            \/ Driver(t) = None
            \/ \E r \in Requests : At(r, "closing") /\ req[r].target = t
                                   /\ req[r].session = Driver(t)]_brokerVars
  BY ClosesStep DEF BrokerInv
<1> QED BY <1>1, BrokerInvariant, PTL DEF BrokerSpec, ClosesOnlyOwnPages

\* The sweep closes only pages the broker opened: no claim, takeover or release
\* makes a page the human opened one of them (provenance in lease_tab).
THEOREM SweepClosesOwnPages == BrokerSpec => [](\A c \in sweep_closes : origin[c.target] = "vbl")
<1>1. BrokerInv => \A c \in sweep_closes : origin[c.target] = "vbl"
  BY DEF BrokerInv, OriginInv
<1> QED BY <1>1, BrokerInvariant, PTL

\* As long as no page is claimed between its creation and its creator's lease,
\* the sweep closes no page that was ever released with leave_visible.  That
\* window is the one in which lease_tab gives a page its provenance afresh.
THEOREM PreservedPagesAreSpared == BrokerSpec /\ []CreatorsLeaseFirst => []SweepSparesPages
<1>1. BrokerInit => SpareInv
  BY DEF BrokerInit, Init, NoLease, SpareInv, GivenUp
<1>2. BrokerInv /\ BrokerInv' /\ CreatorsLeaseFirst /\ SpareInv /\ [BrokerNext]_brokerVars
        => SpareInv'
  BY SpareNext DEF BrokerInv
<1>3. BrokerInv /\ SpareInv => SweepSparesPages
  <2>1. SUFFICES ASSUME BrokerInv, SpareInv, NEW c \in sweep_closes
                 PROVE  origin[c.target] = "vbl" /\ c.target \notin preserved
    BY DEF SweepSparesPages
  <2>2. c.target \in Targets
    BY <2>1 DEF BrokerInv, RegistryInv, TypeOK, SweepClose
  <2> QED BY <2>1, <2>2 DEF BrokerInv, OriginInv, SpareInv, GivenUp, Spare
<1> QED BY <1>1, <1>2, <1>3, BrokerInvariant, PTL DEF BrokerSpec

\* Where clients do not claim, there is no such page, and the sweep spares what
\* was preserved without further ado.
THEOREM WithoutClaimsPagesAreSpared ==
    ASSUME \A p \in Profiles : p.methods \cap TargetMethods = {}
    PROVE  BrokerSpec => []SweepSparesPages
<1>1. BrokerInit => Unclaimed
  BY DEF BrokerInit, Idle, At, Unclaimed, CreatorsLeaseFirst
<1>2. BrokerInv /\ Unclaimed /\ [BrokerNext]_brokerVars => Unclaimed'
  <2>1. BrokerInv => profile.methods \cap TargetMethods = {}
    BY DEF BrokerInv, ShapeInv, BrokerTypeOK
  <2> QED BY <2>1, UnclaimedNext DEF BrokerInv
<1>3. Unclaimed => CreatorsLeaseFirst
  BY DEF Unclaimed
<1> QED BY <1>1, <1>2, <1>3, BrokerInvariant, PreservedPagesAreSpared, PTL DEF BrokerSpec

\* In managed Chrome the lifecycle lock, and in any other the sweep's
\* withdrawal, keeps a claim from handing out a page the broker closed; only a
\* close_tab in an external Chrome is outside this (claim_tab, page_lifecycle).
THEOREM ClaimsAreOfLivePages ==
    ASSUME \A p \in Profiles : p.managed \/ "close_tab" \notin p.methods
    PROVE  BrokerSpec => ClaimsFindLivePages
<1>1. BrokerInit => ClaimInv
  BY DEF BrokerInit, Idle, At, ClaimInv
<1>2. BrokerInv /\ ClaimInv /\ [BrokerNext]_brokerVars => ClaimInv'
  BY ClaimNext DEF BrokerInv
<1>3. BrokerInv => Managed \/ ~Closes
  BY DEF BrokerInv, ShapeInv, BrokerTypeOK, Managed, Closes
<1>4. BrokerInv /\ ClaimInv /\ [BrokerNext]_brokerVars =>
        [\A r \in Requests : At(r, "claim") /\ leases' # leases /\ req'[r].pc # "claim"
            => page[req[r].target] # "closed"]_brokerVars
  BY <1>3, ClaimsStep DEF BrokerInv
<1> QED BY <1>1, <1>2, <1>4, BrokerInvariant, PTL DEF BrokerSpec, ClaimsFindLivePages
===========================================================================
