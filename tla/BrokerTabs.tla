----------------------------- MODULE BrokerTabs -----------------------------
(***************************************************************************)
(* The broker's tab requests and its expiry sweep (src/src/broker.rs),     *)
(* running concurrently over one lease registry and one Chrome.            *)
(*                                                                         *)
(* Each connection is a task that dispatches one request at a time.  The   *)
(* registry's mutex is never held across an await, so a request is a chain *)
(* of atomic registry sections and browser calls, and everything else may  *)
(* happen in between: other requests, the sweep, the human at the browser. *)
(* A step of this module is one registry section or one browser call.      *)
(*                                                                         *)
(* Chrome is external: a page is opened once, under a target id that is    *)
(* never used again, and a command the broker reports as failed may have   *)
(* taken effect.                                                           *)
(***************************************************************************)
EXTENDS LeaseRegistry

CONSTANTS
    Requests,      \* connection tasks
    Profiles       \* bound: what may happen together in one behaviour

AllMethods == {"start_session", "start_with_url", "new_tab", "claim_tab", "takeover",
               "release_tab", "preserve_tab", "close_tab", "list_tabs", "act_on_tab"}
TabMethods    == {"release_tab", "preserve_tab", "close_tab", "act_on_tab"}
TargetMethods == {"claim_tab", "takeover"}
LeasingMethods == {"start_with_url", "new_tab", "claim_tab", "takeover"}

\* methods: the requests clients send.  managed: managed Chrome, whose
\* page_lifecycle lock is taken.  sweeps: session_ttl is configured, so the
\* sweep runs.  fails: browser commands may fail.  human: the human opens and
\* closes pages.
Profile == [methods : SUBSET AllMethods, managed : BOOLEAN, sweeps : BOOLEAN, fails : BOOLEAN,
            human : BOOLEAN]

ASSUME BrokerProfilesAssumption == Profiles \subseteq Profile
ASSUME RequestsAssumption == IsFiniteSet(Requests) /\ None \notin Requests

VARIABLES
    profile,             \* chosen at the start
    page,                \* Chrome: what became of each target
    origin,              \* history: who opened it
    preserved,           \* history: targets released with leave_visible
    req,                 \* the request each connection task is running
    in_flight_sessions,  \* how many registered requests a session has
    page_lifecycle,      \* holder of the managed browser's lifecycle lock
    sweep                \* the expiry sweep, which the serve loop runs inline

registryVars == vars
chromeVars == <<page, origin>>
brokerVars == <<vars, profile, page, origin, preserved, req, in_flight_sessions, page_lifecycle,
                sweep>>

Idle == [pc |-> "idle", method |-> "none", session |-> None, tab |-> None,
         target |-> None, seen |-> {}, guarded |-> FALSE]
SweepIdle == [pc |-> "idle", now |-> 0, skip |-> {}, close |-> None, closed |-> FALSE]

Pcs == {"idle", "register", "handle", "create", "lease", "claim", "release", "reserve",
        "closing", "commit", "reconcile", "check", "finish", "drop"}
RequestState ==
    [pc : Pcs, method : AllMethods \cup {"none"}, session : Maybe(Sessions), tab : Maybe(Tabs),
     target : Maybe(Targets), seen : SUBSET Targets, guarded : BOOLEAN]
SweepState == [pc : {"idle", "read", "expire", "reclaim", "report"}, now : Nat,
               skip : SUBSET Sessions, close : Maybe(SweepClose), closed : BOOLEAN]

BrokerTypeOK ==
    /\ TypeOK
    /\ profile \in Profiles
    /\ page \in [Targets -> {"unborn", "open", "closed", "lost", "left"}]
    /\ origin \in [Targets -> {"none", "vbl", "human"}]
    /\ preserved \in SUBSET Targets
    /\ req \in [Requests -> RequestState]
    /\ in_flight_sessions \in [Sessions -> Nat]
    /\ page_lifecycle \in Maybe(Requests)
    /\ sweep \in SweepState

BrokerInit ==
    /\ Init
    /\ profile \in Profiles
    /\ page = [t \in Targets |-> "unborn"]
    /\ origin = [t \in Targets |-> "none"]
    /\ preserved = {}
    /\ req = [r \in Requests |-> Idle]
    /\ in_flight_sessions = [s \in Sessions |-> 0]
    /\ page_lifecycle = None
    /\ sweep = SweepIdle

(***************************************************************************)
(* Helpers.  In an action that is one step of request r, Goto continues it *)
(* and End ends its handler, with or without an error: a request with an   *)
(* in-flight guard still has its final touch and the guard's drop to do.   *)
(***************************************************************************)
Managed   == profile.managed
Sweeps    == profile.sweeps
CdpFails  == profile.fails
HumanActs == profile.human

At(r, pc)      == req[r].pc = pc
Handles(r, ms) == At(r, "handle") /\ req[r].method \in ms
Goto(r, pc)    == req' = [req EXCEPT ![r].pc = pc]
End(r) ==
    req' = [req EXCEPT ![r] =
              IF req[r].guarded
              THEN [Idle EXCEPT !.pc = "finish", !.session = req[r].session, !.guarded = TRUE]
              ELSE Idle]

OnlyRequests == UNCHANGED <<profile, registryVars, chromeVars, preserved, in_flight_sessions,
                            page_lifecycle, sweep>>
NoBrowserWork == UNCHANGED <<profile, chromeVars, preserved, in_flight_sessions,
                             page_lifecycle, sweep>>

OpenPages == {t \in Targets : page[t] = "open"}
LifecycleIgnored == TRUE
LifecycleFree == ~Managed \/ page_lifecycle = None

(***************************************************************************)
(* Dispatch: touch the session, register it in flight, run the handler,    *)
(* touch again, drop the guard.                                            *)
(***************************************************************************)
NewRequest(m, s, b, t) == [Idle EXCEPT !.pc = "register", !.method = m, !.session = s,
                                       !.tab = b, !.target = t, !.guarded = TRUE]

\* A client names an issued session and a tab or a target it was shown.
Dispatch(r, m, s, b, t) ==
    /\ At(r, "idle")
    /\ sessions[s].status # "unissued"
    /\ IF m \in TabMethods THEN leases[b].state # "unissued" ELSE b = None
    /\ IF m \in TargetMethods THEN page[t] # "unborn" ELSE t = None
    /\ IF Live(s) THEN Touch(s) ELSE UNCHANGED registryVars
    /\ req' = [req EXCEPT ![r] = NewRequest(m, s, b, t)]
    /\ NoBrowserWork

Register(r) ==
    /\ At(r, "register")
    /\ in_flight_sessions' = [in_flight_sessions EXCEPT ![req[r].session] = @ + 1]
    /\ Goto(r, "handle")
    /\ UNCHANGED <<profile, registryVars, chromeVars, preserved, page_lifecycle, sweep>>

FinalTouch(r) ==
    /\ At(r, "finish")
    /\ IF Live(req[r].session) THEN Touch(req[r].session) ELSE UNCHANGED registryVars
    /\ Goto(r, "drop")
    /\ NoBrowserWork

DropAllGuards(r) ==
    /\ At(r, "drop")
    /\ in_flight_sessions' = [in_flight_sessions EXCEPT ![req[r].session] = 0]
    /\ req' = [req EXCEPT ![r] = Idle]
    /\ UNCHANGED <<profile, registryVars, chromeVars, preserved, page_lifecycle, sweep>>

DropGuard(r) ==
    /\ At(r, "drop")
    /\ in_flight_sessions' = [in_flight_sessions EXCEPT ![req[r].session] = @ - 1]
    /\ req' = [req EXCEPT ![r] = Idle]
    /\ UNCHANGED <<profile, registryVars, chromeVars, preserved, page_lifecycle, sweep>>

\* An explicit start_session has no session when it is dispatched, so neither
\* touch nor guard; with a URL it goes on to create a tab.
DispatchStartSession(r, s, m) ==
    /\ At(r, "idle")
    /\ StartSession(s, None)
    /\ req' = [req EXCEPT ![r] =
                 IF m = "start_with_url"
                 THEN [Idle EXCEPT !.pc = "handle", !.method = m, !.session = s]
                 ELSE Idle]
    /\ NoBrowserWork

(***************************************************************************)
(* create_and_lease_tab, for new_tab and start_session.                    *)
(***************************************************************************)
EnsureSession(r) ==
    /\ Handles(r, {"new_tab", "start_with_url"})
    /\ IF Live(req[r].session) THEN Goto(r, "create") ELSE End(r)
    /\ OnlyRequests

\* Target.createTarget and then activation and inspection of the new page.
CreatePage(r, t) ==
    /\ At(r, "create") /\ LifecycleFree
    /\ page[t] = "unborn"
    /\ page' = [page EXCEPT ![t] = "open"]
    /\ origin' = [origin EXCEPT ![t] = "vbl"]
    /\ \/ req' = [req EXCEPT ![r].pc = "lease", ![r].target = t]
       \/ CdpFails /\ End(r)
    /\ UNCHANGED <<profile, registryVars, preserved, in_flight_sessions, page_lifecycle, sweep>>

CreatePageFails(r) ==
    /\ At(r, "create") /\ LifecycleFree
    /\ End(r)
    /\ OnlyRequests

LeaseRefused(s, t) ==
    ~Live(s) \/ HasActiveLease(t) \/ Withdrawn(t)

LeaseCreated(r, b) ==
    /\ At(r, "lease")
    /\ LeaseTab(req[r].session, req[r].target, b)
    /\ End(r)
    /\ NoBrowserWork

LeaseCreatedRefused(r) ==
    /\ At(r, "lease")
    /\ LeaseRefused(req[r].session, req[r].target)
    /\ End(r)
    /\ OnlyRequests

(***************************************************************************)
(* claim_tab.  In managed mode the lifecycle lock is held from the lookup  *)
(* of the target to the end of the registry's claim; otherwise there is no *)
(* lock and the target may be gone by then.                                *)
(***************************************************************************)
LookUpClaim(r) ==
    /\ Handles(r, TargetMethods) /\ LifecycleFree
    /\ \/ /\ page[req[r].target] = "open"
          /\ Goto(r, "claim")
          /\ page_lifecycle' = IF Managed THEN r ELSE None
       \/ /\ CdpFails \/ page[req[r].target] # "open"
          /\ End(r)
          /\ UNCHANGED page_lifecycle
    /\ UNCHANGED <<profile, registryVars, chromeVars, preserved, in_flight_sessions, sweep>>

ClaimRefused(r) ==
    LET t == req[r].target
    IN  \/ ~Live(req[r].session) \/ Withdrawn(t)
        \/ HasActiveLease(t) /\ req[r].method # "takeover"

Claim(r, b) ==
    /\ At(r, "claim")
    /\ ClaimTab(req[r].session, req[r].target, b, req[r].method = "takeover", TRUE)
    /\ End(r)
    /\ page_lifecycle' = None
    /\ UNCHANGED <<profile, chromeVars, preserved, in_flight_sessions, sweep>>

ClaimFailsLocked(r) ==
    /\ At(r, "claim")
    /\ ClaimRefused(r) \/ (CdpFails /\ req[r].method = "takeover")
    /\ End(r)
    /\ UNCHANGED <<profile, registryVars, chromeVars, preserved, in_flight_sessions,
                   page_lifecycle, sweep>>

\* Also the exit of a takeover whose emulation reset failed.
ClaimFails(r) ==
    /\ At(r, "claim")
    /\ ClaimRefused(r) \/ (CdpFails /\ req[r].method = "takeover")
    /\ End(r)
    /\ page_lifecycle' = None
    /\ UNCHANGED <<profile, registryVars, chromeVars, preserved, in_flight_sessions, sweep>>

(***************************************************************************)
(* release_tab: validate, reset emulation in Chrome, release.              *)
(***************************************************************************)
MayRelease(r) == RequireOwnedTab(req[r].session, req[r].tab) /\ Releasable(req[r].tab)

ValidateRelease(r) ==
    /\ Handles(r, {"release_tab", "preserve_tab"})
    /\ IF MayRelease(r) /\ (req[r].method = "preserve_tab" => leases[req[r].tab].state = "active")
       THEN \/ Goto(r, "release")
            \/ CdpFails /\ leases[req[r].tab].state = "active" /\ End(r)
       ELSE End(r)
    /\ OnlyRequests

Release(r) ==
    /\ At(r, "release")
    /\ ReleaseTab(req[r].session, req[r].tab, req[r].method = "preserve_tab")
    /\ preserved' = IF req[r].method = "preserve_tab"
                    THEN preserved \cup {leases[req[r].tab].target} ELSE preserved
    /\ End(r)
    /\ UNCHANGED <<profile, chromeVars, in_flight_sessions, page_lifecycle, sweep>>

ReleaseRefused(r) ==
    /\ At(r, "release")
    /\ ~MayRelease(r)
    /\ End(r)
    /\ OnlyRequests

(***************************************************************************)
(* close_tab: validate, reserve, close the page, commit.                   *)
(***************************************************************************)
ValidateClose(r) ==
    /\ Handles(r, {"close_tab"})
    /\ IF RequireOwnedTab(req[r].session, req[r].tab) THEN Goto(r, "reserve") ELSE End(r)
    /\ OnlyRequests

\* Only an active lease's page is closed; a missing one has none.
Reserve(r) ==
    /\ At(r, "reserve")
    /\ ReserveOwnedTabClose(req[r].session, req[r].tab)
    /\ req' = [req EXCEPT
                 ![r].target = leases[req[r].tab].target,
                 ![r].pc = IF leases[req[r].tab].state = "active" THEN "closing" ELSE "commit"]
    /\ NoBrowserWork

ReserveRefused(r) ==
    /\ At(r, "reserve")
    /\ MayRelease(r) => Closing(leases[req[r].tab].target)
    /\ End(r)
    /\ OnlyRequests

\* The page after a close: "closed" when the broker knows, "lost" when the
\* command took effect but was reported as failed.
Shut(t, as) == IF page[t] = "open" THEN [page EXCEPT ![t] = as] ELSE page

\* A managed close takes the lifecycle lock once it has found the page.
MayClose(t) == LifecycleFree \/ page[t] # "open"

\* target_by_id, emulate reset and close_target; a missing target is fine.
ClosePage(r) ==
    /\ At(r, "closing") /\ MayClose(req[r].target)
    /\ page' = Shut(req[r].target, "closed")
    /\ Goto(r, "commit")
    /\ UNCHANGED <<profile, registryVars, origin, preserved, in_flight_sessions,
                   page_lifecycle, sweep>>

KeepReservation(r) == UNCHANGED registryVars

\* finish_owned_tab_close_reservation, which does nothing for another's.
EndReservation(r) ==
    IF pending_target_closes[req[r].target] = req[r].tab
    THEN FinishOwnedTabCloseReservation(req[r].target, req[r].tab)
    ELSE UNCHANGED registryVars

\* Also the exit of a close whose page went away between lookup and command.
ClosePageFails(r) ==
    /\ At(r, "closing") /\ MayClose(req[r].target)
    /\ CdpFails \/ page[req[r].target] # "open"
    /\ page' \in {page, Shut(req[r].target, "lost")}
    /\ EndReservation(r)
    /\ End(r)
    /\ UNCHANGED <<profile, origin, preserved, in_flight_sessions, page_lifecycle, sweep>>

CommitClose(r) ==
    /\ At(r, "commit")
    /\ IF MayRelease(r) THEN CommitOwnedTabClose(req[r].session, req[r].tab)
                        ELSE EndReservation(r)
    /\ End(r)
    /\ NoBrowserWork

(***************************************************************************)
(* list_tabs and every tool that acts on a tab: read the inventory, give   *)
(* up the leases whose target is not in it, check one's own lease.         *)
(***************************************************************************)
ReadInventory(r) ==
    /\ Handles(r, {"list_tabs", "act_on_tab"})
    /\ \/ req' = [req EXCEPT ![r].pc = "reconcile", ![r].seen = OpenPages]
       \/ CdpFails /\ End(r)
    /\ OnlyRequests

ReconcileMissingTargets(r) ==
    /\ At(r, "reconcile")
    /\ IF Vanished(req[r].seen) # {} THEN MarkMissingTargetsNotIn(req[r].seen)
                                     ELSE UNCHANGED registryVars
    /\ IF req[r].method = "act_on_tab" THEN Goto(r, "check") ELSE End(r)
    /\ NoBrowserWork

\* A validated tool goes on to act on the page, which changes no state here.
CheckActiveOwned(r) ==
    LET b == req[r].tab
    IN  /\ At(r, "check")
        /\ IF /\ RequireOwnedTab(req[r].session, b)
              /\ leases[b].state = "active" /\ leases[b].target \notin req[r].seen
           THEN RequireActiveOwnedMissing(req[r].session, b)
           ELSE UNCHANGED registryVars
        /\ End(r)
        /\ NoBrowserWork

(***************************************************************************)
(* The expiry sweep: read the clock, read the in-flight set, expire, then  *)
(* close the targets the registry handed over, one after the other.        *)
(***************************************************************************)
OnlySweep == UNCHANGED <<profile, registryVars, chromeVars, preserved, req, in_flight_sessions,
                         page_lifecycle>>

SweepReadClock ==
    /\ Sweeps
    /\ sweep.pc = "idle"
    /\ sweep' = [sweep EXCEPT !.pc = "read", !.now = clock]
    /\ OnlySweep

SweepReadInFlight ==
    /\ sweep.pc = "read"
    /\ sweep' = [sweep EXCEPT !.pc = "expire",
                              !.skip = {s \in Sessions : in_flight_sessions[s] > 0}]
    /\ OnlySweep

SweepExpire ==
    /\ sweep.pc = "expire"
    /\ IF ExpiredIds(sweep.now, sweep.skip) # {}
       THEN ExpireSessions(sweep.now, sweep.skip)
       ELSE UNCHANGED registryVars
    /\ sweep' = [SweepIdle EXCEPT !.pc = IF sweep_closes' = {} THEN "idle" ELSE "reclaim"]
    /\ UNCHANGED <<profile, chromeVars, preserved, req, in_flight_sessions, page_lifecycle>>

\* close_expired_vbl_target up to its report: done or missing counts as closed.
SweepClosePage(c) ==
    /\ sweep.pc = "reclaim" /\ MayClose(c.target)
    /\ \/ /\ page' = Shut(c.target, "closed")
          /\ sweep' = [sweep EXCEPT !.pc = "report", !.close = c, !.closed = TRUE]
       \/ /\ CdpFails
          /\ page' \in {page, Shut(c.target, "lost")}
          /\ sweep' = [sweep EXCEPT !.pc = "report", !.close = c, !.closed = FALSE]
    /\ UNCHANGED <<profile, registryVars, origin, preserved, req, in_flight_sessions,
                   page_lifecycle>>

SweepReport ==
    /\ sweep.pc = "report"
    /\ FinishExpiredTargetClose(sweep.close, sweep.closed)
    /\ sweep' = [SweepIdle EXCEPT !.pc = IF sweep_closes' = {} THEN "idle" ELSE "reclaim"]
    /\ UNCHANGED <<profile, chromeVars, preserved, req, in_flight_sessions, page_lifecycle>>

(***************************************************************************)
(* The human and the clock.  Dispatch touches and registers a session in   *)
(* two adjacent statements: the clock does not run a whole TTL in between. *)
(***************************************************************************)
HumanOpens(t) ==
    /\ HumanActs /\ page[t] = "unborn"
    /\ page' = [page EXCEPT ![t] = "open"]
    /\ origin' = [origin EXCEPT ![t] = "human"]
    /\ UNCHANGED <<profile, registryVars, preserved, req, in_flight_sessions, page_lifecycle,
                   sweep>>

HumanCloses(t) ==
    /\ HumanActs /\ page[t] = "open"
    /\ page' = [page EXCEPT ![t] = "left"]
    /\ UNCHANGED <<profile, registryVars, origin, preserved, req, in_flight_sessions,
                   page_lifecycle,
                   sweep>>

\* Only the sweep reads the clock.
TimePasses ==
    /\ Sweeps
    /\ \A r \in Requests : At(r, "register") /\ Live(req[r].session) =>
          clock < sessions[req[r].session].updated_at + Ttl
    /\ Tick
    /\ UNCHANGED req /\ NoBrowserWork

-----------------------------------------------------------------------------
\* Bound: a request that will need a fresh tab id is sent while one is left.
TabsToSpare ==
    Cardinality({b \in Tabs : leases[b].state = "unissued"})
      > Cardinality({r \in Requests : req[r].method \in LeasingMethods})

ClientSends(r) ==
    \/ \E m \in profile.methods \ {"start_session", "start_with_url"}, s \in Sessions,
          b \in Maybe(Tabs), t \in Maybe(Targets) :
             /\ (m \in TabMethods) = (b # None) /\ (m \in TargetMethods) = (t # None)
             /\ m \in LeasingMethods => TabsToSpare
             /\ Dispatch(r, m, s, b, t)
    \/ \E m \in profile.methods \cap {"start_session", "start_with_url"}, s \in Sessions :
             /\ m \in LeasingMethods => TabsToSpare
             /\ DispatchStartSession(r, s, m)

RequestStep(r) ==
    \/ Register(r) \/ FinalTouch(r) \/ DropGuard(r)
    \/ EnsureSession(r) \/ CreatePageFails(r) \/ LeaseCreatedRefused(r)
    \/ \E t \in Targets : CreatePage(r, t)
    \/ \E b \in Tabs : LeaseCreated(r, b) \/ Claim(r, b)
    \/ LookUpClaim(r) \/ ClaimFails(r)
    \/ ValidateRelease(r) \/ Release(r) \/ ReleaseRefused(r)
    \/ ValidateClose(r) \/ Reserve(r) \/ ReserveRefused(r)
    \/ ClosePage(r) \/ ClosePageFails(r) \/ CommitClose(r)
    \/ ReadInventory(r) \/ ReconcileMissingTargets(r) \/ CheckActiveOwned(r)

SweepStep ==
    \/ SweepReadClock \/ SweepReadInFlight \/ SweepExpire \/ SweepReport
    \/ \E c \in sweep_closes : SweepClosePage(c)

HumanStep == \E t \in Targets : HumanOpens(t) \/ HumanCloses(t)

BrokerNext ==
    \/ \E r \in Requests : ClientSends(r) \/ RequestStep(r)
    \/ SweepStep \/ HumanStep \/ TimePasses

BrokerSpec == BrokerInit /\ [][BrokerNext]_brokerVars

\* Every browser command ends (it has a timeout) and the lifecycle lock is
\* first come, first served, so a request or sweep that can go on again and
\* again does.  Clients, the human and the clock promise nothing.
FairBrokerSpec ==
    /\ BrokerSpec
    /\ \A r \in Requests : SF_brokerVars(RequestStep(r))
    /\ SF_brokerVars(SweepStep)

-----------------------------------------------------------------------------
\* A session with a registered request is never expired, in whatever order
\* touches, registrations, the sweep's reads and its expiry interleave
\* (in_flight_sessions, sweep_expired_sessions).
InFlightNeverExpires ==
    [][\A r \in Requests : req[r].guarded /\ ~At(r, "register") /\ Live(req[r].session)
          => sessions'[req[r].session].status = "live"]_brokerVars

\* Whoever the broker closes a page for, nobody else drives it: a page with a
\* driver is closed only by a close_tab of that driver.
ClosesOnlyOwnPages ==
    [][\A t \in Targets : page[t] = "open" /\ page'[t] \in {"closed", "lost"} =>
          \/ Driver(t) = None
          \/ \E r \in Requests : At(r, "closing") /\ req[r].target = t
                                 /\ req[r].session = Driver(t)]_brokerVars

\* The sweep closes neither a page the human opened, whoever claimed, took over
\* or released it, nor one an owner released with leave_visible, whatever
\* happens to the session and the page later: neither gets, or gets back, into
\* the cleanup map.
SweepSparesPages ==
    \A c \in sweep_closes : origin[c.target] = "vbl" /\ c.target \notin preserved

\* A claim never hands out a page that the broker itself has closed, however old
\* the inventory is that the claim found the page in.
ClaimsFindLivePages ==
    [][\A r \in Requests : At(r, "claim") /\ leases' # leases /\ req'[r].pc # "claim"
          => page[req[r].target] # "closed"]_brokerVars

\* A lease is missing only when its page is gone from Chrome.
MissingMeansGone ==
    \A b \in Tabs : leases[b].state = "missing" => page[leases[b].target] # "open"

\* Every request is answered.
RequestsFinish == \A r \in Requests : ~At(r, "idle") ~> At(r, "idle")

\* No target stays reserved for closing: an owner's close or the sweep always
\* gives the reservation back, refused commits and failures included.
ReservationsDrain == \A t \in Targets : Closing(t) ~> ~Closing(t)
=============================================================================
