--------------------------- MODULE LeaseRegistry ---------------------------
(***************************************************************************)
(* The lease registry of the broker (src/src/leases.rs): which session may *)
(* drive which browser target, which session has to clean a target up, and *)
(* which targets are being closed.  The broker keeps the registry behind   *)
(* one mutex, so every public method is one atomic action here.            *)
(*                                                                         *)
(* The environment of this module is the broker: any method may be called  *)
(* at any time with any arguments.  Only three orders are taken from the   *)
(* callers: a close that expire_sessions returned is finished once, no     *)
(* owner's reservation is finished in the name of such a close, and        *)
(* update_tab_snapshot never changes a lease's target (it has no action).  *)
(* BrokerTabs composes this module with the callers.                       *)
(*                                                                         *)
(* A few operators have a faulty variant right before them, uncommented    *)
(* and unused: what a plausible slip in the code would do.  Substituted    *)
(* for the operator, each makes a property below fail.                     *)
(*                                                                         *)
(* The maps of the struct are total functions here: a missing key is None, *)
(* or the status "unissued" or "removed" of a session or a lease.  Ids are *)
(* fresh UUIDs in the code, so an id leaves "unissued" once and for all.   *)
(***************************************************************************)
EXTENDS Integers, Sequences, FiniteSets, Functions

CONSTANTS
    Sessions,       \* session ids one broker may issue
    Tabs,           \* tab (lease) ids it may issue
    Targets,        \* Chrome page targets
    Identities,     \* conversation identities of ambient callers
    Workspaces,     \* canonical workspace roots
    None,           \* the absent value of every map
    Ttl,            \* session time to live, in clock ticks
    TombstoneCap,   \* EXPIRED_SESSION_TOMBSTONE_CAP
    MaxClock        \* bound: the clock stops there

ASSUME NoneAssumption ==
    None \notin Sessions \cup Tabs \cup Targets \cup Identities \cup Workspaces
ASSUME NoneIsNoRecord == None \notin [session : Sessions, tab : Tabs]
ASSUME NumbersAssumption == Ttl \in Nat /\ TombstoneCap \in Nat /\ MaxClock \in Nat
ASSUME FiniteAssumption == IsFiniteSet(Tabs) /\ IsFiniteSet(Sessions)

VARIABLES
    clock,                   \* now_ms()
    sessions,                \* the session table, with the ids already used
    ambient_sessions,        \* conversation identity -> session
    ambient_identities,      \* session -> conversation identity
    leases,                  \* tab -> lease, kept after release and close
    active_target_owners,    \* target -> tab of its active lease
    cleanup_owned_targets,   \* target -> the lease that must clean it up
    pending_target_closes,   \* target -> tab that reserved it for closing
    expired_closed_targets,  \* targets the sweep confirmed gone
    expired_sessions,        \* tombstones
    expired_session_order,   \* tombstones, oldest first
    sweep_closes             \* closes returned by expire_sessions, unfinished

sessionVars == <<sessions, ambient_sessions, ambient_identities>>
targetVars  == <<leases, active_target_owners, cleanup_owned_targets,
                 pending_target_closes, expired_closed_targets>>
expiryVars  == <<expired_sessions, expired_session_order, sweep_closes>>
vars == <<clock, sessionVars, targetVars, expiryVars>>

(***************************************************************************)
(* Types.                                                                  *)
(***************************************************************************)
Maybe(S) == S \cup {None}

SessionRecord == [status : {"unissued", "live", "gone"},
                  updated_at : Nat, workspace : Maybe(Workspaces)]
TabLease  == [state : {"unissued", "active", "missing", "released", "closed", "removed"},
              target : Maybe(Targets), owner : Maybe(Sessions)]
CleanupOwnership == [session : Sessions, tab : Tabs]
Tombstone == [pending_close_targets : Nat, closed_targets : Nat]
SweepClose == [session : Sessions, target : Targets, tab : Tabs]

ASSUME NoneIsNoTombstone == None \notin Tombstone

TypeOK ==
    /\ clock \in Nat
    /\ sessions \in [Sessions -> SessionRecord]
    /\ ambient_sessions \in [Identities -> Maybe(Sessions)]
    /\ ambient_identities \in [Sessions -> Maybe(Identities)]
    /\ leases \in [Tabs -> TabLease]
    /\ active_target_owners \in [Targets -> Maybe(Tabs)]
    /\ cleanup_owned_targets \in [Targets -> Maybe(CleanupOwnership)]
    /\ pending_target_closes \in [Targets -> Maybe(Tabs)]
    /\ expired_closed_targets \in SUBSET Targets
    /\ expired_sessions \in [Sessions -> Maybe(Tombstone)]
    /\ expired_session_order \in Seq(Sessions)
    /\ sweep_closes \in SUBSET SweepClose

NoSession == [status |-> "unissued", updated_at |-> 0, workspace |-> None]
Gone      == [status |-> "gone",     updated_at |-> 0, workspace |-> None]
NoLease   == [state |-> "unissued", target |-> None, owner |-> None]
Removed   == [state |-> "removed",  target |-> None, owner |-> None]

Init ==
    /\ clock = 0
    /\ sessions = [s \in Sessions |-> NoSession]
    /\ ambient_sessions = [i \in Identities |-> None]
    /\ ambient_identities = [s \in Sessions |-> None]
    /\ leases = [b \in Tabs |-> NoLease]
    /\ active_target_owners = [t \in Targets |-> None]
    /\ cleanup_owned_targets = [t \in Targets |-> None]
    /\ pending_target_closes = [t \in Targets |-> None]
    /\ expired_closed_targets = {}
    /\ expired_sessions = [s \in Sessions |-> None]
    /\ expired_session_order = <<>>
    /\ sweep_closes = {}

Tick ==
    /\ clock < MaxClock
    /\ clock' = clock + 1
    /\ UNCHANGED <<sessionVars, targetVars, expiryVars>>

(***************************************************************************)
(* The checks the methods start with.                                      *)
(***************************************************************************)
Live(s)  == sessions[s].status = "live"
Known(b) == leases[b].state \notin {"unissued", "removed"}

RequireOwnedTab(s, b) == Live(s) /\ Known(b) /\ leases[b].owner = s
Releasable(b) == leases[b].state \in {"active", "missing"}

\* active_lease_for_target(t).is_some()
HasActiveLease(t) ==
    /\ active_target_owners[t] # None
    /\ leases[active_target_owners[t]].state = "active"

Closing(t) == pending_target_closes[t] # None

WithdrawnUnlessClosing(t) == t \in expired_closed_targets
WithdrawnUnlessClosed(t)  == Closing(t)

\* Neither lease_tab nor claim_tab touches a target in this state.
Withdrawn(t) == Closing(t) \/ t \in expired_closed_targets

(***************************************************************************)
(* Sessions: explicit start, ambient start, touch and workspace binding.   *)
(***************************************************************************)
StartSession(s, w) ==
    /\ sessions[s].status = "unissued"
    /\ sessions' = [sessions EXCEPT ![s] =
                      [status |-> "live", updated_at |-> clock, workspace |-> w]]
    /\ UNCHANGED <<clock, ambient_sessions, ambient_identities, targetVars, expiryVars>>

Touch(s) ==
    /\ Live(s)
    /\ sessions' = [sessions EXCEPT ![s].updated_at = clock]
    /\ UNCHANGED <<clock, ambient_sessions, ambient_identities, targetVars, expiryVars>>

HasAmbientSession(i) == ambient_sessions[i] # None /\ Live(ambient_sessions[i])

\* An identity that already has a session gets it back, touched.
AmbientSessionReuse(i) == HasAmbientSession(i) /\ Touch(ambient_sessions[i])

AmbientSessionCreate(i, s, w) ==
    /\ ~HasAmbientSession(i)
    /\ sessions[s].status = "unissued"
    /\ sessions' = [sessions EXCEPT ![s] =
                      [status |-> "live", updated_at |-> clock, workspace |-> w]]
    /\ ambient_sessions' = [ambient_sessions EXCEPT ![i] = s]
    /\ ambient_identities' = [ambient_identities EXCEPT ![s] = i]
    /\ UNCHANGED <<clock, targetVars, expiryVars>>

\* A second root conflicts and changes nothing.
BindWorkspaceRoot(s, w) ==
    /\ Live(s)
    /\ sessions[s].workspace = None
    /\ sessions' = [sessions EXCEPT ![s].workspace = w]
    /\ UNCHANGED <<clock, ambient_sessions, ambient_identities, targetVars, expiryVars>>

(***************************************************************************)
(* Pieces of the target maps the methods below share.                      *)
(***************************************************************************)
ReusableTab(b) == leases[b].state \in {"unissued", "released"}

\* insert_active_lease, for a fresh tab b
FreshTab(b) == leases[b].state = "unissued"
ActiveLease(s, t) == [state |-> "active", target |-> t, owner |-> s]
Provenance(s, b)  == [session |-> s, tab |-> b]

AlwaysInherited(d, s, b) == Provenance(s, b)

\* Provenance d of a target follows it to its new lease, if it has any.
Inherited(d, s, b) == IF d = None THEN None ELSE Provenance(s, b)

OwnsCleanup(t, b) == cleanup_owned_targets[t] # None /\ cleanup_owned_targets[t].tab = b

CleanupKept(B) == cleanup_owned_targets

\* remove_active_target_if_matches, for every tab of B
WithoutActive(B) ==
    [t \in Targets |->
        IF \E b \in B : leases[b].target = t /\ active_target_owners[t] = b
        THEN None ELSE active_target_owners[t]]

\* remove_cleanup_ownership_if_matches, for every tab of B
WithoutCleanup(B) ==
    [t \in Targets |->
        IF \E b \in B : leases[b].target = t /\ OwnsCleanup(t, b)
        THEN None ELSE cleanup_owned_targets[t]]

(***************************************************************************)
(* Leases: create, claim, release, close and disappearance.                *)
(***************************************************************************)
\* The broker created t and leases it; provenance starts here.
LeaseTab(s, t, b) ==
    /\ Live(s)
    /\ ~HasActiveLease(t) /\ ~Withdrawn(t)
    /\ FreshTab(b)
    /\ leases' = [leases EXCEPT ![b] = ActiveLease(s, t)]
    /\ active_target_owners' = [active_target_owners EXCEPT ![t] = b]
    /\ cleanup_owned_targets' = [cleanup_owned_targets EXCEPT ![t] = Provenance(s, b)]
    /\ UNCHANGED <<clock, sessionVars, pending_target_closes, expired_closed_targets, expiryVars>>

\* A takeover removes the old lease; provenance follows the target.
ClaimTab(s, t, b, takeover, instructed) ==
    /\ Live(s)
    /\ ~Withdrawn(t)
    /\ HasActiveLease(t) => takeover /\ instructed
    /\ FreshTab(b)
    /\ leases' = [c \in Tabs |->
                    CASE c = b -> ActiveLease(s, t)
                      [] c # b /\ HasActiveLease(t) /\ c = active_target_owners[t] -> Removed
                      [] OTHER -> leases[c]]
    /\ active_target_owners' = [active_target_owners EXCEPT ![t] = b]
    /\ cleanup_owned_targets' =
         [cleanup_owned_targets EXCEPT ![t] = Inherited(@, s, b)]
    /\ UNCHANGED <<clock, sessionVars, pending_target_closes, expired_closed_targets, expiryVars>>

ReleaseTab(s, b, leave_visible) ==
    /\ RequireOwnedTab(s, b) /\ Releasable(b)
    /\ leases' = [leases EXCEPT ![b].state = "released"]
    /\ active_target_owners' = WithoutActive({b})
    /\ cleanup_owned_targets' = WithoutCleanup(IF leave_visible THEN {b} ELSE {})
    /\ UNCHANGED <<clock, sessionVars, pending_target_closes, expired_closed_targets, expiryVars>>

\* The owner's close keeps reconciliation and claims off the target while
\* the browser works on it ...
ReserveOwnedTabClose(s, b) ==
    /\ RequireOwnedTab(s, b) /\ Releasable(b)
    /\ ~Closing(leases[b].target)
    /\ pending_target_closes' = [pending_target_closes EXCEPT ![leases[b].target] = b]
    /\ UNCHANGED <<clock, sessionVars, leases, active_target_owners, cleanup_owned_targets,
                   expired_closed_targets, expiryVars>>

\* ... and commits with close_tab_mark and the end of the reservation under one
\* lock.  The mark is refused when another request of the session released the
\* tab in the meantime; then only the reservation ends, as it does on errors.
CommitOwnedTabClose(s, b) ==
    LET t == leases[b].target
    IN  /\ RequireOwnedTab(s, b) /\ Releasable(b)
        /\ leases' = [leases EXCEPT ![b].state = "closed"]
        /\ active_target_owners' = WithoutActive({b})
        /\ cleanup_owned_targets' = WithoutCleanup({b})
        /\ pending_target_closes' =
             [pending_target_closes EXCEPT ![t] = IF @ = b THEN None ELSE @]
        /\ UNCHANGED <<clock, sessionVars, expired_closed_targets, expiryVars>>

FinishOwnedTabCloseReservation(t, b) ==
    /\ pending_target_closes[t] = b
    /\ \A c \in sweep_closes : c.tab # b
    /\ pending_target_closes' = [pending_target_closes EXCEPT ![t] = None]
    /\ UNCHANGED <<clock, sessionVars, leases, active_target_owners, cleanup_owned_targets,
                   expired_closed_targets, expiryVars>>

\* mark_missing for every tab of B; the callers pass tabs with active leases
MarkMissing(B) ==
    /\ leases' = [b \in Tabs |-> IF b \in B THEN [leases[b] EXCEPT !.state = "missing"]
                                            ELSE leases[b]]
    /\ active_target_owners' = WithoutActive(B)
    /\ cleanup_owned_targets' = WithoutCleanup(B)
    /\ UNCHANGED <<clock, sessionVars, pending_target_closes, expired_closed_targets, expiryVars>>

\* require_active_owned with a target that is no longer in the inventory
RequireActiveOwnedMissing(s, b) ==
    /\ RequireOwnedTab(s, b)
    /\ leases[b].state = "active"
    /\ MarkMissing({b})

\* The tabs reconciliation gives up, given the targets it was told of.
Vanished(visible) ==
    {active_target_owners[t] : t \in {u \in Targets \ visible :
                                        active_target_owners[u] # None /\ ~Closing(u)}}

MarkMissingTargetsNotIn(visible) ==
    /\ Vanished(visible) # {}
    /\ MarkMissing(Vanished(visible))

(***************************************************************************)
(* Expiry.  expire_sessions takes a time n and a set of in-flight sessions *)
(* that its caller read earlier.  The closes it returns are carried out by *)
(* the sweep and reported with finish_expired_target_close.                *)
(***************************************************************************)
ExpiredIds(n, in_flight) ==
    {s \in Sessions \ in_flight : Live(s) /\ sessions[s].updated_at + Ttl < n}

Orderings(S) == {q \in [1..Cardinality(S) -> S] : IsInjective(q)}

\* What cap eviction leaves of the queue, dropping from the front.
Newest(q, n) == IF Len(q) > n THEN SubSeq(q, Len(q) - n + 1, Len(q)) ELSE q

CleansUp(b) == LET t == leases[b].target
               IN  t # None /\ cleanup_owned_targets[t] = Provenance(leases[b].owner, b)

IdentitiesKept(E) == ambient_sessions

IdentitiesWithout(E) ==
    [i \in Identities |-> IF \E s \in E : ambient_identities[s] = i
                          THEN None ELSE ambient_sessions[i]]

\* Leases of the sessions E whose target the sweep has to close ...
ToClose(E) == {b \in Tabs : /\ leases[b].owner \in E
                            /\ leases[b].state \in {"active", "released"}
                            /\ CleansUp(b)}
ActiveToReleaseOnly(E) ==
    {b \in Tabs : leases[b].owner \in E /\ leases[b].state = "active" /\ ~CleansUp(b)}

\* ... and those that just end.  An ordinarily released tab is left alone.
ToRelease(E) == {b \in Tabs : /\ leases[b].owner \in E
                              /\ \/ leases[b].state = "missing"
                                 \/ leases[b].state = "active" /\ ~CleansUp(b)}

CloseOf(b) == [session |-> leases[b].owner, target |-> leases[b].target, tab |-> b]

\* E is the expired set and batch the order the code happens to walk it in.
ExpireBatch(E, batch) ==
    LET closing  == ToClose(E)
        released == ToRelease(E)
        order    == Newest(expired_session_order \o batch, TombstoneCap)
        stone(s) == [pending_close_targets |-> Cardinality({b \in closing : leases[b].owner = s}),
                     closed_targets |-> 0]
    IN  /\ sessions' = [s \in Sessions |-> IF s \in E THEN Gone ELSE sessions[s]]
        /\ ambient_sessions' = IdentitiesWithout(E)
        /\ ambient_identities' =
             [s \in Sessions |-> IF s \in E THEN None ELSE ambient_identities[s]]
        /\ leases' = [b \in Tabs |->
                        CASE b \in closing  -> [leases[b] EXCEPT !.state = "closed"]
                          [] b \in released -> [leases[b] EXCEPT !.state = "released"]
                          [] OTHER          -> leases[b]]
        /\ active_target_owners' = WithoutActive(closing \cup released)
        /\ cleanup_owned_targets' = WithoutCleanup(closing)
        /\ pending_target_closes' =
             [t \in Targets |-> IF \E b \in closing : leases[b].target = t
                                THEN CHOOSE b \in closing : leases[b].target = t
                                ELSE pending_target_closes[t]]
        /\ expired_session_order' = order
        /\ expired_sessions' =
             [s \in Sessions |-> IF s \notin Range(order) THEN None
                                 ELSE IF s \in E THEN stone(s) ELSE expired_sessions[s]]
        /\ sweep_closes' = sweep_closes \cup {CloseOf(b) : b \in closing}
        /\ UNCHANGED <<clock, expired_closed_targets>>

ExpireSessions(n, in_flight) ==
    LET E == ExpiredIds(n, in_flight)
    IN  /\ E # {}
        /\ \E batch \in Orderings(E) : ExpireBatch(E, batch)

SettledIfClosed(stone, closed) ==
    IF closed THEN [pending_close_targets |-> stone.pending_close_targets - 1,
                    closed_targets |-> stone.closed_targets + 1]
    ELSE stone

\* A tombstone after one of its closes was reported.
Settled(stone, closed) ==
    [pending_close_targets |-> IF stone.pending_close_targets > 0
                               THEN stone.pending_close_targets - 1 ELSE 0,
     closed_targets |-> IF closed THEN stone.closed_targets + 1 ELSE stone.closed_targets]

\* A failed close gives the target back: its lease becomes released and its
\* provenance returns, in the name of the session that is gone.
FinishExpiredTargetClose(c, closed) ==
    LET held == pending_target_closes[c.target] = c.tab
        back == held /\ ~closed /\ Known(c.tab)
    IN  /\ c \in sweep_closes
        /\ sweep_closes' = sweep_closes \ {c}
        /\ pending_target_closes' =
             IF held THEN [pending_target_closes EXCEPT ![c.target] = None]
                     ELSE pending_target_closes
        /\ expired_sessions' =
             IF held /\ expired_sessions[c.session] # None
             THEN [expired_sessions EXCEPT ![c.session] = Settled(@, closed)]
             ELSE expired_sessions
        /\ expired_closed_targets' =
             IF held /\ closed THEN expired_closed_targets \cup {c.target}
                               ELSE expired_closed_targets
        /\ leases' = IF back THEN [leases EXCEPT ![c.tab].state = "released"] ELSE leases
        /\ cleanup_owned_targets' =
             IF back THEN [cleanup_owned_targets EXCEPT ![c.target] = Provenance(c.session, c.tab)]
                     ELSE cleanup_owned_targets
        /\ UNCHANGED <<clock, sessionVars, active_target_owners, expired_session_order>>

-----------------------------------------------------------------------------
SessionNext ==
    \/ \E s \in Sessions, w \in Maybe(Workspaces) : StartSession(s, w)
    \/ \E s \in Sessions : Touch(s)
    \/ \E i \in Identities : AmbientSessionReuse(i)
    \/ \E i \in Identities, s \in Sessions, w \in Maybe(Workspaces) :
          AmbientSessionCreate(i, s, w)
    \/ \E s \in Sessions, w \in Workspaces : BindWorkspaceRoot(s, w)

TabNext ==
    \/ \E s \in Sessions, t \in Targets, b \in Tabs : LeaseTab(s, t, b)
    \/ \E s \in Sessions, t \in Targets, b \in Tabs, takeover, instructed \in BOOLEAN :
          ClaimTab(s, t, b, takeover, instructed)
    \/ \E s \in Sessions, b \in Tabs, leave_visible \in BOOLEAN : ReleaseTab(s, b, leave_visible)
    \/ \E s \in Sessions, b \in Tabs : ReserveOwnedTabClose(s, b)
    \/ \E s \in Sessions, b \in Tabs : CommitOwnedTabClose(s, b)
    \/ \E t \in Targets, b \in Tabs : FinishOwnedTabCloseReservation(t, b)
    \/ \E s \in Sessions, b \in Tabs : RequireActiveOwnedMissing(s, b)
    \/ \E visible \in SUBSET Targets : MarkMissingTargetsNotIn(visible)

ExpiryNext ==
    \/ \E n \in 0..clock, in_flight \in SUBSET Sessions : ExpireSessions(n, in_flight)
    \/ \E c \in sweep_closes, closed \in BOOLEAN : FinishExpiredTargetClose(c, closed)

Next == Tick \/ SessionNext \/ TabNext \/ ExpiryNext

Spec == Init /\ [][Next]_vars

-----------------------------------------------------------------------------
(***************************************************************************)
(* What the five target maps promise one another.  Each method updates     *)
(* some of them by hand; none of the maps is derived from another.         *)
(***************************************************************************)
\* The active index names exactly the leases that are active, so a target
\* never has two owners (active_target_owners, leases).
ActiveIndexExact ==
    /\ \A t \in Targets : active_target_owners[t] # None =>
          /\ leases[active_target_owners[t]].state = "active"
          /\ leases[active_target_owners[t]].target = t
    /\ \A b \in Tabs : leases[b].state = "active" => active_target_owners[leases[b].target] = b

\* A lease that can still act belongs to a session that still exists: expiry
\* leaves no tab in the hands of a removed session (expire_sessions).
HeldByLiveSessions ==
    \A b \in Tabs : Releasable(b) => leases[b].owner # None /\ Live(leases[b].owner)

\* The duty to clean a target up lies with a lease of the same session and
\* target, and when somebody drives the target the duty is theirs: an old
\* session can never have a target closed that a new one adopted.
CleanupFollowsOwner ==
    \A t \in Targets : cleanup_owned_targets[t] # None =>
        LET d == cleanup_owned_targets[t]
        IN  /\ leases[d.tab].state \in {"active", "released"}
            /\ leases[d.tab].target = t
            /\ leases[d.tab].owner = d.session
            /\ active_target_owners[t] \in {None, d.tab}

\* The active index and the leases agree, and agree with the sessions: a target
\* has one owner, and the owner exists.
TargetMapsAgree == ActiveIndexExact /\ HeldByLiveSessions

\* While the sweep closes a target it keeps the reservation it made, whatever
\* owners, claims and reconciliation do meanwhile, and nobody holds or has to
\* clean up that target (pending_target_closes across the sweep's awaits).
SweepHoldsReservation ==
    \A c \in sweep_closes :
        /\ pending_target_closes[c.target] = c.tab
        /\ leases[c.tab] = [state |-> "closed", target |-> c.target, owner |-> c.session]
        /\ sessions[c.session].status = "gone"
        /\ active_target_owners[c.target] = None
        /\ cleanup_owned_targets[c.target] = None

\* A target the sweep confirmed gone is never leased or cleaned up again, even
\* by a claim whose target snapshot is older (expired_closed_targets).
ClosedTargetsStayClosed ==
    \A t \in expired_closed_targets :
        /\ active_target_owners[t] = None
        /\ cleanup_owned_targets[t] = None
        /\ \A c \in sweep_closes : c.target # t

\* From the decision to close it on, an expired target is out of everybody's
\* reach: while the close is under way, and for good once it is confirmed.
SweptTargetsStayOut == SweepHoldsReservation /\ ClosedTargetsStayClosed

\* The two ambient maps are inverse to each other and bind live sessions, so
\* an identity never reaches an expired session or somebody else's.
AmbientMapsAgree ==
    /\ \A i \in Identities : ambient_sessions[i] # None =>
          Live(ambient_sessions[i]) /\ ambient_identities[ambient_sessions[i]] = i
    /\ \A s \in Sessions : ambient_identities[s] # None =>
          ambient_sessions[ambient_identities[s]] = s

\* A tombstone reports as pending exactly the closes the sweep still owes the
\* session, through failures and cap eviction (session_expired's counters).
TombstoneCountsExact ==
    \A s \in Sessions : expired_sessions[s] # None =>
        /\ sessions[s].status = "gone"
        /\ expired_sessions[s].pending_close_targets
             = Cardinality({c \in sweep_closes : c.session = s})

\* The eviction queue lists every tombstone once, within the cap, so eviction
\* removes the oldest and never leaks one.
TombstoneOrderExact ==
    /\ IsInjective(expired_session_order)
    /\ Range(expired_session_order) = {s \in Sessions : expired_sessions[s] # None}
    /\ Len(expired_session_order) <= TombstoneCap

\* Counts, order and cap of the tombstones hold together.
TombstonesExact == TombstoneCountsExact /\ TombstoneOrderExact

\* A tab that stopped being active never becomes active again, and keeps its
\* owner and target for as long as the registry remembers it: a stale tab id
\* can never act on a target leased anew.
TabsNeverRevive ==
    [][\A b \in Tabs : Known(b) =>
          /\ leases[b].state # "active" => leases'[b].state # "active"
          /\ \/ leases'[b] = Removed /\ leases[b].state = "active"
             \/ leases'[b].owner = leases[b].owner /\ leases'[b].target = leases[b].target]_vars

-----------------------------------------------------------------------------
(***************************************************************************)
(* The registry implements TabOwnership: forget tab ids and lease states,  *)
(* and read driver and duty off the active index and the cleanup map.      *)
(***************************************************************************)
Driver(t) == IF active_target_owners[t] = None THEN None
             ELSE leases[active_target_owners[t]].owner
Duty(t) == IF cleanup_owned_targets[t] = None THEN None ELSE cleanup_owned_targets[t].session
Sweeping(t) == IF \E c \in sweep_closes : c.target = t
               THEN (CHOOSE c \in sweep_closes : c.target = t).session ELSE None

Ownership == INSTANCE TabOwnership WITH
    live     <- {s \in Sessions : Live(s)},
    ended    <- {s \in Sessions : sessions[s].status = "gone"},
    driver   <- [t \in Targets |-> Driver(t)],
    duty     <- [t \in Targets |-> Duty(t)],
    closing  <- {t \in Targets : Closing(t)},
    sweeping <- [t \in Targets |-> Sweeping(t)],
    closed   <- expired_closed_targets

\* Every step of the registry is one step of the promise, or none: the five
\* maps together never do anything the simple ownership protocol would not.
ImplementsTabOwnership == Ownership!Spec
=============================================================================
