------------------------ MODULE LeaseRegistryProofs ------------------------
(***************************************************************************)
(* Proofs about LeaseRegistry, for every set of sessions, tabs, targets,   *)
(* identities and workspaces, every TTL, tombstone cap and clock bound:    *)
(* its types, then the safety invariants of its target maps, its ambient   *)
(* maps and its tombstones.                                                *)
(*                                                                         *)
(* None of the target maps' invariants is inductive alone.  A withdrawn    *)
(* lease keeps the index exact only because the index names its target     *)
(* (ActiveIndexExact); the duty moves with claims only because a target's  *)
(* duty and its driver are the same tab (CleanupFollowsOwner); a sweep's   *)
(* reservation survives because its tab is closed and so is not its        *)
(* owner's to close, release or lose (SweepHoldsReservation).  Together,   *)
(* with leases that name a target and an owner, they are.                  *)
(***************************************************************************)
EXTENDS LeaseRegistry, FiniteSetTheorems, TLAPS

(***************************************************************************)
(* Type correctness.                                                       *)
(***************************************************************************)

\* The eviction queue stays a sequence of sessions when its front is dropped.
LEMMA NewestType ==
    ASSUME NEW q \in Seq(Sessions), NEW n \in Nat
    PROVE  Newest(q, n) \in Seq(Sessions)
BY DEF Newest

\* Every walk over the expired sessions is a sequence of sessions.
LEMMA OrderingsType ==
    ASSUME NEW E, E \subseteq Sessions, NEW batch \in Orderings(E)
    PROVE  batch \in Seq(Sessions)
<1>1. IsFiniteSet(E)
  BY FS_Subset, FiniteAssumption
<1>2. Cardinality(E) \in Nat
  BY <1>1, FS_CardinalityType
<1>3. batch \in [1..Cardinality(E) -> Sessions]
  BY DEF Orderings
<1> QED
  BY <1>2, <1>3

LEMMA InitType == Init => TypeOK
BY DEF Init, TypeOK, Maybe, NoSession, NoLease, SessionRecord, TabLease

LEMMA SessionStepType ==
    ASSUME TypeOK, SessionNext
    PROVE  TypeOK'
<1> USE DEF TypeOK, Maybe, SessionRecord, sessionVars, targetVars, expiryVars
<1>1. ASSUME NEW s \in Sessions, NEW w \in Maybe(Workspaces), StartSession(s, w)
      PROVE  TypeOK'
  BY <1>1 DEF StartSession
<1>2. ASSUME NEW s \in Sessions, Touch(s)
      PROVE  TypeOK'
  BY <1>2 DEF Touch, Live
<1>3. ASSUME NEW i \in Identities, AmbientSessionReuse(i)
      PROVE  TypeOK'
  BY <1>2, <1>3 DEF AmbientSessionReuse, HasAmbientSession
<1>4. ASSUME NEW i \in Identities, NEW s \in Sessions, NEW w \in Maybe(Workspaces),
             AmbientSessionCreate(i, s, w)
      PROVE  TypeOK'
  BY <1>4 DEF AmbientSessionCreate
<1>5. ASSUME NEW s \in Sessions, NEW w \in Workspaces, BindWorkspaceRoot(s, w)
      PROVE  TypeOK'
  <2>1. sessions' = [sessions EXCEPT ![s] = [sessions[s] EXCEPT !.workspace = w]]
    BY <1>5 DEF BindWorkspaceRoot
  <2>2. [sessions[s] EXCEPT !.workspace = w] \in SessionRecord
    OBVIOUS
  <2> QED
    BY <1>5, <2>1, <2>2 DEF BindWorkspaceRoot
<1> QED
  BY <1>1, <1>2, <1>3, <1>4, <1>5 DEF SessionNext

\* Dropping index and cleanup entries keeps both maps well typed.
LEMMA WithoutType ==
    ASSUME TypeOK, NEW B
    PROVE  /\ WithoutActive(B) \in [Targets -> Maybe(Tabs)]
           /\ WithoutCleanup(B) \in [Targets -> Maybe(CleanupOwnership)]
BY DEF TypeOK, WithoutActive, WithoutCleanup, Maybe

\* Changing the state of a lease to another state keeps it a lease.
LEMMA StateChangeType ==
    ASSUME TypeOK, NEW b \in Tabs,
           NEW state \in {"active", "missing", "released", "closed"}
    PROVE  [leases[b] EXCEPT !.state = state] \in TabLease
BY DEF TypeOK, TabLease

LEMMA MarkMissingType ==
    ASSUME TypeOK, NEW B, MarkMissing(B)
    PROVE  TypeOK'
<1>1. leases' \in [Tabs -> TabLease]
  BY StateChangeType DEF MarkMissing, TypeOK
<1> QED
  BY <1>1, WithoutType DEF MarkMissing, TypeOK, sessionVars, expiryVars

LEMMA TabStepType ==
    ASSUME TypeOK, TabNext
    PROVE  TypeOK'
<1> USE DEF sessionVars, expiryVars
<1>1. ASSUME NEW s \in Sessions, NEW t \in Targets, NEW b \in Tabs, LeaseTab(s, t, b)
      PROVE  TypeOK'
  BY <1>1 DEF LeaseTab, TypeOK, ActiveLease, Provenance, Maybe, TabLease, CleanupOwnership
<1>2. ASSUME NEW s \in Sessions, NEW t \in Targets, NEW b \in Tabs,
             NEW takeover \in BOOLEAN, NEW instructed \in BOOLEAN,
             ClaimTab(s, t, b, takeover, instructed)
      PROVE  TypeOK'
  <2>1. leases' \in [Tabs -> TabLease]
    BY <1>2 DEF ClaimTab, TypeOK, ActiveLease, Removed, Maybe, TabLease
  <2>2. cleanup_owned_targets' \in [Targets -> Maybe(CleanupOwnership)]
    BY <1>2 DEF ClaimTab, TypeOK, Inherited, Provenance, Maybe, CleanupOwnership
  <2> QED
    BY <1>2, <2>1, <2>2 DEF ClaimTab, TypeOK, Maybe
<1>3. ASSUME NEW s \in Sessions, NEW b \in Tabs, NEW leave_visible \in BOOLEAN,
             ReleaseTab(s, b, leave_visible)
      PROVE  TypeOK'
  <2>1. leases' = [leases EXCEPT ![b] = [leases[b] EXCEPT !.state = "released"]]
    BY <1>3 DEF ReleaseTab
  <2> QED
    BY <1>3, <2>1, WithoutType, StateChangeType DEF ReleaseTab, TypeOK
<1>4. ASSUME NEW s \in Sessions, NEW b \in Tabs, ReserveOwnedTabClose(s, b)
      PROVE  TypeOK'
  BY <1>4 DEF ReserveOwnedTabClose, TypeOK, Maybe
<1>5. ASSUME NEW s \in Sessions, NEW b \in Tabs, CommitOwnedTabClose(s, b)
      PROVE  TypeOK'
  <2>1. leases' = [leases EXCEPT ![b] = [leases[b] EXCEPT !.state = "closed"]]
    BY <1>5 DEF CommitOwnedTabClose
  <2>2. pending_target_closes' \in [Targets -> Maybe(Tabs)]
    <3>1. pending_target_closes \in [Targets -> Maybe(Tabs)]
      BY DEF TypeOK
    <3>2. /\ DOMAIN pending_target_closes' = Targets
          /\ pending_target_closes' = [t \in Targets |-> pending_target_closes'[t]]
      BY <1>5, <3>1 DEF CommitOwnedTabClose
    <3>3. \A t \in Targets : pending_target_closes'[t] \in {pending_target_closes[t], None}
      BY <1>5, <3>1 DEF CommitOwnedTabClose
    <3> QED
      BY <3>1, <3>2, <3>3 DEF Maybe
  <2>3. leases' \in [Tabs -> TabLease]
    BY <2>1, StateChangeType DEF TypeOK
  <2>4. /\ active_target_owners' \in [Targets -> Maybe(Tabs)]
        /\ cleanup_owned_targets' \in [Targets -> Maybe(CleanupOwnership)]
    BY <1>5, WithoutType DEF CommitOwnedTabClose
  <2>5. UNCHANGED <<clock, sessionVars, expired_closed_targets, expiryVars>>
    BY <1>5 DEF CommitOwnedTabClose
  <2> QED
    BY <2>2, <2>3, <2>4, <2>5 DEF TypeOK
<1>6. ASSUME NEW t \in Targets, NEW b \in Tabs, FinishOwnedTabCloseReservation(t, b)
      PROVE  TypeOK'
  BY <1>6 DEF FinishOwnedTabCloseReservation, TypeOK, Maybe
<1>7. ASSUME NEW s \in Sessions, NEW b \in Tabs, RequireActiveOwnedMissing(s, b)
      PROVE  TypeOK'
  BY <1>7, MarkMissingType DEF RequireActiveOwnedMissing
<1>8. ASSUME NEW visible \in SUBSET Targets, MarkMissingTargetsNotIn(visible)
      PROVE  TypeOK'
  BY <1>8, MarkMissingType DEF MarkMissingTargetsNotIn
<1> QED
  BY <1>1, <1>2, <1>3, <1>4, <1>5, <1>6, <1>7, <1>8 DEF TabNext

LEMMA ExpireType ==
    ASSUME TypeOK, NEW E \in SUBSET Sessions, NEW batch \in Orderings(E), ExpireBatch(E, batch)
    PROVE  TypeOK'
<1> DEFINE closing == ToClose(E)
           released == ToRelease(E)
           order == Newest(expired_session_order \o batch, TombstoneCap)
<1>1. order \in Seq(Sessions)
  <2>1. batch \in Seq(Sessions) /\ expired_session_order \in Seq(Sessions)
    BY OrderingsType DEF TypeOK
  <2>2. expired_session_order \o batch \in Seq(Sessions)
    BY <2>1
  <2> QED
    BY <2>2, NewestType, NumbersAssumption
<1>2. ASSUME NEW s \in Sessions
      PROVE  Cardinality({b \in closing : leases[b].owner = s}) \in Nat
  <2>1. IsFiniteSet({b \in closing : leases[b].owner = s})
    BY FS_Subset, FiniteAssumption DEF ToClose
  <2> QED
    BY <2>1, FS_CardinalityType
<1>3. expired_sessions' \in [Sessions -> Maybe(Tombstone)]
  BY <1>2 DEF ExpireBatch, TypeOK, Maybe, Tombstone
<1>4. leases' \in [Tabs -> TabLease]
  BY StateChangeType DEF ExpireBatch, TypeOK
<1>5. pending_target_closes' \in [Targets -> Maybe(Tabs)]
  BY DEF ExpireBatch, TypeOK, ToClose, Maybe
<1>6. sweep_closes' \in SUBSET SweepClose
  <2>1. ASSUME NEW b \in closing
        PROVE  CloseOf(b) \in SweepClose
    BY DEF ToClose, CleansUp, CloseOf, SweepClose, TypeOK, TabLease, Maybe
  <2> QED
    BY <2>1 DEF ExpireBatch, TypeOK
<1>7. /\ sessions' \in [Sessions -> SessionRecord]
      /\ ambient_sessions' \in [Identities -> Maybe(Sessions)]
      /\ ambient_identities' \in [Sessions -> Maybe(Identities)]
  BY DEF ExpireBatch, TypeOK, Gone, SessionRecord, Maybe, IdentitiesWithout
<1> QED
  BY <1>1, <1>3, <1>4, <1>5, <1>6, <1>7, WithoutType DEF ExpireBatch, TypeOK

LEMMA FinishExpiredType ==
    ASSUME TypeOK, NEW c \in sweep_closes, NEW closed \in BOOLEAN,
           FinishExpiredTargetClose(c, closed)
    PROVE  TypeOK'
<1>1. c \in SweepClose
  BY DEF TypeOK
<1>2. leases' \in [Tabs -> TabLease]
  <2>1. [leases EXCEPT ![c.tab].state = "released"]
          = [leases EXCEPT ![c.tab] = [leases[c.tab] EXCEPT !.state = "released"]]
    OBVIOUS
  <2> QED
    BY <1>1, <2>1, StateChangeType DEF FinishExpiredTargetClose, TypeOK, SweepClose
<1>3. expired_sessions' \in [Sessions -> Maybe(Tombstone)]
  BY <1>1 DEF FinishExpiredTargetClose, TypeOK, Settled, Maybe, Tombstone, SweepClose
<1>4. cleanup_owned_targets' \in [Targets -> Maybe(CleanupOwnership)]
  BY <1>1 DEF FinishExpiredTargetClose, TypeOK, Provenance, Maybe, CleanupOwnership, SweepClose
<1>5. pending_target_closes' \in [Targets -> Maybe(Tabs)]
  BY DEF FinishExpiredTargetClose, TypeOK, Maybe
<1> QED
  BY <1>1, <1>2, <1>3, <1>4, <1>5
  DEF FinishExpiredTargetClose, TypeOK, SweepClose, sessionVars

LEMMA StepType == TypeOK /\ [Next]_vars => TypeOK'
<1> SUFFICES ASSUME TypeOK, [Next]_vars PROVE TypeOK'
  OBVIOUS
<1>1. CASE Tick
  BY <1>1 DEF Tick, TypeOK, sessionVars, targetVars, expiryVars
<1>2. CASE SessionNext
  BY <1>2, SessionStepType
<1>3. CASE TabNext
  BY <1>3, TabStepType
<1>4. CASE ExpiryNext
  BY <1>4, ExpireType, FinishExpiredType DEF ExpiryNext, ExpireSessions, ExpiredIds
<1>5. CASE UNCHANGED vars
  BY <1>5 DEF vars, TypeOK, sessionVars, targetVars, expiryVars
<1> QED
  BY <1>1, <1>2, <1>3, <1>4, <1>5 DEF Next

\* The maps of the registry hold what their Rust types say, for ever.
THEOREM TypeCorrect == Spec => []TypeOK
BY InitType, StepType, PTL DEF Spec

(***************************************************************************)
(* The target maps.                                                        *)
(***************************************************************************)
\* A lease that was issued has a target and an owner (insert_active_lease).
LeasesComplete ==
    \A b \in Tabs : Known(b) => leases[b].target \in Targets /\ leases[b].owner \in Sessions

TargetInv ==
    /\ LeasesComplete
    /\ ActiveIndexExact
    /\ HeldByLiveSessions
    /\ CleanupFollowsOwner
    /\ SweepHoldsReservation
    /\ ClosedTargetsStayClosed

RegistryInv == TypeOK /\ TargetInv

LEMMA InitTargets == Init => TargetInv
BY DEF Init, TargetInv, LeasesComplete, ActiveIndexExact, HeldByLiveSessions,
       CleanupFollowsOwner, SweepHoldsReservation, ClosedTargetsStayClosed,
       Known, Releasable, NoLease

\* The lease the sweep works for is closed: nobody can act with it.
LEMMA SweptLease ==
    ASSUME SweepHoldsReservation, NEW c \in sweep_closes
    PROVE  /\ leases[c.tab].state = "closed"
           /\ leases[c.tab].target = c.target
           /\ leases[c.tab].owner = c.session
<1>1. leases[c.tab] = [state |-> "closed", target |-> c.target, owner |-> c.session]
  BY DEF SweepHoldsReservation
<1> QED
  BY <1>1

(***************************************************************************)
(* Steps that only change sessions, and only by adding or updating some.   *)
(***************************************************************************)
LEMMA SessionsGrowInv ==
    ASSUME RegistryInv,
           \A s \in Sessions : Live(s) => Live(s)',
           \A s \in Sessions : sessions[s].status = "gone" => sessions'[s].status = "gone",
           UNCHANGED <<targetVars, sweep_closes>>
    PROVE  TargetInv'
<1> USE DEF RegistryInv, TargetInv, TypeOK, targetVars
<1>1. LeasesComplete'
  BY DEF LeasesComplete, Known
<1>2. ActiveIndexExact'
  BY DEF ActiveIndexExact
<1>3. HeldByLiveSessions'
  BY DEF HeldByLiveSessions, LeasesComplete, Releasable, Known, Live
<1>4. CleanupFollowsOwner'
  BY DEF CleanupFollowsOwner
<1>5. SweepHoldsReservation'
  BY DEF SweepHoldsReservation, SweepClose
<1>6. ClosedTargetsStayClosed'
  BY DEF ClosedTargetsStayClosed
<1> QED
  BY <1>1, <1>2, <1>3, <1>4, <1>5, <1>6

LEMMA SessionStepInv ==
    ASSUME RegistryInv, SessionNext
    PROVE  TargetInv'
<1> USE DEF RegistryInv, TypeOK
<1> DEFINE OnlyGrows ==
             /\ \A s \in Sessions : Live(s) => Live(s)'
             /\ \A s \in Sessions : sessions[s].status = "gone" => sessions'[s].status = "gone"
             /\ UNCHANGED <<targetVars, expiryVars>>
<1>1. OnlyGrows
  <2>1. ASSUME NEW s \in Sessions, NEW w \in Maybe(Workspaces), StartSession(s, w)
        PROVE  OnlyGrows
    BY <2>1 DEF StartSession, Live
  <2>2. ASSUME NEW s \in Sessions, Touch(s)
        PROVE  OnlyGrows
    BY <2>2 DEF Touch, Live, SessionRecord
  <2>3. ASSUME NEW i \in Identities, AmbientSessionReuse(i)
        PROVE  OnlyGrows
    BY <2>2, <2>3 DEF AmbientSessionReuse, HasAmbientSession, Maybe
  <2>4. ASSUME NEW i \in Identities, NEW s \in Sessions, NEW w \in Maybe(Workspaces),
               AmbientSessionCreate(i, s, w)
        PROVE  OnlyGrows
    BY <2>4 DEF AmbientSessionCreate, Live
  <2>5. ASSUME NEW s \in Sessions, NEW w \in Workspaces, BindWorkspaceRoot(s, w)
        PROVE  OnlyGrows
    BY <2>5 DEF BindWorkspaceRoot, Live, SessionRecord
  <2> QED
    BY <2>1, <2>2, <2>3, <2>4, <2>5 DEF SessionNext
<1> QED
  BY <1>1, SessionsGrowInv DEF expiryVars

(***************************************************************************)
(* Leases end: release, committed close, disappearance.  B are the tabs    *)
(* that end, C those whose target nobody has to clean up any more.         *)
(***************************************************************************)
LEMMA WithdrawalInv ==
    ASSUME RegistryInv,
           NEW B \in SUBSET Tabs, NEW C \in SUBSET B,
           NEW state \in {"missing", "released", "closed"},
           state # "released" => C = B,
           \A b \in B : Releasable(b),
           leases' = [b \in Tabs |-> IF b \in B THEN [leases[b] EXCEPT !.state = state]
                                                ELSE leases[b]],
           active_target_owners' = WithoutActive(B),
           cleanup_owned_targets' = WithoutCleanup(C),
           \A c \in sweep_closes : pending_target_closes'[c.target] = pending_target_closes[c.target],
           UNCHANGED <<sessions, expired_closed_targets, sweep_closes>>
    PROVE  TargetInv'
<1> USE DEF RegistryInv, TargetInv
<1>1. \A b \in Tabs : /\ leases[b] \in TabLease
                      /\ leases'[b].target = leases[b].target
                      /\ leases'[b].owner = leases[b].owner
                      /\ leases'[b].state = IF b \in B THEN state ELSE leases[b].state
  BY DEF TypeOK, TabLease
<1>2. \A t \in Targets :
         /\ active_target_owners'[t] \in {active_target_owners[t], None}
         /\ active_target_owners[t] \in B => active_target_owners'[t] = None
         /\ active_target_owners[t] \notin B => active_target_owners'[t] = active_target_owners[t]
  <2>1. ASSUME NEW t \in Targets, active_target_owners[t] \in B
        PROVE  leases[active_target_owners[t]].target = t
    BY <2>1, NoneAssumption DEF ActiveIndexExact
  <2> QED
    BY <2>1 DEF WithoutActive
<1>3. \A t \in Targets : cleanup_owned_targets'[t] # None =>
         /\ cleanup_owned_targets'[t] = cleanup_owned_targets[t]
         /\ cleanup_owned_targets[t].tab \notin C
  BY NoneAssumption DEF WithoutCleanup, OwnsCleanup, CleanupFollowsOwner
<1>4. LeasesComplete'
  BY <1>1 DEF LeasesComplete, Known, Releasable
<1>5. ActiveIndexExact'
  BY <1>1, <1>2, NoneAssumption DEF ActiveIndexExact, LeasesComplete, Known, Releasable, TypeOK, Maybe
<1>6. HeldByLiveSessions'
  BY <1>1 DEF HeldByLiveSessions, Releasable, Live
<1>7. CleanupFollowsOwner'
  BY <1>1, <1>2, <1>3, NoneAssumption
  DEF CleanupFollowsOwner, TypeOK, Maybe, CleanupOwnership, Releasable
<1>8. SweepHoldsReservation'
  <2> SUFFICES ASSUME NEW c \in sweep_closes
               PROVE  /\ pending_target_closes'[c.target] = c.tab
                      /\ leases'[c.tab] = [state |-> "closed", target |-> c.target, owner |-> c.session]
                      /\ sessions'[c.session].status = "gone"
                      /\ active_target_owners'[c.target] = None
                      /\ cleanup_owned_targets'[c.target] = None
    BY DEF SweepHoldsReservation
  <2>1. c.tab \in Tabs /\ c.target \in Targets
    BY DEF TypeOK, SweepClose
  <2>2. c.tab \notin B
    <3>1. leases[c.tab].state = "closed"
      BY SweptLease
    <3>2. \A b \in B : leases[b].state # "closed"
      BY DEF Releasable
    <3> QED
      BY <3>1, <3>2
  <2> QED
    BY <1>2, <1>3, <2>1, <2>2 DEF SweepHoldsReservation
<1>9. ClosedTargetsStayClosed'
  BY <1>2, <1>3 DEF ClosedTargetsStayClosed, TypeOK
<1> QED
  BY <1>4, <1>5, <1>6, <1>7, <1>8, <1>9

(***************************************************************************)
(* A fresh tab b gets an active lease on t, whose previous one, if it was  *)
(* active, is removed: lease_tab, claim_tab and takeover.                  *)
(***************************************************************************)
LEMMA AcquireInv ==
    ASSUME RegistryInv,
           NEW s \in Sessions, NEW t \in Targets, NEW b \in Tabs,
           Live(s), ~Withdrawn(t), FreshTab(b),
           leases' = [c \in Tabs |->
                        CASE c = b -> ActiveLease(s, t)
                          [] c # b /\ HasActiveLease(t) /\ c = active_target_owners[t] -> Removed
                          [] OTHER -> leases[c]],
           active_target_owners' = [active_target_owners EXCEPT ![t] = b],
           NEW d \in {None, Provenance(s, b)},
           cleanup_owned_targets' = [cleanup_owned_targets EXCEPT ![t] = d],
           UNCHANGED <<sessions, pending_target_closes, expired_closed_targets, sweep_closes>>
    PROVE  TargetInv'
<1> USE DEF RegistryInv, TargetInv
<1>1. /\ leases'[b] = ActiveLease(s, t)
      /\ \A c \in Tabs \ {b} : \/ leases'[c] = leases[c] /\ c # active_target_owners[t]
                              \/ /\ leases'[c] = Removed
                                 /\ c = active_target_owners[t]
                                 /\ leases[c].target = t
  BY NoneAssumption DEF ActiveIndexExact, HasActiveLease
<1>2. /\ active_target_owners'[t] = b
      /\ \A u \in Targets \ {t} : active_target_owners'[u] = active_target_owners[u]
  BY DEF TypeOK
<1>3. /\ cleanup_owned_targets'[t] = d
      /\ \A u \in Targets \ {t} : cleanup_owned_targets'[u] = cleanup_owned_targets[u]
  BY DEF TypeOK
<1>4. \A u \in Targets : active_target_owners[u] # b
  BY NoneAssumption DEF ActiveIndexExact, FreshTab
<1>5. \A u \in Targets : cleanup_owned_targets[u] # None => cleanup_owned_targets[u].tab # b
  BY DEF CleanupFollowsOwner, FreshTab
<1>6. LeasesComplete'
  BY <1>1 DEF LeasesComplete, Known, ActiveLease, Removed
<1>7. ActiveIndexExact'
  BY <1>1, <1>2, <1>4, NoneAssumption
  DEF ActiveIndexExact, LeasesComplete, Known, ActiveLease, Removed, TypeOK, Maybe
<1>8. HeldByLiveSessions'
  BY <1>1, NoneAssumption DEF HeldByLiveSessions, Releasable, ActiveLease, Removed, Live
<1>9. CleanupFollowsOwner'
  <2> SUFFICES ASSUME NEW u \in Targets, cleanup_owned_targets'[u] # None
               PROVE  LET e == cleanup_owned_targets'[u]
                      IN  /\ leases'[e.tab].state \in {"active", "released"}
                          /\ leases'[e.tab].target = u
                          /\ leases'[e.tab].owner = e.session
                          /\ active_target_owners'[u] \in {None, e.tab}
    BY DEF CleanupFollowsOwner
  <2>1. CASE u = t
    BY <2>1, <1>1, <1>2, <1>3 DEF Provenance, ActiveLease
  <2>2. CASE u # t
    <3>1. cleanup_owned_targets'[u] = cleanup_owned_targets[u]
      BY <2>2, <1>3
    <3>2. cleanup_owned_targets[u].tab \in Tabs \ {b}
      BY <3>1, <1>5 DEF TypeOK, Maybe, CleanupOwnership
    <3>3. leases[cleanup_owned_targets[u].tab].target = u
      BY <3>1 DEF CleanupFollowsOwner
    <3>4. leases'[cleanup_owned_targets[u].tab] = leases[cleanup_owned_targets[u].tab]
      BY <3>2, <3>3, <2>2, <1>1
    <3> QED
      BY <3>1, <3>4, <2>2, <1>2 DEF CleanupFollowsOwner
  <2> QED
    BY <2>1, <2>2
<1>10. SweepHoldsReservation'
  <2> SUFFICES ASSUME NEW c \in sweep_closes
               PROVE  /\ leases'[c.tab] = leases[c.tab]
                      /\ active_target_owners'[c.target] = active_target_owners[c.target]
                      /\ cleanup_owned_targets'[c.target] = cleanup_owned_targets[c.target]
    BY DEF SweepHoldsReservation
  <2>1. c.tab \in Tabs /\ c.target \in Targets
    BY DEF TypeOK, SweepClose
  <2>2. c.target # t
    BY <2>1, NoneAssumption DEF SweepHoldsReservation, Withdrawn, Closing
  <2>3. leases[c.tab].state = "closed"
    BY SweptLease
  <2>4. leases[c.tab].target = c.target
    BY SweptLease
  <2>5. c.tab # b
    BY <2>3 DEF FreshTab
  <2> QED
    BY <2>1, <2>2, <2>4, <2>5, <1>1, <1>2, <1>3
<1>11. ClosedTargetsStayClosed'
  BY <1>2, <1>3 DEF ClosedTargetsStayClosed, Withdrawn, TypeOK
<1> QED
  BY <1>6, <1>7, <1>8, <1>9, <1>10, <1>11

(***************************************************************************)
(* Reservations of owners come and go beside the sweep's.                  *)
(***************************************************************************)
LEMMA ReservationInv ==
    ASSUME RegistryInv,
           \A c \in sweep_closes : pending_target_closes'[c.target] = pending_target_closes[c.target],
           UNCHANGED <<sessions, leases, active_target_owners, cleanup_owned_targets,
                       expired_closed_targets, sweep_closes>>
    PROVE  TargetInv'
BY DEF RegistryInv, TargetInv, LeasesComplete, Known, ActiveIndexExact, HeldByLiveSessions,
       Releasable, Live, CleanupFollowsOwner, SweepHoldsReservation, ClosedTargetsStayClosed

LEMMA MarkMissingInv ==
    ASSUME RegistryInv, NEW B \in SUBSET Tabs, \A b \in B : leases[b].state = "active",
           MarkMissing(B)
    PROVE  TargetInv'
<1>1. \A b \in B : Releasable(b)
  BY DEF Releasable
<1> QED
  BY <1>1, WithdrawalInv DEF MarkMissing, sessionVars, expiryVars

LEMMA TabStepInv ==
    ASSUME RegistryInv, TabNext
    PROVE  TargetInv'
<1> USE DEF RegistryInv, TypeOK, sessionVars, expiryVars
<1>1. ASSUME NEW s \in Sessions, NEW t \in Targets, NEW b \in Tabs, LeaseTab(s, t, b)
      PROVE  TargetInv'
  <2>1. ~HasActiveLease(t)
    BY <1>1 DEF LeaseTab
  <2>2. leases' = [c \in Tabs |->
                     CASE c = b -> ActiveLease(s, t)
                       [] c # b /\ HasActiveLease(t) /\ c = active_target_owners[t] -> Removed
                       [] OTHER -> leases[c]]
    BY <1>1, <2>1 DEF LeaseTab
  <2> QED
    BY <1>1, <2>2, AcquireInv DEF LeaseTab
<1>2. ASSUME NEW s \in Sessions, NEW t \in Targets, NEW b \in Tabs,
             NEW takeover \in BOOLEAN, NEW instructed \in BOOLEAN,
             ClaimTab(s, t, b, takeover, instructed)
      PROVE  TargetInv'
  <2> DEFINE d == Inherited(cleanup_owned_targets[t], s, b)
  <2>1. d \in {None, Provenance(s, b)}
    BY DEF Inherited
  <2>2. cleanup_owned_targets' = [cleanup_owned_targets EXCEPT ![t] = d]
    BY <1>2 DEF ClaimTab
  <2> HIDE DEF d
  <2> QED
    BY <1>2, <2>1, <2>2, AcquireInv DEF ClaimTab
<1>3. ASSUME NEW s \in Sessions, NEW b \in Tabs, NEW leave_visible \in BOOLEAN,
             ReleaseTab(s, b, leave_visible)
      PROVE  TargetInv'
  <2> DEFINE C == IF leave_visible THEN {b} ELSE {}
  <2>1. /\ C \in SUBSET {b}
        /\ \A c \in {b} : Releasable(c)
        /\ active_target_owners' = WithoutActive({b})
        /\ cleanup_owned_targets' = WithoutCleanup(C)
    BY <1>3 DEF ReleaseTab
  <2>2. leases' = [c \in Tabs |-> IF c \in {b} THEN [leases[c] EXCEPT !.state = "released"]
                                              ELSE leases[c]]
    BY <1>3 DEF ReleaseTab
  <2> HIDE DEF C
  <2> QED
    BY <1>3, <2>1, <2>2, WithdrawalInv DEF ReleaseTab
<1>4. ASSUME NEW s \in Sessions, NEW b \in Tabs, ReserveOwnedTabClose(s, b)
      PROVE  TargetInv'
  <2>1. \A c \in sweep_closes :
           /\ c.tab \in Tabs /\ c.target \in Targets
           /\ pending_target_closes[c.target] = c.tab
    BY DEF TargetInv, SweepHoldsReservation, SweepClose
  <2>2. \A c \in sweep_closes : c.target # leases[b].target
    BY <1>4, <2>1, NoneAssumption DEF ReserveOwnedTabClose, Closing
  <2>3. \A c \in sweep_closes : pending_target_closes'[c.target] = pending_target_closes[c.target]
    BY <1>4, <2>1, <2>2 DEF ReserveOwnedTabClose
  <2> QED
    BY <1>4, <2>3, ReservationInv DEF ReserveOwnedTabClose
<1>5. ASSUME NEW s \in Sessions, NEW b \in Tabs, CommitOwnedTabClose(s, b)
      PROVE  TargetInv'
  <2>1. Releasable(b)
    BY <1>5 DEF CommitOwnedTabClose
  <2>2. \A c \in sweep_closes : /\ c.target \in Targets
                                /\ pending_target_closes[c.target] # b
    BY <2>1, SweptLease DEF TargetInv, SweepHoldsReservation, SweepClose, Releasable
  <2>3. \A c \in sweep_closes : pending_target_closes'[c.target] = pending_target_closes[c.target]
    BY <1>5, <2>2 DEF CommitOwnedTabClose
  <2>4. leases' = [c \in Tabs |-> IF c \in {b} THEN [leases[c] EXCEPT !.state = "closed"]
                                              ELSE leases[c]]
    BY <1>5 DEF CommitOwnedTabClose
  <2>5. /\ active_target_owners' = WithoutActive({b})
        /\ cleanup_owned_targets' = WithoutCleanup({b})
        /\ UNCHANGED <<sessions, expired_closed_targets, sweep_closes>>
    BY <1>5 DEF CommitOwnedTabClose
  <2> HIDE DEF TypeOK
  <2> QED
    BY <2>1, <2>3, <2>4, <2>5, WithdrawalInv
<1>6. ASSUME NEW t \in Targets, NEW b \in Tabs, FinishOwnedTabCloseReservation(t, b)
      PROVE  TargetInv'
  <2>1. \A c \in sweep_closes : /\ c.target \in Targets /\ c.tab # b
                                /\ pending_target_closes[c.target] = c.tab
    BY <1>6 DEF FinishOwnedTabCloseReservation, TargetInv, SweepHoldsReservation, SweepClose
  <2>2. \A c \in sweep_closes : c.target # t
    BY <1>6, <2>1 DEF FinishOwnedTabCloseReservation
  <2>3. \A c \in sweep_closes : pending_target_closes'[c.target] = pending_target_closes[c.target]
    BY <1>6, <2>1, <2>2 DEF FinishOwnedTabCloseReservation
  <2> QED
    BY <1>6, <2>3, ReservationInv DEF FinishOwnedTabCloseReservation
<1>7. ASSUME NEW s \in Sessions, NEW b \in Tabs, RequireActiveOwnedMissing(s, b)
      PROVE  TargetInv'
  BY <1>7, MarkMissingInv DEF RequireActiveOwnedMissing
<1>8. ASSUME NEW visible \in SUBSET Targets, MarkMissingTargetsNotIn(visible)
      PROVE  TargetInv'
  <2>1. /\ Vanished(visible) \in SUBSET Tabs
        /\ \A b \in Vanished(visible) : leases[b].state = "active"
    BY DEF Vanished, Maybe, TargetInv, ActiveIndexExact
  <2> QED
    BY <1>8, <2>1, MarkMissingInv DEF MarkMissingTargetsNotIn
<1> QED
  BY <1>1, <1>2, <1>3, <1>4, <1>5, <1>6, <1>7, <1>8 DEF TabNext

(***************************************************************************)
(* Expiry: the sessions E end, the leases ToClose(E) go to the sweep, and  *)
(* the leases ToRelease(E) just end.                                       *)
(***************************************************************************)
\* The leases that go to the sweep, with their sessions E: who must clean up each
\* of their targets is clear.
LEMMA DutiesHandedOver ==
    ASSUME RegistryInv, NEW E \in SUBSET Sessions
    PROVE  /\ \A b \in ToClose(E) :
                 /\ b \in Tabs
                 /\ leases[b].target \in Targets /\ leases[b].owner \in E
                 /\ cleanup_owned_targets[leases[b].target] = Provenance(leases[b].owner, b)
                 /\ leases[b].state \in {"active", "released"}
                 /\ cleanup_owned_targets[leases[b].target] # None
                 /\ cleanup_owned_targets[leases[b].target].tab = b
           /\ \A b \in ToRelease(E) :
                 b \in Tabs /\ b \notin ToClose(E) /\ leases[b].state \in {"active", "missing"}
<1> USE DEF RegistryInv, TargetInv
<1> DEFINE closing == ToClose(E)
           released == ToRelease(E)
<1>1. \A b \in closing :
         /\ b \in Tabs
         /\ leases[b].target \in Targets /\ leases[b].owner \in E
         /\ cleanup_owned_targets[leases[b].target] = Provenance(leases[b].owner, b)
         /\ leases[b].state \in {"active", "released"}
  BY DEF ToClose, CleansUp, LeasesComplete, Known
<1>2. ASSUME NEW b \in closing
      PROVE  /\ cleanup_owned_targets[leases[b].target] # None
             /\ cleanup_owned_targets[leases[b].target].tab = b
  <2>1. cleanup_owned_targets[leases[b].target] = [session |-> leases[b].owner, tab |-> b]
    BY <1>1 DEF Provenance
  <2>2. cleanup_owned_targets[leases[b].target] \in [session : Sessions, tab : Tabs]
    BY <1>1, <2>1
  <2> QED
    BY <2>1, <2>2, NoneIsNoRecord
<1>3. \A b \in released : b \in Tabs /\ b \notin closing /\ leases[b].state \in {"active", "missing"}
  BY DEF ToRelease, ToClose
<1> QED BY <1>1, <1>2, <1>3

\* What expiry does to leases, target maps and sessions.
LEMMA ExpireEffects ==
    ASSUME RegistryInv, NEW E \in SUBSET Sessions, NEW batch, ExpireBatch(E, batch)
    PROVE  /\ \A b \in Tabs :
                 /\ leases'[b].target = leases[b].target
                 /\ leases'[b].owner = leases[b].owner
                 /\ leases'[b].state = IF b \in ToClose(E) THEN "closed"
                                       ELSE IF b \in ToRelease(E) THEN "released"
                                       ELSE leases[b].state
           /\ \A t \in Targets :
                 /\ active_target_owners'[t] \in {active_target_owners[t], None}
                 /\ active_target_owners[t] \in ToClose(E) \cup ToRelease(E)
                       => active_target_owners'[t] = None
                 /\ active_target_owners[t] \notin ToClose(E) \cup ToRelease(E)
                       => active_target_owners'[t] = active_target_owners[t]
           /\ \A t \in Targets : cleanup_owned_targets'[t] \in {cleanup_owned_targets[t], None}
           /\ \A b \in ToClose(E) : cleanup_owned_targets'[leases[b].target] = None
           /\ \A t \in Targets : cleanup_owned_targets'[t] # None =>
                 cleanup_owned_targets[t].tab \notin ToClose(E)
           /\ \A s \in Sessions : sessions'[s] = IF s \in E THEN Gone ELSE sessions[s]
<1> USE DEF RegistryInv, TargetInv
<1> DEFINE closing == ToClose(E)
           released == ToRelease(E)
<1>1. \A b \in closing :
         /\ b \in Tabs
         /\ leases[b].target \in Targets /\ leases[b].owner \in E
         /\ cleanup_owned_targets[leases[b].target] = Provenance(leases[b].owner, b)
         /\ leases[b].state \in {"active", "released"}
  BY DutiesHandedOver
<1>2. \A b \in closing : /\ cleanup_owned_targets[leases[b].target] # None
                         /\ cleanup_owned_targets[leases[b].target].tab = b
  BY DutiesHandedOver
<1>3. \A b \in released : b \in Tabs /\ b \notin closing /\ leases[b].state \in {"active", "missing"}
  BY DutiesHandedOver
<1>4. \A b \in Tabs :
         /\ leases'[b].target = leases[b].target
         /\ leases'[b].owner = leases[b].owner
         /\ leases'[b].state = IF b \in closing THEN "closed"
                               ELSE IF b \in released THEN "released" ELSE leases[b].state
  <2>1. leases' = [b \in Tabs |->
                     CASE b \in closing  -> [leases[b] EXCEPT !.state = "closed"]
                       [] b \in released -> [leases[b] EXCEPT !.state = "released"]
                       [] OTHER          -> leases[b]]
    BY DEF ExpireBatch
  <2>2. \A b \in Tabs : leases[b] \in TabLease
    BY DEF TypeOK
  <2> HIDE DEF closing, released
  <2> QED
    BY <1>3, <2>1, <2>2 DEF TabLease
<1>5. \A t \in Targets :
         /\ active_target_owners'[t] \in {active_target_owners[t], None}
         /\ active_target_owners[t] \in closing \cup released => active_target_owners'[t] = None
         /\ active_target_owners[t] \notin closing \cup released
               => active_target_owners'[t] = active_target_owners[t]
  <2>1. active_target_owners' = WithoutActive(closing \cup released)
    BY DEF ExpireBatch
  <2>2. ASSUME NEW t \in Targets, active_target_owners[t] \in closing \cup released
        PROVE  leases[active_target_owners[t]].target = t
    BY <1>1, <1>3, <2>2, NoneAssumption DEF ActiveIndexExact
  <2> QED
    BY <2>1, <2>2 DEF WithoutActive
<1>6. /\ \A t \in Targets : cleanup_owned_targets'[t] \in {cleanup_owned_targets[t], None}
      /\ \A b \in closing : cleanup_owned_targets'[leases[b].target] = None
      /\ \A t \in Targets : cleanup_owned_targets'[t] # None => cleanup_owned_targets[t].tab \notin closing
  <2>1. cleanup_owned_targets' = WithoutCleanup(closing)
    BY DEF ExpireBatch
  <2>2. \A t \in Targets : cleanup_owned_targets[t] # None =>
           leases[cleanup_owned_targets[t].tab].target = t
    BY DEF CleanupFollowsOwner
  <2>3. \A b \in closing : OwnsCleanup(leases[b].target, b)
    BY <1>2 DEF OwnsCleanup
  <2> QED
    BY <1>1, <2>1, <2>2, <2>3 DEF WithoutCleanup, OwnsCleanup
<1>7. \A s \in Sessions : sessions'[s] = IF s \in E THEN Gone ELSE sessions[s]
  BY DEF ExpireBatch
<1> QED BY <1>4, <1>5, <1>6, <1>7

LEMMA ExpireInv ==
    ASSUME RegistryInv, NEW E \in SUBSET Sessions, NEW batch, ExpireBatch(E, batch)
    PROVE  TargetInv'
<1> USE DEF RegistryInv, TargetInv
<1> DEFINE closing == ToClose(E)
           released == ToRelease(E)
<1>1. \A b \in closing :
         /\ b \in Tabs
         /\ leases[b].target \in Targets /\ leases[b].owner \in E
         /\ cleanup_owned_targets[leases[b].target] = Provenance(leases[b].owner, b)
         /\ leases[b].state \in {"active", "released"}
  BY DutiesHandedOver
<1>2. ASSUME NEW b \in closing
      PROVE  /\ cleanup_owned_targets[leases[b].target] # None
             /\ cleanup_owned_targets[leases[b].target].tab = b
  BY DutiesHandedOver
<1>3. \A b \in released : b \in Tabs /\ b \notin closing /\ leases[b].state \in {"active", "missing"}
  BY DutiesHandedOver
<1>4. \A b \in Tabs :
         /\ leases'[b].target = leases[b].target
         /\ leases'[b].owner = leases[b].owner
         /\ leases'[b].state = IF b \in closing THEN "closed"
                               ELSE IF b \in released THEN "released" ELSE leases[b].state
  BY ExpireEffects
<1>5. \A t \in Targets :
         /\ active_target_owners'[t] \in {active_target_owners[t], None}
         /\ active_target_owners[t] \in closing \cup released => active_target_owners'[t] = None
         /\ active_target_owners[t] \notin closing \cup released
               => active_target_owners'[t] = active_target_owners[t]
  BY ExpireEffects
<1>6. /\ \A t \in Targets : cleanup_owned_targets'[t] \in {cleanup_owned_targets[t], None}
      /\ \A b \in closing : cleanup_owned_targets'[leases[b].target] = None
      /\ \A t \in Targets : cleanup_owned_targets'[t] # None => cleanup_owned_targets[t].tab \notin closing
  BY ExpireEffects
<1>7. \A s \in Sessions : sessions'[s] = IF s \in E THEN Gone ELSE sessions[s]
  BY ExpireEffects
<1>8. LeasesComplete'
  BY <1>1, <1>3, <1>4 DEF LeasesComplete, Known
<1>9. ActiveIndexExact'
  BY <1>3, <1>4, <1>5, NoneAssumption DEF ActiveIndexExact, LeasesComplete, Known, TypeOK, Maybe
<1>10. HeldByLiveSessions'
  <2> SUFFICES ASSUME NEW b \in Tabs, leases'[b].state \in {"active", "missing"}
               PROVE  /\ leases'[b].owner # None
                      /\ sessions'[leases'[b].owner].status = "live"
    BY DEF HeldByLiveSessions, Releasable, Live
  <2>1. b \notin closing /\ b \notin released /\ Releasable(b)
    BY <1>3, <1>4 DEF Releasable
  <2>2. /\ leases[b].owner # None /\ Live(leases[b].owner)
        /\ leases[b].owner \in Sessions
    BY <2>1 DEF HeldByLiveSessions, LeasesComplete, Known, Releasable
  <2>3. leases[b].owner \notin E
    BY <2>1 DEF ToClose, ToRelease, Releasable
  <2> QED
    BY <2>2, <2>3, <1>4, <1>7 DEF Live
<1>11. CleanupFollowsOwner'
  <2> SUFFICES ASSUME NEW t \in Targets, cleanup_owned_targets'[t] # None
               PROVE  LET d == cleanup_owned_targets'[t]
                      IN  /\ leases'[d.tab].state \in {"active", "released"}
                          /\ leases'[d.tab].target = t
                          /\ leases'[d.tab].owner = d.session
                          /\ active_target_owners'[t] \in {None, d.tab}
    BY DEF CleanupFollowsOwner
  <2> DEFINE d == cleanup_owned_targets[t]
  <2>1. cleanup_owned_targets'[t] = d /\ d # None
    BY <1>6
  <2>2. /\ d.tab \in Tabs
        /\ leases[d.tab].state \in {"active", "released"}
        /\ leases[d.tab].target = t
        /\ leases[d.tab].owner = d.session
        /\ active_target_owners[t] \in {None, d.tab}
    BY <2>1 DEF CleanupFollowsOwner, TypeOK, Maybe, CleanupOwnership
  <2>3. d.tab \notin closing
    BY <2>1, <1>6
  <2>4. leases'[d.tab].state \in {"active", "released"}
    BY <2>2, <2>3, <1>4
  <2> QED
    BY <2>1, <2>2, <2>4, <1>4, <1>5
<1>12. \A c \in sweep_closes' : c \in sweep_closes \/ \E b \in closing : c = CloseOf(b)
  BY DEF ExpireBatch
<1>13. ASSUME NEW b \in closing
       PROVE  /\ pending_target_closes'[leases[b].target] = b
              /\ leases'[b] = [state |-> "closed", target |-> leases[b].target, owner |-> leases[b].owner]
              /\ sessions'[leases[b].owner].status = "gone"
              /\ active_target_owners'[leases[b].target] = None
              /\ cleanup_owned_targets'[leases[b].target] = None
  <2>1. pending_target_closes'[leases[b].target] = b
    <3>1. (CHOOSE c \in closing : leases[c].target = leases[b].target) = b
      <4> DEFINE chosen == CHOOSE c \in closing : leases[c].target = leases[b].target
      <4>1. chosen \in closing /\ leases[chosen].target = leases[b].target
        OBVIOUS
      <4>2. cleanup_owned_targets[leases[chosen].target].tab = chosen
        BY <4>1, <1>2
      <4> QED
        BY <1>2, <4>1, <4>2
    <3>2. pending_target_closes'[leases[b].target]
            = CHOOSE c \in closing : leases[c].target = leases[b].target
      BY <1>1 DEF ExpireBatch
    <3> QED
      BY <3>1, <3>2
  <2>2. leases'[b] = [state |-> "closed", target |-> leases[b].target, owner |-> leases[b].owner]
    <3>1. leases'[b] = [leases[b] EXCEPT !.state = "closed"]
      <4>1. leases' = [a \in Tabs |->
                         CASE a \in closing  -> [leases[a] EXCEPT !.state = "closed"]
                           [] a \in released -> [leases[a] EXCEPT !.state = "released"]
                           [] OTHER          -> leases[a]]
        BY DEF ExpireBatch
      <4>2. b \in Tabs /\ b \in closing /\ b \notin released
        BY <1>1, <1>3
      <4> HIDE DEF closing, released
      <4> QED
        BY <4>1, <4>2
    <3>2. leases[b] \in TabLease
      BY <1>1 DEF TypeOK
    <3> QED
      BY <3>1, <3>2 DEF TabLease
  <2>3. sessions'[leases[b].owner].status = "gone"
    BY <1>1, <1>7 DEF Gone
  <2>4. active_target_owners[leases[b].target] \in {None, b}
    BY <1>1, <1>2 DEF CleanupFollowsOwner
  <2>5. active_target_owners'[leases[b].target] = None
    BY <1>1, <1>5, <2>4
  <2>6. cleanup_owned_targets'[leases[b].target] = None
    BY <1>6
  <2> QED
    BY <2>1, <2>2, <2>3, <2>5, <2>6
<1>14. ASSUME NEW c \in sweep_closes
       PROVE  /\ pending_target_closes'[c.target] = c.tab
              /\ leases'[c.tab] = [state |-> "closed", target |-> c.target, owner |-> c.session]
              /\ sessions'[c.session].status = "gone"
              /\ active_target_owners'[c.target] = None
              /\ cleanup_owned_targets'[c.target] = None
  <2>1. c.tab \in Tabs /\ c.target \in Targets /\ c.session \in Sessions
    BY DEF TypeOK, SweepClose
  <2>2. \A b \in closing : leases[b].target # c.target
    <3>1. cleanup_owned_targets[c.target] = None
      BY DEF SweepHoldsReservation
    <3> QED
      BY <1>2, <3>1
  <2>3. pending_target_closes'[c.target] = pending_target_closes[c.target]
    BY <2>1, <2>2 DEF ExpireBatch
  <2>4. leases'[c.tab] = leases[c.tab]
    <3>1. c.tab \notin closing /\ c.tab \notin released
      BY SweptLease, <1>1, <1>3
    <3> QED
      BY <2>1, <3>1 DEF ExpireBatch
  <2>5. sessions'[c.session].status = "gone"
    <3>1. sessions[c.session].status = "gone"
      BY DEF SweepHoldsReservation
    <3>2. sessions'[c.session] = IF c.session \in E THEN Gone ELSE sessions[c.session]
      BY <2>1, <1>7
    <3> QED
      BY <3>1, <3>2 DEF Gone
  <2> QED
    BY <2>1, <2>3, <2>4, <2>5, <1>5, <1>6 DEF SweepHoldsReservation
<1>15. SweepHoldsReservation'
  <2> SUFFICES ASSUME NEW c \in sweep_closes'
               PROVE  /\ pending_target_closes'[c.target] = c.tab
                      /\ leases'[c.tab] = [state |-> "closed", target |-> c.target, owner |-> c.session]
                      /\ sessions'[c.session].status = "gone"
                      /\ active_target_owners'[c.target] = None
                      /\ cleanup_owned_targets'[c.target] = None
    BY DEF SweepHoldsReservation
  <2>1. CASE c \in sweep_closes
    BY <2>1, <1>14
  <2>2. CASE \E b \in closing : c = CloseOf(b)
    <3>1. PICK b \in closing : c = CloseOf(b)
      BY <2>2
    <3>2. c.target = leases[b].target /\ c.tab = b /\ c.session = leases[b].owner
      BY <3>1 DEF CloseOf
    <3> QED
      BY <3>2, <1>13
  <2> QED
    BY <2>1, <2>2, <1>12
<1>16. ClosedTargetsStayClosed'
  <2> SUFFICES ASSUME NEW t \in expired_closed_targets
               PROVE  /\ active_target_owners'[t] = None
                      /\ cleanup_owned_targets'[t] = None
                      /\ \A c \in sweep_closes' : c.target # t
    BY DEF ClosedTargetsStayClosed, ExpireBatch
  <2>1. t \in Targets /\ active_target_owners[t] = None /\ cleanup_owned_targets[t] = None
    BY DEF ClosedTargetsStayClosed, TypeOK
  <2>2. ASSUME NEW b \in closing
        PROVE  leases[b].target # t
    BY <1>2, <2>1
  <2>3. ASSUME NEW c \in sweep_closes'
        PROVE  c.target # t
    BY <1>12, <2>2 DEF ClosedTargetsStayClosed, CloseOf
  <2> QED
    BY <2>1, <2>3, <1>5, <1>6
<1> QED
  BY <1>8, <1>9, <1>10, <1>11, <1>15, <1>16
(***************************************************************************)
(* The sweep reports one of its closes.  Its reservation is still the one  *)
(* it made, so the report always counts.                                   *)
(***************************************************************************)
LEMMA FinishExpiredInv ==
    ASSUME RegistryInv, NEW c \in sweep_closes, NEW closed \in BOOLEAN,
           FinishExpiredTargetClose(c, closed)
    PROVE  TargetInv'
<1> USE DEF RegistryInv, TargetInv
<1> DEFINE t == c.target
           b == c.tab
<1>1. c \in SweepClose /\ t \in Targets /\ b \in Tabs /\ c.session \in Sessions
  BY DEF TypeOK, SweepClose
<1>2. /\ leases[b].state = "closed" /\ leases[b].target = t /\ leases[b].owner = c.session
      /\ Known(b)
  BY SweptLease DEF Known
<1>3. /\ pending_target_closes[t] = b
      /\ active_target_owners[t] = None
      /\ cleanup_owned_targets[t] = None
  BY DEF SweepHoldsReservation
\* Two closes never concern the same target or the same tab.
<1>4. ASSUME NEW d \in sweep_closes, d # c
      PROVE  d.target \in Targets /\ d.tab \in Tabs /\ d.target # t /\ d.tab # b
  <2>1. /\ leases[d.tab].target = d.target /\ leases[d.tab].owner = d.session
        /\ pending_target_closes[d.target] = d.tab
    BY SweptLease DEF SweepHoldsReservation
  <2>2. d.target = t \/ d.tab = b
           => d.target = t /\ d.tab = b /\ d.session = c.session
    BY <2>1, <1>2, <1>3
  <2>3. d \in SweepClose
    BY DEF TypeOK
  <2> QED
    BY <1>1, <1>4, <2>2, <2>3 DEF SweepClose
<1>5. /\ sweep_closes' = sweep_closes \ {c}
      /\ UNCHANGED <<sessions, active_target_owners>>
  BY DEF FinishExpiredTargetClose, sessionVars
<1>6. \A u \in Targets : u # t => pending_target_closes'[u] = pending_target_closes[u]
  BY DEF FinishExpiredTargetClose, TypeOK
<1>7. ASSUME NEW a \in Tabs
      PROVE  /\ leases'[a].target = leases[a].target
             /\ leases'[a].owner = leases[a].owner
             /\ leases'[a].state = IF a = b /\ ~closed THEN "released" ELSE leases[a].state
             /\ a # b => leases'[a] = leases[a]
  <2>1. leases[a] \in TabLease /\ leases \in [Tabs -> TabLease]
    BY DEF TypeOK
  <2>2. leases' = IF closed THEN leases ELSE [leases EXCEPT ![b].state = "released"]
    BY <1>2, <1>3 DEF FinishExpiredTargetClose
  <2> QED
    BY <2>1, <2>2 DEF TabLease
<1>8. ASSUME NEW u \in Targets
      PROVE  cleanup_owned_targets'[u] = IF u = t /\ ~closed THEN Provenance(c.session, b)
                                         ELSE cleanup_owned_targets[u]
  <2>1. cleanup_owned_targets \in [Targets -> Maybe(CleanupOwnership)]
    BY DEF TypeOK
  <2>2. cleanup_owned_targets'
          = IF closed THEN cleanup_owned_targets
            ELSE [cleanup_owned_targets EXCEPT ![t] = Provenance(c.session, b)]
    BY <1>2, <1>3 DEF FinishExpiredTargetClose
  <2> QED
    BY <2>1, <2>2
<1>9. expired_closed_targets' = IF closed THEN expired_closed_targets \cup {t}
                                          ELSE expired_closed_targets
  BY <1>3 DEF FinishExpiredTargetClose
<1>10. LeasesComplete'
  BY <1>2, <1>7 DEF LeasesComplete, Known
<1>11. ActiveIndexExact'
  BY <1>2, <1>5, <1>7 DEF ActiveIndexExact, TypeOK, Maybe
<1>12. HeldByLiveSessions'
  BY <1>5, <1>7 DEF HeldByLiveSessions, Releasable, Live
<1>13. CleanupFollowsOwner'
  <2> SUFFICES ASSUME NEW u \in Targets, cleanup_owned_targets'[u] # None
               PROVE  LET d == cleanup_owned_targets'[u]
                      IN  /\ leases'[d.tab].state \in {"active", "released"}
                          /\ leases'[d.tab].target = u
                          /\ leases'[d.tab].owner = d.session
                          /\ active_target_owners'[u] \in {None, d.tab}
    BY DEF CleanupFollowsOwner
  <2>1. CASE u = t /\ ~closed
    <3>1. cleanup_owned_targets'[u] = [session |-> c.session, tab |-> b]
      BY <2>1, <1>8 DEF Provenance
    <3> QED
      BY <3>1, <2>1, <1>1, <1>2, <1>3, <1>5, <1>7
  <2>2. CASE ~(u = t /\ ~closed)
    <3> DEFINE d == cleanup_owned_targets[u]
    <3>1. cleanup_owned_targets'[u] = d /\ d # None
      BY <2>2, <1>8
    <3>2. /\ d.tab \in Tabs
          /\ leases[d.tab].state \in {"active", "released"}
          /\ leases[d.tab].target = u
          /\ leases[d.tab].owner = d.session
          /\ active_target_owners[u] \in {None, d.tab}
      BY <3>1 DEF CleanupFollowsOwner, TypeOK, Maybe, CleanupOwnership
    <3>3. d.tab # b
      BY <3>2, <1>2
    <3> QED
      BY <3>1, <3>2, <3>3, <1>5, <1>7
  <2> QED
    BY <2>1, <2>2
<1>14. SweepHoldsReservation'
  <2> SUFFICES ASSUME NEW d \in sweep_closes, d # c
               PROVE  /\ pending_target_closes'[d.target] = d.tab
                      /\ leases'[d.tab] = [state |-> "closed", target |-> d.target, owner |-> d.session]
                      /\ sessions'[d.session].status = "gone"
                      /\ active_target_owners'[d.target] = None
                      /\ cleanup_owned_targets'[d.target] = None
    BY <1>5 DEF SweepHoldsReservation
  <2>1. d.target \in Targets /\ d.tab \in Tabs /\ d.target # t /\ d.tab # b
    BY <1>4
  <2> QED
    BY <2>1, <1>5, <1>6, <1>7, <1>8 DEF SweepHoldsReservation
<1>15. ClosedTargetsStayClosed'
  <2> SUFFICES ASSUME NEW u \in expired_closed_targets'
               PROVE  /\ active_target_owners'[u] = None
                      /\ cleanup_owned_targets'[u] = None
                      /\ \A d \in sweep_closes' : d.target # u
    BY DEF ClosedTargetsStayClosed
  <2>1. CASE u \in expired_closed_targets
    <3>1. u \in Targets /\ u # t
      BY <2>1 DEF ClosedTargetsStayClosed, TypeOK
    <3> QED
      BY <2>1, <3>1, <1>5, <1>8 DEF ClosedTargetsStayClosed
  <2>2. CASE u = t /\ closed
    BY <2>2, <1>1, <1>3, <1>4, <1>5, <1>8
  <2> QED
    BY <2>1, <2>2, <1>9
<1> QED
  BY <1>10, <1>11, <1>12, <1>13, <1>14, <1>15

(***************************************************************************)
(* Every step keeps the invariant, and so does every behaviour.            *)
(***************************************************************************)
LEMMA RegistryStep == RegistryInv /\ [Next]_vars => RegistryInv'
<1>1. RegistryInv /\ [Next]_vars => TypeOK'
  BY StepType DEF RegistryInv
<1> SUFFICES ASSUME RegistryInv, [Next]_vars
             PROVE  TargetInv'
  BY <1>1 DEF RegistryInv
<1>2. ASSUME sessions' = sessions, UNCHANGED <<targetVars, sweep_closes>>
      PROVE  TargetInv'
  BY <1>2, SessionsGrowInv DEF Live
<1>3. CASE Tick \/ UNCHANGED vars
  BY <1>2, <1>3 DEF Tick, vars, sessionVars, expiryVars
<1>4. CASE SessionNext
  BY <1>4, SessionStepInv
<1>5. CASE TabNext
  BY <1>5, TabStepInv
<1>6. CASE ExpiryNext
  <2>1. ASSUME NEW n \in 0..clock, NEW in_flight \in SUBSET Sessions, ExpireSessions(n, in_flight)
        PROVE  TargetInv'
    <3>1. ExpiredIds(n, in_flight) \in SUBSET Sessions
      BY DEF ExpiredIds
    <3>2. PICK batch \in Orderings(ExpiredIds(n, in_flight)) :
             ExpireBatch(ExpiredIds(n, in_flight), batch)
      BY <2>1 DEF ExpireSessions
    <3> QED
      BY <3>1, <3>2, ExpireInv
  <2>2. ASSUME NEW c \in sweep_closes, NEW closed \in BOOLEAN, FinishExpiredTargetClose(c, closed)
        PROVE  TargetInv'
    BY <2>2, FinishExpiredInv
  <2> QED
    BY <1>6, <2>1, <2>2 DEF ExpiryNext
<1> QED
  BY <1>3, <1>4, <1>5, <1>6 DEF Next

LEMMA RegistrySafe == Spec => []RegistryInv
<1>1. Init => RegistryInv
  BY InitType, InitTargets DEF RegistryInv
<1> QED
  BY <1>1, RegistryStep, PTL DEF Spec

\* The active index names exactly the active leases, so a target never has
\* two owners (active_target_owners and leases in leases.rs).
THEOREM OneOwnerPerTarget == Spec => []ActiveIndexExact
<1>1. RegistryInv => ActiveIndexExact
  BY DEF RegistryInv, TargetInv
<1> QED
  BY <1>1, RegistrySafe, PTL

\* Expiry leaves no usable lease in the hands of a removed session
\* (expire_sessions).
THEOREM LeasesEndWithSessions == Spec => []HeldByLiveSessions
<1>1. RegistryInv => HeldByLiveSessions
  BY DEF RegistryInv, TargetInv
<1> QED
  BY <1>1, RegistrySafe, PTL

\* The duty to clean a target up stays with the lease that drives it
\* (cleanup_owned_targets in claim_tab and in the sweep).
THEOREM DutyFollowsLease == Spec => []CleanupFollowsOwner
<1>1. RegistryInv => CleanupFollowsOwner
  BY DEF RegistryInv, TargetInv
<1> QED
  BY <1>1, RegistrySafe, PTL

\* A sweep keeps its reservations until it reports them, whatever runs
\* between (pending_target_closes, finish_expired_target_close).
THEOREM SweepKeepsReservation == Spec => []SweepHoldsReservation
<1>1. RegistryInv => SweepHoldsReservation
  BY DEF RegistryInv, TargetInv
<1> QED
  BY <1>1, RegistrySafe, PTL

\* A target the sweep confirmed gone is never leased or cleaned up again
\* (expired_closed_targets).
THEOREM ConfirmedTargetsStayClosed == Spec => []ClosedTargetsStayClosed
<1>1. RegistryInv => ClosedTargetsStayClosed
  BY DEF RegistryInv, TargetInv
<1> QED
  BY <1>1, RegistrySafe, PTL
\* A target has one owner and the owner a session, whatever any method does
\* (active_target_owners, leases and sessions in leases.rs).
THEOREM OwnersAreExact == Spec => []TargetMapsAgree
<1>1. ActiveIndexExact /\ HeldByLiveSessions => TargetMapsAgree
  BY DEF TargetMapsAgree
<1> QED
  BY <1>1, OneOwnerPerTarget, LeasesEndWithSessions, PTL

\* Nobody gets hold of a target the sweep is closing or has closed
\* (pending_target_closes, expired_closed_targets).
THEOREM SweptTargetsOutOfReach == Spec => []SweptTargetsStayOut
<1>1. SweepHoldsReservation /\ ClosedTargetsStayClosed => SweptTargetsStayOut
  BY DEF SweptTargetsStayOut
<1> QED
  BY <1>1, SweepKeepsReservation, ConfirmedTargetsStayClosed, PTL

(***************************************************************************)
(* What a step may never do to a lease.                                    *)
(***************************************************************************)
Ages(b) ==
    /\ leases[b].state # "active" => leases'[b].state # "active"
    /\ \/ leases'[b] = Removed /\ leases[b].state = "active"
       \/ leases'[b].owner = leases[b].owner /\ leases'[b].target = leases[b].target

\* An issued tab id is never issued again, and a takeover removes only the
\* lease that was active.
LEMMA TabStepAges ==
    ASSUME RegistryInv, TabNext, NEW b \in Tabs, Known(b)
    PROVE  Ages(b)
<1> USE DEF RegistryInv
<1>1. leases \in [Tabs -> TabLease] /\ leases[b] \in TabLease
  BY DEF TypeOK
<1>2. ASSUME NEW s \in Sessions, NEW t \in Targets, NEW c \in Tabs, LeaseTab(s, t, c)
      PROVE  Ages(b)
  BY <1>1, <1>2 DEF LeaseTab, FreshTab, Known, Ages
<1>3. ASSUME NEW s \in Sessions, NEW t \in Targets, NEW c \in Tabs,
             NEW takeover \in BOOLEAN, NEW instructed \in BOOLEAN,
             ClaimTab(s, t, c, takeover, instructed)
      PROVE  Ages(b)
  <2>1. b # c
    BY <1>3 DEF ClaimTab, FreshTab, Known
  <2>2. \/ leases'[b] = leases[b]
        \/ leases'[b] = Removed /\ leases[b].state = "active"
    <3>1. leases' = [a \in Tabs |->
                       CASE a = c -> ActiveLease(s, t)
                         [] a # c /\ HasActiveLease(t) /\ a = active_target_owners[t] -> Removed
                         [] OTHER -> leases[a]]
      BY <1>3 DEF ClaimTab
    <3>2. CASE HasActiveLease(t) /\ b = active_target_owners[t]
      <4>1. leases'[b] = Removed
        BY <2>1, <3>1, <3>2
      <4>2. leases[b].state = "active"
        BY <3>2 DEF HasActiveLease
      <4> QED
        BY <4>1, <4>2
    <3>3. CASE ~(HasActiveLease(t) /\ b = active_target_owners[t])
      BY <2>1, <3>1, <3>3
    <3> QED
      BY <3>2, <3>3
  <2> QED
    BY <2>2 DEF Ages, Removed
<1>4. ASSUME NEW s \in Sessions, NEW c \in Tabs, NEW leave_visible \in BOOLEAN,
             ReleaseTab(s, c, leave_visible)
      PROVE  Ages(b)
  BY <1>1, <1>4 DEF ReleaseTab, TabLease, Ages
<1>5. ASSUME NEW s \in Sessions, NEW c \in Tabs, CommitOwnedTabClose(s, c)
      PROVE  Ages(b)
  BY <1>1, <1>5 DEF CommitOwnedTabClose, TabLease, Ages
<1>6. ASSUME NEW B, MarkMissing(B)
      PROVE  Ages(b)
  BY <1>1, <1>6 DEF MarkMissing, TabLease, Ages
<1>7. ASSUME leases' = leases
      PROVE  Ages(b)
  BY <1>7 DEF Ages
<1> QED
  BY <1>2, <1>3, <1>4, <1>5, <1>6, <1>7
  DEF TabNext, ReserveOwnedTabClose, FinishOwnedTabCloseReservation,
      RequireActiveOwnedMissing, MarkMissingTargetsNotIn

LEMMA ExpiryStepAges ==
    ASSUME RegistryInv, ExpiryNext, NEW b \in Tabs, Known(b)
    PROVE  Ages(b)
<1> USE DEF RegistryInv
<1>1. leases \in [Tabs -> TabLease] /\ leases[b] \in TabLease
  BY DEF TypeOK
<1>2. ASSUME NEW E, NEW batch, ExpireBatch(E, batch)
      PROVE  Ages(b)
  <2> DEFINE closing == ToClose(E)
             released == ToRelease(E)
  <2>1. leases' = [a \in Tabs |->
                     CASE a \in closing  -> [leases[a] EXCEPT !.state = "closed"]
                       [] a \in released -> [leases[a] EXCEPT !.state = "released"]
                       [] OTHER          -> leases[a]]
    BY <1>2 DEF ExpireBatch
  <2>2. b \in closing => b \notin released
    BY DEF ToClose, ToRelease
  <2> HIDE DEF closing, released
  <2> QED
    BY <1>1, <2>1, <2>2 DEF TabLease, Ages
<1>3. ASSUME NEW c \in sweep_closes, NEW closed \in BOOLEAN, FinishExpiredTargetClose(c, closed)
      PROVE  Ages(b)
  BY <1>1, <1>3 DEF FinishExpiredTargetClose, TabLease, Ages
<1> QED
  BY <1>2, <1>3 DEF ExpiryNext, ExpireSessions

\* A tab id is issued once, and an issued lease only ages.
Fate(b) ==
    /\ leases[b].state = "unissued" => leases'[b].state \in {"unissued", "active"}
    /\ leases[b].state = "removed" => leases'[b].state = "removed"
    /\ Known(b) => leases'[b].state # "unissued"
    /\ Known(b) /\ leases'[b].state = "removed" => leases[b].state = "active"
    /\ Known(b) => Ages(b)

\* What a step of the registry may do to a lease.
LEMMA LeaseFates ==
    ASSUME RegistryInv, [Next]_vars, NEW b \in Tabs
    PROVE  Fate(b)
<1> USE DEF Fate, Known
<1>1. leases \in [Tabs -> TabLease] /\ leases[b] \in TabLease
  BY DEF RegistryInv, TypeOK
<1>0. ASSUME leases' = leases PROVE Fate(b)
  BY <1>0 DEF Ages
<1>a. CASE Tick \/ SessionNext \/ UNCHANGED vars
  BY <1>0, <1>a
  DEF Tick, SessionNext, StartSession, AmbientSessionReuse, Touch, AmbientSessionCreate,
      BindWorkspaceRoot, targetVars, vars
<1>b. CASE TabNext
  <2>1. Known(b) => Ages(b)
    BY <1>b, TabStepAges
  <2>2. ASSUME NEW s \in Sessions, NEW t \in Targets, NEW c \in Tabs, LeaseTab(s, t, c)
        PROVE  Fate(b)
    BY <1>1, <2>1, <2>2 DEF LeaseTab, FreshTab, ActiveLease
  <2>3. ASSUME NEW s \in Sessions, NEW t \in Targets, NEW c \in Tabs,
               NEW takeover \in BOOLEAN, NEW instructed \in BOOLEAN,
               ClaimTab(s, t, c, takeover, instructed)
        PROVE  Fate(b)
    <3>1. /\ leases[c].state = "unissued"
          /\ leases'[b] = IF b = c THEN ActiveLease(s, t)
                          ELSE IF HasActiveLease(t) /\ b = active_target_owners[t] THEN Removed
                          ELSE leases[b]
      BY <2>3 DEF ClaimTab, FreshTab
    <3>2. HasActiveLease(t) /\ b = active_target_owners[t] => leases[b].state = "active"
      BY DEF HasActiveLease
    <3> QED BY <2>1, <3>1, <3>2 DEF ActiveLease, Removed
  <2>4. ASSUME NEW s \in Sessions, NEW c \in Tabs, NEW leave_visible \in BOOLEAN,
               ReleaseTab(s, c, leave_visible)
        PROVE  Fate(b)
    BY <1>1, <2>1, <2>4 DEF ReleaseTab, Releasable, TabLease
  <2>5. ASSUME NEW s \in Sessions, NEW c \in Tabs, CommitOwnedTabClose(s, c)
        PROVE  Fate(b)
    BY <1>1, <2>1, <2>5 DEF CommitOwnedTabClose, Releasable, TabLease
  <2>6. ASSUME NEW B \in SUBSET Tabs, \A c \in B : leases[c].state = "active", MarkMissing(B)
        PROVE  Fate(b)
    BY <1>1, <2>1, <2>6 DEF MarkMissing, TabLease
  <2>7. ASSUME NEW visible \in SUBSET Targets, MarkMissingTargetsNotIn(visible)
        PROVE  Fate(b)
    <3>1. Vanished(visible) \in SUBSET Tabs
          /\ \A c \in Vanished(visible) : leases[c].state = "active"
      BY DEF Vanished, RegistryInv, TargetInv, ActiveIndexExact, TypeOK, Maybe
    <3> QED BY <2>6, <2>7, <3>1 DEF MarkMissingTargetsNotIn
  <2>8. ASSUME NEW s \in Sessions, NEW c \in Tabs, RequireActiveOwnedMissing(s, c)
        PROVE  Fate(b)
    BY <2>6, <2>8 DEF RequireActiveOwnedMissing
  <2> QED
    BY <1>b, <1>0, <2>2, <2>3, <2>4, <2>5, <2>7, <2>8
    DEF TabNext, ReserveOwnedTabClose, FinishOwnedTabCloseReservation
<1>c. CASE ExpiryNext
  <2>1. Known(b) => Ages(b)
    BY <1>c, ExpiryStepAges
  <2>2. ASSUME NEW E \in SUBSET Sessions, NEW batch, ExpireBatch(E, batch)
        PROVE  Fate(b)
    <3>1. leases'[b].state = IF b \in ToClose(E) THEN "closed"
                             ELSE IF b \in ToRelease(E) THEN "released" ELSE leases[b].state
      BY <2>2, ExpireEffects
    <3> QED BY <2>1, <3>1 DEF ToClose, ToRelease
  <2>3. ASSUME NEW n, NEW skip, ExpireSessions(n, skip)
        PROVE  Fate(b)
    BY <2>2, <2>3 DEF ExpireSessions, ExpiredIds
  <2>4. ASSUME NEW c \in sweep_closes, NEW closed \in BOOLEAN,
               FinishExpiredTargetClose(c, closed)
        PROVE  Fate(b)
    BY <1>1, <2>1, <2>4 DEF FinishExpiredTargetClose, TabLease
  <2> QED BY <1>c, <2>3, <2>4 DEF ExpiryNext
<1> QED BY <1>a, <1>b, <1>c DEF Next

\* A tab that stopped being active never becomes active again and keeps its
\* owner and target while it is known, whatever the registry is asked to do
\* (insert_active_lease's fresh ids, claim_tab's removal, expire_sessions).
THEOREM TabsStayWithdrawn == Spec => TabsNeverRevive
<1>1. ASSUME RegistryInv, Next, NEW b \in Tabs, Known(b)
      PROVE  Ages(b)
  <2>1. ASSUME leases' = leases
        PROVE  Ages(b)
    BY <2>1 DEF Ages
  <2>2. CASE SessionNext
    BY <2>1, <2>2 DEF SessionNext, StartSession, AmbientSessionReuse, Touch,
          AmbientSessionCreate, BindWorkspaceRoot, targetVars
  <2>3. CASE Tick
    BY <2>1, <2>3 DEF Tick, targetVars
  <2> QED
    BY <1>1, <2>2, <2>3, TabStepAges, ExpiryStepAges DEF Next
<1>2. RegistryInv /\ [Next]_vars => [\A b \in Tabs : Known(b) => Ages(b)]_vars
  BY <1>1
<1>3. RegistryInv /\ [Next]_vars =>
        [\A b \in Tabs : Known(b) =>
            /\ leases[b].state # "active" => leases'[b].state # "active"
            /\ \/ leases'[b] = Removed /\ leases[b].state = "active"
               \/ leases'[b].owner = leases[b].owner /\ leases'[b].target = leases[b].target]_vars
  BY <1>2 DEF Ages
<1> QED
  BY <1>3, RegistrySafe, PTL DEF Spec, TabsNeverRevive
(***************************************************************************)
(* The ambient maps.                                                       *)
(***************************************************************************)
LEMMA AmbientStep == TypeOK /\ AmbientMapsAgree /\ [Next]_vars => AmbientMapsAgree'
<1> SUFFICES ASSUME TypeOK, AmbientMapsAgree, [Next]_vars
             PROVE  AmbientMapsAgree'
  OBVIOUS
<1>1. /\ sessions \in [Sessions -> SessionRecord]
      /\ ambient_sessions \in [Identities -> Maybe(Sessions)]
      /\ ambient_identities \in [Sessions -> Maybe(Identities)]
  BY DEF TypeOK
<1>2. ASSUME \A s \in Sessions : Live(s) => Live(s)',
             UNCHANGED <<ambient_sessions, ambient_identities>>
      PROVE  AmbientMapsAgree'
  BY <1>1, <1>2 DEF AmbientMapsAgree, Live, Maybe
<1>3. ASSUME NEW s \in Sessions, NEW w, StartSession(s, w)
      PROVE  AmbientMapsAgree'
  BY <1>1, <1>2, <1>3 DEF StartSession, Live
<1>4. ASSUME NEW s \in Sessions, Touch(s)
      PROVE  AmbientMapsAgree'
  BY <1>1, <1>2, <1>4 DEF Touch, Live, SessionRecord
<1>5. ASSUME NEW i \in Identities, AmbientSessionReuse(i)
      PROVE  AmbientMapsAgree'
  BY <1>1, <1>4, <1>5 DEF AmbientSessionReuse, HasAmbientSession, Maybe
<1>6. ASSUME NEW i \in Identities, NEW s \in Sessions, NEW w, AmbientSessionCreate(i, s, w)
      PROVE  AmbientMapsAgree'
  <2>1. /\ ambient_sessions[i] = None
        /\ ambient_identities[s] = None
        /\ \A j \in Identities : ambient_sessions[j] # s
    BY <1>1, <1>6, NoneAssumption DEF AmbientSessionCreate, HasAmbientSession, AmbientMapsAgree, Live, Maybe
  <2>2. /\ sessions' = [sessions EXCEPT ![s] =
                          [status |-> "live", updated_at |-> clock, workspace |-> w]]
        /\ ambient_sessions' = [ambient_sessions EXCEPT ![i] = s]
        /\ ambient_identities' = [ambient_identities EXCEPT ![s] = i]
    BY <1>6 DEF AmbientSessionCreate
  <2>3. \A r \in Sessions : Live(r) => Live(r)'
    BY <1>1, <2>2 DEF Live
  <2>4. Live(s)'
    BY <1>1, <2>2 DEF Live
  <2>5. ASSUME NEW j \in Identities, ambient_sessions'[j] # None
        PROVE  /\ sessions'[ambient_sessions'[j]].status = "live"
               /\ ambient_identities'[ambient_sessions'[j]] = j
    <3>1. CASE j = i
      BY <1>1, <2>2, <2>4, <3>1 DEF Live
    <3>2. CASE j # i
      <4>1. /\ ambient_sessions'[j] = ambient_sessions[j]
            /\ ambient_sessions[j] \in Sessions /\ ambient_sessions[j] # s
        BY <1>1, <2>1, <2>2, <2>5, <3>2 DEF Maybe
      <4>2. Live(ambient_sessions[j]) /\ ambient_identities[ambient_sessions[j]] = j
        BY <4>1, NoneAssumption DEF AmbientMapsAgree
      <4> QED
        BY <1>1, <2>2, <2>3, <4>1, <4>2 DEF Live
    <3> QED
      BY <3>1, <3>2
  <2>6. ASSUME NEW r \in Sessions, ambient_identities'[r] # None
        PROVE  ambient_sessions'[ambient_identities'[r]] = r
    BY <1>1, <2>1, <2>2, <2>6, NoneAssumption DEF AmbientMapsAgree, Maybe
  <2> QED
    BY <2>5, <2>6 DEF AmbientMapsAgree, Live
<1>7. ASSUME NEW s \in Sessions, NEW w, BindWorkspaceRoot(s, w)
      PROVE  AmbientMapsAgree'
  BY <1>1, <1>2, <1>7 DEF BindWorkspaceRoot, Live, SessionRecord
<1>8. ASSUME NEW E \in SUBSET Sessions, NEW batch, ExpireBatch(E, batch)
      PROVE  AmbientMapsAgree'
  <2>1. /\ sessions' = [s \in Sessions |-> IF s \in E THEN Gone ELSE sessions[s]]
        /\ ambient_sessions' = [i \in Identities |->
                                  IF \E s \in E : ambient_identities[s] = i
                                  THEN None ELSE ambient_sessions[i]]
        /\ ambient_identities' =
             [s \in Sessions |-> IF s \in E THEN None ELSE ambient_identities[s]]
    BY <1>8 DEF ExpireBatch, IdentitiesWithout
  <2>2. ASSUME NEW i \in Identities, ambient_sessions'[i] # None
        PROVE  /\ sessions'[ambient_sessions'[i]].status = "live"
               /\ ambient_identities'[ambient_sessions'[i]] = i
    <3>1. /\ ambient_sessions'[i] = ambient_sessions[i]
          /\ \A s \in E : ambient_identities[s] # i
      BY <2>1, <2>2
    <3>2. /\ ambient_sessions[i] \in Sessions
          /\ Live(ambient_sessions[i]) /\ ambient_identities[ambient_sessions[i]] = i
      BY <1>1, <2>2, <3>1 DEF AmbientMapsAgree, Maybe
    <3>3. ambient_sessions[i] \notin E
      BY <3>1, <3>2
    <3> QED
      BY <2>1, <3>1, <3>2, <3>3 DEF Live
  <2>3. ASSUME NEW s \in Sessions, ambient_identities'[s] # None
        PROVE  ambient_sessions'[ambient_identities'[s]] = s
    <3>1. /\ s \notin E /\ ambient_identities'[s] = ambient_identities[s]
          /\ ambient_identities[s] \in Identities
      BY <1>1, <2>1, <2>3 DEF Maybe
    <3>2. ambient_sessions[ambient_identities[s]] = s
      BY <2>3, <3>1 DEF AmbientMapsAgree
    <3>3. ASSUME NEW r \in E, ambient_identities[r] = ambient_identities[s]
          PROVE  r = s
      <4>1. ambient_identities[r] # None
        BY <3>1, <3>3, NoneAssumption
      <4> QED
        BY <3>2, <3>3, <4>1 DEF AmbientMapsAgree
    <3> QED
      BY <2>1, <3>1, <3>2, <3>3
  <2> QED
    BY <2>2, <2>3 DEF AmbientMapsAgree, Live
<1>9. CASE UNCHANGED sessionVars
  BY <1>2, <1>9 DEF sessionVars, Live
<1>10. CASE SessionNext
  BY <1>3, <1>4, <1>5, <1>6, <1>7, <1>10 DEF SessionNext
<1>11. CASE ExpiryNext
  BY <1>8, <1>9, <1>11 DEF ExpiryNext, ExpireSessions, ExpiredIds, FinishExpiredTargetClose
<1>12. CASE TabNext
  BY <1>9, <1>12
  DEF TabNext, LeaseTab, ClaimTab, ReleaseTab, ReserveOwnedTabClose, CommitOwnedTabClose,
      FinishOwnedTabCloseReservation, RequireActiveOwnedMissing, MarkMissingTargetsNotIn, MarkMissing
<1>13. CASE Tick \/ UNCHANGED vars
  BY <1>9, <1>13 DEF Tick, vars
<1> QED
  BY <1>10, <1>11, <1>12, <1>13 DEF Next

\* An identity's ambient session is live and its own, through expiry and
\* reuse (ambient_session, remove_session's clean-up of both maps).
THEOREM AmbientMapsExact == Spec => []AmbientMapsAgree
<1>1. Init => AmbientMapsAgree
  BY DEF Init, AmbientMapsAgree
<1> QED
  BY <1>1, AmbientStep, TypeCorrect, PTL DEF Spec

(***************************************************************************)
(* The tombstones.  Their counts are exact because the sweep's reservation *)
(* stands until its close is reported, so that every report is counted;    *)
(* with the queue only because a session expires once.                     *)
(***************************************************************************)
\* The closes the sweep still owes a session.
ClosesOwed(s) == {c \in sweep_closes : c.session = s}

\* Cap eviction leaves a part of the queue, within the cap and without repetitions.
LEMMA NewestExact ==
    ASSUME NEW q \in Seq(Sessions), NEW n \in Nat, IsInjective(q)
    PROVE  /\ IsInjective(Newest(q, n)) /\ Len(Newest(q, n)) <= n
           /\ Range(Newest(q, n)) \subseteq Range(q)
<1>1. CASE Len(q) <= n
  BY <1>1 DEF Newest
<1>2. CASE Len(q) > n
  <2> DEFINE k == Len(q) - n
  <2>1. /\ Newest(q, n) = SubSeq(q, k + 1, Len(q))
        /\ Len(Newest(q, n)) = n
        /\ \A i \in 1..n : Newest(q, n)[i] = q[k + i] /\ k + i \in 1..Len(q)
    BY <1>2 DEF Newest
  <2>2. DOMAIN Newest(q, n) = 1..n
    BY <1>2 DEF Newest
  <2>3. IsInjective(Newest(q, n))
    BY <2>1, <2>2 DEF IsInjective
  <2> QED BY <2>1, <2>2, <2>3 DEF Range
<1> QED BY <1>1, <1>2

\* Queues without repetitions and without a common session put together.
LEMMA AppendExact ==
    ASSUME NEW q \in Seq(Sessions), NEW r \in Seq(Sessions), IsInjective(q), IsInjective(r),
           Range(q) \cap Range(r) = {}
    PROVE  IsInjective(q \o r) /\ Range(q \o r) \subseteq Range(q) \cup Range(r)
<1> DEFINE w == q \o r
<1>1. ASSUME NEW i \in DOMAIN w
      PROVE  /\ i \in Int
             /\ \/ i \in DOMAIN q /\ w[i] = q[i] /\ w[i] \in Range(q)
                \/ i - Len(q) \in DOMAIN r /\ w[i] = r[i - Len(q)] /\ w[i] \in Range(r)
  BY DEF Range
<1>2. IsInjective(w)
  <2> SUFFICES ASSUME NEW i \in DOMAIN w, NEW j \in DOMAIN w, w[i] = w[j] PROVE i = j
    BY DEF IsInjective
  <2>1. CASE i \in DOMAIN q /\ w[i] = q[i] /\ w[i] \in Range(q)
    BY <1>1, <2>1 DEF IsInjective
  <2>2. CASE i - Len(q) \in DOMAIN r /\ w[i] = r[i - Len(q)] /\ w[i] \in Range(r)
    <3>1. j - Len(q) \in DOMAIN r /\ w[j] = r[j - Len(q)]
      BY <1>1, <2>2
    <3>2. i - Len(q) = j - Len(q)
      BY <2>2, <3>1 DEF IsInjective
    <3> QED BY <1>1, <3>2
  <2> QED BY <1>1, <2>1, <2>2
<1>3. Range(w) \subseteq Range(q) \cup Range(r)
  <2> HIDE DEF w
  <2> QED BY <1>1 DEF Range
<1> QED BY <1>2, <1>3

\* Expiry: every expired session gets a tombstone that counts its closes, and those the
\* cap leaves no room for are dropped from queue and map alike.
LEMMA ExpireTombstones ==
    ASSUME RegistryInv, TombstonesExact, IsFiniteSet(sweep_closes),
           NEW E \in SUBSET Sessions, \A s \in E : Live(s),
           NEW batch \in Orderings(E), ExpireBatch(E, batch)
    PROVE  TombstonesExact' /\ IsFiniteSet(sweep_closes)'
<1> DEFINE closing == ToClose(E)
           order == Newest(expired_session_order \o batch, TombstoneCap)
           owned(s) == {b \in closing : leases[b].owner = s}
<1>1. /\ TypeOK /\ SweepHoldsReservation /\ TombstoneCountsExact /\ TombstoneOrderExact
      /\ \A s \in Sessions : Live(s) => expired_sessions[s] = None
  BY DEF RegistryInv, TargetInv, TombstonesExact, TombstoneCountsExact, Live
<1>2. /\ batch \in Seq(Sessions) /\ IsInjective(batch) /\ Range(batch) \subseteq E
      /\ expired_session_order \in Seq(Sessions)
  BY <1>1, OrderingsType DEF Orderings, TypeOK, Range
<1>3. Range(expired_session_order) \cap Range(batch) = {}
  BY <1>1, <1>2 DEF TombstoneOrderExact
<1>4. /\ IsInjective(expired_session_order \o batch)
      /\ Range(expired_session_order \o batch) \subseteq Range(expired_session_order) \cup E
      /\ expired_session_order \o batch \in Seq(Sessions)
  BY <1>1, <1>2, <1>3, AppendExact DEF TombstoneOrderExact
<1>5. /\ IsInjective(order) /\ Len(order) <= TombstoneCap
      /\ Range(order) \subseteq Range(expired_session_order) \cup E
  BY <1>4, NewestExact, NumbersAssumption
<1>6. IsFiniteSet(closing)
  BY FS_Subset, FiniteAssumption DEF ToClose
<1>7. \A s \in Sessions : Cardinality(owned(s)) \in Nat
  <2>1. ASSUME NEW s \in Sessions PROVE IsFiniteSet(owned(s))
    BY <1>6, FS_Subset
  <2> QED BY <2>1, FS_CardinalityType
<1>8. /\ expired_session_order' = order
      /\ expired_sessions' = [s \in Sessions |->
            IF s \notin Range(order) THEN None
            ELSE IF s \in E THEN [pending_close_targets |-> Cardinality(owned(s)), closed_targets |-> 0]
                 ELSE expired_sessions[s]]
      /\ sweep_closes' = sweep_closes \cup {CloseOf(b) : b \in closing}
      /\ sessions' = [s \in Sessions |-> IF s \in E THEN Gone ELSE sessions[s]]
  BY DEF ExpireBatch
<1>9. \A s \in Sessions : s \in Range(order) <=> expired_sessions'[s] # None
  <2>1. ASSUME NEW s \in E
        PROVE  [pending_close_targets |-> Cardinality(owned(s)), closed_targets |-> 0] # None
    BY <1>7, NoneIsNoTombstone DEF Tombstone
  <2>2. \A s \in Sessions \ E : s \in Range(order) => expired_sessions[s] # None
    BY <1>1, <1>5 DEF TombstoneOrderExact
  <2> HIDE DEF order, owned
  <2> QED BY <1>8, <2>1, <2>2
<1>10. TombstoneOrderExact'
  <2>1. Range(order) \subseteq Sessions
    BY <1>1, <1>5 DEF TombstoneOrderExact
  <2> HIDE DEF order
  <2> QED BY <1>5, <1>8, <1>9, <2>1 DEF TombstoneOrderExact
<1>11. \A b \in closing : b \in Tabs /\ leases[b].owner \in E /\ CloseOf(b).session = leases[b].owner
                          /\ CloseOf(b).tab = b
  BY DEF ToClose, CloseOf
<1>12. ASSUME NEW s \in Sessions, expired_sessions'[s] # None
       PROVE  /\ sessions'[s].status = "gone"
              /\ expired_sessions'[s].pending_close_targets = Cardinality(ClosesOwed(s)')
  <2>1. CASE s \in E
    <3>1. expired_sessions'[s].pending_close_targets = Cardinality(owned(s))
      BY <1>8, <1>12, <2>1
    <3>2. ClosesOwed(s) = {}
      BY <1>1, <2>1 DEF ClosesOwed, SweepHoldsReservation, Live
    <3>3. ClosesOwed(s)' = {CloseOf(b) : b \in owned(s)}
      BY <1>8, <1>11, <3>2 DEF ClosesOwed
    <3> DEFINE f == [b \in owned(s) |-> CloseOf(b)]
    <3>4. f \in Surjection(owned(s), ClosesOwed(s)')
      BY <3>3 DEF Surjection
    <3>5. \A b, c \in owned(s) : f[b] = f[c] => b = c
      BY <1>11
    <3>6. f \in Injection(owned(s), ClosesOwed(s)')
      BY <3>4, <3>5 DEF Surjection, Injection, IsInjective
    <3>7. IsFiniteSet(owned(s))
      BY <1>6, FS_Subset
    <3>8. Cardinality(ClosesOwed(s)') = Cardinality(owned(s))
      <4> HIDE DEF f, owned
      <4> QED BY <3>4, <3>6, <3>7, FS_Surjection
    <3> QED BY <1>8, <2>1, <3>1, <3>8 DEF Gone
  <2>2. CASE s \notin E
    <3>1. expired_sessions'[s] = expired_sessions[s] /\ expired_sessions[s] # None
      BY <1>8, <1>12, <2>2
    <3>2. ClosesOwed(s)' = ClosesOwed(s)
      BY <1>8, <1>11, <2>2 DEF ClosesOwed
    <3> QED BY <1>1, <1>8, <2>2, <3>1, <3>2 DEF TombstoneCountsExact, ClosesOwed
  <2> QED BY <2>1, <2>2
<1>13. IsFiniteSet(sweep_closes')
  <2> DEFINE S == {CloseOf(b) : b \in closing}
             f == [b \in closing |-> CloseOf(b)]
  <2>1. f \in Surjection(closing, S)
    BY DEF Surjection
  <2>2. IsFiniteSet(S)
    <3> HIDE DEF f, S, closing
    <3> QED BY <1>6, <2>1, FS_Surjection
  <2> QED BY <1>8, <2>2, FS_Union
<1> QED BY <1>10, <1>12, <1>13 DEF TombstonesExact, TombstoneCountsExact, ClosesOwed

\* A report takes one close from the session and one from its count, if it still has
\* a tombstone.
LEMMA FinishTombstones ==
    ASSUME RegistryInv, TombstonesExact, IsFiniteSet(sweep_closes),
           NEW c \in sweep_closes, NEW closed \in BOOLEAN, FinishExpiredTargetClose(c, closed)
    PROVE  TombstonesExact' /\ IsFiniteSet(sweep_closes)'
<1>1. /\ TypeOK /\ SweepHoldsReservation /\ TombstoneCountsExact /\ TombstoneOrderExact
      /\ c \in SweepClose
  BY DEF RegistryInv, TargetInv, TombstonesExact, TypeOK
<1>2. pending_target_closes[c.target] = c.tab
  BY <1>1 DEF SweepHoldsReservation
<1>3. /\ sweep_closes' = sweep_closes \ {c}
      /\ expired_sessions' = IF expired_sessions[c.session] # None
                             THEN [expired_sessions EXCEPT ![c.session] = Settled(@, closed)]
                             ELSE expired_sessions
      /\ UNCHANGED <<sessions, expired_session_order>>
  BY <1>2 DEF FinishExpiredTargetClose, sessionVars
<1>4. IsFiniteSet(sweep_closes')
  BY <1>3, FS_RemoveElement
<1>5. \A s \in Sessions : IsFiniteSet(ClosesOwed(s))
  BY FS_Subset DEF ClosesOwed
<1>6. ASSUME NEW s \in Sessions, expired_sessions[s] # None
      PROVE  /\ expired_sessions'[s] # None
             /\ expired_sessions'[s].pending_close_targets = Cardinality(ClosesOwed(s)')
  <2>0. /\ expired_sessions[s] \in Tombstone
        /\ expired_sessions[s].pending_close_targets = Cardinality(ClosesOwed(s))
    BY <1>1, <1>6 DEF TypeOK, Maybe, TombstoneCountsExact, ClosesOwed
  <2>1. CASE s = c.session
    <3>1. ClosesOwed(s)' = ClosesOwed(s) \ {c} /\ c \in ClosesOwed(s)
      BY <1>3, <2>1 DEF ClosesOwed
    <3>2. Cardinality(ClosesOwed(s)') = Cardinality(ClosesOwed(s)) - 1
      BY <1>5, <3>1, FS_RemoveElement
    <3>3. Cardinality(ClosesOwed(s)) > 0
      <4>1. Cardinality(ClosesOwed(s)) \in Nat /\ Cardinality(ClosesOwed(s)) # 0
        BY <1>5, <3>1, FS_EmptySet, FS_CardinalityType
      <4> QED BY <4>1
    <3>4. expired_sessions'[s] = Settled(expired_sessions[s], closed)
      BY <1>1, <1>3, <1>6, <2>1 DEF TypeOK
    <3>5. Settled(expired_sessions[s], closed) \in Tombstone
      BY <2>0 DEF Settled, Tombstone
    <3>6. Settled(expired_sessions[s], closed).pending_close_targets
            = expired_sessions[s].pending_close_targets - 1
      BY <2>0, <3>3 DEF Settled
    <3> QED BY <2>0, <3>2, <3>4, <3>5, <3>6, NoneIsNoTombstone
  <2>2. CASE s # c.session
    <3>1. ClosesOwed(s)' = ClosesOwed(s)
      BY <1>3, <2>2 DEF ClosesOwed
    <3>2. expired_sessions'[s] = expired_sessions[s]
      BY <1>1, <1>3, <2>2 DEF TypeOK
    <3> QED BY <1>6, <2>0, <3>1, <3>2
  <2> QED BY <2>1, <2>2
<1>7. \A s \in Sessions : expired_sessions'[s] # None <=> expired_sessions[s] # None
  <2>1. ASSUME NEW s \in Sessions, expired_sessions[s] = None PROVE expired_sessions'[s] = None
    BY <1>1, <1>3, <2>1 DEF TypeOK
  <2> QED BY <1>6, <2>1
<1>8. TombstoneCountsExact'
  BY <1>1, <1>3, <1>6, <1>7 DEF TombstoneCountsExact, ClosesOwed
<1>9. TombstoneOrderExact'
  BY <1>1, <1>3, <1>7 DEF TombstoneOrderExact
<1> QED BY <1>4, <1>8, <1>9 DEF TombstonesExact

\* Everything else leaves tombstones and closes alone and revives no session.
LEMMA TombstoneStep ==
    ASSUME RegistryInv, TombstonesExact, IsFiniteSet(sweep_closes), [Next]_vars
    PROVE  TombstonesExact' /\ IsFiniteSet(sweep_closes)'
<1>1. TypeOK
  BY DEF RegistryInv
<1>2. ASSUME UNCHANGED <<expired_sessions, expired_session_order, sweep_closes>>,
             \A s \in Sessions : sessions[s].status = "gone" => sessions'[s].status = "gone"
      PROVE  TombstonesExact' /\ IsFiniteSet(sweep_closes)'
  BY <1>2 DEF TombstonesExact, TombstoneCountsExact, TombstoneOrderExact
<1>3. CASE SessionNext
  BY <1>1, <1>2, <1>3
  DEF SessionNext, StartSession, Touch, AmbientSessionReuse, AmbientSessionCreate,
      BindWorkspaceRoot, expiryVars, TypeOK, SessionRecord, Live, HasAmbientSession
<1>4. CASE TabNext
  BY ZenonT(60), <1>2, <1>4
  DEF TabNext, LeaseTab, ClaimTab, ReleaseTab, ReserveOwnedTabClose, CommitOwnedTabClose,
      FinishOwnedTabCloseReservation, RequireActiveOwnedMissing, MarkMissingTargetsNotIn,
      MarkMissing, sessionVars, expiryVars
<1>5. CASE ExpiryNext
  BY <1>5, ExpireTombstones, FinishTombstones
  DEF ExpiryNext, ExpireSessions, ExpiredIds
<1>6. CASE Tick \/ UNCHANGED vars
  BY <1>2, <1>6 DEF Tick, vars, sessionVars, expiryVars
<1> QED BY <1>3, <1>4, <1>5, <1>6 DEF Next

\* The tombstone of an expired session counts the closes the sweep still owes it, and queue
\* and map of the tombstones agree within the cap (push_expired_session_tombstone,
\* finish_expired_target_close).
THEOREM TombstonesAreExact == Spec => []TombstonesExact
<1>1. Init => TombstonesExact /\ IsFiniteSet(sweep_closes)
  BY FS_EmptySet, NumbersAssumption
  DEF Init, TombstonesExact, TombstoneCountsExact, TombstoneOrderExact, IsInjective, Range
<1> QED
  BY <1>1, RegistrySafe, TombstoneStep, PTL DEF Spec

(***************************************************************************)
(* The registry implements TabOwnership: every step of it is one step of   *)
(* the ownership protocol, or none.  The argument uses the registry's      *)
(* invariant throughout: the driver of a target is read off the active     *)
(* index, which only says what the lease states say (ActiveIndexExact); a  *)
(* batch expiry is one Expire because duty and lease agree                 *)
(* (CleanupFollowsOwner); a sweep's report is one Swept because it still   *)
(* has its reservation (SweepHoldsReservation).                            *)
(***************************************************************************)
\* One close per target: the refinement's choice is no choice.
SweepingExact == \A c \in sweep_closes : Sweeping(c.target) = c.session

MapInv == RegistryInv /\ SweepingExact

LEMMA SweepingIsExact == RegistryInv => SweepingExact
<1> SUFFICES ASSUME RegistryInv, NEW c \in sweep_closes
             PROVE  Sweeping(c.target) = c.session
  BY DEF SweepingExact
<1> DEFINE d == CHOOSE e \in sweep_closes : e.target = c.target
<1>1. d \in sweep_closes /\ d.target = c.target
  OBVIOUS
<1>2. d.tab = c.tab
  BY <1>1 DEF RegistryInv, TargetInv, SweepHoldsReservation
<1>3. d.session = c.session
  BY <1>1, <1>2, SweptLease DEF RegistryInv, TargetInv
<1> QED
  BY <1>3 DEF Sweeping

LEMMA InitMaps == Init => Ownership!Init
BY DEF Init, Ownership!Init, Live, NoSession, Driver, Duty, Closing, Sweeping

(***************************************************************************)
(* Session steps.                                                          *)
(***************************************************************************)
TargetsSame ==
    /\ \A t \in Targets : Driver(t)' = Driver(t)
    /\ \A t \in Targets : Duty(t)' = Duty(t)
    /\ \A t \in Targets : Sweeping(t)' = Sweeping(t)
    /\ \A t \in Targets : Closing(t)' <=> Closing(t)
    /\ expired_closed_targets' = expired_closed_targets

LEMMA SameTargets ==
    ASSUME UNCHANGED <<targetVars, sweep_closes>>
    PROVE  TargetsSame
BY DEF TargetsSame, targetVars, Driver, Duty, Sweeping, Closing

LEMMA SessionStepMaps ==
    ASSUME MapInv, SessionNext
    PROVE  [Ownership!Next]_(Ownership!vars)
<1>1. sessions \in [Sessions -> SessionRecord]
  BY DEF MapInv, RegistryInv, TypeOK
<1>2. ASSUME NEW s \in Sessions, NEW record, record.status = "live",
             sessions[s].status = "unissued",
             sessions' = [sessions EXCEPT ![s] = record],
             TargetsSame
      PROVE  Ownership!Next
  <2>1. Ownership!Begin(s)
    BY <1>1, <1>2 DEF Ownership!Begin, TargetsSame, Live
  <2> QED
    BY <2>1 DEF Ownership!Next
<1>3. ASSUME \A s \in Sessions : sessions'[s].status = sessions[s].status, TargetsSame
      PROVE  UNCHANGED Ownership!vars
  BY <1>3 DEF Ownership!vars, TargetsSame, Live
<1>4. ASSUME NEW s \in Sessions, NEW w, StartSession(s, w)
      PROVE  Ownership!Next
  <2>1. TargetsSame
    BY <1>4, SameTargets DEF StartSession, expiryVars
  <2> QED
    BY <1>2, <1>4, <2>1 DEF StartSession
<1>5. ASSUME NEW s \in Sessions, Touch(s)
      PROVE  UNCHANGED Ownership!vars
  <2>1. TargetsSame
    BY <1>5, SameTargets DEF Touch, expiryVars
  <2>2. \A r \in Sessions : sessions'[r].status = sessions[r].status
    BY <1>1, <1>5 DEF Touch, SessionRecord
  <2> QED
    BY <1>3, <2>1, <2>2
<1>6. ASSUME NEW i \in Identities, AmbientSessionReuse(i)
      PROVE  UNCHANGED Ownership!vars
  BY <1>5, <1>6 DEF AmbientSessionReuse, HasAmbientSession, MapInv, RegistryInv, TypeOK, Maybe
<1>7. ASSUME NEW i \in Identities, NEW s \in Sessions, NEW w, AmbientSessionCreate(i, s, w)
      PROVE  Ownership!Next
  <2>1. TargetsSame
    BY <1>7, SameTargets DEF AmbientSessionCreate, expiryVars
  <2> QED
    BY <1>2, <1>7, <2>1 DEF AmbientSessionCreate
<1>8. ASSUME NEW s \in Sessions, NEW w, BindWorkspaceRoot(s, w)
      PROVE  UNCHANGED Ownership!vars
  <2>1. TargetsSame
    BY <1>8, SameTargets DEF BindWorkspaceRoot, expiryVars
  <2>2. \A r \in Sessions : sessions'[r].status = sessions[r].status
    BY <1>1, <1>8 DEF BindWorkspaceRoot, SessionRecord
  <2> QED
    BY <1>3, <2>1, <2>2
<1> QED
  BY <1>4, <1>5, <1>6, <1>7, <1>8 DEF SessionNext
(***************************************************************************)
(* A target gets a driver: lease_tab and claim_tab.                        *)
(***************************************************************************)
LEMMA NewDriver ==
    ASSUME RegistryInv, NEW s \in Sessions, NEW t \in Targets, NEW b \in Tabs, FreshTab(b),
           leases'[b] = ActiveLease(s, t),
           \A c \in Tabs : c # b /\ c # active_target_owners[t] => leases'[c] = leases[c],
           active_target_owners' = [active_target_owners EXCEPT ![t] = b]
    PROVE  \A u \in Targets : Driver(u)' = IF u = t THEN s ELSE Driver(u)
<1>1. active_target_owners \in [Targets -> Maybe(Tabs)]
  BY DEF RegistryInv, TypeOK
<1>2. ASSUME NEW u \in Targets, u = t
      PROVE  Driver(u)' = s
  BY <1>1, <1>2, NoneAssumption DEF Driver, ActiveLease
<1>3. ASSUME NEW u \in Targets, u # t
      PROVE  Driver(u)' = Driver(u)
  <2>1. active_target_owners'[u] = active_target_owners[u]
    BY <1>1, <1>3
  <2>2. CASE active_target_owners[u] = None
    BY <2>1, <2>2 DEF Driver
  <2>3. CASE active_target_owners[u] # None
    <3> DEFINE c == active_target_owners[u]
    <3>1. c \in Tabs /\ leases[c].state = "active" /\ leases[c].target = u
      BY <1>1, <2>3 DEF RegistryInv, TargetInv, ActiveIndexExact, Maybe
    <3>2. c # b
      BY <3>1 DEF FreshTab
    <3>3. c # active_target_owners[t]
      BY <3>1, <1>3, <2>3 DEF RegistryInv, TargetInv, ActiveIndexExact
    <3>4. leases'[c] = leases[c]
      BY <3>1, <3>2, <3>3
    <3> QED
      BY <2>1, <3>4 DEF Driver
  <2> QED
    BY <2>2, <2>3
<1> QED
  BY <1>2, <1>3

LEMMA Undriven ==
    ASSUME RegistryInv, NEW t \in Targets, ~HasActiveLease(t)
    PROVE  active_target_owners[t] = None /\ Driver(t) = None
BY DEF RegistryInv, TargetInv, ActiveIndexExact, HasActiveLease, Driver

LEMMA LeaseMaps ==
    ASSUME MapInv, NEW s \in Sessions, NEW t \in Targets, NEW b \in Tabs, LeaseTab(s, t, b)
    PROVE  Ownership!Create(s, t)
<1> USE DEF MapInv
<1>1. /\ leases \in [Tabs -> TabLease]
      /\ cleanup_owned_targets \in [Targets -> Maybe(CleanupOwnership)]
  BY DEF RegistryInv, TypeOK
<1>2. \A u \in Targets : Driver(u)' = IF u = t THEN s ELSE Driver(u)
  BY <1>1, NewDriver DEF LeaseTab
<1>3. Driver(t) = None
  BY Undriven DEF LeaseTab
<1>4. \A u \in Targets : Duty(u)' = IF u = t THEN s ELSE Duty(u)
  <2>1. cleanup_owned_targets' = [cleanup_owned_targets EXCEPT ![t] = [session |-> s, tab |-> b]]
    BY DEF LeaseTab, Provenance
  <2>2. [session |-> s, tab |-> b] # None
    BY NoneIsNoRecord
  <2> QED
    BY <1>1, <2>1, <2>2 DEF Duty
<1>5. /\ \A u \in Targets : Sweeping(u)' = Sweeping(u)
      /\ \A u \in Targets : Closing(u)' <=> Closing(u)
      /\ \A r \in Sessions : sessions'[r] = sessions[r]
      /\ expired_closed_targets' = expired_closed_targets
  BY DEF LeaseTab, sessionVars, expiryVars, Sweeping, Closing
<1>6. Live(s) /\ ~Closing(t) /\ t \notin expired_closed_targets
  BY DEF LeaseTab, Withdrawn
<1> QED
  BY <1>2, <1>3, <1>4, <1>5, <1>6 DEF Ownership!Create, Live

LEMMA ClaimMaps ==
    ASSUME MapInv, NEW s \in Sessions, NEW t \in Targets, NEW b \in Tabs,
           NEW takeover \in BOOLEAN, NEW instructed \in BOOLEAN,
           ClaimTab(s, t, b, takeover, instructed)
    PROVE  Ownership!Adopt(s, t)
<1> USE DEF MapInv
<1>1. cleanup_owned_targets \in [Targets -> Maybe(CleanupOwnership)]
  BY DEF RegistryInv, TypeOK
<1>2. \A u \in Targets : Driver(u)' = IF u = t THEN s ELSE Driver(u)
  <2>1. leases' = [c \in Tabs |->
                     CASE c = b -> ActiveLease(s, t)
                       [] c # b /\ HasActiveLease(t) /\ c = active_target_owners[t] -> Removed
                       [] OTHER -> leases[c]]
    BY DEF ClaimTab
  <2>2. leases'[b] = ActiveLease(s, t)
    BY <2>1
  <2>3. \A c \in Tabs : c # b /\ c # active_target_owners[t] => leases'[c] = leases[c]
    BY <2>1
  <2> QED
    BY <2>2, <2>3, NewDriver DEF ClaimTab
<1>3. \A u \in Targets : Duty(u)' = IF u = t THEN (IF Duty(t) = None THEN None ELSE s)
                                             ELSE Duty(u)
  <2>1. cleanup_owned_targets'
          = [cleanup_owned_targets EXCEPT ![t] = IF @ = None THEN None
                                                 ELSE [session |-> s, tab |-> b]]
    BY DEF ClaimTab, Inherited, Provenance
  <2>2. [session |-> s, tab |-> b] # None
    BY NoneIsNoRecord
  <2>3. cleanup_owned_targets[t] # None => Duty(t) # None
    BY <1>1, NoneAssumption DEF Duty, Maybe, CleanupOwnership
  <2> QED
    BY <1>1, <2>1, <2>2, <2>3 DEF Duty
<1>4. /\ \A u \in Targets : Sweeping(u)' = Sweeping(u)
      /\ \A u \in Targets : Closing(u)' <=> Closing(u)
      /\ \A r \in Sessions : sessions'[r] = sessions[r]
      /\ expired_closed_targets' = expired_closed_targets
  BY DEF ClaimTab, sessionVars, expiryVars, Sweeping, Closing
<1>5. Live(s) /\ ~Closing(t) /\ t \notin expired_closed_targets
  BY DEF ClaimTab, Withdrawn
<1> QED
  BY <1>2, <1>3, <1>4, <1>5 DEF Ownership!Adopt, Live
(***************************************************************************)
(* Leases end: Left(B) are the targets the tabs of B drove, Freed(C) those *)
(* whose duty the tabs of C had.                                           *)
(***************************************************************************)
Left(B) == {t \in Targets : active_target_owners[t] \in B}
Freed(C) == {t \in Targets : cleanup_owned_targets[t] # None /\ cleanup_owned_targets[t].tab \in C}

LEMMA WithdrawalDrivers ==
    ASSUME RegistryInv, NEW B \in SUBSET Tabs, NEW C \in SUBSET B,
           \A b \in B : Releasable(b),
           \A b \in Tabs : leases'[b].owner = leases[b].owner,
           active_target_owners' = WithoutActive(B),
           cleanup_owned_targets' = WithoutCleanup(C)
    PROVE  /\ Freed(C) \subseteq Left(B)
           /\ \A t \in Left(B) : Driver(t) # None
           /\ \A t \in Targets : Driver(t)' = IF t \in Left(B) THEN None ELSE Driver(t)
           /\ \A t \in Targets : Duty(t)' = IF t \in Freed(C) THEN None ELSE Duty(t)
<1> USE DEF RegistryInv, TargetInv
<1>1. /\ active_target_owners \in [Targets -> Maybe(Tabs)]
      /\ cleanup_owned_targets \in [Targets -> Maybe(CleanupOwnership)]
  BY DEF TypeOK
<1>2. ASSUME NEW t \in Freed(C)
      PROVE  /\ t \in Left(B)
             /\ leases[cleanup_owned_targets[t].tab].target = t
  <2> DEFINE b == cleanup_owned_targets[t].tab
  <2>1. b \in B /\ leases[b].target = t /\ leases[b].state \in {"active", "released"}
    BY DEF Freed, CleanupFollowsOwner
  <2>2. leases[b].state = "active"
    BY <2>1 DEF Releasable
  <2>3. active_target_owners[t] = b
    BY <2>1, <2>2 DEF ActiveIndexExact
  <2> QED
    BY <2>1, <2>3 DEF Left, Freed
<1>3. ASSUME NEW t \in Left(B)
      PROVE  Driver(t) # None /\ leases[active_target_owners[t]].target = t
  BY <1>1, NoneAssumption DEF Left, Driver, HeldByLiveSessions, ActiveIndexExact
<1>4. ASSUME NEW t \in Targets
      PROVE  active_target_owners'[t] = IF t \in Left(B) THEN None ELSE active_target_owners[t]
  BY <1>3 DEF WithoutActive, Left
<1>5. ASSUME NEW t \in Targets
      PROVE  cleanup_owned_targets'[t] = IF t \in Freed(C) THEN None ELSE cleanup_owned_targets[t]
  BY <1>2 DEF WithoutCleanup, OwnsCleanup, Freed
<1>6. ASSUME NEW t \in Targets
      PROVE  Driver(t)' = IF t \in Left(B) THEN None ELSE Driver(t)
  BY <1>1, <1>4 DEF Driver, Maybe
<1>7. ASSUME NEW t \in Targets
      PROVE  Duty(t)' = IF t \in Freed(C) THEN None ELSE Duty(t)
  BY <1>5 DEF Duty
<1> QED
  BY <1>2, <1>3, <1>6, <1>7

LEMMA GiveUpMaps ==
    ASSUME MapInv, NEW B \in SUBSET Tabs, NEW C \in SUBSET B,
           \A b \in B : Releasable(b),
           \A b \in Tabs : leases'[b].owner = leases[b].owner,
           active_target_owners' = WithoutActive(B),
           cleanup_owned_targets' = WithoutCleanup(C),
           \A t \in Targets : Closing(t)' <=> Closing(t),
           UNCHANGED <<sessions, expired_closed_targets, sweep_closes>>
    PROVE  Ownership!Next
<1>1. /\ Freed(C) \subseteq Left(B)
      /\ \A t \in Left(B) : Driver(t) # None
      /\ \A t \in Targets : Driver(t)' = IF t \in Left(B) THEN None ELSE Driver(t)
      /\ \A t \in Targets : Duty(t)' = IF t \in Freed(C) THEN None ELSE Duty(t)
  BY WithdrawalDrivers DEF MapInv
<1>2. \A t \in Targets : Sweeping(t)' = Sweeping(t)
  BY DEF Sweeping
<1>3. \A s \in Sessions : Live(s)' <=> Live(s)
  BY DEF Live
<1>4. Left(B) \in SUBSET Targets
  BY DEF Left
<1>5. Ownership!GiveUp(Left(B), Freed(C))
  BY <1>1, <1>2, <1>3, <1>4 DEF Ownership!GiveUp
<1> QED
  BY <1>1, <1>4, <1>5 DEF Ownership!Next

LEMMA OwnersKept ==
    ASSUME RegistryInv, NEW B \in SUBSET Tabs, NEW state \in STRING,
           leases' = [b \in Tabs |-> IF b \in B THEN [leases[b] EXCEPT !.state = state]
                                                ELSE leases[b]]
    PROVE  \A b \in Tabs : leases'[b].owner = leases[b].owner
BY DEF RegistryInv, TypeOK, TabLease

LEMMA OwnerKept ==
    ASSUME RegistryInv, NEW b \in Tabs, NEW state \in STRING,
           leases' = [leases EXCEPT ![b].state = state]
    PROVE  \A c \in Tabs : leases'[c].owner = leases[c].owner
BY DEF RegistryInv, TypeOK, TabLease

LEMMA MarkMissingMaps ==
    ASSUME MapInv, NEW B \in SUBSET Tabs, \A b \in B : leases[b].state = "active", MarkMissing(B)
    PROVE  Ownership!Next
<1>1. \A b \in Tabs : leases'[b].owner = leases[b].owner
  BY OwnersKept DEF MarkMissing, MapInv
<1>2. \A t \in Targets : Closing(t)' <=> Closing(t)
  BY DEF MarkMissing, Closing
<1>3. \A b \in B : Releasable(b)
  BY DEF Releasable
<1> QED
  BY <1>1, <1>2, <1>3, GiveUpMaps DEF MarkMissing, sessionVars, expiryVars

LEMMA ReleaseMaps ==
    ASSUME MapInv, NEW s \in Sessions, NEW b \in Tabs, NEW leave_visible \in BOOLEAN,
           ReleaseTab(s, b, leave_visible)
    PROVE  Ownership!Next
<1> DEFINE C == IF leave_visible THEN {b} ELSE {}
<1>1. \A c \in Tabs : leases'[c].owner = leases[c].owner
  BY OwnerKept DEF ReleaseTab, MapInv
<1>2. \A t \in Targets : Closing(t)' <=> Closing(t)
  BY DEF ReleaseTab, Closing
<1>3. \A c \in {b} : Releasable(c)
  BY DEF ReleaseTab
<1>4. C \in SUBSET {b} /\ cleanup_owned_targets' = WithoutCleanup(C)
  BY DEF ReleaseTab
<1>5. {b} \in SUBSET Tabs /\ active_target_owners' = WithoutActive({b})
  BY DEF ReleaseTab
<1>6. UNCHANGED <<sessions, expired_closed_targets, sweep_closes>>
  BY DEF ReleaseTab, sessionVars, expiryVars
<1> HIDE DEF C
<1> QED
  BY <1>1, <1>2, <1>3, <1>4, <1>5, <1>6, GiveUpMaps
(***************************************************************************)
(* The owner's close.                                                      *)
(***************************************************************************)
LEMMA ReserveMaps ==
    ASSUME MapInv, NEW s \in Sessions, NEW b \in Tabs, ReserveOwnedTabClose(s, b)
    PROVE  Ownership!Next
<1> DEFINE t == leases[b].target
<1>1. t \in Targets /\ ~Closing(t)
  BY DEF ReserveOwnedTabClose, RequireOwnedTab, MapInv, RegistryInv, TargetInv, LeasesComplete
<1>2. \A u \in Targets : Closing(u)' <=> Closing(u) \/ u = t
  BY <1>1, NoneAssumption DEF ReserveOwnedTabClose, Closing, MapInv, RegistryInv, TypeOK
<1>3. /\ \A u \in Targets : Driver(u)' = Driver(u)
      /\ \A u \in Targets : Duty(u)' = Duty(u)
      /\ \A u \in Targets : Sweeping(u)' = Sweeping(u)
      /\ \A r \in Sessions : sessions'[r] = sessions[r]
      /\ expired_closed_targets' = expired_closed_targets
  BY DEF ReserveOwnedTabClose, Driver, Duty, Sweeping, sessionVars, expiryVars
<1> HIDE DEF t
<1>4. Ownership!Reserve(t)
  BY <1>1, <1>2, <1>3 DEF Ownership!Reserve, Live
<1> QED
  BY <1>1, <1>4 DEF Ownership!Next

\* A reservation of the sweep is for another tab.
LEMMA NotSweeping ==
    ASSUME RegistryInv, NEW t \in Targets,
           \A c \in sweep_closes : c.tab # pending_target_closes[t]
    PROVE  Sweeping(t) = None
BY DEF Sweeping, RegistryInv, TargetInv, SweepHoldsReservation

LEMMA FinishReservationMaps ==
    ASSUME MapInv, NEW t \in Targets, NEW b \in Tabs, FinishOwnedTabCloseReservation(t, b)
    PROVE  Ownership!Next
<1>1. Closing(t) /\ Sweeping(t) = None
  BY NotSweeping, NoneAssumption DEF FinishOwnedTabCloseReservation, Closing, MapInv
<1>2. \A u \in Targets : Closing(u)' <=> Closing(u) /\ u # t
  BY DEF FinishOwnedTabCloseReservation, Closing, MapInv, RegistryInv, TypeOK
<1>3. /\ \A u \in Targets : Driver(u)' = Driver(u)
      /\ \A u \in Targets : Duty(u)' = Duty(u)
      /\ \A u \in Targets : Sweeping(u)' = Sweeping(u)
      /\ \A r \in Sessions : sessions'[r] = sessions[r]
      /\ expired_closed_targets' = expired_closed_targets
  BY DEF FinishOwnedTabCloseReservation, Driver, Duty, Sweeping, sessionVars, expiryVars
<1>4. Ownership!Unreserve(t)
  BY <1>1, <1>2, <1>3 DEF Ownership!Unreserve, Live
<1> QED
  BY <1>4 DEF Ownership!Next

\* A committed close retires the target when the tab still drives it, and
\* otherwise ends the reservation, if it is still there.
LEMMA CommitMaps ==
    ASSUME MapInv, NEW s \in Sessions, NEW b \in Tabs, CommitOwnedTabClose(s, b)
    PROVE  Ownership!Next
<1> DEFINE t == leases[b].target
<1>1. /\ t \in Targets /\ Releasable(b)
      /\ \A c \in sweep_closes : c.tab # b
  BY SweptLease DEF CommitOwnedTabClose, RequireOwnedTab, Releasable, MapInv, RegistryInv,
                    TargetInv, LeasesComplete
<1>2. /\ \A c \in Tabs : leases'[c].owner = leases[c].owner
      /\ active_target_owners' = WithoutActive({b})
      /\ cleanup_owned_targets' = WithoutCleanup({b})
  BY OwnerKept DEF CommitOwnedTabClose, MapInv
<1>3. /\ \A u \in Targets : Sweeping(u)' = Sweeping(u)
      /\ \A r \in Sessions : sessions'[r] = sessions[r]
      /\ UNCHANGED <<sessions, expired_closed_targets, sweep_closes>>
  BY DEF CommitOwnedTabClose, Sweeping, sessionVars, expiryVars
<1>4. CASE pending_target_closes[t] # b
  <2>1. \A u \in Targets : Closing(u)' <=> Closing(u)
    BY <1>4 DEF CommitOwnedTabClose, Closing, MapInv, RegistryInv, TypeOK
  <2> QED
    BY <1>1, <1>2, <1>3, <2>1, GiveUpMaps
<1>5. CASE pending_target_closes[t] = b
  <2>1. Closing(t) /\ Sweeping(t) = None
    BY <1>1, <1>5, NotSweeping, NoneAssumption DEF Closing, MapInv
  <2>2. \A u \in Targets : Closing(u)' <=> Closing(u) /\ u # t
    BY <1>1, <1>5 DEF CommitOwnedTabClose, Closing, MapInv, RegistryInv, TypeOK
  <2>3. /\ Freed({b}) \subseteq Left({b})
        /\ \A u \in Left({b}) : Driver(u) # None
        /\ \A u \in Targets : Driver(u)' = IF u \in Left({b}) THEN None ELSE Driver(u)
        /\ \A u \in Targets : Duty(u)' = IF u \in Freed({b}) THEN None ELSE Duty(u)
    <3>1. RegistryInv /\ {b} \in SUBSET Tabs /\ {b} \in SUBSET {b}
      BY DEF MapInv
    <3>2. \A c \in {b} : Releasable(c)
      BY <1>1
    <3> QED
      BY <1>2, <3>1, <3>2, WithdrawalDrivers
  <2>4. Left({b}) \subseteq {t}
    BY NoneAssumption DEF Left, MapInv, RegistryInv, TargetInv, ActiveIndexExact
  <2>5. CASE t \in Left({b})
    <3>1. t \in Freed({b}) \/ Duty(t) = None
      BY <1>1, <2>5, NoneAssumption
      DEF Freed, Left, Duty, MapInv, RegistryInv, TargetInv, CleanupFollowsOwner
    <3>2. /\ \A u \in Targets : Driver(u)' = IF u = t THEN None ELSE Driver(u)
          /\ \A u \in Targets : Duty(u)' = IF u = t THEN None ELSE Duty(u)
      BY <2>3, <2>4, <2>5, <3>1
    <3>3. Driver(t) # None
      BY <2>3, <2>5
    <3> HIDE DEF t
    <3>4. Ownership!Retire(t)
      BY <1>1, <1>3, <2>1, <2>2, <3>2, <3>3 DEF Ownership!Retire, Live
    <3> QED
      BY <1>1, <3>4 DEF Ownership!Next
  <2>6. CASE t \notin Left({b})
    <3>1. /\ \A u \in Targets : Driver(u)' = Driver(u)
          /\ \A u \in Targets : Duty(u)' = Duty(u)
      BY <2>3, <2>4, <2>6
    <3> HIDE DEF t
    <3>2. Ownership!Unreserve(t)
      BY <1>1, <1>3, <2>1, <2>2, <3>1 DEF Ownership!Unreserve, Live
    <3> QED
      BY <1>1, <3>2 DEF Ownership!Next
  <2> QED
    BY <2>5, <2>6
<1> QED
  BY <1>4, <1>5

LEMMA TabStepMaps ==
    ASSUME MapInv, TabNext
    PROVE  Ownership!Next
<1>1. ASSUME NEW s \in Sessions, NEW t \in Targets, NEW b \in Tabs, LeaseTab(s, t, b)
      PROVE  Ownership!Next
  BY <1>1, LeaseMaps DEF Ownership!Next
<1>2. ASSUME NEW s \in Sessions, NEW t \in Targets, NEW b \in Tabs,
             NEW takeover \in BOOLEAN, NEW instructed \in BOOLEAN,
             ClaimTab(s, t, b, takeover, instructed)
      PROVE  Ownership!Next
  <2>1. Ownership!Adopt(s, t)
    BY <1>2, ClaimMaps
  <2> QED
    BY <2>1 DEF Ownership!Next
<1>3. ASSUME NEW s \in Sessions, NEW b \in Tabs, RequireActiveOwnedMissing(s, b)
      PROVE  Ownership!Next
  <2>1. {b} \in SUBSET Tabs /\ (\A c \in {b} : leases[c].state = "active") /\ MarkMissing({b})
    BY <1>3 DEF RequireActiveOwnedMissing
  <2> QED
    BY <2>1, MarkMissingMaps
<1>4. ASSUME NEW visible \in SUBSET Targets, MarkMissingTargetsNotIn(visible)
      PROVE  Ownership!Next
  <2>1. /\ Vanished(visible) \in SUBSET Tabs
        /\ \A b \in Vanished(visible) : leases[b].state = "active"
    BY DEF Vanished, MapInv, RegistryInv, TypeOK, Maybe, TargetInv, ActiveIndexExact
  <2>2. MarkMissing(Vanished(visible))
    BY <1>4 DEF MarkMissingTargetsNotIn
  <2> QED
    BY <2>1, <2>2, MarkMissingMaps
<1> QED
  BY <1>1, <1>2, <1>3, <1>4, ReleaseMaps, ReserveMaps, CommitMaps, FinishReservationMaps DEF TabNext
(***************************************************************************)
(* Expiry: a batch is one Expire, a report one Swept.                      *)
(***************************************************************************)
Due(E) == {t \in Targets : Duty(t) \in E}

\* The targets the sweep closes are those the ended sessions have to clean up.
LEMMA DueIsToClose ==
    ASSUME RegistryInv, NEW E \in SUBSET Sessions, NEW t \in Targets
    PROVE  /\ t \in Due(E) => \E b \in ToClose(E) : leases[b].target = t
           /\ \A b \in ToClose(E) : leases[b].target = t =>
                 /\ t \in Due(E) /\ OwnsCleanup(t, b) /\ leases[b].owner = Duty(t)
<1> USE DEF RegistryInv, TargetInv
<1> DEFINE d == cleanup_owned_targets[t]
<1>1. ASSUME t \in Due(E)
      PROVE  \E b \in ToClose(E) : leases[b].target = t
  <2>1. d # None /\ d.session \in E /\ d \in CleanupOwnership
    BY <1>1, NoneAssumption DEF Due, Duty, TypeOK, Maybe
  <2>2. /\ d.tab \in Tabs
        /\ leases[d.tab].state \in {"active", "released"}
        /\ leases[d.tab].target = t
        /\ leases[d.tab].owner = d.session
    BY <2>1 DEF CleanupFollowsOwner, CleanupOwnership
  <2>3. d = Provenance(leases[d.tab].owner, d.tab)
    BY <2>1, <2>2 DEF Provenance, CleanupOwnership
  <2>4. t # None
    BY NoneAssumption
  <2>5. CleansUp(d.tab)
    BY <2>2, <2>3, <2>4 DEF CleansUp
  <2>6. d.tab \in ToClose(E)
    BY <2>1, <2>2, <2>5 DEF ToClose
  <2> QED
    BY <2>2, <2>6
<1>2. ASSUME NEW b \in ToClose(E), leases[b].target = t
      PROVE  t \in Due(E) /\ OwnsCleanup(t, b) /\ leases[b].owner = Duty(t)
  <2>1. /\ b \in Tabs /\ leases[b].owner \in E /\ leases[b].owner \in Sessions
        /\ d = [session |-> leases[b].owner, tab |-> b]
    BY <1>2 DEF ToClose, CleansUp, Provenance
  <2>2. d # None
    <3>1. d \in [session : Sessions, tab : Tabs]
      BY <2>1
    <3> QED
      BY <3>1, NoneIsNoRecord
  <2>3. d.session = leases[b].owner /\ d.tab = b
    BY <2>1
  <2> QED
    BY <2>1, <2>2, <2>3 DEF Due, Duty, OwnsCleanup
<1> QED
  BY <1>1, <1>2

LEMMA ExpireMaps ==
    ASSUME MapInv, MapInv', NEW E \in SUBSET Sessions, E # {}, \A s \in E : Live(s),
           NEW batch, ExpireBatch(E, batch)
    PROVE  Ownership!Next
<1> DEFINE closing == ToClose(E)
           released == ToRelease(E)
<1>1. /\ leases \in [Tabs -> TabLease]
      /\ active_target_owners \in [Targets -> Maybe(Tabs)]
      /\ cleanup_owned_targets \in [Targets -> Maybe(CleanupOwnership)]
      /\ None \notin E
  BY NoneAssumption DEF MapInv, RegistryInv, TypeOK
<1>2. \A s \in Sessions : sessions'[s] = IF s \in E THEN Gone ELSE sessions[s]
  BY DEF ExpireBatch
<1>3. ASSUME NEW b \in Tabs
      PROVE  leases'[b].owner = leases[b].owner
  <2>1. leases' = [a \in Tabs |->
                     CASE a \in closing  -> [leases[a] EXCEPT !.state = "closed"]
                       [] a \in released -> [leases[a] EXCEPT !.state = "released"]
                       [] OTHER          -> leases[a]]
    BY DEF ExpireBatch
  <2>2. b \in closing => b \notin released
    BY DEF ToClose, ToRelease
  <2> HIDE DEF closing, released
  <2> QED
    BY <1>1, <2>1, <2>2 DEF TabLease
<1>4. ASSUME NEW t \in Targets
      PROVE  Driver(t)' = IF Driver(t) \in E THEN None ELSE Driver(t)
  <2> DEFINE b == active_target_owners[t]
  <2>1. active_target_owners'[t] = IF \E c \in closing \cup released :
                                         leases[c].target = t /\ active_target_owners[t] = c
                                   THEN None ELSE active_target_owners[t]
    BY DEF ExpireBatch, WithoutActive
  <2>2. CASE b = None
    BY <1>1, <2>1, <2>2 DEF Driver
  <2>3. CASE b # None
    <3>1. b \in Tabs /\ leases[b].state = "active" /\ leases[b].target = t
      BY <1>1, <2>3 DEF MapInv, RegistryInv, TargetInv, ActiveIndexExact, Maybe
    <3>2. b \in closing \cup released <=> leases[b].owner \in E
      BY <3>1 DEF ToClose, ToRelease
    <3> HIDE DEF closing, released
    <3>3. active_target_owners'[t] = IF leases[b].owner \in E THEN None ELSE b
      BY <2>1, <3>1, <3>2
    <3> QED
      BY <2>3, <1>3, <3>1, <3>3 DEF Driver
  <2> QED
    BY <2>2, <2>3
<1>5. ASSUME NEW t \in Targets
      PROVE  Duty(t)' = IF t \in Due(E) THEN None ELSE Duty(t)
  <2>1. cleanup_owned_targets'[t] = IF \E b \in closing : leases[b].target = t /\ OwnsCleanup(t, b)
                                    THEN None ELSE cleanup_owned_targets[t]
    BY DEF ExpireBatch, WithoutCleanup
  <2>2. (\E b \in closing : leases[b].target = t /\ OwnsCleanup(t, b)) <=> t \in Due(E)
    BY DueIsToClose DEF MapInv
  <2>3. cleanup_owned_targets'[t] = IF t \in Due(E) THEN None ELSE cleanup_owned_targets[t]
    BY <2>1, <2>2
  <2> QED
    BY <2>3 DEF Duty
<1>6. ASSUME NEW t \in Targets
      PROVE  Closing(t)' <=> Closing(t) \/ t \in Due(E)
  <2>1. pending_target_closes'[t] = IF \E b \in closing : leases[b].target = t
                                    THEN CHOOSE b \in closing : leases[b].target = t
                                    ELSE pending_target_closes[t]
    BY DEF ExpireBatch
  <2>2. (\E b \in closing : leases[b].target = t) <=> t \in Due(E)
    BY DueIsToClose DEF MapInv
  <2>3. closing \subseteq Tabs
    BY DEF ToClose
  <2>4. CASE t \in Due(E)
    <3>1. (CHOOSE b \in closing : leases[b].target = t) \in closing
      BY <2>2, <2>4
    <3>2. pending_target_closes'[t] \in closing
      BY <2>1, <2>2, <2>4, <3>1
    <3> QED
      BY <2>3, <2>4, <3>2, NoneAssumption DEF Closing
  <2>5. CASE t \notin Due(E)
    BY <2>1, <2>2, <2>5 DEF Closing
  <2> QED
    BY <2>4, <2>5
<1>7. ASSUME NEW t \in Targets
      PROVE  Sweeping(t)' = IF t \in Due(E) THEN Duty(t) ELSE Sweeping(t)
  <2>1. sweep_closes' = sweep_closes \cup {CloseOf(b) : b \in closing}
    BY DEF ExpireBatch
  <2>2. \A c \in sweep_closes' : Sweeping(c.target)' = c.session
    BY DEF MapInv, SweepingExact
  <2>3. CASE t \in Due(E)
    <3>1. PICK b \in closing : leases[b].target = t
      BY <2>3, DueIsToClose DEF MapInv
    <3>2. leases[b].owner = Duty(t)
      BY <3>1, DueIsToClose DEF MapInv
    <3>3. CloseOf(b) \in sweep_closes' /\ CloseOf(b).target = t /\ CloseOf(b).session = Duty(t)
      BY <2>1, <3>1, <3>2 DEF CloseOf
    <3> QED
      BY <2>2, <2>3, <3>3
  <2>4. CASE t \notin Due(E)
    <3>1. \A b \in closing : CloseOf(b).target # t
      BY <2>4, DueIsToClose DEF MapInv, CloseOf
    <3>2. CASE \E c \in sweep_closes : c.target = t
      <4>1. PICK c \in sweep_closes : c.target = t
        BY <3>2
      <4>2. Sweeping(t) = c.session
        BY <4>1 DEF MapInv, SweepingExact
      <4>3. c \in sweep_closes'
        BY <2>1
      <4> QED
        BY <2>2, <2>4, <4>1, <4>2, <4>3
    <3>3. CASE ~\E c \in sweep_closes : c.target = t
      <4>1. ~\E c \in sweep_closes' : c.target = t
        BY <2>1, <3>1, <3>3
      <4> QED
        BY <2>4, <3>3, <4>1 DEF Sweeping
    <3> QED
      BY <3>2, <3>3
  <2> QED
    BY <2>3, <2>4
<1>8. /\ \A s \in Sessions : Live(s)' <=> Live(s) /\ s \notin E
      /\ \A s \in Sessions : sessions'[s].status = "gone" <=> sessions[s].status = "gone" \/ s \in E
  BY <1>2 DEF Live, Gone
<1>9. expired_closed_targets' = expired_closed_targets
  BY DEF ExpireBatch
<1>10. Ownership!Expire(E)
  BY <1>4, <1>5, <1>6, <1>7, <1>8, <1>9 DEF Ownership!Expire, Due
<1> QED
  BY <1>10 DEF Ownership!Next

LEMMA FinishMaps ==
    ASSUME MapInv, MapInv', NEW c \in sweep_closes, NEW closed \in BOOLEAN,
           FinishExpiredTargetClose(c, closed)
    PROVE  c.target \in Targets /\ Ownership!Swept(c.target, closed)
<1> DEFINE t == c.target
           b == c.tab
<1>1. t \in Targets /\ b \in Tabs /\ c.session \in Sessions
  BY DEF MapInv, RegistryInv, TypeOK, SweepClose
<1>2. pending_target_closes[t] = b /\ Known(b)
  BY SweptLease DEF MapInv, RegistryInv, TargetInv, SweepHoldsReservation, Known
<1>3. Sweeping(t) = c.session /\ Sweeping(t) # None
  BY <1>1, NoneAssumption DEF MapInv, SweepingExact
<1>4. sweep_closes' = sweep_closes \ {c}
  BY DEF FinishExpiredTargetClose
<1>5. ASSUME NEW d \in sweep_closes, d.target = t
      PROVE  d = c
  <2>1. d.tab = b
    BY <1>2, <1>5 DEF MapInv, RegistryInv, TargetInv, SweepHoldsReservation
  <2>2. d.session = c.session
    BY <1>3, <1>5 DEF MapInv, SweepingExact
  <2>3. c \in SweepClose /\ d \in SweepClose
    BY DEF MapInv, RegistryInv, TypeOK
  <2> QED
    BY <1>5, <2>1, <2>2, <2>3 DEF SweepClose
<1>6. ASSUME NEW u \in Targets
      PROVE  Sweeping(u)' = IF u = t THEN None ELSE Sweeping(u)
  <2>1. \A d \in sweep_closes' : Sweeping(d.target)' = d.session
    BY DEF MapInv, SweepingExact
  <2>2. CASE u = t \/ ~\E d \in sweep_closes : d.target = u
    <3>1. ~\E d \in sweep_closes' : d.target = u
      BY <1>4, <1>5, <2>2
    <3>2. u = t \/ Sweeping(u) = None
      BY <2>2 DEF Sweeping
    <3> HIDE DEF t
    <3> QED
      BY <3>1, <3>2 DEF Sweeping
  <2>3. CASE u # t /\ \E d \in sweep_closes : d.target = u
    <3>1. PICK d \in sweep_closes : d.target = u
      BY <2>3
    <3>2. d \in sweep_closes' /\ Sweeping(u) = d.session
      BY <1>4, <2>3, <3>1 DEF MapInv, SweepingExact
    <3> QED
      BY <2>1, <2>3, <3>1, <3>2
  <2> QED
    BY <2>2, <2>3
<1>7. ASSUME NEW u \in Targets
      PROVE  Closing(u)' <=> Closing(u) /\ u # t
  BY <1>1, <1>2 DEF FinishExpiredTargetClose, Closing, MapInv, RegistryInv, TypeOK
<1>8. ASSUME NEW u \in Targets
      PROVE  Duty(u)' = IF u = t /\ ~closed THEN c.session ELSE Duty(u)
  <2>1. cleanup_owned_targets \in [Targets -> Maybe(CleanupOwnership)]
    BY DEF MapInv, RegistryInv, TypeOK
  <2>2. cleanup_owned_targets'
          = IF closed THEN cleanup_owned_targets
            ELSE [cleanup_owned_targets EXCEPT ![t] = [session |-> c.session, tab |-> b]]
    BY <1>2 DEF FinishExpiredTargetClose, Provenance
  <2>3. [session |-> c.session, tab |-> b] # None
    BY <1>1, NoneIsNoRecord
  <2> HIDE DEF t, b
  <2> QED
    BY <2>1, <2>2, <2>3 DEF Duty
<1>9. ASSUME NEW u \in Targets
      PROVE  Driver(u)' = Driver(u)
  <2>1. active_target_owners' = active_target_owners
    BY DEF FinishExpiredTargetClose
  <2>2. \A a \in Tabs : leases'[a].owner = leases[a].owner
    BY DEF FinishExpiredTargetClose, MapInv, RegistryInv, TypeOK, TabLease
  <2> QED
    BY <2>1, <2>2 DEF Driver, MapInv, RegistryInv, TypeOK, Maybe
<1>10. expired_closed_targets' = IF closed THEN expired_closed_targets \cup {t}
                                           ELSE expired_closed_targets
  BY <1>2 DEF FinishExpiredTargetClose
<1>11. sessions' = sessions
  BY DEF FinishExpiredTargetClose, sessionVars
<1> HIDE DEF t, b
<1>12. Ownership!Swept(t, closed)
  BY <1>1, <1>3, <1>6, <1>7, <1>8, <1>9, <1>10, <1>11 DEF Ownership!Swept, Live
<1> QED
  BY <1>1, <1>12 DEF t

LEMMA ExpiryStepMaps ==
    ASSUME MapInv, MapInv', ExpiryNext
    PROVE  Ownership!Next
<1>1. ASSUME NEW n \in 0..clock, NEW in_flight \in SUBSET Sessions, ExpireSessions(n, in_flight)
      PROVE  Ownership!Next
  <2> DEFINE E == ExpiredIds(n, in_flight)
  <2>1. E \in SUBSET Sessions /\ E # {} /\ \A s \in E : Live(s)
    BY <1>1 DEF ExpiredIds, ExpireSessions
  <2>2. PICK batch \in Orderings(E) : ExpireBatch(E, batch)
    BY <1>1 DEF ExpireSessions
  <2> QED
    BY <2>1, <2>2, ExpireMaps
<1>2. ASSUME NEW c \in sweep_closes, NEW closed \in BOOLEAN, FinishExpiredTargetClose(c, closed)
      PROVE  Ownership!Next
  <2>1. c.target \in Targets /\ Ownership!Swept(c.target, closed)
    BY <1>2, FinishMaps
  <2> QED
    BY <2>1 DEF Ownership!Next
<1> QED
  BY <1>1, <1>2 DEF ExpiryNext

LEMMA StepMaps ==
    MapInv /\ MapInv' /\ [Next]_vars => [Ownership!Next]_(Ownership!vars)
<1> SUFFICES ASSUME MapInv, MapInv', [Next]_vars
             PROVE  [Ownership!Next]_(Ownership!vars)
  OBVIOUS
<1>1. CASE Tick \/ UNCHANGED vars
  <2>1. TargetsSame
    BY <1>1, SameTargets DEF Tick, vars, expiryVars
  <2>2. sessions' = sessions
    BY <1>1 DEF Tick, vars, sessionVars
  <2> QED
    BY <2>1, <2>2 DEF Ownership!vars, TargetsSame, Live
<1> QED
  BY <1>1, SessionStepMaps, TabStepMaps, ExpiryStepMaps DEF Next

\* Every behaviour of the registry is one of the ownership protocol: its maps,
\* updated by hand in every method of leases.rs, never do together what the
\* protocol would not.
THEOREM RegistryImplementsOwnership == Spec => ImplementsTabOwnership
<1>1. RegistryInv => MapInv
  BY SweepingIsExact DEF MapInv
<1> QED
  BY <1>1, RegistrySafe, InitMaps, StepMaps, PTL DEF Spec, ImplementsTabOwnership, Ownership!Spec
(***************************************************************************)
(* The protocol, for any sessions and targets.  Neither of its invariants  *)
(* is inductive alone: that a failed close may hand the duty back          *)
(* (DutyIsTheDrivers) needs that nobody drives a target the sweep closes   *)
(* (ClosingIsExclusive), and that a closed target is not being swept.      *)
(***************************************************************************)
HasEnded(s) == sessions[s].status = "gone"

ProtocolInv ==
    \A t \in Targets :
        /\ Driver(t) \in Maybe(Sessions) /\ Duty(t) \in Maybe(Sessions)
        /\ Sweeping(t) \in Maybe(Sessions)
        /\ Sweeping(t) # None => /\ Driver(t) = None /\ Duty(t) = None
                                /\ Closing(t) /\ HasEnded(Sweeping(t))
        /\ t \in expired_closed_targets
           => Driver(t) = None /\ Duty(t) = None /\ Sweeping(t) = None
        /\ Driver(t) # None => Live(Driver(t)) /\ Duty(t) \in {Driver(t), None}

LEMMA ProtocolInit == Ownership!Init => ProtocolInv
<1> SUFFICES ASSUME Ownership!Init, NEW t \in Targets
             PROVE  Driver(t) = None /\ Duty(t) = None /\ Sweeping(t) = None /\ t \notin expired_closed_targets
  BY DEF ProtocolInv, Maybe
<1> QED BY DEF Ownership!Init

LEMMA ProtocolStep == ProtocolInv /\ [Ownership!Next]_(Ownership!vars) => ProtocolInv'
<1> SUFFICES ASSUME ProtocolInv, [Ownership!Next]_(Ownership!vars) PROVE ProtocolInv'
  OBVIOUS
<1> USE NoneAssumption DEF HasEnded, Maybe
<1>1. ASSUME NEW s \in Sessions, Ownership!Begin(s) PROVE ProtocolInv'
  <2>1. /\ \A z \in Sessions : (Live(z) => Live(z)') /\ (HasEnded(z)' <=> HasEnded(z))
        /\ \A x \in Targets :
             /\ Driver(x)' = Driver(x)
             /\ Duty(x)' = Duty(x)
             /\ (Closing(x)' <=> Closing(x))
             /\ Sweeping(x)' = Sweeping(x)
             /\ (x \in expired_closed_targets' <=> x \in expired_closed_targets)
    BY <1>1 DEF Ownership!Begin
  <2> QED BY <1>1, <2>1 DEF ProtocolInv
<1>2. ASSUME NEW s \in Sessions, NEW t \in Targets, Ownership!Create(s, t) PROVE ProtocolInv'
  <2>1. /\ Live(s) /\ ~Closing(t) /\ t \notin expired_closed_targets
        /\ \A z \in Sessions : (Live(z)' <=> Live(z)) /\ (HasEnded(z)' <=> HasEnded(z))
        /\ \A x \in Targets :
             /\ Driver(x)' = IF x = t THEN s ELSE Driver(x)
             /\ Duty(x)' = IF x = t THEN s ELSE Duty(x)
             /\ (Closing(x)' <=> Closing(x))
             /\ Sweeping(x)' = Sweeping(x)
             /\ (x \in expired_closed_targets' <=> x \in expired_closed_targets)
    BY <1>2 DEF Ownership!Create
  <2> QED BY <1>2, <2>1 DEF ProtocolInv
<1>3. ASSUME NEW s \in Sessions, NEW t \in Targets, Ownership!Adopt(s, t) PROVE ProtocolInv'
  <2>1. /\ Live(s) /\ ~Closing(t) /\ t \notin expired_closed_targets
        /\ \A z \in Sessions : (Live(z)' <=> Live(z)) /\ (HasEnded(z)' <=> HasEnded(z))
        /\ \A x \in Targets :
             /\ Driver(x)' = IF x = t THEN s ELSE Driver(x)
             /\ Duty(x)' = IF x # t THEN Duty(x) ELSE IF Duty(x) = None THEN None ELSE s
             /\ (Closing(x)' <=> Closing(x))
             /\ Sweeping(x)' = Sweeping(x)
             /\ (x \in expired_closed_targets' <=> x \in expired_closed_targets)
    BY <1>3 DEF Ownership!Adopt
  <2> QED BY <1>3, <2>1 DEF ProtocolInv
<1>4. ASSUME NEW T \in SUBSET Targets, NEW dropped \in SUBSET T, Ownership!GiveUp(T, dropped) PROVE ProtocolInv'
  <2>1. /\ \A z \in Sessions : (Live(z)' <=> Live(z)) /\ (HasEnded(z)' <=> HasEnded(z))
        /\ \A x \in Targets :
             /\ Driver(x)' = IF x \in T THEN None ELSE Driver(x)
             /\ Duty(x)' = IF x \in dropped THEN None ELSE Duty(x)
             /\ (Closing(x)' <=> Closing(x))
             /\ Sweeping(x)' = Sweeping(x)
             /\ (x \in expired_closed_targets' <=> x \in expired_closed_targets)
    BY <1>4 DEF Ownership!GiveUp
  <2> QED BY <1>4, <2>1 DEF ProtocolInv
<1>5. ASSUME NEW t \in Targets, Ownership!Reserve(t) PROVE ProtocolInv'
  <2>1. /\ \A z \in Sessions : (Live(z)' <=> Live(z)) /\ (HasEnded(z)' <=> HasEnded(z))
        /\ \A x \in Targets :
             /\ Driver(x)' = Driver(x)
             /\ Duty(x)' = Duty(x)
             /\ (Closing(x)' <=> Closing(x) \/ x = t)
             /\ Sweeping(x)' = Sweeping(x)
             /\ (x \in expired_closed_targets' <=> x \in expired_closed_targets)
    BY <1>5 DEF Ownership!Reserve
  <2> QED BY <1>5, <2>1 DEF ProtocolInv
<1>6. ASSUME NEW t \in Targets, Ownership!Unreserve(t) PROVE ProtocolInv'
  <2>1. /\ Sweeping(t) = None
        /\ \A z \in Sessions : (Live(z)' <=> Live(z)) /\ (HasEnded(z)' <=> HasEnded(z))
        /\ \A x \in Targets :
             /\ Driver(x)' = Driver(x)
             /\ Duty(x)' = Duty(x)
             /\ (Closing(x)' <=> Closing(x) /\ x # t)
             /\ Sweeping(x)' = Sweeping(x)
             /\ (x \in expired_closed_targets' <=> x \in expired_closed_targets)
    BY <1>6 DEF Ownership!Unreserve
  <2> QED BY <1>6, <2>1 DEF ProtocolInv
<1>7. ASSUME NEW t \in Targets, Ownership!Retire(t) PROVE ProtocolInv'
  <2>1. /\ Driver(t) # None
        /\ \A z \in Sessions : (Live(z)' <=> Live(z)) /\ (HasEnded(z)' <=> HasEnded(z))
        /\ \A x \in Targets :
             /\ Driver(x)' = IF x = t THEN None ELSE Driver(x)
             /\ Duty(x)' = IF x = t THEN None ELSE Duty(x)
             /\ (Closing(x)' <=> Closing(x) /\ x # t)
             /\ Sweeping(x)' = Sweeping(x)
             /\ (x \in expired_closed_targets' <=> x \in expired_closed_targets)
    BY <1>7 DEF Ownership!Retire
  <2> QED BY <1>7, <2>1 DEF ProtocolInv
<1>8. ASSUME NEW E \in SUBSET Sessions, Ownership!Expire(E) PROVE ProtocolInv'
  <2>1. /\ \A z \in Sessions : (Live(z)' <=> Live(z) /\ z \notin E) /\ (HasEnded(z)' <=> HasEnded(z) \/ z \in E)
        /\ \A x \in Targets :
             /\ Driver(x)' = IF Driver(x) \in E THEN None ELSE Driver(x)
             /\ Duty(x)' = IF Duty(x) \in E THEN None ELSE Duty(x)
             /\ (Closing(x)' <=> Closing(x) \/ Duty(x) \in E)
             /\ Sweeping(x)' = IF Duty(x) \in E THEN Duty(x) ELSE Sweeping(x)
             /\ (x \in expired_closed_targets' <=> x \in expired_closed_targets)
    BY ZenonT(60), <1>8 DEF Ownership!Expire
  <2> QED BY <1>8, <2>1 DEF ProtocolInv
<1>9. ASSUME NEW t \in Targets, NEW ok \in BOOLEAN, Ownership!Swept(t, ok) PROVE ProtocolInv'
  <2>1. /\ Sweeping(t) # None
        /\ \A z \in Sessions : (Live(z)' <=> Live(z)) /\ (HasEnded(z)' <=> HasEnded(z))
        /\ \A x \in Targets :
             /\ Driver(x)' = Driver(x)
             /\ Duty(x)' = IF x = t /\ ~ok THEN Sweeping(t) ELSE Duty(x)
             /\ (Closing(x)' <=> Closing(x) /\ x # t)
             /\ Sweeping(x)' = IF x = t THEN None ELSE Sweeping(x)
             /\ (x \in expired_closed_targets' <=> x \in expired_closed_targets \/ (x = t /\ ok))
    BY <1>9 DEF Ownership!Swept
  <2> QED BY <1>9, <2>1 DEF ProtocolInv
<1>10. ASSUME UNCHANGED Ownership!vars PROVE ProtocolInv'
  <2>1. /\ \A z \in Sessions : (Live(z)' <=> Live(z)) /\ (HasEnded(z)' <=> HasEnded(z))
        /\ \A x \in Targets :
             /\ Driver(x)' = Driver(x)
             /\ Duty(x)' = Duty(x)
             /\ (Closing(x)' <=> Closing(x))
             /\ Sweeping(x)' = Sweeping(x)
             /\ (x \in expired_closed_targets' <=> x \in expired_closed_targets)
    BY <1>10 DEF Ownership!vars
  <2> QED BY <1>10, <2>1 DEF ProtocolInv
<1> QED
  BY <1>1, <1>2, <1>3, <1>4, <1>5, <1>6, <1>7, <1>8, <1>9, <1>10 DEF Ownership!Next

\* In the protocol nobody drives or has to clean up a target that is being closed
\* for an ended session or was closed, and such a target stays reserved until the
\* close is reported (finish_expired_target_close, lease_tab, claim_tab).
THEOREM ClosingExclusive == Ownership!Spec => []Ownership!ClosingIsExclusive
<1>1. ProtocolInv => Ownership!ClosingIsExclusive
  BY DEF ProtocolInv, HasEnded, Maybe, Live, Ownership!ClosingIsExclusive, Ownership!DutyIsTheDrivers
<1> QED
  BY <1>1, ProtocolInit, ProtocolStep, PTL DEF Ownership!Spec

\* In the protocol a driven target is cleaned up by its driver or by nobody, and
\* its driver is a live session (claim_tab's transfer, expire_sessions).
THEOREM DutyFollowsDriver == Ownership!Spec => []Ownership!DutyIsTheDrivers
<1>1. ProtocolInv => Ownership!DutyIsTheDrivers
  BY DEF ProtocolInv, HasEnded, Maybe, Live, Ownership!ClosingIsExclusive, Ownership!DutyIsTheDrivers
<1> QED
  BY <1>1, ProtocolInit, ProtocolStep, PTL DEF Ownership!Spec

\* So it is in the registry: what it closes nobody drives, and what is driven its
\* driver alone cleans up.
THEOREM RegistryKeepsTheProtocol ==
    Spec => [](Ownership!ClosingIsExclusive /\ Ownership!DutyIsTheDrivers)
BY RegistryImplementsOwnership, ClosingExclusive, DutyFollowsDriver, PTL
DEF ImplementsTabOwnership
=============================================================================
