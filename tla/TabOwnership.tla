---------------------------- MODULE TabOwnership ----------------------------
(***************************************************************************)
(* What the lease registry promises its users, with nothing of how it      *)
(* keeps the promise: for every target, who drives it, who must clean it   *)
(* up, whether somebody is closing it and whether it is known to be gone.  *)
(* There are no tab ids, no lease states and no indexes here; LeaseRegistry*)
(* implements this specification with five maps it updates by hand.        *)
(*                                                                         *)
(* The promise: a target has one driver; the duty to clean up follows the  *)
(* driver and otherwise stays where it was; only the holder of the duty    *)
(* has a target closed on its behalf, and only when it drives it or nobody *)
(* does; no one becomes the driver of a target that is being closed or was *)
(* closed; a session that ends leaves no target behind in its name, except *)
(* the duty for a target whose closing failed.                             *)
(***************************************************************************)
CONSTANTS Sessions, Targets, None   \* None is no session

VARIABLES
    live,      \* sessions that exist
    ended,     \* sessions that have ended; they never come back
    driver,    \* driver[t]: the session allowed to act on t, or None
    duty,      \* duty[t]: the session on whose expiry t is to be closed, or None
    closing,   \* targets reserved for closing
    sweeping,  \* sweeping[t]: the ended session for which t is being closed, or None
    closed     \* targets known to be closed

vars == <<live, ended, driver, duty, closing, sweeping, closed>>

TypeOK ==
    /\ live \in SUBSET Sessions
    /\ ended \in SUBSET Sessions
    /\ driver \in [Targets -> Sessions \cup {None}]
    /\ duty \in [Targets -> Sessions \cup {None}]
    /\ closing \in SUBSET Targets
    /\ sweeping \in [Targets -> Sessions \cup {None}]
    /\ closed \in SUBSET Targets

Init ==
    /\ live = {}
    /\ ended = {}
    /\ driver = [t \in Targets |-> None]
    /\ duty = [t \in Targets |-> None]
    /\ closing = {}
    /\ sweeping = [t \in Targets |-> None]
    /\ closed = {}

Begin(s) ==
    /\ s \notin ended
    /\ live' = live \cup {s}
    /\ UNCHANGED <<ended, driver, duty, closing, sweeping, closed>>

\* s created t and drives it: the duty is its own from the start.
Create(s, t) ==
    /\ s \in live /\ driver[t] = None /\ t \notin closing \cup closed
    /\ driver' = [driver EXCEPT ![t] = s]
    /\ duty' = [duty EXCEPT ![t] = s]
    /\ UNCHANGED <<live, ended, closing, sweeping, closed>>

\* s drives a target that was there, by claim or takeover: a duty somebody
\* has becomes its own, and a target nobody has to clean up stays such.
Adopt(s, t) ==
    /\ s \in live /\ t \notin closing \cup closed
    /\ driver' = [driver EXCEPT ![t] = s]
    /\ duty' = [duty EXCEPT ![t] = IF @ = None THEN None ELSE s]
    /\ UNCHANGED <<live, ended, closing, sweeping, closed>>

\* The drivers of T stop driving; dropped are the targets of T that nobody
\* has to clean up any more (preserved, closed or disappeared).
GiveUp(T, dropped) ==
    /\ \A t \in T : driver[t] # None
    /\ driver' = [t \in Targets |-> IF t \in T THEN None ELSE driver[t]]
    /\ duty' = [t \in Targets |-> IF t \in dropped THEN None ELSE duty[t]]
    /\ UNCHANGED <<live, ended, closing, sweeping, closed>>

Reserve(t) ==
    /\ t \notin closing
    /\ closing' = closing \cup {t}
    /\ UNCHANGED <<live, ended, driver, duty, sweeping, closed>>

\* A reservation of the sweep is not the owner's to end.
Unreserve(t) ==
    /\ t \in closing /\ sweeping[t] = None
    /\ closing' = closing \ {t}
    /\ UNCHANGED <<live, ended, driver, duty, sweeping, closed>>

\* The driver closed its own target.
Retire(t) ==
    /\ driver[t] # None /\ t \in closing
    /\ driver' = [driver EXCEPT ![t] = None]
    /\ duty' = [duty EXCEPT ![t] = None]
    /\ closing' = closing \ {t}
    /\ UNCHANGED <<live, ended, sweeping, closed>>

\* The sessions of E end: what they drive is free, what they must clean up
\* is being closed.
Expire(E) ==
    LET due == {t \in Targets : duty[t] \in E}
    IN  /\ E # {} /\ E \subseteq live
        /\ live' = live \ E
        /\ ended' = ended \cup E
        /\ driver' = [t \in Targets |-> IF driver[t] \in E THEN None ELSE driver[t]]
        /\ duty' = [t \in Targets |-> IF t \in due THEN None ELSE duty[t]]
        /\ closing' = closing \cup due
        /\ sweeping' = [t \in Targets |-> IF t \in due THEN duty[t] ELSE sweeping[t]]
        /\ UNCHANGED closed

\* The close succeeded, or it failed and the duty goes back where it was.
Swept(t, ok) ==
    /\ sweeping[t] # None
    /\ closing' = closing \ {t}
    /\ sweeping' = [sweeping EXCEPT ![t] = None]
    /\ closed' = IF ok THEN closed \cup {t} ELSE closed
    /\ duty' = IF ok THEN duty ELSE [duty EXCEPT ![t] = sweeping[t]]
    /\ UNCHANGED <<live, ended, driver>>

Next ==
    \/ \E s \in Sessions : Begin(s)
    \/ \E s \in Sessions, t \in Targets : Create(s, t) \/ Adopt(s, t)
    \/ \E T \in SUBSET Targets : \E dropped \in SUBSET T : GiveUp(T, dropped)
    \/ \E t \in Targets : Reserve(t) \/ Unreserve(t) \/ Retire(t)
    \/ \E E \in SUBSET Sessions : Expire(E)
    \/ \E t \in Targets, ok \in BOOLEAN : Swept(t, ok)

Spec == Init /\ [][Next]_vars

-----------------------------------------------------------------------------
\* Nobody drives, or has to clean up, a target that is being closed for an
\* ended session or that was closed.
ClosingIsExclusive ==
    \A t \in Targets :
        /\ sweeping[t] # None \/ t \in closed => driver[t] = None /\ duty[t] = None
        /\ sweeping[t] # None => t \in closing /\ sweeping[t] \in ended

\* A driven target is cleaned up by its driver or by nobody, and only live
\* sessions drive.
DutyIsTheDrivers ==
    /\ live \cap ended = {}
    /\ \A t \in Targets : driver[t] # None => driver[t] \in live /\ duty[t] \in {driver[t], None}
=============================================================================
