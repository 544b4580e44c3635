---------------------------- MODULE TabCaptures ----------------------------
(***************************************************************************)
(* What the broker attaches to a tab beside its lease: the browser-wide    *)
(* performance trace, screencast jobs with the artifacts they publish, and *)
(* emulation overrides (src/src/broker.rs, artifacts.rs, cdp.rs), and what *)
(* claims, releases, closes, reconciliation, expiry and shutdown do to     *)
(* them while tools of other connections run.                              *)
(*                                                                         *)
(* Every await is a step boundary.  Two of the maps are behind async       *)
(* mutexes which start_trace and screencast start hold across the browser  *)
(* call that starts the capture.  Sessions with a running request are in   *)
(* flight from its first step to its last; BrokerTabs has the sections of  *)
(* that bookkeeping, stale inventories and the managed lifecycle lock.     *)
(***************************************************************************)
EXTENDS LeaseRegistry

CONSTANTS
    Calls,        \* connection tasks
    Jobs,         \* screencast jobs; also names their artifact reservations
    Profiles      \* bound: what may happen together in one behaviour

PageTools  == {"start_cast", "start_trace", "stop_trace", "set_viewport", "set_other", "reset",
               "audit", "capture"}
TabMethods == PageTools \cup {"stop_cast", "release", "close"}
ClaimMethods == {"claim", "takeover", "takeover_uninstructed"}
AllMethods == TabMethods \cup ClaimMethods \cup {"new_tab", "delete"}

\* What a session can put over a page: its metrics, its touch input, and the
\* rest, which stands for network, CPU, geolocation, media, user agent and
\* headers.
Overrides == {"metrics", "touch", "rest"}

\* methods: the requests clients send.  faults: "fails" when browser commands
\* may fail, "human" when the human closes pages, "stops" when the broker may
\* shut down.
Profile == [methods : SUBSET AllMethods, faults : SUBSET {"fails", "human", "stops"}]

ASSUME ProfilesAssumption == Profiles \subseteq Profile
ASSUME NamesAssumption == None \notin Calls \cup Jobs

VARIABLES
    profile,             \* chosen at the start
    page,                \* Chrome: "unborn", "open" or "gone"
    emulated,            \* Chrome: the session each override of a target comes from
    viewport_overrides,  \* the broker's record of the viewport
    traces,              \* targets with a running trace
    trace_lock,          \* the call that holds state.traces across an await
    job,                 \* screencast jobs and the capture each one drives
    screencasts,         \* tab -> its current job
    cast_lock,           \* the call that holds state.screencasts across an await
    reservations,        \* ArtifactRegistry.reservations
    records,             \* ArtifactRegistry.records
    files,               \* what lies in the artifact directories of the sessions
    call,                \* the request of each connection task
    sweep,               \* sweep_expired_sessions
    shutdown,            \* "no", "draining" (shutting_down is set) or "cancelled"
    history              \* what the properties have to know of the past

pageVars  == <<profile, page, emulated, viewport_overrides>>
traceVars == <<traces, trace_lock>>
artifactVars == <<reservations, records, files>>
castVars  == <<job, screencasts, cast_lock, artifactVars>>
capVars   == <<vars, pageVars, traceVars, castVars, call, sweep, shutdown, history>>

NoCall == [pc |-> "idle", method |-> "none", session |-> None, tab |-> None,
           target |-> None, job |-> None, todo |-> {}, commands |-> <<>>, next |-> "idle",
           prior |-> None]
NoJob  == [phase |-> "unborn", control |-> "record", terminal |-> "none",
           session |-> None, tab |-> None, target |-> None]
NoSweep == [pc |-> "idle", expired |-> {}, released |-> {}]

Record == [session : Sessions, from : Jobs \cup {"tool"}]

Clean   == [k \in Overrides |-> None]

CaptureTypeOK ==
    /\ profile \in Profiles
    /\ page \in [Targets -> {"unborn", "open", "gone"}]
    /\ emulated \in [Targets -> [Overrides -> Maybe(Sessions)]]
    /\ viewport_overrides \in [Targets -> Maybe(Sessions)]
    /\ traces \in SUBSET Targets
    /\ {trace_lock, cast_lock} \subseteq Maybe(Calls)
    /\ job \in [Jobs -> [phase : {"unborn", "recording", "finalizing", "good", "bad", "done"},
                         control : {"record", "stop", "cancel"},
                         terminal : {"none", "ready", "error"},
                         session : Maybe(Sessions), tab : Maybe(Tabs), target : Maybe(Targets)]]
    /\ screencasts \in [Tabs -> Maybe(Jobs)]
    /\ reservations \in SUBSET Jobs
    /\ records \in SUBSET Record
    /\ files \in SUBSET [of : Record, part : {"whole", "partial", "temporary"}]
    /\ \A c \in Calls : call[c].todo \in SUBSET Tabs /\ call[c].job \in Maybe(Jobs)
    /\ sweep.pc \in {"idle", "next", "clear", "reset"} /\ sweep.expired \in SUBSET Sessions
    /\ shutdown \in {"no", "draining", "cancelled"}
    /\ history \in [late : SUBSET Targets, unreset : SUBSET Targets, left : SUBSET Targets]

CaptureInit ==
    /\ Init
    /\ profile \in Profiles
    /\ page = [t \in Targets |-> "unborn"]
    /\ emulated = [t \in Targets |-> Clean]
    /\ viewport_overrides = [t \in Targets |-> None]
    /\ traces = {} /\ trace_lock = None
    /\ job = [j \in Jobs |-> NoJob]
    /\ screencasts = [b \in Tabs |-> None] /\ cast_lock = None
    /\ reservations = {} /\ records = {} /\ files = {}
    /\ call = [c \in Calls |-> NoCall]
    /\ sweep = NoSweep
    /\ shutdown = "no"
    /\ history = [late |-> {}, unreset |-> {}, left |-> {}]

(***************************************************************************)
(* Helpers.                                                                *)
(***************************************************************************)
Happens(f) == f \in profile.faults
Fails == Happens("fails")

At(c, pc)  == call[c].pc = pc
Is(c, ms)  == call[c].method \in ms
Goto(c, pc) == call' = [call EXCEPT ![c].pc = pc]
End(c)      == call' = [call EXCEPT ![c] = NoCall]

OnlyCall == UNCHANGED <<vars, pageVars, traceVars, castVars, sweep, shutdown, history>>
NoBrowserWork == UNCHANGED <<pageVars, traceVars, castVars, sweep, shutdown, history>>

MayRelease(c) == RequireOwnedTab(call[c].session, call[c].tab) /\ Releasable(call[c].tab)
Owns(c) == RequireOwnedTab(call[c].session, call[c].tab) /\ leases[call[c].tab].state = "active"
InFlight == {call[c].session : c \in Calls} \ {None}

\* A job without a terminal result, in the map or not.
Unfinished(j) == job[j].phase # "unborn" /\ job[j].terminal = "none"
Current(t) == {screencasts[b] : b \in Tabs} \cap {j \in Jobs : job[j].target = t}
Recording(j) == Unfinished(j) /\ job[j].phase = "recording"

\* controller.cancel() on every job of J
Cancelled(J) == [j \in Jobs |-> IF j \in J THEN [job[j] EXCEPT !.control = "cancel"] ELSE job[j]]

RecordOf(session, from) == [session |-> session, from |-> from]
File(record, part) == [of |-> record, part |-> part]
PartialFile(session, j) == File(RecordOf(session, j), "partial")

\* discard_reserved
Discard(session, j) ==
    /\ reservations' = reservations \ {j}
    /\ files' = files \ {PartialFile(session, j)}

Without(f, S) == [x \in DOMAIN f |-> IF x \in S THEN None ELSE f[x]]

(***************************************************************************)
(* Clients: sessions, new tabs and requests.                               *)
(***************************************************************************)
Begin(s) == StartSession(s, None) /\ UNCHANGED call /\ NoBrowserWork

Send(c, m, s, b, t) ==
    /\ At(c, "idle") /\ shutdown = "no"
    /\ Touch(s)
    /\ IF m \in TabMethods THEN leases[b].state # "unissued" ELSE b = None
    /\ IF m \in ClaimMethods THEN page[t] # "unborn"
       ELSE IF m = "new_tab" THEN page[t] = "unborn" ELSE t = None
    /\ call' = [call EXCEPT ![c] = [NoCall EXCEPT !.pc = "handle", !.method = m,
                                                  !.session = s, !.tab = b, !.target = t]]
    /\ NoBrowserWork

\* create_and_lease_tab; what can come between is BrokerTabs' subject.
NewTab(c, b) ==
    LET t == call[c].target
    IN  /\ At(c, "handle") /\ Is(c, {"new_tab"})
        /\ IF page[t] = "unborn"
           THEN LeaseTab(call[c].session, t, b) /\ page' = [page EXCEPT ![t] = "open"]
           ELSE UNCHANGED <<vars, page>>
        /\ End(c)
        /\ UNCHANGED <<profile, emulated, viewport_overrides, traceVars, castVars, sweep, shutdown, history>>

(***************************************************************************)
(* active_owned_target, which every page tool starts with: give up the     *)
(* active leases whose page is gone, tidy up after them, check one's own.  *)
(***************************************************************************)
Missing == Vanished({t \in Targets : page[t] = "open"})

ValidateTool(c) ==
    /\ At(c, "handle") /\ Is(c, PageTools)
    /\ IF shutdown # "no" /\ Is(c, {"start_cast"})
       THEN End(c) /\ UNCHANGED vars
       ELSE IF Missing # {}
            THEN /\ MarkMissingTargetsNotIn({t \in Targets : page[t] = "open"})
                 /\ call' = [call EXCEPT ![c].pc = "reconcile", ![c].todo = Missing]
            ELSE Goto(c, "check") /\ UNCHANGED vars
    /\ NoBrowserWork

ReconcileForgetsTrace(c, b) ==
    LET j == screencasts[b]
    IN  /\ At(c, "reconcile") /\ b \in call[c].todo
        /\ trace_lock = None /\ cast_lock = None
        /\ job' = Cancelled(IF j # None /\ Recording(j) THEN {j} ELSE {})
        /\ viewport_overrides' = [viewport_overrides EXCEPT ![leases[b].target] = None]
        /\ call' = [call EXCEPT ![c].todo = @ \ {b},
                                ![c].pc = IF call[c].todo = {b} THEN "check" ELSE @]
        /\ UNCHANGED <<vars, profile, page, emulated, traceVars, screencasts, cast_lock, artifactVars, sweep, shutdown, history>>

\* reconcile_missing_targets, for one lease it gave up
Reconcile(c, b) ==
    LET j == screencasts[b]
    IN  /\ At(c, "reconcile") /\ b \in call[c].todo
        /\ trace_lock = None /\ cast_lock = None
        /\ traces' = traces \ {leases[b].target}
        /\ job' = Cancelled(IF j # None /\ Recording(j) THEN {j} ELSE {})
        /\ viewport_overrides' = [viewport_overrides EXCEPT ![leases[b].target] = None]
        /\ call' = [call EXCEPT ![c].todo = @ \ {b},
                                ![c].pc = IF call[c].todo = {b} THEN "check" ELSE @]
        /\ UNCHANGED <<vars, profile, page, emulated, trace_lock, screencasts, cast_lock, artifactVars, sweep, shutdown, history>>

CheckOwned(c) ==
    /\ At(c, "check")
    /\ IF Owns(c) THEN call' = [call EXCEPT ![c].pc = "act", ![c].target = leases[call[c].tab].target]
                  ELSE End(c)
    /\ OnlyCall

\* Another call hands the target of c over, past its checks for captures, or has.
HandedOver(c) ==
    \/ ~Owns(c)
    \/ \E d \in Calls :
          /\ call[d].target = call[c].target
          /\ \/ call[d].pc \in {"take_casts", "claim", "release", "reserve", "closing", "commit"}
             \/ At(d, "commanding") /\ ~Is(d, PageTools)

(***************************************************************************)
(* performance start_trace and stop_trace.                                 *)
(***************************************************************************)
TakeTraces(c) ==
    /\ At(c, "act") /\ Is(c, {"start_trace"}) /\ trace_lock = None
    /\ IF traces # {} THEN End(c) /\ UNCHANGED trace_lock
                      ELSE Goto(c, "tracing") /\ trace_lock' = c
    /\ UNCHANGED <<vars, pageVars, traces, castVars, sweep, shutdown, history>>

TraceStarts(c) ==
    /\ At(c, "tracing")
    /\ \/ /\ traces' = traces \cup {call[c].target}
          /\ history' = [history EXCEPT !.left = IF HandedOver(c) THEN @ \cup {call[c].target} ELSE @]
          /\ Goto(c, "reload")
       \/ Fails /\ End(c) /\ UNCHANGED <<traces, history>>
    /\ trace_lock' = None
    /\ UNCHANGED <<vars, pageVars, castVars, sweep, shutdown>>

\* The reload a start may ask for; when it fails, the trace goes on.
ReloadTraced(c) == At(c, "reload") /\ End(c) /\ OnlyCall

StopTrace(c) ==
    /\ At(c, "act") /\ Is(c, {"stop_trace"}) /\ trace_lock = None
    /\ traces' = traces \ {call[c].target}
    /\ IF call[c].target \in traces THEN Goto(c, "store") ELSE End(c)
    /\ UNCHANGED <<vars, pageVars, trace_lock, castVars, sweep, shutdown, history>>

\* ArtifactRegistry::insert_bytes, after the trace's events, the heap or the
\* report have arrived.  The bytes go to a temporary file that is then renamed;
\* a write that fails leaves it behind.
StoreArtifact(c) ==
    LET record == RecordOf(call[c].session, "tool")
    IN  /\ At(c, "store")
        /\ \/ /\ records' = records \cup {record}
              /\ files' = files \cup {File(record, "whole")}
           \/ /\ Fails
              /\ files' \in {files, files \cup {File(record, "temporary")}}
              /\ UNCHANGED records
        /\ End(c)
        /\ UNCHANGED <<vars, pageVars, traceVars, job, screencasts, cast_lock, reservations,
                       sweep, shutdown, history>>

\* memory capture and an audit at the desktop: the page answers, or the call ends
Capture(c) ==
    /\ At(c, "act") /\ Is(c, {"capture"})
    /\ \/ page[call[c].target] = "open" /\ Goto(c, "store")
       \/ (Fails \/ page[call[c].target] # "open") /\ End(c)
    /\ OnlyCall

\* artifacts delete and memory close; the other operations on artifacts read.
\* The record goes when its file is removed, and stays when that fails.
DeleteArtifact(c) ==
    /\ At(c, "handle") /\ Is(c, {"delete"})
    /\ \/ \E record \in records :
             /\ record.session = call[c].session
             /\ File(record, "whole") \in files
             /\ records' = records \ {record}
             /\ files' = files \ {File(record, "whole")}
       \/ UNCHANGED <<records, files>>
    /\ End(c)
    /\ UNCHANGED <<vars, pageVars, traceVars, job, screencasts, cast_lock, reservations,
                   sweep, shutdown, history>>

(***************************************************************************)
(* CdpClient::emulate: its commands go to the page one after the other,    *)
(* and the first that fails ends the call and leaves what came before.     *)
(***************************************************************************)
Sets(k, s) == [override |-> k, by |-> s]

SetViewport(s) == <<Sets("metrics", s), Sets("touch", s)>>
ResetViewport  == SetViewport(None)
ResetForgetsRest == ResetViewport
ResetAll       == Append(ResetViewport, Sets("rest", None))

\* c sends commands and then goes on at next.
Emulating(c, commands, next) ==
    [call EXCEPT ![c].pc = "commanding", ![c].commands = commands, ![c].next = next]

Emulate(c) ==
    /\ At(c, "act") /\ Is(c, {"set_viewport", "set_other", "reset"})
    /\ call' = CASE Is(c, {"set_viewport"}) -> Emulating(c, SetViewport(call[c].session), "record")
                 [] Is(c, {"set_other"})    -> Emulating(c, <<Sets("rest", call[c].session)>>, "idle")
                 [] Is(c, {"reset"})        -> Emulating(c, ResetAll, "record")
    /\ OnlyCall

Command(c) ==
    LET t == call[c].target
        command == Head(call[c].commands)
        rest == Tail(call[c].commands)
    IN  /\ At(c, "commanding")
        /\ \/ /\ page[t] = "open"
              /\ emulated' = [emulated EXCEPT ![t][command.override] = command.by]
              /\ history' =
                   [history EXCEPT
                      !.late = IF command.by # None /\ HandedOver(c) THEN @ \cup {t}
                               ELSE IF emulated'[t] = Clean THEN @ \ {t} ELSE @,
                      !.unreset = IF emulated'[t] = Clean THEN @ \ {t} ELSE @]
              /\ IF rest # <<>> THEN call' = [call EXCEPT ![c].commands = rest]
                 ELSE IF call[c].next = "idle" THEN End(c)
                 ELSE call' = [call EXCEPT ![c].pc = call[c].next, ![c].commands = <<>>]
           \/ /\ Fails \/ page[t] # "open"
              /\ End(c)
              /\ UNCHANGED <<emulated, history>>
        /\ UNCHANGED <<vars, profile, page, viewport_overrides, traceVars, castVars, sweep, shutdown>>

\* broker_emulation records the viewport once Chrome has it.
RecordOverride(c) ==
    /\ At(c, "record")
    /\ viewport_overrides' = [viewport_overrides EXCEPT ![call[c].target] =
                                IF Is(c, {"set_viewport"}) THEN call[c].session ELSE None]
    /\ End(c)
    /\ UNCHANGED <<vars, profile, page, emulated, traceVars, castVars, sweep, shutdown, history>>

(***************************************************************************)
(* audit at a mobile viewport: look up the recorded viewport, set another, *)
(* run, set the recorded one again or none, and store the report.          *)
(***************************************************************************)
AuditStarts(c) ==
    /\ At(c, "act") /\ Is(c, {"audit"})
    /\ call' = [Emulating(c, SetViewport(call[c].session), "audit")
                  EXCEPT ![c].prior = viewport_overrides[call[c].target]]
    /\ OnlyCall

\* The viewport is set again whether the audit fails or not.
AuditRuns(c) ==
    /\ At(c, "audit")
    /\ \/ /\ page[call[c].target] = "open"
          /\ call' = Emulating(c, SetViewport(call[c].prior), "store")
       \/ /\ Fails \/ page[call[c].target] # "open"
          /\ call' = Emulating(c, SetViewport(call[c].prior), "idle")
    /\ OnlyCall

(***************************************************************************)
(* screencast start: reserve an artifact, take the job map, start the      *)
(* capture, look at shutting_down again, put the job into the map.         *)
(***************************************************************************)
ReserveArtifact(c, j) ==
    /\ At(c, "act") /\ Is(c, {"start_cast"})
    /\ job[j] = NoJob /\ j \notin reservations \cup {call[d].job : d \in Calls}
    /\ \/ /\ reservations' = reservations \cup {j}
          /\ files' = files \cup {PartialFile(call[c].session, j)}
          /\ call' = [call EXCEPT ![c].pc = "jobs", ![c].job = j]
       \/ Fails /\ End(c) /\ UNCHANGED <<reservations, files>>
    /\ UNCHANGED <<vars, pageVars, traceVars, job, screencasts, cast_lock, records, sweep,
                   shutdown, history>>

Busy(t)    == \E j \in Current(t) : Unfinished(j)
BusyTab(b) == screencasts[b] # None /\ Recording(screencasts[b])

RefusedCast(c) ==
    /\ At(c, "jobs") /\ cast_lock = None /\ Busy(call[c].target)
    /\ Discard(call[c].session, call[c].job)
    /\ End(c)
    /\ UNCHANGED <<vars, pageVars, traceVars, job, screencasts, cast_lock, records, sweep,
                   shutdown, history>>

TakeJobsUnlocked(c) ==
    /\ At(c, "jobs") /\ cast_lock = None /\ ~Busy(call[c].target)
    /\ screencasts' = [screencasts EXCEPT ![call[c].tab] = None]
    /\ Goto(c, "casting")
    /\ UNCHANGED <<vars, pageVars, traceVars, job, cast_lock, artifactVars, sweep,
                   shutdown, history>>

TakeJobs(c) ==
    /\ At(c, "jobs") /\ cast_lock = None /\ ~Busy(call[c].target)
    /\ cast_lock' = c
    /\ screencasts' = [screencasts EXCEPT ![call[c].tab] = None]
    /\ Goto(c, "casting")
    /\ UNCHANGED <<vars, pageVars, traceVars, job, artifactVars, sweep, shutdown, history>>

NewJob(c) == [phase |-> "recording", control |-> "record", terminal |-> "none",
              session |-> call[c].session, tab |-> call[c].tab, target |-> call[c].target]

\* shutting_down as the call reads it once its capture has started
Inserts(c) == shutdown = "no"

CastStarts(c) ==
    LET j == call[c].job
    IN  /\ At(c, "casting") /\ page[call[c].target] = "open" /\ Inserts(c)
        /\ job' = [job EXCEPT ![j] = NewJob(c)]
        /\ screencasts' = [screencasts EXCEPT ![call[c].tab] = j]
        /\ cast_lock' = None
        /\ End(c)
        /\ UNCHANGED <<vars, pageVars, traceVars, artifactVars, sweep, shutdown, history>>

\* The browser refused, or the broker is shutting down and the capture that
\* did start was cancelled and awaited: either way nothing is left of it.
CastFails(c) ==
    /\ At(c, "casting")
    /\ Fails \/ page[call[c].target] # "open" \/ ~Inserts(c)
    /\ Discard(call[c].session, call[c].job)
    /\ cast_lock' = None
    /\ End(c)
    /\ UNCHANGED <<vars, pageVars, traceVars, job, screencasts, records, sweep, shutdown, history>>

\* screencast stop, which looks at the job and not at the lease.  It waits a
\* while for the result, which status reports as well.
StopCast(c) ==
    LET j == screencasts[call[c].tab]
        stops == /\ j # None
                 /\ job[j].session = call[c].session
                 /\ Unfinished(j) /\ job[j].control = "record"
    IN  /\ At(c, "handle") /\ Is(c, {"stop_cast"}) /\ cast_lock = None
        /\ job' = IF stops THEN [job EXCEPT ![j].control = "stop"] ELSE job
        /\ End(c)
        /\ UNCHANGED <<vars, pageVars, traceVars, screencasts, cast_lock, artifactVars,
                       sweep, shutdown, history>>

(***************************************************************************)
(* The capture task (run_streaming_screencast) and the finalizer.          *)
(***************************************************************************)
OnlyJobs == UNCHANGED <<vars, pageVars, traceVars, screencasts, cast_lock, call, sweep,
                        shutdown, history>>

\* Stopped, or max_duration_ms is over.
SourceStops(j) ==
    /\ Recording(j) /\ job[j].control # "cancel"
    /\ job' = [job EXCEPT ![j].phase = "finalizing"]
    /\ UNCHANGED artifactVars /\ OnlyJobs

SourceFails(j) ==
    /\ Recording(j)
    /\ job[j].control = "cancel" \/ page[job[j].target] # "open" \/ Fails
    /\ job' = [job EXCEPT ![j].phase = "bad"]
    /\ UNCHANGED artifactVars /\ OnlyJobs

\* A cancel that comes after the last chunk was written changes nothing.
CaptureEnds(j) ==
    /\ job[j].phase = "finalizing"
    /\ job' \in {[job EXCEPT ![j].phase = "good"]} \cup
                (IF Fails \/ job[j].control = "cancel" THEN {[job EXCEPT ![j].phase = "bad"]} ELSE {})
    /\ UNCHANGED artifactVars /\ OnlyJobs

StillReserved(j) == j \in reservations
AlwaysReserved(j) == TRUE

\* publish_reserved refuses a reservation that remove_session has withdrawn.
Publishes(j) == StillReserved(j)

\* finalize_screencast_job: publish the reserved file under its own name, or
\* discard it; then the terminal state
Finalize(j) ==
    LET record == RecordOf(job[j].session, j)
    IN  /\ job[j].phase \in {"good", "bad"}
        /\ \/ /\ job[j].phase = "good" /\ Publishes(j)
              /\ records' = records \cup {record}
              /\ reservations' = reservations \ {j}
              /\ files' = (files \ {File(record, "partial")}) \cup {File(record, "whole")}
              /\ job' = [job EXCEPT ![j].phase = "done", ![j].terminal = "ready"]
           \/ /\ job[j].phase = "bad" \/ ~Publishes(j) \/ Fails
              /\ Discard(job[j].session, j)
              /\ job' = [job EXCEPT ![j].phase = "done", ![j].terminal = "error"]
              /\ UNCHANGED records
        /\ OnlyJobs

JobStep(j) == SourceStops(j) \/ SourceFails(j) \/ CaptureEnds(j) \/ Finalize(j)

(***************************************************************************)
(* claim_tab: a takeover stops the trace, cancels recordings and resets    *)
(* the emulation before the registry decides.                              *)
(***************************************************************************)
LookUpClaim(c) ==
    /\ At(c, "handle") /\ Is(c, ClaimMethods)
    /\ IF page[call[c].target] # "open" THEN End(c)
       ELSE Goto(c, IF Is(c, {"claim"}) THEN "claim" ELSE "take_trace")
    /\ OnlyCall

TakeoverStopsTrace(c) ==
    /\ At(c, "take_trace") /\ trace_lock = None
    /\ traces' = traces \ {call[c].target}
    /\ Goto(c, "take_casts")
    /\ UNCHANGED <<vars, pageVars, trace_lock, castVars, sweep, shutdown, history>>

\* On to BrowserBackend::emulate(target, "reset").
TakeoverCancels(c) ==
    /\ At(c, "take_casts") /\ cast_lock = None
    /\ job' = Cancelled({j \in Current(call[c].target) : Recording(j)})
    /\ call' = Emulating(c, ResetAll, "claim")
    /\ UNCHANGED <<vars, pageVars, traceVars, screencasts, cast_lock, artifactVars,
                   sweep, shutdown, history>>

Takes(c) == Is(c, {"takeover", "takeover_uninstructed"})
Forgotten(c) == IF Takes(c) THEN Without(viewport_overrides, {call[c].target})
                            ELSE viewport_overrides

Claim(c, b) ==
    /\ At(c, "claim")
    /\ ClaimTab(call[c].session, call[c].target, b, Takes(c), Is(c, {"takeover"}))
    /\ viewport_overrides' = Forgotten(c)
    /\ End(c)
    /\ UNCHANGED <<profile, page, emulated, traceVars, castVars, sweep, shutdown, history>>

ClaimRefused(c) ==
    /\ At(c, "claim")
    /\ Withdrawn(call[c].target) \/ (HasActiveLease(call[c].target) /\ ~Is(c, {"takeover"}))
    /\ viewport_overrides' = Forgotten(c)
    /\ End(c)
    /\ UNCHANGED <<vars, profile, page, emulated, traceVars, castVars, sweep, shutdown, history>>

(***************************************************************************)
(* release_tab: nothing may be recording; reset the emulation; release.    *)
(***************************************************************************)
ValidateRelease(c) ==
    /\ At(c, "handle") /\ Is(c, {"release"}) /\ cast_lock = None
    /\ IF ~MayRelease(c) \/ (leases[call[c].tab].state = "active" /\ BusyTab(call[c].tab))
       THEN End(c)
       ELSE call' = [call EXCEPT
                       ![c].target = leases[call[c].tab].target,
                       ![c].pc = IF leases[call[c].tab].state = "active" THEN "untraced" ELSE "release"]
    /\ OnlyCall

ReleaseUntraced(c) ==
    /\ At(c, "untraced") /\ trace_lock = None
    /\ IF call[c].target \in traces THEN End(c)
       ELSE IF page[call[c].target] = "open" THEN call' = Emulating(c, ResetAll, "release")
       ELSE Goto(c, "release")
    /\ OnlyCall

Release(c) ==
    /\ At(c, "release")
    /\ IF MayRelease(c)
       THEN /\ ReleaseTab(call[c].session, call[c].tab, FALSE)
            /\ viewport_overrides' = Without(viewport_overrides, {call[c].target})
       ELSE UNCHANGED <<vars, viewport_overrides>>
    /\ End(c)
    /\ UNCHANGED <<profile, page, emulated, traceVars, castVars, sweep, shutdown, history>>

(***************************************************************************)
(* close_tab: no trace may be running; a recording is cancelled, a job     *)
(* that is finalizing goes on.                                             *)
(***************************************************************************)
ValidateClose(c) ==
    /\ At(c, "handle") /\ Is(c, {"close"}) /\ trace_lock = None
    /\ IF ~RequireOwnedTab(call[c].session, call[c].tab) \/ leases[call[c].tab].target \in traces
       THEN End(c)
       ELSE call' = [call EXCEPT ![c].target = leases[call[c].tab].target, ![c].pc = "reserve"]
    /\ OnlyCall

Reserve(c) ==
    /\ At(c, "reserve") /\ cast_lock = None
    /\ IF MayRelease(c) /\ ~Closing(call[c].target)
       THEN /\ ReserveOwnedTabClose(call[c].session, call[c].tab)
            /\ call' = [call EXCEPT
                          ![c].job = screencasts[call[c].tab],
                          ![c].pc = IF leases[call[c].tab].state = "active" THEN "closing"
                                                                            ELSE "commit"]
       ELSE End(c) /\ UNCHANGED vars
    /\ NoBrowserWork

\* How far a reset that another handler makes in passing may get.
Resets(t) ==
    {[emulated EXCEPT ![t] = [k \in Overrides |-> IF k \in done THEN None ELSE @[k]]] :
        done \in {{}, {"metrics"}, {"metrics", "touch"}, Overrides}}

PageGone(t) == [page EXCEPT ![t] = IF @ = "open" THEN "gone" ELSE @]

\* BrowserBackend::emulate(target, "reset") and close_target; a page that is
\* already gone needs neither.
ClosePage(c) ==
    /\ At(c, "closing")
    /\ page' = PageGone(call[c].target)
    /\ emulated' = [emulated EXCEPT ![call[c].target] = Clean]
    /\ Goto(c, "commit")
    /\ UNCHANGED <<vars, profile, viewport_overrides, traceVars, castVars, sweep, shutdown, history>>

EndReservation(c) ==
    IF pending_target_closes[call[c].target] = call[c].tab
    THEN FinishOwnedTabCloseReservation(call[c].target, call[c].tab)
    ELSE UNCHANGED vars

ClosePageFails(c) ==
    /\ At(c, "closing") /\ Fails
    /\ emulated' \in Resets(call[c].target)
    /\ EndReservation(c)
    /\ End(c)
    /\ UNCHANGED <<profile, page, viewport_overrides, traceVars, castVars, sweep, shutdown, history>>

CommitClose(c) ==
    LET j == call[c].job
    IN  /\ At(c, "commit")
        /\ job' = Cancelled(IF j # None /\ Recording(j) THEN {j} ELSE {})
        /\ viewport_overrides' = Without(viewport_overrides, {call[c].target})
        /\ IF MayRelease(c) THEN CommitOwnedTabClose(call[c].session, call[c].tab)
                            ELSE EndReservation(c)
        /\ End(c)
        /\ UNCHANGED <<profile, page, emulated, traceVars, screencasts, cast_lock, artifactVars,
                       sweep, shutdown, history>>

(***************************************************************************)
(* The expiry sweep: per expired session, its jobs, its artifacts, the     *)
(* emulation of its released targets, and the pages it has to close.       *)
(***************************************************************************)
SweepExpire ==
    LET E == ExpiredIds(clock, InFlight)
    IN  /\ sweep.pc = "idle" /\ shutdown = "no"
        /\ ExpireSessions(clock, InFlight)
        /\ sweep' = [pc |-> "next", expired |-> E, released |-> ToRelease(E)]
        /\ history' = [history EXCEPT
             !.left = @ \cup (traces \cap {leases[b].target : b \in ToRelease(E)})]
        /\ UNCHANGED <<pageVars, traceVars, castVars, call, shutdown>>

\* cancel_session_screencasts
SweepCancels ==
    LET mine == {b \in Tabs : screencasts[b] # None /\ job[screencasts[b]].session \in sweep.expired}
    IN  /\ sweep.pc = "next" /\ cast_lock = None
        /\ screencasts' = Without(screencasts, mine)
        /\ job' = Cancelled({j \in {screencasts[b] : b \in mine} : Unfinished(j)})
        /\ sweep' = [sweep EXCEPT !.pc = "clear"]
        /\ UNCHANGED <<vars, pageVars, traceVars, cast_lock, artifactVars, call,
                       shutdown, history>>

\* what remove_session leaves of the reservations
Unreserved(S) == {j \in reservations : job[j].session \notin S}

SweepRemovesArtifacts ==
    /\ sweep.pc = "clear"
    /\ records' = {r \in records : r.session \notin sweep.expired}
    /\ reservations' = Unreserved(sweep.expired)
    /\ files' = {f \in files : f.of.session \notin sweep.expired \/ f.part = "temporary"}
    /\ sweep' = [sweep EXCEPT !.pc = "reset"]
    /\ UNCHANGED <<vars, pageVars, traceVars, job, screencasts, cast_lock, call, shutdown, history>>

\* The reset is best effort, and whoever drives the target by now is not asked.
SweepResets(b) ==
    LET t == leases[b].target
    IN  /\ sweep.pc = "reset" /\ b \in sweep.released
        /\ \/ /\ emulated' = [emulated EXCEPT ![t] = Clean]
              /\ history' = [history EXCEPT !.late = @ \ {t}, !.unreset = @ \ {t}]
           \/ /\ Fails
              /\ emulated' \in Resets(t)
              /\ history' = [history EXCEPT !.unreset = @ \cup {t}]
        /\ viewport_overrides' = [viewport_overrides EXCEPT ![t] = None]
        /\ sweep' = [sweep EXCEPT !.released = @ \ {b}]
        /\ UNCHANGED <<vars, profile, page, traceVars, castVars, call, shutdown>>

\* close_expired_vbl_target
SweepCloses(x, closed) ==
    LET j == screencasts[x.tab]
    IN  /\ sweep.pc = "reset" /\ sweep.released = {}
        /\ trace_lock = None /\ cast_lock = None
        /\ closed \/ Fails
        /\ traces' = traces \ {x.target}
        /\ screencasts' = [screencasts EXCEPT ![x.tab] = None]
        /\ job' = Cancelled({j} \ {None})
        /\ page' = IF closed THEN PageGone(x.target) ELSE page
        /\ emulated' \in IF Fails /\ ~closed THEN Resets(x.target)
                                              ELSE {[emulated EXCEPT ![x.target] = Clean]}
        /\ history' = [history EXCEPT
                         !.unreset = IF emulated'[x.target] = Clean THEN @ ELSE @ \cup {x.target}]
        /\ viewport_overrides' = Without(viewport_overrides, {x.target})
        /\ FinishExpiredTargetClose(x, closed)
        /\ UNCHANGED <<profile, trace_lock, cast_lock, artifactVars, call, sweep, shutdown>>

SweepEnds ==
    /\ sweep.pc = "reset" /\ sweep.released = {} /\ sweep_closes = {}
    /\ sweep' = NoSweep
    /\ UNCHANGED <<vars, pageVars, traceVars, castVars, call, shutdown, history>>

(***************************************************************************)
(* Shutdown: set shutting_down, drain the connections, cancel every job.   *)
(***************************************************************************)
ShutsDown ==
    /\ Happens("stops") /\ shutdown = "no" /\ sweep.pc = "idle"
    /\ shutdown' = "draining"
    /\ UNCHANGED <<vars, pageVars, traceVars, castVars, call, sweep, history>>

\* The drain may run into its deadline with calls still running.
CancelAll ==
    /\ shutdown = "draining" /\ cast_lock = None
    /\ job' = Cancelled({j \in {screencasts[b] : b \in Tabs} \ {None} : Unfinished(j)})
    /\ screencasts' = [b \in Tabs |-> None]
    /\ shutdown' = "cancelled"
    /\ UNCHANGED <<vars, pageVars, traceVars, cast_lock, artifactVars, call, sweep, history>>

HumanCloses(t) ==
    /\ Happens("human") /\ page[t] = "open"
    /\ page' = PageGone(t)
    /\ emulated' = [emulated EXCEPT ![t] = Clean]
    /\ UNCHANGED <<vars, profile, viewport_overrides, traceVars, castVars, call, sweep, shutdown, history>>

TimePasses == Tick /\ UNCHANGED call /\ NoBrowserWork

-----------------------------------------------------------------------------
\* Bound: a request that needs a fresh tab or job is sent while one is left.
Spare(m) ==
    /\ m \in ClaimMethods \cup {"new_tab"} =>
          Cardinality({b \in Tabs : FreshTab(b)})
            > Cardinality({c \in Calls : Is(c, ClaimMethods \cup {"new_tab"})})
    /\ m = "start_cast" =>
          Cardinality({j \in Jobs : job[j] = NoJob}) > Cardinality({c \in Calls : Is(c, {"start_cast"})})

ClientStep(c) ==
    \E m \in profile.methods, s \in Sessions, b \in Maybe(Tabs), t \in Maybe(Targets) :
        /\ (m \in TabMethods) = (b # None)
        /\ (m \in ClaimMethods \cup {"new_tab"}) = (t # None)
        /\ Spare(m)
        /\ Send(c, m, s, b, t)

ToolStep(c) ==
    \/ ValidateTool(c) \/ CheckOwned(c)
    \/ \E b \in Tabs : Reconcile(c, b) \/ NewTab(c, b)
    \/ TakeTraces(c) \/ TraceStarts(c) \/ ReloadTraced(c) \/ StopTrace(c) \/ StoreArtifact(c)
    \/ Capture(c) \/ DeleteArtifact(c) \/ AuditStarts(c) \/ AuditRuns(c)
    \/ Emulate(c) \/ Command(c) \/ RecordOverride(c)
    \/ \E j \in Jobs : ReserveArtifact(c, j)
    \/ RefusedCast(c) \/ TakeJobs(c) \/ CastStarts(c) \/ CastFails(c) \/ StopCast(c)

HandoverStep(c) ==
    \/ LookUpClaim(c) \/ TakeoverStopsTrace(c) \/ TakeoverCancels(c)
    \/ \E b \in Tabs : Claim(c, b)
    \/ ClaimRefused(c)
    \/ ValidateRelease(c) \/ ReleaseUntraced(c) \/ Release(c)
    \/ ValidateClose(c) \/ Reserve(c) \/ ClosePage(c) \/ ClosePageFails(c) \/ CommitClose(c)

SweepStep ==
    \/ SweepExpire \/ SweepCancels \/ SweepRemovesArtifacts \/ SweepEnds
    \/ \E b \in Tabs : SweepResets(b)
    \/ \E x \in sweep_closes, closed \in BOOLEAN : SweepCloses(x, closed)

CaptureNext ==
    \/ \E s \in Sessions : Begin(s)
    \/ \E c \in Calls : ClientStep(c) \/ ToolStep(c) \/ HandoverStep(c)
    \/ \E j \in Jobs : JobStep(j)
    \/ SweepStep \/ ShutsDown \/ CancelAll \/ TimePasses
    \/ \E t \in Targets : HumanCloses(t)

CaptureSpec == CaptureInit /\ [][CaptureNext]_capVars

-----------------------------------------------------------------------------
\* No artifact outlives its session: what a finalizer publishes or a trace
\* stores belongs to a live session, or to one whose artifacts the sweep is
\* about to remove (publish_reserved against remove_session).  And every
\* reservation is somebody's: a start that has not decided yet, or a job whose
\* finalizer will publish or discard it.  On disk lies what the registry knows
\* of, a whole file for a record and a partial one for a reservation, and
\* beside that only what a failed write left.
ArtifactsFollowSessions ==
    /\ \A r \in records :
         Live(r.session) \/ (sweep.pc \in {"next", "clear"} /\ r.session \in sweep.expired)
    /\ \A j \in reservations :
         Unfinished(j) \/ \E c \in Calls : call[c].job = j /\ call[c].pc \in {"jobs", "casting"}
    /\ records = {f.of : f \in {g \in files : g.part = "whole"}}
    /\ reservations = {f.of.from : f \in {g \in files : g.part = "partial"}}
    /\ (\E f \in files : f.part = "temporary") => Fails

\* Every recorder is answered for: a target has at most one that nobody has
\* cancelled, whatever start, takeover, expiry and shutdown do between a start's
\* check and its insertion (the lock on state.screencasts), and once the
\* shutdown has cancelled the jobs, none is left or comes into being that it
\* missed (shutting_down, read again after the await).
RecordersAreAnsweredFor ==
    /\ \A j, k \in Jobs : /\ Unfinished(j) /\ job[j].control # "cancel"
                          /\ Unfinished(k) /\ job[k].control # "cancel"
                          /\ job[j].target = job[k].target
                          => j = k
    /\ shutdown = "cancelled" => \A j \in Jobs : Unfinished(j) => job[j].control = "cancel"

\* The one trace Chrome allows can be ended by someone: its page is open and
\* claimable, or an owner's validation, a close or the sweep will still meet
\* it.  Only a trace that an expiry left running, or whose start overlapped the
\* handover or the close of its tab, may be lost with its page.
TracesCanBeEnded ==
    \A t \in traces : \/ page[t] = "open" \/ t \in history.left
                      \/ HasActiveLease(t) \/ Closing(t)
                      \/ \E c \in Calls : \E b \in call[c].todo : leases[b].target = t

\* Who claims a target does not inherit another session's overrides: releases,
\* takeovers and the sweep reset it first, and only a reset that failed or is
\* still to come, or an emulation call that overlapped the handover, leaves one.
HandoversAreClean ==
    [][\A t \in Targets :
          active_target_owners'[t] \notin {None, active_target_owners[t]}
          => \/ \A k \in Overrides :
                   emulated[t][k] \in {None, leases'[active_target_owners'[t]].owner}
             \/ t \in history.late \cup history.unreset
             \/ \E b \in sweep.released : leases[b].target = t]_capVars
=============================================================================
