---------------------------- MODULE BrokerTenancy ----------------------------
(***************************************************************************)
(* How a state directory comes to have one broker, and how a broker stops  *)
(* (src/src/broker.rs, src/src/ipc.rs, src/src/surface.rs).                *)
(*                                                                         *)
(* Every tool call runs ensure_running: it retires a broker of the old     *)
(* protocol, looks for a compatible broker, and otherwise takes the start  *)
(* lock, removes what a dead broker left, and spawns one.  A broker binds  *)
(* the socket, writes the pid file and serves until its claim on these     *)
(* files is gone or nobody has needed it; then it closes the listener,     *)
(* drains its connections and removes the files that are still its own.    *)
(* Every file operation is a step of its own, and processes may be killed  *)
(* between any two.  Which of these faults occur is fixed in a behaviour's *)
(* initial state, so that one run covers the behaviours with and without.  *)
(*                                                                         *)
(* Time is left out: a timeout may fire whenever what it waits for has not *)
(* happened, except that a spawned broker binds within                     *)
(* BROKER_START_TIMEOUT unless "slow_start" is among the faults.           *)
(***************************************************************************)
EXTENDS Naturals, FiniteSets

CONSTANTS
    Clients,       \* MCP facades, one tool call at a time
    Brokers,       \* broker processes; one that is dead and unnamed is used again
    None,
    Profiles,      \* initial choices: faults, what clients want, legacy and fallback broker
    MaxFaults,     \* bound: faults that strike in one behaviour, idle exits aside
    ReclaimsName   \* BOOLEAN: dropping a listener unlinks the socket's path

AllFaults == {"broker_crash", "client_killed", "files_vanish", "slow_start", "idle_exit",
              "broker_command"}

\* A broker of the old protocol: whether its process runs, what its default
\* endpoint does, whether the socket file exists, what its pid file names.
LegacyBroker == [running : BOOLEAN, endpoint : {"answers", "hangs", "refuses"},
                 socket : BOOLEAN, pid : {"none", "dead", "foreign", "broker", "endpoint"}]
NoLegacy == [running |-> FALSE, endpoint |-> "refuses", socket |-> FALSE, pid |-> "none"]

\* The broker that served an implicit external endpoint before endpoints had
\* state directories of their own; "off" when the configuration has no such place.
Fallback == {"off", "none", "other", "matching", "old_protocol", "managed", "silent"}

\* The broker a client needs: of its own package version, for its configured runtime.
Kind == [version : {"old", "new"}, runtime : {"managed", "external"}]

\* What an old broker can have left: an endpoint that takes connections or a pid file
\* tells of each one that runs, and the endpoint is a socket file.
Telltale(old) ==
    /\ old.running <=> (old.pid \in {"broker", "endpoint"} \/ old.endpoint # "refuses")
    /\ old.endpoint # "refuses" \/ old.pid = "endpoint" => old.socket

ASSUME ProfilesAssumption ==
    Profiles \subseteq [faults : SUBSET AllFaults, wants : [Clients -> Kind],
                       legacy : {old \in LegacyBroker : Telltale(old)}, fallback : Fallback]
ASSUME NoneAssumption == None \notin Brokers \cup Clients /\ Brokers \cap Clients = {}
ASSUME BoundsAssumption == ReclaimsName \in BOOLEAN /\ MaxFaults \in Nat

VARIABLES
    faults,          \* what may go wrong in this behaviour
    struck,          \* how many faults have struck
    wants,           \* the broker each client needs
    socket,          \* which broker bound the socket file, None if there is none
    pid_file,        \* which broker the pid file names
    start_lock,      \* the client that holds the startup lock
    migration_lock,  \* who holds the previous location's two locks
    broker,          \* the broker processes
    client,          \* the calls
    legacy,
    fallback

files == <<socket, pid_file>>
locks == <<start_lock, migration_lock>>
elders == <<legacy, fallback>>
vars == <<faults, struck, wants, files, locks, broker, client, elders>>

Probing == {"probe", "recheck", "locked", "await", "wait"}
Running == {"starting", "bound", "serving", "draining", "unlink_pid", "unlink_socket"}

StartLocked == {"locked", "terminate", "remove", "cleanup", "unlink_both", "unlink_socket",
                "spawn", "await"}
Is(c, pcs) == client[c].pc \in pcs

BrokerState == [pc : Running \cup {"dead"}, kind : Kind, sessions : BOOLEAN]
CallState == [pc : Probing \cup {"idle", "guard", "fallback", "contend", "terminate", "remove",
                                 "cleanup", "unlink_both", "unlink_socket", "spawn", "call",
                                 "fallback_call"},
              conn : Brokers \cup {None}, accepted : BOOLEAN]

\* Types, and that a lock is held only inside the section it guards.
TypeOK ==
    /\ faults \in SUBSET AllFaults
    /\ struck \in 0..MaxFaults
    /\ wants \in [Clients -> Kind]
    /\ {socket, pid_file} \subseteq Brokers \cup {None}
    /\ start_lock \in Clients \cup {None}
    /\ migration_lock \in Clients \cup Brokers \cup {None}
    /\ broker \in [Brokers -> BrokerState]
    /\ client \in [Clients -> CallState]
    /\ legacy \in LegacyBroker
    /\ fallback \in Fallback
    /\ start_lock # None => Is(start_lock, StartLocked)
    /\ migration_lock \in Clients => ~Is(migration_lock, {"idle", "probe", "guard", "call"})

NoKind == [version |-> "new", runtime |-> "managed"]
Dead == [pc |-> "dead", kind |-> NoKind, sessions |-> FALSE]
Born(kind) == [pc |-> "starting", kind |-> kind, sessions |-> FALSE]
Idle == [pc |-> "idle", conn |-> None, accepted |-> FALSE]

Init ==
    /\ \E p \in Profiles : /\ faults = p.faults /\ wants = p.wants
                           /\ legacy = p.legacy /\ fallback = p.fallback
    /\ struck = 0
    /\ socket = None /\ pid_file = None
    /\ start_lock = None /\ migration_lock = None
    /\ broker = [b \in Brokers |-> Dead]
    /\ client = [c \in Clients |-> Idle]

(***************************************************************************)
(* Helpers.  Listening brokers accept connections at the kernel's level;   *)
(* a connection a broker never accepts is reset when its listener goes.    *)
(***************************************************************************)
Goto(c, pc) == client' = [client EXCEPT ![c] = [Idle EXCEPT !.pc = pc]]
Serving(b) == broker[b].pc = "serving"
Listening(b) == broker[b].pc \in {"bound", "serving"}
Reachable == socket # None /\ Listening(socket)
OpenConnections(b) == {c \in Clients : client[c].conn = b /\ client[c].accepted}
Connected(c) == client[c].conn # None
Lost(c) ==
    LET b == client[c].conn IN
    Connected(c) /\ IF client[c].accepted THEN broker[b].pc = "dead" ELSE ~Listening(b)

Strikes(fault) ==
    /\ fault \in faults /\ struck < MaxFaults
    /\ struck' = struck + 1

Freed(lock, c) == IF lock = c THEN None ELSE lock
\* The call returns, with a result or an error, and drops the locks it holds.
Return(c) ==
    /\ Goto(c, "idle")
    /\ start_lock' = Freed(start_lock, c)
    /\ migration_lock' = Freed(migration_lock, c)

OnlyClients == UNCHANGED <<faults, struck, wants, files, broker, elders>>
OnlyClientSteps == OnlyClients /\ UNCHANGED locks

(***************************************************************************)
(* ensure_running.  A call starts by retiring the old protocol's broker,   *)
(* under its own startup lock, which keeps old clients from starting       *)
(* another meanwhile.                                                      *)
(***************************************************************************)
\* A live process that cannot be shown to be the broker of the old endpoint is
\* neither killed nor joined by a second broker: the call fails.
RetireRefuses(old) ==
    \/ ~old.socket /\ old.pid \in {"broker", "endpoint"}
    \/ old.endpoint = "hangs" /\ old.pid # "endpoint"
    \/ old.socket /\ old.endpoint = "refuses" /\ old.pid \in {"foreign", "broker"}

Kills(old) == old.socket /\ (old.endpoint # "refuses" \/ old.pid = "endpoint")

Retire(c) ==
    /\ Is(c, {"idle"})
    /\ ~RetireRefuses(legacy)
    /\ legacy' = [NoLegacy EXCEPT !.running = legacy.running /\ ~Kills(legacy)]
    /\ Goto(c, "probe")
    /\ UNCHANGED <<faults, struck, wants, files, locks, broker, fallback>>

(***************************************************************************)
(* A probe connects and pings.  A client probes without a lock first, then *)
(* behind the migration guard, then under the start lock, and while it     *)
(* waits for the broker it or another client spawned.                      *)
(***************************************************************************)
VersionFirst(c, b) ==
    LET kind == broker[b].kind IN
    CASE kind = wants[c] -> "compatible"
      [] kind.version # wants[c].version -> "replace"
      [] OTHER -> "preserve"
BrokerStatusMismatch(c, b) ==
    LET kind == broker[b].kind IN
    CASE kind = wants[c] -> "compatible"
      [] kind.runtime # wants[c].runtime -> "preserve"
      [] OTHER -> "replace"

Connect(c) ==
    /\ Is(c, Probing) /\ ~Connected(c) /\ Reachable
    /\ client' = [client EXCEPT ![c].conn = socket]
    /\ OnlyClientSteps

\* Accepting counts the connection; dropping it, here with the step that ends
\* its use, counts it back.
Accept(b, c) ==
    /\ Serving(b) /\ client[c].conn = b /\ ~client[c].accepted
    /\ ~Is(c, {"terminate"})
    /\ client' = [client EXCEPT ![c].accepted = TRUE]
    /\ OnlyClientSteps

Answers(c) == Is(c, Probing) /\ client[c].accepted /\ broker[client[c].conn].pc # "dead"

ProbeCompatible(c) ==
    /\ Answers(c)
    /\ BrokerStatusMismatch(c, client[c].conn) = "compatible"
    /\ client' = [client EXCEPT ![c].pc = "call"]
    /\ start_lock' = Freed(start_lock, c)
    /\ migration_lock' = Freed(migration_lock, c)
    /\ OnlyClients

\* Without a previous location there is no guard to take and nothing to fall back to.
Implicit == fallback # "off"
AfterMismatch == [probe |-> IF Implicit THEN "guard" ELSE "recheck",
                  recheck |-> "contend", await |-> "await", wait |-> "contend"]
ProbeIncompatible(c) ==
    /\ Answers(c) /\ ~Is(c, {"locked"})
    /\ BrokerStatusMismatch(c, client[c].conn) # "compatible"
    /\ Goto(c, AfterMismatch[client[c].pc])
    /\ OnlyClientSteps

\* Under the start lock a mismatch is reconciled: a broker of another version
\* is replaced, one of another runtime is left running and the call fails.
ReconcileReplace(c) ==
    /\ Answers(c) /\ Is(c, {"locked"})
    /\ BrokerStatusMismatch(c, client[c].conn) = "replace"
    /\ client' = [client EXCEPT ![c].pc = "terminate", ![c].accepted = FALSE]
    /\ OnlyClientSteps

ReconcilePreserve(c) ==
    /\ Answers(c) /\ Is(c, {"locked"})
    /\ BrokerStatusMismatch(c, client[c].conn) = "preserve"
    /\ Return(c)
    /\ OnlyClients

AfterFailureAlone == [probe |-> "recheck", recheck |-> "contend", locked |-> "cleanup",
                      await |-> "await", wait |-> "contend"]
AfterFailure == [probe |-> IF Implicit THEN "guard" ELSE "recheck",
                 recheck |-> IF Implicit THEN "fallback" ELSE "contend",
                 locked |-> "cleanup", await |-> "await", wait |-> "contend"]
ProbeFails(c) ==
    /\ Is(c, Probing)
    /\ Lost(c) \/ (~Connected(c) /\ ~Reachable /\ ~Is(c, {"await"}))
    /\ Goto(c, AfterFailure[client[c].pc])
    /\ OnlyClientSteps

(***************************************************************************)
(* The migration guard, which closes the race with clients that still use  *)
(* the previous location of an implicit external endpoint.                 *)
(***************************************************************************)
TakeGuard(c) ==
    /\ Is(c, {"guard"}) /\ migration_lock = None
    /\ migration_lock' = c
    /\ Goto(c, "recheck")
    /\ UNCHANGED start_lock /\ OnlyClients

GuardTimesOut(c) ==
    /\ Is(c, {"guard"}) /\ migration_lock # None
    /\ Return(c)
    /\ OnlyClients

NoFallback == fallback \in {"off", "none", "other"}
UseFallback(c) ==
    /\ Is(c, {"fallback"}) /\ fallback = "matching"
    /\ client' = [client EXCEPT ![c].pc = "fallback_call"]
    /\ migration_lock' = Freed(migration_lock, c)
    /\ UNCHANGED start_lock /\ OnlyClients

FallbackAbsent(c) ==
    /\ Is(c, {"fallback"}) /\ NoFallback
    /\ Goto(c, "contend")
    /\ OnlyClientSteps

FallbackBlocks(c) ==
    /\ Is(c, {"fallback"}) /\ ~NoFallback /\ fallback # "matching"
    /\ Return(c)
    /\ OnlyClients

FallbackReturns(c) ==
    /\ Is(c, {"fallback_call"})
    /\ Return(c)
    /\ OnlyClients

\* The previous broker is never stopped by a client; it exits by itself.
FallbackExits ==
    /\ fallback \notin {"off", "none"}
    /\ fallback' = "none"
    /\ UNCHANGED <<faults, struck, wants, files, locks, broker, client, legacy>>

(***************************************************************************)
(* The startup lock.                                                       *)
(***************************************************************************)
TryLockShared(c) ==
    /\ Is(c, {"contend"})
    /\ start_lock' = c /\ Goto(c, "locked")
    /\ UNCHANGED migration_lock /\ OnlyClients
TryLock(c) ==
    /\ Is(c, {"contend"})
    /\ IF start_lock = None
       THEN start_lock' = c /\ Goto(c, "locked")
       ELSE start_lock' = start_lock /\ Goto(c, "wait")
    /\ UNCHANGED migration_lock /\ OnlyClients

Deadline(c) ==
    /\ Is(c, {"contend"})
    /\ Return(c)
    /\ OnlyClients

\* terminate_broker_claim kills the pid the ping reported, then removes the files.
Terminate(c) ==
    /\ Is(c, {"terminate"})
    /\ broker' = [broker EXCEPT ![client[c].conn] = Dead]
    /\ Goto(c, "remove")
    /\ UNCHANGED <<faults, struck, wants, files, locks, elders>>

RemoveClaim(c) ==
    /\ Is(c, {"remove"})
    /\ socket' = None /\ pid_file' = None
    /\ Goto(c, "cleanup")
    /\ UNCHANGED <<faults, struck, wants, locks, broker, elders>>

CleanupNothing(c) ==
    /\ Is(c, {"cleanup"}) /\ socket = None
    /\ Goto(c, "spawn")
    /\ OnlyClientSteps

NamesLivePid == pid_file # None /\ broker[pid_file].pc # "dead"

CleanupRefused(c) ==
    /\ Is(c, {"cleanup"}) /\ socket # None /\ NamesLivePid
    /\ Return(c)
    /\ OnlyClients

CleanupDecides(c) ==
    /\ Is(c, {"cleanup"}) /\ socket # None /\ ~NamesLivePid
    /\ Goto(c, IF pid_file = None THEN "unlink_socket" ELSE "unlink_both")
    /\ OnlyClientSteps

CleanupUnlinks(c) ==
    /\ Is(c, {"unlink_socket", "unlink_both"})
    /\ socket' = None
    /\ pid_file' = IF Is(c, {"unlink_both"}) THEN None ELSE pid_file
    /\ Goto(c, "spawn")
    /\ UNCHANGED <<faults, struck, wants, locks, broker, elders>>

Unused(b) == broker[b].pc = "dead" /\ b \notin {socket, pid_file}
             /\ \A c \in Clients : client[c].conn # b
\* Which process id the system hands out makes no difference.
Fresh == CHOOSE b \in Brokers : Unused(b)
SpawnBroker(c) ==
    /\ Is(c, {"spawn"})
    /\ \E b \in Brokers : Unused(b)
    /\ broker' = [broker EXCEPT ![Fresh] = Born(wants[c])]
    /\ Goto(c, "await")
    /\ UNCHANGED <<faults, struck, wants, files, locks, elders>>

\* Nobody a client may still hope for is starting.
NobodyStarts == \A b \in Brokers : broker[b].pc # "starting"
AwaitTimesOutIfLost(c) ==
    /\ Is(c, {"await"})
    /\ Lost(c)
    /\ Return(c)
    /\ OnlyClients
AwaitTimesOut(c) ==
    /\ Is(c, {"await"})
    /\ Lost(c) \/ (~Connected(c) /\ ~Reachable /\ NobodyStarts)
    /\ Return(c)
    /\ OnlyClients

\* The broker it waits for takes longer than BROKER_START_TIMEOUT to bind.
SlowStart(c) ==
    /\ Is(c, {"await"}) /\ ~Connected(c) /\ ~Reachable
    /\ Strikes("slow_start")
    /\ Return(c)
    /\ UNCHANGED <<faults, wants, files, broker, elders>>

(***************************************************************************)
(* The call itself: one request on the connection the probe made.          *)
(***************************************************************************)
\* Sessions matter to idle exit only, and are left out of behaviours without it.
CallReturns(c) ==
    /\ Is(c, {"call"}) /\ ~Lost(c)
    /\ Goto(c, "idle")
    /\ \E started \in {FALSE, "idle_exit" \in faults} :
         broker' = [broker EXCEPT ![client[c].conn].sessions = @ \/ started]
    /\ UNCHANGED <<faults, struck, wants, files, locks, elders>>

CallFails(c) ==
    /\ Is(c, {"call"}) /\ Lost(c)
    /\ Return(c)
    /\ OnlyClients

\* The host kills the facade: the kernel closes its connection and frees its locks.
ClientKilled(c) ==
    /\ Strikes("client_killed") /\ ~Is(c, {"idle"})
    /\ Return(c)
    /\ UNCHANGED <<faults, wants, files, broker, elders>>

(***************************************************************************)
(* The broker process.  Step(b, pc) moves it on.                           *)
(***************************************************************************)
Step(b, pc) == broker' = [broker EXCEPT ![b].pc = pc]
Exit(b) == broker' = [broker EXCEPT ![b] = Dead]
NoClientSteps == UNCHANGED <<faults, struck, wants, client, elders>>

\* The broker subcommand started by hand takes the migration guard itself, not
\* the start lock, and gives the guard back once it is bound.
RunBroker(b) ==
    /\ Strikes("broker_command")
    /\ Unused(b) /\ b = Fresh /\ NoFallback
    /\ ~Implicit \/ migration_lock = None
    /\ migration_lock' = IF Implicit THEN b ELSE migration_lock
    /\ \E c \in Clients : broker' = [broker EXCEPT ![b] = Born(wants[c])]
    /\ UNCHANGED <<faults, wants, files, start_lock, client, elders>>

Bind(b) ==
    /\ broker[b].pc = "starting" /\ socket = None
    /\ socket' = b
    /\ Step(b, "bound")
    /\ UNCHANGED <<pid_file, locks>> /\ NoClientSteps

BindFails(b) ==
    /\ broker[b].pc = "starting" /\ socket # None
    /\ Exit(b)
    /\ migration_lock' = Freed(migration_lock, b)
    /\ UNCHANGED <<files, start_lock>> /\ NoClientSteps

WritePidFile(b) ==
    /\ broker[b].pc = "bound"
    /\ pid_file' = b
    /\ Step(b, "serving")
    /\ migration_lock' = Freed(migration_lock, b)
    /\ UNCHANGED <<socket, start_lock>> /\ NoClientSteps

\* A missing pid file is no violation, and the socket file may be anyone's.
TenancyViolationBySocket(b) == socket = None
TenancyViolation(b) == socket = None \/ pid_file \notin {None, b}

\* Leaving the serve loop drops the listener before the drain.
Leave(b) ==
    /\ Step(b, "draining")
    /\ socket' = IF ReclaimsName THEN None ELSE socket
    /\ UNCHANGED <<pid_file, locks>> /\ NoClientSteps

TenancyExit(b) == Serving(b) /\ TenancyViolation(b) /\ Leave(b)

SweepSessions(b) ==
    /\ Serving(b) /\ ~TenancyViolation(b)
    /\ broker[b].sessions
    /\ broker' = [broker EXCEPT ![b].sessions = FALSE]
    /\ UNCHANGED <<files, locks>> /\ NoClientSteps

IdleExitPermitted(b) == OpenConnections(b) = {} /\ ~broker[b].sessions
IdleExit(b) ==
    /\ "idle_exit" \in faults
    /\ Serving(b) /\ IdleExitPermitted(b)
    /\ Leave(b)

\* Drained, or SHUTDOWN_DRAIN_TIMEOUT has passed: the RuntimeFileGuard drops.
OwnsPidFile(b) == pid_file = b
Drained(b) ==
    /\ broker[b].pc = "draining"
    /\ IF OwnsPidFile(b) THEN Step(b, "unlink_pid") ELSE Exit(b)
    /\ UNCHANGED <<files, locks>> /\ NoClientSteps

UnlinkPid(b) ==
    /\ broker[b].pc = "unlink_pid"
    /\ pid_file' = None
    /\ Step(b, "unlink_socket")
    /\ UNCHANGED <<socket, locks>> /\ NoClientSteps

UnlinkSocket(b) ==
    /\ broker[b].pc = "unlink_socket"
    /\ socket' = None
    /\ Exit(b)
    /\ UNCHANGED <<pid_file, locks>> /\ NoClientSteps

Crash(b) ==
    /\ Strikes("broker_crash") /\ broker[b].pc # "dead"
    /\ Exit(b)
    /\ migration_lock' = Freed(migration_lock, b)
    /\ UNCHANGED <<faults, wants, files, start_lock, client, elders>>

\* Someone clears the cache: the lock files go too, so a later client locks a
\* file of its own while an earlier one still holds the lock it took.
FilesVanish ==
    /\ Strikes("files_vanish") /\ socket # None
    /\ socket' = None /\ pid_file' = None /\ start_lock' = None
    /\ UNCHANGED <<faults, wants, migration_lock, broker, client, elders>>

(***************************************************************************)
(* The specification.                                                      *)
(***************************************************************************)
ProbeStep(c) ==
    \/ Connect(c) \/ ProbeCompatible(c) \/ ProbeIncompatible(c) \/ ReconcileReplace(c)
    \/ ReconcilePreserve(c) \/ ProbeFails(c)

ClientStep(c) ==
    \/ ProbeStep(c)
    \/ TakeGuard(c) \/ GuardTimesOut(c)
    \/ UseFallback(c) \/ FallbackAbsent(c) \/ FallbackBlocks(c) \/ FallbackReturns(c)
    \/ TryLock(c) \/ Terminate(c) \/ RemoveClaim(c)
    \/ CleanupNothing(c) \/ CleanupRefused(c) \/ CleanupDecides(c) \/ CleanupUnlinks(c)
    \/ SpawnBroker(c) \/ AwaitTimesOut(c) \/ CallReturns(c) \/ CallFails(c)

Startup(b) == Bind(b) \/ BindFails(b) \/ WritePidFile(b)
Shutdown(b) == Drained(b) \/ UnlinkPid(b) \/ UnlinkSocket(b)

BrokerStep(b) ==
    \/ Startup(b) \/ Shutdown(b)
    \/ TenancyExit(b) \/ SweepSessions(b) \/ IdleExit(b)

Next ==
    \/ \E c \in Clients : Retire(c) \/ ClientStep(c) \/ Deadline(c) \/ SlowStart(c) \/ ClientKilled(c)
    \/ \E b \in Brokers : BrokerStep(b) \/ RunBroker(b) \/ Crash(b)
    \/ \E b \in Brokers, c \in Clients : Accept(b, c)
    \/ FallbackExits
    \/ FilesVanish

Spec == Init /\ [][Next]_vars

\* Calls and brokers are tasks a runtime keeps polling, kernel and timers included;
\* a timer that is set again each time round still ends the loop it bounds.
\* A spawn waits only for the bounded set of processes.  Faults, new calls and the fallback's exit are never forced.
Fairness ==
    /\ \A c \in Clients : /\ WF_vars(ClientStep(c))
                          /\ SF_vars(Deadline(c) \/ AwaitTimesOut(c) \/ SpawnBroker(c))
                          /\ WF_vars(\E b \in Brokers : Accept(b, c))
    /\ \A b \in Brokers : /\ WF_vars(Startup(b) \/ Shutdown(b) \/ TenancyExit(b))
                          /\ WF_vars(OpenConnections(b) = {} /\ SweepSessions(b))
                          /\ WF_vars(IdleExit(b))
FairSpec == Spec /\ Fairness

(***************************************************************************)
(* Properties.                                                             *)
(***************************************************************************)
OneRegistry == \A b1, b2 \in Brokers : Listening(b1) /\ Listening(b2) => b1 = b2

\* At most one broker listens, so no two lease registries act on one Chrome,
\* as long as clients hold their lock to the end, nobody deletes the files and
\* no broker leaves by itself: crashes and upgrades between any two steps of
\* ensure_running, cleanup_stale_endpoint and terminate_broker_claim are harmless.
Disturbances == {"client_killed", "files_vanish", "slow_start", "idle_exit", "broker_command"}
OneRegistryUndisturbed == faults \cap Disturbances = {} => OneRegistry

\* A client of another version may replace a broker, but never one that serves
\* another runtime: that one is left running (broker_status_mismatch).
ConflictsArePreserved ==
    \A c \in Clients : Is(c, {"terminate"}) /\ broker[client[c].conn].pc # "dead" =>
        broker[client[c].conn].kind.runtime = wants[c].runtime

\* A broker never runs beside an earlier installation's: neither beside one of
\* the old protocol, of which the retired endpoint or its pid file tells
\* (retire_legacy_broker; the broker command alone does not look for one), nor
\* beside the previous location's broker of the same endpoint, whoever starts
\* it (the migration guard).
EarlierBrokersNeverBeside ==
    (\E b \in Brokers : broker[b].pc # "dead") =>
        /\ NoFallback
        /\ legacy.running => "broker_command" \in faults

\* Once no client calls any more, a broker whose socket is not there to be found
\* stops by itself: it sees that the socket is gone or that the pid file names a
\* successor.  Only a successor that crashed before it wrote the pid file hides
\* this, and then idle exit ends it.  No future client is needed (RFC 00007).
Abandoned == \A c \in Clients : Is(c, {"idle"})
OrphansExit ==
    "broker_crash" \notin faults \/ "idle_exit" \in faults =>
        \A b \in Brokers : <>[]Abandoned => []<>~(Serving(b) /\ socket # b)

\* Every call returns, with a result or an error, whatever happens to the broker,
\* the files and the other clients: no probe, lock or wait holds it forever.
CallsReturn == \A c \in Clients : ~Is(c, {"idle"}) ~> Is(c, {"idle"})
=============================================================================
