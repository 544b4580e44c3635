------------------------ MODULE BrokerTenancyProofs ------------------------
(***************************************************************************)
(* Proofs about BrokerTenancy, for any clients, brokers and profiles and   *)
(* any number of faults: its types, and the three safety properties of its *)
(* run.  The invariant that carries them says what the holder of the start *)
(* lock knows, at each of its steps, of the brokers that are alive.        *)
(***************************************************************************)
EXTENDS BrokerTenancy, TLAPS

\* A process id is never a client and never nothing.
LEMMA NamesDiffer == None \notin Brokers /\ None \notin Clients /\ Brokers \cap Clients = {}
BY NoneAssumption

\* Where a probe that met another kind of broker goes on.
LEMMA AfterMismatchRange ==
    ASSUME NEW pc \in {"probe", "recheck", "await", "wait"}
    PROVE  /\ AfterMismatch[pc] \in {"guard", "recheck", "contend", "await"}
           /\ AfterMismatch[pc] = "await" <=> pc = "await"
           /\ AfterMismatch[pc] = "guard" => pc = "probe"
<1>1. AfterMismatch["probe"] \in {"guard", "recheck"} /\ AfterMismatch["recheck"] = "contend"
      /\ AfterMismatch["await"] = "await" /\ AfterMismatch["wait"] = "contend"
  BY DEF AfterMismatch
<1> QED BY <1>1

\* Where a probe that met no broker goes on: without a previous location there is
\* no fallback to look for before the startup lock.
LEMMA AfterFailureRange ==
    ASSUME NEW pc \in Probing
    PROVE  /\ AfterFailure[pc] \in {"guard", "recheck", "fallback", "contend", "cleanup", "await"}
           /\ AfterFailure[pc] = "await" <=> pc = "await"
           /\ AfterFailure[pc] = "guard" => pc = "probe"
           /\ AfterFailure[pc] = "cleanup" <=> pc = "locked"
           /\ AfterFailure[pc] = "contend" => ~Implicit \/ pc = "wait"
<1>1. /\ AfterFailure["probe"] \in {"guard", "recheck"}
      /\ AfterFailure["recheck"] \in {"fallback", "contend"}
      /\ AfterFailure["recheck"] = "contend" => ~Implicit
      /\ AfterFailure["locked"] = "cleanup" /\ AfterFailure["await"] = "await"
      /\ AfterFailure["wait"] = "contend"
  BY DEF AfterFailure
<1>2. pc \in {"probe", "recheck", "locked", "await", "wait"}
  BY DEF Probing
<1> QED BY <1>1, <1>2

\* A spawned process gets an id nothing refers to, when there is one.
LEMMA FreshIsUnused ==
    ASSUME NEW b \in Brokers, Unused(b)
    PROVE  Fresh \in Brokers /\ Unused(Fresh)
BY DEF Fresh

(***************************************************************************)
(* What the forms of a step do: a call that goes on, a broker process that *)
(* goes on or ends, a connection that is accepted.                         *)
(***************************************************************************)
OthersKeep(c) == \A d \in Clients \ {c} : client'[d] = client[d]

\* A call that goes on to pc gives its connection up and leaves the others alone.
LEMMA GotoMoves ==
    ASSUME client \in [Clients -> CallState], NEW c \in Clients, NEW pc, Goto(c, pc),
           [Idle EXCEPT !.pc = pc] \in CallState
    PROVE  /\ client' \in [Clients -> CallState]
           /\ client'[c].pc = pc /\ client'[c].conn = None /\ ~client'[c].accepted
           /\ OthersKeep(c)
BY DEF Goto, Idle, OthersKeep, CallState

\* Goto keeps a call's type.
LEMMA GotoType ==
    ASSUME NEW pc \in {"idle", "probe", "recheck", "locked", "await", "wait", "guard", "fallback",
                       "contend", "terminate", "remove", "cleanup", "unlink_both",
                       "unlink_socket", "spawn"}
    PROVE  [Idle EXCEPT !.pc = pc] \in CallState
BY DEF Idle, CallState, Probing

\* A broker that goes on stays the broker it is.
LEMMA StepMoves ==
    ASSUME broker \in [Brokers -> BrokerState], NEW b \in Brokers, NEW pc \in Running, Step(b, pc)
    PROVE  /\ broker' \in [Brokers -> BrokerState]
           /\ broker'[b].pc = pc /\ broker'[b].kind = broker[b].kind
           /\ \A d \in Brokers \ {b} : broker'[d] = broker[d]
BY DEF Step, BrokerState

\* A broker that ends is dead, and the others are as they were.
LEMMA ExitMoves ==
    ASSUME broker \in [Brokers -> BrokerState], NEW b \in Brokers, Exit(b)
    PROVE  /\ broker' \in [Brokers -> BrokerState]
           /\ broker'[b].pc = "dead"
           /\ \A d \in Brokers \ {b} : broker'[d] = broker[d]
BY DEF Exit, BrokerState, Dead, NoKind, Kind

\* Accepting changes nothing but that the connection is accepted.
LEMMA Accepted ==
    ASSUME client \in [Clients -> CallState], NEW c \in Clients,
           client' = [client EXCEPT ![c].accepted = TRUE]
    PROVE  /\ client' \in [Clients -> CallState]
           /\ client'[c].pc = client[c].pc /\ client'[c].conn = client[c].conn
           /\ client'[c].accepted
           /\ OthersKeep(c)
<1>1. client' \in [Clients -> CallState]
  BY Zenon DEF CallState
<1>2. client'[c] = [client[c] EXCEPT !.accepted = TRUE]
  BY Zenon
<1>3. client[c] \in CallState
  BY Zenon
<1> HIDE DEF CallState
<1>4. client'[c].pc = client[c].pc /\ client'[c].conn = client[c].conn /\ client'[c].accepted
  BY <1>2, <1>3, Zenon DEF CallState
<1> QED BY <1>1, <1>4 DEF OthersKeep

(***************************************************************************)
(* Types.                                                                  *)
(***************************************************************************)
\* Every step keeps the types and the lock sections.
LEMMA TypeNext == TypeOK /\ [Next]_vars => TypeOK'
<1> SUFFICES ASSUME TypeOK, [Next]_vars PROVE TypeOK'
  OBVIOUS
<1>a. MaxFaults \in Nat
  BY BoundsAssumption
<1> USE NamesDiffer, <1>a DEF TypeOK, Is, OnlyClients, OnlyClientSteps, NoClientSteps, Goto,
     Return, Freed, Idle, files, locks, elders, Probing, Running, StartLocked, Answers, Step,
     Exit, Leave, Serving, Dead, Born, Strikes, Kind, NoKind, CallState, BrokerState
<1>1. ASSUME NEW c \in Clients, Retire(c) PROVE TypeOK'
  <2>1. legacy' \in LegacyBroker
    BY <1>1, Zenon DEF Retire, NoLegacy, LegacyBroker
  <2> QED BY <1>1, <2>1 DEF Retire
<1>2. ASSUME NEW c \in Clients, Connect(c) PROVE TypeOK'
  BY <1>2 DEF Connect
<1>3. ASSUME NEW c \in Clients, ProbeCompatible(c) PROVE TypeOK'
  BY <1>3 DEF ProbeCompatible
<1>4. ASSUME NEW c \in Clients, ProbeIncompatible(c) PROVE TypeOK'
  <2> DEFINE pc == AfterMismatch[client[c].pc]
  <2>1. /\ pc \in {"guard", "recheck", "contend", "await"}
        /\ pc = "await" <=> client[c].pc = "await"
        /\ pc = "guard" => client[c].pc = "probe"
    BY <1>4, AfterMismatchRange DEF ProbeIncompatible
  <2>2. Goto(c, pc) /\ OnlyClientSteps
    BY <1>4 DEF ProbeIncompatible
  <2> HIDE DEF pc, Goto, Idle
  <2>3. /\ client' \in [Clients -> CallState]
        /\ client'[c].pc = pc
        /\ OthersKeep(c)
    BY <2>1, <2>2, GotoMoves, GotoType
  <2>4. client[c].pc # "locked"
    BY <1>4 DEF ProbeIncompatible
  <2>5. UNCHANGED <<faults, struck, wants, start_lock, migration_lock, broker, socket, pid_file,
                    legacy, fallback>>
    BY <2>2
  <2>6. client[c].pc \in Probing
    BY <1>4 DEF ProbeIncompatible
  <2> HIDE DEF CallState, BrokerState
  <2> QED BY <2>1, <2>3, <2>4, <2>5, <2>6 DEF OthersKeep
<1>5. ASSUME NEW c \in Clients, ReconcileReplace(c) PROVE TypeOK'
  BY <1>5 DEF ReconcileReplace
<1>6. ASSUME NEW c \in Clients, ReconcilePreserve(c) PROVE TypeOK'
  BY <1>6 DEF ReconcilePreserve
<1>7. ASSUME NEW c \in Clients, ProbeFails(c) PROVE TypeOK'
  <2> DEFINE pc == AfterFailure[client[c].pc]
  <2>1. /\ pc \in {"guard", "recheck", "fallback", "contend", "cleanup", "await"}
        /\ pc = "await" <=> client[c].pc = "await"
        /\ pc = "guard" => client[c].pc = "probe"
        /\ pc = "cleanup" <=> client[c].pc = "locked"
    BY <1>7, AfterFailureRange DEF ProbeFails
  <2>2. Goto(c, pc) /\ OnlyClientSteps
    BY <1>7 DEF ProbeFails
  <2> HIDE DEF pc, Goto, Idle
  <2>3. /\ client' \in [Clients -> CallState]
        /\ client'[c].pc = pc
        /\ OthersKeep(c)
    BY <2>1, <2>2, GotoMoves, GotoType
  <2>5. UNCHANGED <<faults, struck, wants, start_lock, migration_lock, broker, socket, pid_file,
                    legacy, fallback>>
    BY <2>2
  <2>6. client[c].pc \in Probing
    BY <1>7 DEF ProbeFails
  <2> HIDE DEF CallState, BrokerState
  <2> QED BY <2>1, <2>3, <2>5, <2>6 DEF OthersKeep
<1>8. ASSUME NEW c \in Clients, TakeGuard(c) PROVE TypeOK'
  BY <1>8 DEF TakeGuard
<1>9. ASSUME NEW c \in Clients, GuardTimesOut(c) PROVE TypeOK'
  BY <1>9 DEF GuardTimesOut
<1>10. ASSUME NEW c \in Clients, UseFallback(c) PROVE TypeOK'
  BY <1>10 DEF UseFallback
<1>11. ASSUME NEW c \in Clients, FallbackAbsent(c) PROVE TypeOK'
  BY <1>11 DEF FallbackAbsent
<1>12. ASSUME NEW c \in Clients, FallbackBlocks(c) PROVE TypeOK'
  BY <1>12 DEF FallbackBlocks
<1>13. ASSUME NEW c \in Clients, FallbackReturns(c) PROVE TypeOK'
  BY <1>13 DEF FallbackReturns
<1>14. ASSUME NEW c \in Clients, TryLock(c) PROVE TypeOK'
  <2> DEFINE pc == IF start_lock = None THEN "locked" ELSE "wait"
  <2>1. Goto(c, pc)
    BY <1>14 DEF TryLock
  <2>2. start_lock' = IF start_lock = None THEN c ELSE start_lock
    BY <1>14 DEF TryLock
  <2> HIDE DEF Goto, Idle
  <2>3. /\ client' \in [Clients -> CallState]
        /\ client'[c].pc = pc
        /\ OthersKeep(c)
    BY <2>1, GotoMoves, GotoType
  <2> QED BY <1>14, <2>2, <2>3 DEF TryLock, OthersKeep
<1>15. ASSUME NEW c \in Clients, Terminate(c) PROVE TypeOK'
  BY <1>15 DEF Terminate
<1>16. ASSUME NEW c \in Clients, RemoveClaim(c) PROVE TypeOK'
  BY <1>16 DEF RemoveClaim
<1>17. ASSUME NEW c \in Clients, CleanupNothing(c) PROVE TypeOK'
  BY <1>17 DEF CleanupNothing
<1>18. ASSUME NEW c \in Clients, CleanupRefused(c) PROVE TypeOK'
  BY <1>18 DEF CleanupRefused
<1>19. ASSUME NEW c \in Clients, CleanupDecides(c) PROVE TypeOK'
  BY <1>19 DEF CleanupDecides
<1>20. ASSUME NEW c \in Clients, CleanupUnlinks(c) PROVE TypeOK'
  BY <1>20 DEF CleanupUnlinks
<1>21. ASSUME NEW c \in Clients, SpawnBroker(c) PROVE TypeOK'
  BY <1>21 DEF SpawnBroker
<1>22. ASSUME NEW c \in Clients, AwaitTimesOut(c) PROVE TypeOK'
  BY <1>22 DEF AwaitTimesOut
<1>23. ASSUME NEW c \in Clients, CallReturns(c) PROVE TypeOK'
  <2>1. broker' \in [Brokers -> BrokerState]
    <3> HIDE DEF BrokerState
    <3>1. PICK started \in BOOLEAN :
            broker' = [broker EXCEPT ![client[c].conn].sessions = @ \/ started]
      BY <1>23 DEF CallReturns
    <3>2. \A r \in BrokerState : [r EXCEPT !.sessions = @ \/ started] \in BrokerState
      BY <3>1, Zenon DEF BrokerState
    <3> QED BY <3>1, <3>2, Zenon
  <2> QED BY <1>23, <2>1 DEF CallReturns
<1>24. ASSUME NEW c \in Clients, CallFails(c) PROVE TypeOK'
  BY <1>24 DEF CallFails
<1>25. ASSUME NEW c \in Clients, Deadline(c) PROVE TypeOK'
  BY <1>25 DEF Deadline
<1>26. ASSUME NEW c \in Clients, SlowStart(c) PROVE TypeOK'
  <2>1. struck' \in 0..MaxFaults
    BY <1>26 DEF SlowStart
  <2>2. /\ Is(c, {"await"}) /\ Return(c)
        /\ UNCHANGED <<faults, wants, files, broker, elders>>
    BY <1>26 DEF SlowStart
  <2> QED BY <2>1, <2>2
<1>27. ASSUME NEW c \in Clients, ClientKilled(c) PROVE TypeOK'
  <2>1. struck' \in 0..MaxFaults
    BY <1>27 DEF ClientKilled
  <2>2. Return(c) /\ UNCHANGED <<faults, wants, files, broker, elders>>
    BY <1>27 DEF ClientKilled
  <2> QED BY <2>1, <2>2
<1>28. ASSUME NEW b \in Brokers, Bind(b) PROVE TypeOK'
  BY <1>28 DEF Bind
<1>29. ASSUME NEW b \in Brokers, BindFails(b) PROVE TypeOK'
  BY <1>29 DEF BindFails
<1>30. ASSUME NEW b \in Brokers, WritePidFile(b) PROVE TypeOK'
  BY <1>30 DEF WritePidFile
<1>31. ASSUME NEW b \in Brokers, Drained(b) PROVE TypeOK'
  <2>1. Step(b, "unlink_pid") \/ Exit(b)
    BY <1>31 DEF Drained
  <2>2. broker' \in [Brokers -> BrokerState]
    BY <2>1, StepMoves, ExitMoves DEF Running
  <2> QED BY <1>31, <2>2 DEF Drained
<1>32. ASSUME NEW b \in Brokers, UnlinkPid(b) PROVE TypeOK'
  BY <1>32 DEF UnlinkPid
<1>33. ASSUME NEW b \in Brokers, UnlinkSocket(b) PROVE TypeOK'
  BY <1>33 DEF UnlinkSocket
<1>34. ASSUME NEW b \in Brokers, TenancyExit(b) PROVE TypeOK'
  BY <1>34 DEF TenancyExit
<1>35. ASSUME NEW b \in Brokers, SweepSessions(b) PROVE TypeOK'
  <2>1. broker' \in [Brokers -> BrokerState]
    <3>1. \A r \in BrokerState : [r EXCEPT !.sessions = FALSE] \in BrokerState
      BY Zenon DEF BrokerState
    <3> QED BY <1>35, <3>1, Zenon DEF SweepSessions
  <2> QED BY <1>35, <2>1 DEF SweepSessions
<1>36. ASSUME NEW b \in Brokers, IdleExit(b) PROVE TypeOK'
  BY <1>36 DEF IdleExit
<1>37. ASSUME NEW b \in Brokers, RunBroker(b) PROVE TypeOK'
  BY <1>37 DEF RunBroker
<1>38. ASSUME NEW b \in Brokers, Crash(b) PROVE TypeOK'
  BY <1>38 DEF Crash
<1>39. ASSUME NEW b \in Brokers, NEW c \in Clients, Accept(b, c) PROVE TypeOK'
  <2>1. client' = [client EXCEPT ![c].accepted = TRUE] /\ OnlyClientSteps
    BY <1>39 DEF Accept
  <2>2. /\ client' \in [Clients -> CallState]
        /\ \A d \in Clients : client'[d].pc = client[d].pc
    BY <2>1, Accepted DEF OthersKeep
  <2> QED BY <2>1, <2>2
<1>40. CASE FallbackExits
  <2>1. fallback' \in Fallback
    BY <1>40 DEF FallbackExits, Fallback
  <2> QED BY <1>40, <2>1 DEF FallbackExits
<1>41. CASE FilesVanish
  BY <1>41 DEF FilesVanish
<1>42. CASE UNCHANGED vars
  BY <1>42 DEF vars
<1> QED
  BY <1>1, <1>2, <1>3, <1>4, <1>5, <1>6, <1>7, <1>8, <1>9, <1>10, <1>11, <1>12, <1>13, <1>14,
     <1>15, <1>16, <1>17, <1>18, <1>19, <1>20, <1>21, <1>22, <1>23, <1>24, <1>25, <1>26, <1>27,
     <1>28, <1>29, <1>30, <1>31, <1>32, <1>33, <1>34, <1>35, <1>36, <1>37, <1>38, <1>39, <1>40,
     <1>41, <1>42 DEF Next, ClientStep, ProbeStep, BrokerStep, Startup, Shutdown

(***************************************************************************)
(* The inductive invariant.                                                *)
(***************************************************************************)
Live(b) == broker[b].pc # "dead"
Undisturbed == faults \cap Disturbances = {}

\* The old protocol's broker runs only until the first call has retired it.
OldBrokerRetired ==
    legacy.running => /\ Telltale(legacy)
                      /\ \A c \in Clients : Is(c, {"idle"})
                      /\ \A b \in Brokers : Live(b) => "broker_command" \in faults

\* Past the guard nothing of the previous location is left, and it does not come back.
PastGuard == StartLocked \cup {"contend", "wait"}
PreviousGone ==
    /\ \A c \in Clients : Is(c, PastGuard) => NoFallback
    /\ \A b \in Brokers : Live(b) => NoFallback

\* The broker a client is about to kill is the one that answered it.
KillsWhatAnswered ==
    \A c \in Clients :
        /\ client[c].accepted => client[c].conn \in Brokers
        /\ Is(c, {"terminate"}) =>
             /\ client[c].conn \in Brokers
             /\ Live(client[c].conn) => broker[client[c].conn].kind.runtime = wants[c].runtime

\* Undisturbed, the start lock is exclusive and its holder knows of every live broker.
OneLive ==
    \A b \in Brokers : Live(b) =>
        /\ broker[b].pc \in {"starting", "bound", "serving"}
        /\ \A d \in Brokers : Live(d) => d = b
        /\ broker[b].pc = "starting" =>
             /\ socket = None /\ pid_file = None
             /\ start_lock # None /\ Is(start_lock, {"await"}) /\ client[start_lock].conn = None
        /\ broker[b].pc = "bound" => socket = b /\ pid_file = None
        /\ broker[b].pc = "serving" => socket = b /\ pid_file = b
HolderKnows ==
    \A c \in Clients :
        /\ Is(c, StartLocked) => start_lock = c
        /\ Is(c, {"locked", "terminate", "await"}) /\ Connected(c) =>
             \A b \in Brokers : Live(b) => b = client[c].conn
        /\ Is(c, {"remove", "cleanup", "unlink_both", "unlink_socket", "spawn"}) =>
             \A b \in Brokers : ~Live(b)
        /\ Is(c, {"unlink_socket"}) => pid_file = None
        /\ Is(c, {"spawn"}) => socket = None /\ pid_file = None
PidFileHasSocket == pid_file # None => socket # None
SoleBroker == OneLive /\ HolderKnows /\ PidFileHasSocket
Exclusive == Undisturbed => SoleBroker

TenancyInv == OldBrokerRetired /\ PreviousGone /\ KillsWhatAnswered /\ Exclusive

(***************************************************************************)
(* No step breaks a part of it.                                            *)
(***************************************************************************)
\* Only retiring it, at the start of a call, matters to the old protocol's broker.
LEMMA OldBrokerNext == TypeOK /\ OldBrokerRetired /\ [Next]_vars => OldBrokerRetired'
<1> SUFFICES ASSUME TypeOK, OldBrokerRetired, [Next]_vars PROVE OldBrokerRetired'
  OBVIOUS
<1> USE NamesDiffer DEF TypeOK, OldBrokerRetired, Live, Is, OnlyClients, OnlyClientSteps,
     NoClientSteps, Goto, Return, Idle, files, locks, elders, Answers, Step, Exit, Leave,
     Serving, Probing, Dead, Born, Strikes, CallState, BrokerState
<1>1. ASSUME NEW c \in Clients, Retire(c) PROVE OldBrokerRetired'
  <2>1. legacy.running => Kills(legacy)
    BY <1>1 DEF Retire, RetireRefuses, Kills, Telltale, LegacyBroker
  <2>2. ~legacy'.running
    BY <1>1, <2>1, Zenon DEF Retire, NoLegacy
  <2> QED BY <2>2
<1>2. ASSUME NEW c \in Clients, Connect(c) PROVE OldBrokerRetired'
  BY <1>2 DEF Connect
<1>3. ASSUME NEW c \in Clients, ProbeCompatible(c) PROVE OldBrokerRetired'
  BY <1>3 DEF ProbeCompatible
<1>4. ASSUME NEW c \in Clients, ProbeIncompatible(c) PROVE OldBrokerRetired'
  BY <1>4 DEF ProbeIncompatible
<1>5. ASSUME NEW c \in Clients, ReconcileReplace(c) PROVE OldBrokerRetired'
  BY <1>5 DEF ReconcileReplace
<1>6. ASSUME NEW c \in Clients, ReconcilePreserve(c) PROVE OldBrokerRetired'
  BY <1>6 DEF ReconcilePreserve
<1>7. ASSUME NEW c \in Clients, ProbeFails(c) PROVE OldBrokerRetired'
  BY <1>7 DEF ProbeFails
<1>8. ASSUME NEW c \in Clients, TakeGuard(c) PROVE OldBrokerRetired'
  BY <1>8 DEF TakeGuard
<1>9. ASSUME NEW c \in Clients, GuardTimesOut(c) PROVE OldBrokerRetired'
  BY <1>9 DEF GuardTimesOut
<1>10. ASSUME NEW c \in Clients, UseFallback(c) PROVE OldBrokerRetired'
  BY <1>10 DEF UseFallback
<1>11. ASSUME NEW c \in Clients, FallbackAbsent(c) PROVE OldBrokerRetired'
  BY <1>11 DEF FallbackAbsent
<1>12. ASSUME NEW c \in Clients, FallbackBlocks(c) PROVE OldBrokerRetired'
  BY <1>12 DEF FallbackBlocks
<1>13. ASSUME NEW c \in Clients, FallbackReturns(c) PROVE OldBrokerRetired'
  BY <1>13 DEF FallbackReturns
<1>14. ASSUME NEW c \in Clients, TryLock(c) PROVE OldBrokerRetired'
  BY <1>14 DEF TryLock
<1>15. ASSUME NEW c \in Clients, Terminate(c) PROVE OldBrokerRetired'
  BY <1>15 DEF Terminate
<1>16. ASSUME NEW c \in Clients, RemoveClaim(c) PROVE OldBrokerRetired'
  BY <1>16 DEF RemoveClaim
<1>17. ASSUME NEW c \in Clients, CleanupNothing(c) PROVE OldBrokerRetired'
  BY <1>17 DEF CleanupNothing
<1>18. ASSUME NEW c \in Clients, CleanupRefused(c) PROVE OldBrokerRetired'
  BY <1>18 DEF CleanupRefused
<1>19. ASSUME NEW c \in Clients, CleanupDecides(c) PROVE OldBrokerRetired'
  BY <1>19 DEF CleanupDecides
<1>20. ASSUME NEW c \in Clients, CleanupUnlinks(c) PROVE OldBrokerRetired'
  BY <1>20 DEF CleanupUnlinks
<1>21. ASSUME NEW c \in Clients, SpawnBroker(c) PROVE OldBrokerRetired'
  BY <1>21 DEF SpawnBroker
<1>22. ASSUME NEW c \in Clients, AwaitTimesOut(c) PROVE OldBrokerRetired'
  BY <1>22 DEF AwaitTimesOut
<1>23. ASSUME NEW c \in Clients, CallReturns(c) PROVE OldBrokerRetired'
  BY <1>23 DEF CallReturns
<1>24. ASSUME NEW c \in Clients, CallFails(c) PROVE OldBrokerRetired'
  BY <1>24 DEF CallFails
<1>25. ASSUME NEW c \in Clients, Deadline(c) PROVE OldBrokerRetired'
  BY <1>25 DEF Deadline
<1>26. ASSUME NEW c \in Clients, SlowStart(c) PROVE OldBrokerRetired'
  BY <1>26 DEF SlowStart
<1>27. ASSUME NEW c \in Clients, ClientKilled(c) PROVE OldBrokerRetired'
  BY <1>27 DEF ClientKilled
<1>28. ASSUME NEW b \in Brokers, Bind(b) PROVE OldBrokerRetired'
  BY <1>28 DEF Bind
<1>29. ASSUME NEW b \in Brokers, BindFails(b) PROVE OldBrokerRetired'
  BY <1>29 DEF BindFails
<1>30. ASSUME NEW b \in Brokers, WritePidFile(b) PROVE OldBrokerRetired'
  BY <1>30 DEF WritePidFile
<1>31. ASSUME NEW b \in Brokers, Drained(b) PROVE OldBrokerRetired'
  BY <1>31 DEF Drained
<1>32. ASSUME NEW b \in Brokers, UnlinkPid(b) PROVE OldBrokerRetired'
  BY <1>32 DEF UnlinkPid
<1>33. ASSUME NEW b \in Brokers, UnlinkSocket(b) PROVE OldBrokerRetired'
  BY <1>33 DEF UnlinkSocket
<1>34. ASSUME NEW b \in Brokers, TenancyExit(b) PROVE OldBrokerRetired'
  BY <1>34 DEF TenancyExit
<1>35. ASSUME NEW b \in Brokers, SweepSessions(b) PROVE OldBrokerRetired'
  BY <1>35 DEF SweepSessions
<1>36. ASSUME NEW b \in Brokers, IdleExit(b) PROVE OldBrokerRetired'
  BY <1>36 DEF IdleExit
<1>37. ASSUME NEW b \in Brokers, RunBroker(b) PROVE OldBrokerRetired'
  BY <1>37 DEF RunBroker
<1>38. ASSUME NEW b \in Brokers, Crash(b) PROVE OldBrokerRetired'
  BY <1>38 DEF Crash
<1>39. ASSUME NEW b \in Brokers, NEW c \in Clients, Accept(b, c) PROVE OldBrokerRetired'
  BY <1>39 DEF Accept
<1>40. CASE FallbackExits
  BY <1>40 DEF FallbackExits
<1>41. CASE FilesVanish
  BY <1>41 DEF FilesVanish
<1>42. CASE UNCHANGED vars
  BY <1>42 DEF vars
<1> QED
  BY <1>1, <1>2, <1>3, <1>4, <1>5, <1>6, <1>7, <1>8, <1>9, <1>10, <1>11, <1>12, <1>13, <1>14,
     <1>15, <1>16, <1>17, <1>18, <1>19, <1>20, <1>21, <1>22, <1>23, <1>24, <1>25, <1>26, <1>27,
     <1>28, <1>29, <1>30, <1>31, <1>32, <1>33, <1>34, <1>35, <1>36, <1>37, <1>38, <1>39, <1>40,
     <1>41, <1>42 DEF Next, ClientStep, ProbeStep, BrokerStep, Startup, Shutdown

\* A call gets past the guard when it has seen that nothing is left, or when a broker
\* of the current protocol answers it, which is itself proof of that.
LEMMA PreviousNext == TypeOK /\ KillsWhatAnswered /\ PreviousGone /\ [Next]_vars => PreviousGone'
<1> SUFFICES ASSUME TypeOK, KillsWhatAnswered, PreviousGone, [Next]_vars PROVE PreviousGone'
  OBVIOUS
<1> USE NamesDiffer DEF TypeOK, PreviousGone, Live, Is, OnlyClients, OnlyClientSteps,
     NoClientSteps, Goto, Return, Idle, files, locks, elders, Answers, Step, Exit, Leave,
     Serving, Probing, NoFallback, StartLocked, PastGuard, Dead, Born, Strikes, CallState,
     BrokerState
<1>1. ASSUME NEW c \in Clients, Retire(c) PROVE PreviousGone'
  BY <1>1 DEF Retire
<1>2. ASSUME NEW c \in Clients, Connect(c) PROVE PreviousGone'
  BY <1>2 DEF Connect
<1>3. ASSUME NEW c \in Clients, ProbeCompatible(c) PROVE PreviousGone'
  BY <1>3 DEF ProbeCompatible
<1>4. ASSUME NEW c \in Clients, ProbeIncompatible(c) PROVE PreviousGone'
  <2> DEFINE pc == AfterMismatch[client[c].pc]
  <2>1. client[c].conn \in Brokers /\ NoFallback
    BY <1>4 DEF ProbeIncompatible, KillsWhatAnswered
  <2>2. Goto(c, pc) /\ OnlyClientSteps
    BY <1>4 DEF ProbeIncompatible
  <2> HIDE DEF pc
  <2> QED BY <2>1, <2>2
<1>5. ASSUME NEW c \in Clients, ReconcileReplace(c) PROVE PreviousGone'
  BY <1>5 DEF ReconcileReplace
<1>6. ASSUME NEW c \in Clients, ReconcilePreserve(c) PROVE PreviousGone'
  BY <1>6 DEF ReconcilePreserve
<1>7. ASSUME NEW c \in Clients, ProbeFails(c) PROVE PreviousGone'
  <2> DEFINE pc == AfterFailure[client[c].pc]
  <2>1. /\ pc \in {"guard", "recheck", "fallback", "contend", "cleanup", "await"}
        /\ pc = "await" <=> client[c].pc = "await"
        /\ pc = "cleanup" <=> client[c].pc = "locked"
        /\ pc = "contend" => ~Implicit \/ client[c].pc = "wait"
    BY <1>7, AfterFailureRange DEF ProbeFails
  <2>2. Goto(c, pc) /\ OnlyClientSteps
    BY <1>7 DEF ProbeFails
  <2> HIDE DEF pc
  <2> QED BY <2>1, <2>2 DEF Implicit
<1>8. ASSUME NEW c \in Clients, TakeGuard(c) PROVE PreviousGone'
  BY <1>8 DEF TakeGuard
<1>9. ASSUME NEW c \in Clients, GuardTimesOut(c) PROVE PreviousGone'
  BY <1>9 DEF GuardTimesOut
<1>10. ASSUME NEW c \in Clients, UseFallback(c) PROVE PreviousGone'
  BY <1>10 DEF UseFallback
<1>11. ASSUME NEW c \in Clients, FallbackAbsent(c) PROVE PreviousGone'
  BY <1>11 DEF FallbackAbsent
<1>12. ASSUME NEW c \in Clients, FallbackBlocks(c) PROVE PreviousGone'
  BY <1>12 DEF FallbackBlocks
<1>13. ASSUME NEW c \in Clients, FallbackReturns(c) PROVE PreviousGone'
  BY <1>13 DEF FallbackReturns
<1>14. ASSUME NEW c \in Clients, TryLock(c) PROVE PreviousGone'
  BY <1>14 DEF TryLock
<1>15. ASSUME NEW c \in Clients, Terminate(c) PROVE PreviousGone'
  BY <1>15 DEF Terminate
<1>16. ASSUME NEW c \in Clients, RemoveClaim(c) PROVE PreviousGone'
  BY <1>16 DEF RemoveClaim
<1>17. ASSUME NEW c \in Clients, CleanupNothing(c) PROVE PreviousGone'
  BY <1>17 DEF CleanupNothing
<1>18. ASSUME NEW c \in Clients, CleanupRefused(c) PROVE PreviousGone'
  BY <1>18 DEF CleanupRefused
<1>19. ASSUME NEW c \in Clients, CleanupDecides(c) PROVE PreviousGone'
  BY <1>19 DEF CleanupDecides
<1>20. ASSUME NEW c \in Clients, CleanupUnlinks(c) PROVE PreviousGone'
  BY <1>20 DEF CleanupUnlinks
<1>21. ASSUME NEW c \in Clients, SpawnBroker(c) PROVE PreviousGone'
  BY <1>21 DEF SpawnBroker
<1>22. ASSUME NEW c \in Clients, AwaitTimesOut(c) PROVE PreviousGone'
  BY <1>22 DEF AwaitTimesOut
<1>23. ASSUME NEW c \in Clients, CallReturns(c) PROVE PreviousGone'
  BY <1>23 DEF CallReturns
<1>24. ASSUME NEW c \in Clients, CallFails(c) PROVE PreviousGone'
  BY <1>24 DEF CallFails
<1>25. ASSUME NEW c \in Clients, Deadline(c) PROVE PreviousGone'
  BY <1>25 DEF Deadline
<1>26. ASSUME NEW c \in Clients, SlowStart(c) PROVE PreviousGone'
  BY <1>26 DEF SlowStart
<1>27. ASSUME NEW c \in Clients, ClientKilled(c) PROVE PreviousGone'
  BY <1>27 DEF ClientKilled
<1>28. ASSUME NEW b \in Brokers, Bind(b) PROVE PreviousGone'
  BY <1>28 DEF Bind
<1>29. ASSUME NEW b \in Brokers, BindFails(b) PROVE PreviousGone'
  BY <1>29 DEF BindFails
<1>30. ASSUME NEW b \in Brokers, WritePidFile(b) PROVE PreviousGone'
  BY <1>30 DEF WritePidFile
<1>31. ASSUME NEW b \in Brokers, Drained(b) PROVE PreviousGone'
  BY <1>31 DEF Drained
<1>32. ASSUME NEW b \in Brokers, UnlinkPid(b) PROVE PreviousGone'
  BY <1>32 DEF UnlinkPid
<1>33. ASSUME NEW b \in Brokers, UnlinkSocket(b) PROVE PreviousGone'
  BY <1>33 DEF UnlinkSocket
<1>34. ASSUME NEW b \in Brokers, TenancyExit(b) PROVE PreviousGone'
  BY <1>34 DEF TenancyExit
<1>35. ASSUME NEW b \in Brokers, SweepSessions(b) PROVE PreviousGone'
  BY <1>35 DEF SweepSessions
<1>36. ASSUME NEW b \in Brokers, IdleExit(b) PROVE PreviousGone'
  BY <1>36 DEF IdleExit
<1>37. ASSUME NEW b \in Brokers, RunBroker(b) PROVE PreviousGone'
  BY <1>37 DEF RunBroker
<1>38. ASSUME NEW b \in Brokers, Crash(b) PROVE PreviousGone'
  BY <1>38 DEF Crash
<1>39. ASSUME NEW b \in Brokers, NEW c \in Clients, Accept(b, c) PROVE PreviousGone'
  BY <1>39 DEF Accept
<1>40. CASE FallbackExits
  BY <1>40 DEF FallbackExits
<1>41. CASE FilesVanish
  BY <1>41 DEF FilesVanish
<1>42. CASE UNCHANGED vars
  BY <1>42 DEF vars
<1> QED
  BY <1>1, <1>2, <1>3, <1>4, <1>5, <1>6, <1>7, <1>8, <1>9, <1>10, <1>11, <1>12, <1>13, <1>14,
     <1>15, <1>16, <1>17, <1>18, <1>19, <1>20, <1>21, <1>22, <1>23, <1>24, <1>25, <1>26, <1>27,
     <1>28, <1>29, <1>30, <1>31, <1>32, <1>33, <1>34, <1>35, <1>36, <1>37, <1>38, <1>39, <1>40,
     <1>41, <1>42 DEF Next, ClientStep, ProbeStep, BrokerStep, Startup, Shutdown

\* A process id a client is connected to is not handed out again.
LEMMA KillsNext == TypeOK /\ KillsWhatAnswered /\ [Next]_vars => KillsWhatAnswered'
<1> SUFFICES ASSUME TypeOK, KillsWhatAnswered, [Next]_vars PROVE KillsWhatAnswered'
  OBVIOUS
<1> USE NamesDiffer DEF TypeOK, KillsWhatAnswered, Live, Is, OnlyClients, OnlyClientSteps,
     NoClientSteps, Goto, Return, Idle, files, locks, elders, Answers, Step, Exit, Leave,
     Serving, Probing, Dead, Born, Strikes, CallState, BrokerState
<1>1. ASSUME NEW c \in Clients, Retire(c) PROVE KillsWhatAnswered'
  BY <1>1 DEF Retire
<1>2. ASSUME NEW c \in Clients, Connect(c) PROVE KillsWhatAnswered'
  BY <1>2 DEF Connect, Reachable
<1>3. ASSUME NEW c \in Clients, ProbeCompatible(c) PROVE KillsWhatAnswered'
  BY <1>3 DEF ProbeCompatible
<1>4. ASSUME NEW c \in Clients, ProbeIncompatible(c) PROVE KillsWhatAnswered'
  <2> DEFINE pc == AfterMismatch[client[c].pc]
  <2>1. pc # "terminate"
    BY <1>4, AfterMismatchRange DEF ProbeIncompatible
  <2>2. Goto(c, pc) /\ OnlyClientSteps
    BY <1>4 DEF ProbeIncompatible
  <2> HIDE DEF pc
  <2> QED BY <2>1, <2>2
<1>5. ASSUME NEW c \in Clients, ReconcileReplace(c) PROVE KillsWhatAnswered'
  BY <1>5 DEF ReconcileReplace
<1>6. ASSUME NEW c \in Clients, ReconcilePreserve(c) PROVE KillsWhatAnswered'
  BY <1>6 DEF ReconcilePreserve
<1>7. ASSUME NEW c \in Clients, ProbeFails(c) PROVE KillsWhatAnswered'
  <2> DEFINE pc == AfterFailure[client[c].pc]
  <2>1. pc # "terminate"
    BY <1>7, AfterFailureRange DEF ProbeFails
  <2>2. Goto(c, pc) /\ OnlyClientSteps
    BY <1>7 DEF ProbeFails
  <2> HIDE DEF pc
  <2> QED BY <2>1, <2>2
<1>8. ASSUME NEW c \in Clients, TakeGuard(c) PROVE KillsWhatAnswered'
  BY <1>8 DEF TakeGuard
<1>9. ASSUME NEW c \in Clients, GuardTimesOut(c) PROVE KillsWhatAnswered'
  BY <1>9 DEF GuardTimesOut
<1>10. ASSUME NEW c \in Clients, UseFallback(c) PROVE KillsWhatAnswered'
  BY <1>10 DEF UseFallback
<1>11. ASSUME NEW c \in Clients, FallbackAbsent(c) PROVE KillsWhatAnswered'
  BY <1>11 DEF FallbackAbsent
<1>12. ASSUME NEW c \in Clients, FallbackBlocks(c) PROVE KillsWhatAnswered'
  BY <1>12 DEF FallbackBlocks
<1>13. ASSUME NEW c \in Clients, FallbackReturns(c) PROVE KillsWhatAnswered'
  BY <1>13 DEF FallbackReturns
<1>14. ASSUME NEW c \in Clients, TryLock(c) PROVE KillsWhatAnswered'
  BY <1>14 DEF TryLock
<1>15. ASSUME NEW c \in Clients, Terminate(c) PROVE KillsWhatAnswered'
  BY <1>15 DEF Terminate
<1>16. ASSUME NEW c \in Clients, RemoveClaim(c) PROVE KillsWhatAnswered'
  BY <1>16 DEF RemoveClaim
<1>17. ASSUME NEW c \in Clients, CleanupNothing(c) PROVE KillsWhatAnswered'
  BY <1>17 DEF CleanupNothing
<1>18. ASSUME NEW c \in Clients, CleanupRefused(c) PROVE KillsWhatAnswered'
  BY <1>18 DEF CleanupRefused
<1>19. ASSUME NEW c \in Clients, CleanupDecides(c) PROVE KillsWhatAnswered'
  BY <1>19 DEF CleanupDecides
<1>20. ASSUME NEW c \in Clients, CleanupUnlinks(c) PROVE KillsWhatAnswered'
  BY <1>20 DEF CleanupUnlinks
<1>21. ASSUME NEW c \in Clients, SpawnBroker(c) PROVE KillsWhatAnswered'
  <2>1. Fresh \in Brokers /\ Unused(Fresh)
    BY <1>21, FreshIsUnused DEF SpawnBroker
  <2> HIDE DEF Fresh
  <2> QED BY <1>21, <2>1 DEF SpawnBroker, Unused
<1>22. ASSUME NEW c \in Clients, AwaitTimesOut(c) PROVE KillsWhatAnswered'
  BY <1>22 DEF AwaitTimesOut
<1>23. ASSUME NEW c \in Clients, CallReturns(c) PROVE KillsWhatAnswered'
  BY <1>23 DEF CallReturns
<1>24. ASSUME NEW c \in Clients, CallFails(c) PROVE KillsWhatAnswered'
  BY <1>24 DEF CallFails
<1>25. ASSUME NEW c \in Clients, Deadline(c) PROVE KillsWhatAnswered'
  BY <1>25 DEF Deadline
<1>26. ASSUME NEW c \in Clients, SlowStart(c) PROVE KillsWhatAnswered'
  BY <1>26 DEF SlowStart
<1>27. ASSUME NEW c \in Clients, ClientKilled(c) PROVE KillsWhatAnswered'
  BY <1>27 DEF ClientKilled
<1>28. ASSUME NEW b \in Brokers, Bind(b) PROVE KillsWhatAnswered'
  BY <1>28 DEF Bind
<1>29. ASSUME NEW b \in Brokers, BindFails(b) PROVE KillsWhatAnswered'
  BY <1>29 DEF BindFails
<1>30. ASSUME NEW b \in Brokers, WritePidFile(b) PROVE KillsWhatAnswered'
  BY <1>30 DEF WritePidFile
<1>31. ASSUME NEW b \in Brokers, Drained(b) PROVE KillsWhatAnswered'
  BY SMTT(30), <1>31 DEF Drained
<1>32. ASSUME NEW b \in Brokers, UnlinkPid(b) PROVE KillsWhatAnswered'
  BY <1>32 DEF UnlinkPid
<1>33. ASSUME NEW b \in Brokers, UnlinkSocket(b) PROVE KillsWhatAnswered'
  BY <1>33 DEF UnlinkSocket
<1>34. ASSUME NEW b \in Brokers, TenancyExit(b) PROVE KillsWhatAnswered'
  BY <1>34 DEF TenancyExit
<1>35. ASSUME NEW b \in Brokers, SweepSessions(b) PROVE KillsWhatAnswered'
  BY <1>35 DEF SweepSessions
<1>36. ASSUME NEW b \in Brokers, IdleExit(b) PROVE KillsWhatAnswered'
  BY <1>36 DEF IdleExit
<1>37. ASSUME NEW b \in Brokers, RunBroker(b) PROVE KillsWhatAnswered'
  BY <1>37 DEF RunBroker, Unused
<1>38. ASSUME NEW b \in Brokers, Crash(b) PROVE KillsWhatAnswered'
  BY <1>38 DEF Crash
<1>39. ASSUME NEW b \in Brokers, NEW c \in Clients, Accept(b, c) PROVE KillsWhatAnswered'
  BY <1>39 DEF Accept
<1>40. CASE FallbackExits
  BY <1>40 DEF FallbackExits
<1>41. CASE FilesVanish
  BY <1>41 DEF FilesVanish
<1>42. CASE UNCHANGED vars
  BY <1>42 DEF vars
<1> QED
  BY <1>1, <1>2, <1>3, <1>4, <1>5, <1>6, <1>7, <1>8, <1>9, <1>10, <1>11, <1>12, <1>13, <1>14,
     <1>15, <1>16, <1>17, <1>18, <1>19, <1>20, <1>21, <1>22, <1>23, <1>24, <1>25, <1>26, <1>27,
     <1>28, <1>29, <1>30, <1>31, <1>32, <1>33, <1>34, <1>35, <1>36, <1>37, <1>38, <1>39, <1>40,
     <1>41, <1>42 DEF Next, ClientStep, ProbeStep, BrokerStep, Startup, Shutdown

\* What may go wrong is fixed at the start.
LEMMA FaultsFixed == [Next]_vars => faults' = faults
BY DEF Next, vars, ClientStep, ProbeStep, BrokerStep, Startup, Shutdown, OnlyClients,
   OnlyClientSteps, NoClientSteps, Leave, Retire, Connect, ProbeCompatible, ProbeIncompatible,
   ReconcileReplace, ReconcilePreserve, ProbeFails, TakeGuard, GuardTimesOut, UseFallback,
   FallbackAbsent, FallbackBlocks, FallbackReturns, TryLock, Terminate, RemoveClaim,
   CleanupNothing, CleanupRefused, CleanupDecides, CleanupUnlinks, SpawnBroker, AwaitTimesOut,
   CallReturns, CallFails, Deadline, SlowStart, ClientKilled, Bind, BindFails, WritePidFile,
   Drained, UnlinkPid, UnlinkSocket, TenancyExit, SweepSessions, IdleExit, RunBroker, Crash,
   Accept, FallbackExits, FilesVanish

\* Undisturbed, each step of the lock's holder keeps what it knows: the broker it kills
\* is the only one, none is alive while it cleans up, and none but its own starts.
LEMMA ExclusiveNext == TypeOK /\ KillsWhatAnswered /\ Exclusive /\ [Next]_vars => Exclusive'
<1> SUFFICES ASSUME TypeOK, KillsWhatAnswered, Exclusive, [Next]_vars, Undisturbed
             PROVE SoleBroker'
  BY FaultsFixed DEF Exclusive, Undisturbed
<1>a. \A f \in Disturbances : f \notin faults
  BY DEF Undisturbed
<1>b. SoleBroker
  BY DEF Exclusive
<1> USE NamesDiffer, <1>a, <1>b DEF TypeOK, SoleBroker, OneLive, HolderKnows,
     PidFileHasSocket, Live, Is, OnlyClients, OnlyClientSteps, NoClientSteps, Goto, Return,
     Freed, Idle, files, locks, elders, Answers, Step, Exit, Leave, Serving, Probing,
     StartLocked, Connected, Disturbances, Listening, Reachable, Dead, Born, Strikes, CallState,
     BrokerState
<1>1. ASSUME NEW c \in Clients, Retire(c) PROVE SoleBroker'
  BY <1>1 DEF Retire
<1>2. ASSUME NEW c \in Clients, Connect(c) PROVE SoleBroker'
  BY <1>2 DEF Connect
<1>3. ASSUME NEW c \in Clients, ProbeCompatible(c) PROVE SoleBroker'
  BY <1>3 DEF ProbeCompatible, KillsWhatAnswered
<1>4. ASSUME NEW c \in Clients, ProbeIncompatible(c) PROVE SoleBroker'
  <2> DEFINE pc == AfterMismatch[client[c].pc]
  <2>1. /\ pc \in {"guard", "recheck", "contend", "await"}
        /\ pc = "await" <=> client[c].pc = "await"
    BY <1>4, AfterMismatchRange DEF ProbeIncompatible
  <2>2. Goto(c, pc) /\ OnlyClientSteps
    BY <1>4 DEF ProbeIncompatible
  <2> HIDE DEF pc
  <2> QED BY <2>1, <2>2
<1>5. ASSUME NEW c \in Clients, ReconcileReplace(c) PROVE SoleBroker'
  BY <1>5 DEF ReconcileReplace
<1>6. ASSUME NEW c \in Clients, ReconcilePreserve(c) PROVE SoleBroker'
  BY <1>6 DEF ReconcilePreserve
<1>7. ASSUME NEW c \in Clients, ProbeFails(c) PROVE SoleBroker'
  <2> DEFINE pc == AfterFailure[client[c].pc]
  <2>1. /\ pc \in {"guard", "recheck", "fallback", "contend", "cleanup", "await"}
        /\ pc = "await" <=> client[c].pc = "await"
        /\ pc = "cleanup" <=> client[c].pc = "locked"
    BY <1>7, AfterFailureRange DEF ProbeFails
  <2>2. Goto(c, pc) /\ OnlyClientSteps
    BY <1>7 DEF ProbeFails
  <2>3. client[c].pc = "locked" => \A b \in Brokers : ~Live(b)
    BY <1>7 DEF ProbeFails, Lost
  <2> HIDE DEF pc
  <2> QED BY <2>1, <2>2, <2>3
<1>8. ASSUME NEW c \in Clients, TakeGuard(c) PROVE SoleBroker'
  BY <1>8 DEF TakeGuard
<1>9. ASSUME NEW c \in Clients, GuardTimesOut(c) PROVE SoleBroker'
  BY <1>9 DEF GuardTimesOut
<1>10. ASSUME NEW c \in Clients, UseFallback(c) PROVE SoleBroker'
  BY <1>10 DEF UseFallback
<1>11. ASSUME NEW c \in Clients, FallbackAbsent(c) PROVE SoleBroker'
  BY <1>11 DEF FallbackAbsent
<1>12. ASSUME NEW c \in Clients, FallbackBlocks(c) PROVE SoleBroker'
  BY <1>12 DEF FallbackBlocks
<1>13. ASSUME NEW c \in Clients, FallbackReturns(c) PROVE SoleBroker'
  BY <1>13 DEF FallbackReturns
<1>14. ASSUME NEW c \in Clients, TryLock(c) PROVE SoleBroker'
  BY <1>14 DEF TryLock
<1>15. ASSUME NEW c \in Clients, Terminate(c) PROVE SoleBroker'
  BY <1>15 DEF Terminate, KillsWhatAnswered
<1>16. ASSUME NEW c \in Clients, RemoveClaim(c) PROVE SoleBroker'
  BY <1>16 DEF RemoveClaim
<1>17. ASSUME NEW c \in Clients, CleanupNothing(c) PROVE SoleBroker'
  BY <1>17 DEF CleanupNothing
<1>18. ASSUME NEW c \in Clients, CleanupRefused(c) PROVE SoleBroker'
  BY <1>18 DEF CleanupRefused
<1>19. ASSUME NEW c \in Clients, CleanupDecides(c) PROVE SoleBroker'
  BY <1>19 DEF CleanupDecides
<1>20. ASSUME NEW c \in Clients, CleanupUnlinks(c) PROVE SoleBroker'
  BY <1>20 DEF CleanupUnlinks
<1>21. ASSUME NEW c \in Clients, SpawnBroker(c) PROVE SoleBroker'
  BY <1>21 DEF SpawnBroker
<1>22. ASSUME NEW c \in Clients, AwaitTimesOut(c) PROVE SoleBroker'
  BY <1>22 DEF AwaitTimesOut, Lost, NobodyStarts
<1>23. ASSUME NEW c \in Clients, CallReturns(c) PROVE SoleBroker'
  BY <1>23 DEF CallReturns
<1>24. ASSUME NEW c \in Clients, CallFails(c) PROVE SoleBroker'
  BY <1>24 DEF CallFails
<1>25. ASSUME NEW c \in Clients, Deadline(c) PROVE SoleBroker'
  BY <1>25 DEF Deadline
<1>26. ASSUME NEW c \in Clients, SlowStart(c) PROVE SoleBroker'
  BY <1>26 DEF SlowStart
<1>27. ASSUME NEW c \in Clients, ClientKilled(c) PROVE SoleBroker'
  BY <1>27 DEF ClientKilled
<1>28. ASSUME NEW b \in Brokers, Bind(b) PROVE SoleBroker'
  BY <1>28 DEF Bind
<1>29. ASSUME NEW b \in Brokers, BindFails(b) PROVE SoleBroker'
  BY <1>29 DEF BindFails
<1>30. ASSUME NEW b \in Brokers, WritePidFile(b) PROVE SoleBroker'
  BY <1>30 DEF WritePidFile
<1>31. ASSUME NEW b \in Brokers, Drained(b) PROVE SoleBroker'
  BY <1>31 DEF Drained
<1>32. ASSUME NEW b \in Brokers, UnlinkPid(b) PROVE SoleBroker'
  BY <1>32 DEF UnlinkPid
<1>33. ASSUME NEW b \in Brokers, UnlinkSocket(b) PROVE SoleBroker'
  BY <1>33 DEF UnlinkSocket
<1>34. ASSUME NEW b \in Brokers, TenancyExit(b) PROVE SoleBroker'
  BY <1>34 DEF TenancyExit, TenancyViolation
<1>35. ASSUME NEW b \in Brokers, SweepSessions(b) PROVE SoleBroker'
  BY <1>35 DEF SweepSessions
<1>36. ASSUME NEW b \in Brokers, IdleExit(b) PROVE SoleBroker'
  BY <1>36 DEF IdleExit
<1>37. ASSUME NEW b \in Brokers, RunBroker(b) PROVE SoleBroker'
  BY <1>37 DEF RunBroker
<1>38. ASSUME NEW b \in Brokers, Crash(b) PROVE SoleBroker'
  BY <1>38 DEF Crash
<1>39. ASSUME NEW b \in Brokers, NEW c \in Clients, Accept(b, c) PROVE SoleBroker'
  BY <1>39 DEF Accept
<1>40. CASE FallbackExits
  BY <1>40 DEF FallbackExits
<1>41. CASE FilesVanish
  BY <1>41 DEF FilesVanish
<1>42. CASE UNCHANGED vars
  BY <1>42 DEF vars
<1> QED
  BY <1>1, <1>2, <1>3, <1>4, <1>5, <1>6, <1>7, <1>8, <1>9, <1>10, <1>11, <1>12, <1>13, <1>14,
     <1>15, <1>16, <1>17, <1>18, <1>19, <1>20, <1>21, <1>22, <1>23, <1>24, <1>25, <1>26, <1>27,
     <1>28, <1>29, <1>30, <1>31, <1>32, <1>33, <1>34, <1>35, <1>36, <1>37, <1>38, <1>39, <1>40,
     <1>41, <1>42 DEF Next, ClientStep, ProbeStep, BrokerStep, Startup, Shutdown

(***************************************************************************)
(* The theorems.                                                           *)
(***************************************************************************)
\* In every reachable state the processes, the calls and the files have the types
\* declared, and a lock is held only inside the section of ensure_running it guards.
THEOREM TypeCorrect == Spec => []TypeOK
<1>1. Init => TypeOK
  BY NamesDiffer, BoundsAssumption, ProfilesAssumption
     DEF Init, TypeOK, Dead, Idle, NoKind, BrokerState, CallState, Kind, Running, Probing
<1> QED BY <1>1, TypeNext, PTL DEF Spec

\* The inductive invariant holds, for any constants.
THEOREM TenancyInvariant == Spec => []TenancyInv
<1>1. Init => TenancyInv
  <2> SUFFICES ASSUME Init PROVE TenancyInv
    OBVIOUS
  <2>1. /\ \A b \in Brokers : ~Live(b)
        /\ \A c \in Clients : client[c].pc = "idle" /\ ~client[c].accepted /\ client[c].conn = None
    BY DEF Init, Live, Dead, Idle
  <2>2. Telltale(legacy)
    BY ProfilesAssumption DEF Init
  <2>3. socket = None /\ pid_file = None /\ start_lock = None
    BY DEF Init
  <2> QED BY <2>1, <2>2, <2>3 DEF TenancyInv, OldBrokerRetired, PreviousGone, KillsWhatAnswered,
             Exclusive, SoleBroker, OneLive, HolderKnows, PidFileHasSocket, Is, PastGuard,
                StartLocked, Connected
<1>2. TypeOK /\ TenancyInv /\ [Next]_vars => TenancyInv'
  BY OldBrokerNext, PreviousNext, KillsNext, ExclusiveNext DEF TenancyInv
<1> QED BY <1>1, <1>2, TypeCorrect, PTL DEF Spec

\* Unless a client lets go of its lock early, someone deletes the files, or a broker
\* leaves by itself or is started by hand, at most one broker listens: crashes and
\* upgrades between any two steps of ensure_running never bring up a second registry.
THEOREM OneRegistryProved == Spec => []OneRegistryUndisturbed
<1>1. TenancyInv => OneRegistryUndisturbed
  BY DEF TenancyInv, Exclusive, SoleBroker, OneLive, OneRegistryUndisturbed, OneRegistry,
     Undisturbed, Live, Listening
<1> QED BY <1>1, TenancyInvariant, PTL

\* terminate_broker_claim only ever kills a broker of the caller's own runtime,
\* whatever happened to broker and files since it answered the ping.
THEOREM ConflictsPreserved == Spec => []ConflictsArePreserved
<1>1. TenancyInv => ConflictsArePreserved
  BY DEF TenancyInv, KillsWhatAnswered, ConflictsArePreserved, Is, Live
<1> QED BY <1>1, TenancyInvariant, PTL

\* No broker runs beside the previous location's broker, nor, unless started by
\* hand, beside one of the old protocol.
THEOREM EarlierBrokersGone == Spec => []EarlierBrokersNeverBeside
<1>1. TenancyInv => EarlierBrokersNeverBeside
  BY DEF TenancyInv, OldBrokerRetired, PreviousGone, EarlierBrokersNeverBeside, Live
<1> QED BY <1>1, TenancyInvariant, PTL
============================================================================
