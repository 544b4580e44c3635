------------------------- MODULE TabCapturesProofs -------------------------
(***************************************************************************)
(* Proofs about TabCaptures, for every set of sessions, tabs, targets,     *)
(* connections and jobs and whatever happens together: artifacts follow    *)
(* their sessions, recorders are answered for, a running trace can be      *)
(* ended by somebody, and who claims a target finds it without another     *)
(* session's emulation.                                                    *)
(*                                                                         *)
(* The model calls the registry and never writes its maps itself, so that  *)
(* its invariant RegistryInv holds here (StepsTheRegistry); CaptureInv     *)
(* adds what a request carries by where it is, that a tab keeps its target *)
(* for whoever remembers it, and one invariant for each property.          *)
(***************************************************************************)
EXTENDS TabCaptures, LeaseRegistryProofs, SequenceTheorems

(***************************************************************************)
(* Types.                                                                  *)
(***************************************************************************)
Pcs == {"idle", "handle", "reconcile", "check", "act", "tracing", "reload", "store", "commanding",
        "record", "audit", "jobs", "casting", "take_trace", "take_casts", "claim", "untraced",
        "release", "reserve", "closing", "commit"}
Commands  == [override : Overrides, by : Maybe(Sessions)]
CallState == [pc : Pcs, method : AllMethods \cup {"none"}, session : Maybe(Sessions),
              tab : Maybe(Tabs), target : Maybe(Targets), job : Maybe(Jobs), todo : SUBSET Tabs,
              commands : Seq(Commands), next : Pcs, prior : Maybe(Sessions)]
JobState  == [phase : {"unborn", "recording", "finalizing", "good", "bad", "done"},
              control : {"record", "stop", "cancel"}, terminal : {"none", "ready", "error"},
              session : Maybe(Sessions), tab : Maybe(Tabs), target : Maybe(Targets)]
SweepState == [pc : {"idle", "next", "clear", "reset"}, expired : SUBSET Sessions,
               released : SUBSET Tabs]
History   == [late : SUBSET Targets, unreset : SUBSET Targets, left : SUBSET Targets]
FileState == [of : Record, part : {"whole", "partial", "temporary"}]
PageState == {"unborn", "open", "gone"}
Emulation == [Overrides -> Maybe(Sessions)]

PageTypes ==
    /\ profile \in Profiles /\ page \in [Targets -> PageState]
    /\ emulated \in [Targets -> Emulation]
    /\ viewport_overrides \in [Targets -> Maybe(Sessions)]
TraceTypes == traces \in SUBSET Targets /\ trace_lock \in Maybe(Calls)
CastTypes ==
    /\ job \in [Jobs -> JobState] /\ screencasts \in [Tabs -> Maybe(Jobs)]
    /\ cast_lock \in Maybe(Calls)
ArtifactTypes ==
    /\ reservations \in SUBSET Jobs /\ records \in SUBSET Record /\ files \in SUBSET FileState
ControlTypes ==
    /\ sweep \in SweepState /\ shutdown \in {"no", "draining", "cancelled"} /\ history \in History
CallTypes == call \in [Calls -> CallState]

Types == PageTypes /\ TraceTypes /\ CastTypes /\ ArtifactTypes /\ ControlTypes /\ CallTypes

(***************************************************************************)
(* The invariant.                                                          *)
(***************************************************************************)
Takeovers == {"takeover", "takeover_uninstructed"}

\* The requests that come to each place.
MethodsAt(pc) ==
    CASE pc = "idle" -> {"none"}
      [] pc = "handle" -> AllMethods
      [] pc \in {"reconcile", "check", "act"} -> PageTools
      [] pc \in {"tracing", "reload"} -> {"start_trace"}
      [] pc = "store" -> {"stop_trace", "capture", "audit"}
      [] pc = "record" -> {"set_viewport", "reset"}
      [] pc = "audit" -> {"audit"}
      [] pc \in {"jobs", "casting"} -> {"start_cast"}
      [] pc \in {"take_trace", "take_casts"} -> Takeovers
      [] pc = "claim" -> ClaimMethods
      [] pc \in {"untraced", "release"} -> {"release"}
      [] pc \in {"reserve", "closing", "commit"} -> {"close"}
      [] OTHER -> {"set_viewport", "set_other", "reset", "audit", "release"} \cup Takeovers

\* The request acts on a tab and has found its target.
Aimed(c) == Is(c, TabMethods) /\ call[c].pc \notin {"idle", "handle", "reconcile", "check"}

\* Where a request goes when the page has all its commands.
GoesOnAt(c) == IF Is(c, {"set_viewport", "reset"}) THEN {"record"}
               ELSE IF Is(c, {"set_other"}) THEN {"idle"}
               ELSE IF Is(c, {"audit"}) THEN {"audit", "store", "idle"}
               ELSE IF Is(c, {"release"}) THEN {"release"} ELSE {"claim"}

\* What a request carries, by where it is.
Shape(c) ==
    /\ call[c].method \in MethodsAt(call[c].pc)
    /\ At(c, "idle") => call[c] = NoCall
    /\ ~At(c, "idle") => call[c].session \in Sessions /\ Live(call[c].session)
    /\ Is(c, TabMethods) => call[c].tab \in Tabs /\ leases[call[c].tab].state # "unissued"
    /\ Is(c, ClaimMethods \cup {"new_tab"}) => call[c].target \in Targets
    /\ Is(c, ClaimMethods) => page[call[c].target] # "unborn"
    /\ Aimed(c) => call[c].target \in Targets
    /\ Is(c, TabMethods) /\ ~Aimed(c) => call[c].target = None
    /\ call[c].todo # {} => At(c, "reconcile")
    /\ \A b \in call[c].todo : Known(b) /\ leases[b].state # "active"
    /\ At(c, "commanding") => call[c].commands # <<>> /\ call[c].next \in GoesOnAt(c)
    /\ call[c].pc \in {"jobs", "casting"} => call[c].job \in Jobs

JobShape(j) ==
    /\ job[j].phase = "unborn" => job[j] = NoJob
    /\ job[j].phase # "unborn" =>
          /\ job[j].session \in Sessions /\ job[j].tab \in Tabs /\ job[j].target \in Targets
          /\ leases[job[j].tab].state # "unissued"
    /\ job[j].terminal = "none" <=> job[j].phase # "done"

MapShape == \A b \in Tabs : screencasts[b] # None => job[screencasts[b]].phase # "unborn"

SweepShape ==
    /\ \A s \in sweep.expired : sessions[s].status = "gone"
    /\ sweep.pc = "idle" => sweep = NoSweep
    /\ \A b \in sweep.released : Known(b) /\ leases[b].state # "active"

\* Requests and jobs that remember a tab remember its target, also when the
\* registry has removed the lease.
Aims(b, t) ==
    \/ Known(b) /\ leases[b].target = t
    \/ \E c \in Calls : Is(c, TabMethods) /\ call[c].tab = b /\ call[c].target = t
    \/ \E j \in Jobs : job[j].tab = b /\ job[j].target = t
AimInv == \A b \in Tabs, t, u \in Targets : Aims(b, t) /\ Aims(b, u) => t = u

ShapeInv ==
    /\ \A c \in Calls : Shape(c)
    /\ \A j \in Jobs : JobShape(j)
    /\ MapShape /\ SweepShape /\ AimInv

Uncancelled(j) == Unfinished(j) /\ job[j].control # "cancel"

\* A job nobody has cancelled is in the map, and the lock keeps the map as a
\* start has read it.
CastInv ==
    /\ \A c \in Calls : At(c, "casting") =>
          cast_lock = c /\ ~Busy(call[c].target) /\ screencasts[call[c].tab] = None
    /\ \A j \in Jobs : Uncancelled(j) => screencasts[job[j].tab] = j

Starts(c) == call[c].pc \in {"jobs", "casting"}
Removing(s) == sweep.pc \in {"next", "clear"} /\ s \in sweep.expired
KeepsArtifacts(s) == Live(s) \/ Removing(s)

\* A reservation is held by one start, then by its job; the partial file is
\* under its holder's session.
ReserveInv ==
    /\ \A c \in Calls : Starts(c) => job[call[c].job] = NoJob
    /\ \A c, d \in Calls : Starts(c) /\ Starts(d) /\ call[c].job = call[d].job => c = d
    /\ \A j \in reservations : \/ \E c \in Calls : Starts(c) /\ call[c].job = j
                               \/ Unfinished(j) /\ KeepsArtifacts(job[j].session)
    /\ \A f \in files : f.part = "partial" =>
         /\ f.of.from \in Jobs
         /\ \A c \in Calls : Starts(c) /\ call[c].job = f.of.from => f.of.session = call[c].session
         /\ job[f.of.from].phase # "unborn" => f.of.session = job[f.of.from].session

\* A release or a close has seen that there is no trace.
Blocks(c) == \/ call[c].pc \in {"reserve", "closing", "commit"}
             \/ /\ Is(c, {"release"}) /\ call[c].pc \in {"commanding", "release"}
                /\ leases[call[c].tab].state = "active"

\* Somebody will meet the trace of t.
Met(t) == \/ t \in history.left \/ HasActiveLease(t) \/ Closing(t)
          \/ \E c \in Calls : \E b \in call[c].todo : leases[b].target = t
TraceInv ==
    /\ \A t \in traces : Met(t)
    /\ \A c \in Calls : Blocks(c) => call[c].target \notin traces \/ call[c].target \in history.left

PageInv ==
    /\ \A t \in Targets : page[t] # "open" => emulated[t] = Clean
    /\ \A b \in Tabs : Known(b) => page[leases[b].target] # "unborn"
    /\ \A b \in Tabs : leases[b].state = "missing" => page[leases[b].target] = "gone"
    /\ \A c \in Calls : Aimed(c) => page[call[c].target] # "unborn"
    /\ \A c \in Calls : At(c, "commit") => page[call[c].target] = "gone"

\* The history tells of t, or the sweep has it still to reset.
Marked(t) == t \in history.late \cup history.unreset
Loose(t)  == Marked(t) \/ \E b \in sweep.released : leases[b].target = t

Handing(c) == At(c, "commanding") /\ ~Is(c, PageTools)
\* c has no command left for the override k.
Sent(c, k) == \A i \in DOMAIN call[c].commands : call[c].commands[i].override # k
\* c has reset its target and is about to hand it over.
Cleared(c) == \/ At(c, "release") /\ leases[call[c].tab].state = "active"
              \/ At(c, "claim") /\ Takes(c)
EmulationInv ==
    /\ \A t \in Targets : \/ emulated[t] = Clean \/ HasActiveLease(t) \/ Loose(t)
                          \/ \E x \in sweep_closes : x.target = t
    /\ \A c \in Calls : Handing(c) =>
         /\ \A i \in DOMAIN call[c].commands : call[c].commands[i].by = None
         /\ \/ Marked(call[c].target)
            \/ \A k \in Overrides : Sent(c, k) => emulated[call[c].target][k] = None
    /\ \A c \in Calls : Cleared(c) => Marked(call[c].target) \/ emulated[call[c].target] = Clean

CaptureInv ==
    /\ RegistryInv /\ Types /\ ShapeInv
    /\ CastInv /\ RecordersAreAnsweredFor
    /\ ReserveInv /\ ArtifactsFollowSessions
    /\ TraceInv /\ PageInv /\ EmulationInv

(***************************************************************************)
(* What a step does to the request of its connection.                      *)
(***************************************************************************)
Rewrites(c) ==
    /\ call' \in [Calls -> CallState]
    /\ \A q \in Calls \ {c} : call'[q] = call[q]

\* The request is over.
Ends(c) == Rewrites(c) /\ call'[c] = NoCall

\* The request goes on at pc.
Goes(c, pc) ==
    /\ Rewrites(c)
    /\ call'[c].pc = pc /\ call'[c].method = call[c].method
    /\ call'[c].session = call[c].session /\ call'[c].tab = call[c].tab

SameTarget(c)   == call'[c].target = call[c].target
SameTodo(c)     == call'[c].todo = call[c].todo
SameJob(c)      == call'[c].job = call[c].job
SameCommands(c) == call'[c].commands = call[c].commands /\ call'[c].next = call[c].next

\* The request goes on at pc and nothing else about it changes.
Moves(c, pc) == Goes(c, pc) /\ SameTarget(c) /\ SameTodo(c) /\ SameJob(c) /\ SameCommands(c)
\* ... with target t, for the tab it names.
Aimes(c, pc, t) ==
    Goes(c, pc) /\ call'[c].target = t /\ SameTodo(c) /\ SameJob(c) /\ SameCommands(c)
\* ... with the tabs B left to reconcile.
Owes(c, pc, B) ==
    Goes(c, pc) /\ call'[c].todo = B /\ SameTarget(c) /\ SameJob(c) /\ SameCommands(c)
\* ... with job j.
Assigned(c, pc, j) ==
    Goes(c, pc) /\ call'[c].job = j /\ SameTarget(c) /\ SameTodo(c) /\ SameCommands(c)
\* ... with commands q to send before it goes on at next.
Commanded(c, q, next) ==
    /\ Goes(c, "commanding") /\ call'[c].commands = q /\ call'[c].next = next
    /\ SameTarget(c) /\ SameTodo(c) /\ SameJob(c)

\* What the steps write into a request keeps its type.
LEMMA CallFields ==
    ASSUME NEW u \in CallState
    PROVE  /\ \A pc \in Pcs : [u EXCEPT !.pc = pc] \in CallState
           /\ \A pc \in Pcs, t \in Maybe(Targets) :
                 /\ [u EXCEPT !.pc = pc, !.target = t] \in CallState
                 /\ [u EXCEPT !.target = t, !.pc = pc] \in CallState
           /\ \A pc \in Pcs, B \in SUBSET Tabs :
                 /\ [u EXCEPT !.pc = pc, !.todo = B] \in CallState
                 /\ [u EXCEPT !.todo = B, !.pc = pc] \in CallState
           /\ \A pc \in Pcs, j \in Maybe(Jobs) :
                 /\ [u EXCEPT !.pc = pc, !.job = j] \in CallState
                 /\ [u EXCEPT !.job = j, !.pc = pc] \in CallState
           /\ \A q \in Seq(Commands) : [u EXCEPT !.commands = q] \in CallState
           /\ \A pc \in Pcs, q \in Seq(Commands) :
                 [u EXCEPT !.pc = pc, !.commands = q] \in CallState
           /\ \A pc \in Pcs, q \in Seq(Commands), next \in Pcs :
                 [u EXCEPT !.pc = pc, !.commands = q, !.next = next] \in CallState
           /\ \A s \in Maybe(Sessions) : [u EXCEPT !.prior = s] \in CallState
           /\ \A pc \in Pcs, m \in AllMethods, s \in Sessions, b \in Maybe(Tabs),
                 t \in Maybe(Targets) :
                 [u EXCEPT !.pc = pc, !.method = m, !.session = s, !.tab = b, !.target = t]
                    \in CallState
<1>1. \A pc \in Pcs : [u EXCEPT !.pc = pc] \in CallState
  BY Zenon DEF CallState
<1>2. \A pc \in Pcs, t \in Maybe(Targets) : /\ [u EXCEPT !.pc = pc, !.target = t] \in CallState
                                            /\ [u EXCEPT !.target = t, !.pc = pc] \in CallState
  BY Zenon DEF CallState
<1>3. \A pc \in Pcs, B \in SUBSET Tabs : /\ [u EXCEPT !.pc = pc, !.todo = B] \in CallState
                                         /\ [u EXCEPT !.todo = B, !.pc = pc] \in CallState
  BY Zenon DEF CallState
<1>4. \A pc \in Pcs, j \in Maybe(Jobs) : /\ [u EXCEPT !.pc = pc, !.job = j] \in CallState
                                         /\ [u EXCEPT !.job = j, !.pc = pc] \in CallState
  BY Zenon DEF CallState
<1>5. \A q \in Seq(Commands) : [u EXCEPT !.commands = q] \in CallState
  BY Zenon DEF CallState
<1>6. \A pc \in Pcs, q \in Seq(Commands) : [u EXCEPT !.pc = pc, !.commands = q] \in CallState
  BY Zenon DEF CallState
<1>7. \A pc \in Pcs, q \in Seq(Commands), next \in Pcs :
         [u EXCEPT !.pc = pc, !.commands = q, !.next = next] \in CallState
  BY Zenon DEF CallState
<1>8. \A s \in Maybe(Sessions) : [u EXCEPT !.prior = s] \in CallState
  BY Zenon DEF CallState
<1>9. \A pc \in Pcs, m \in AllMethods, s \in Sessions, b \in Maybe(Tabs), t \in Maybe(Targets) :
         [u EXCEPT !.pc = pc, !.method = m, !.session = s, !.tab = b, !.target = t] \in CallState
  BY Zenon DEF CallState, Maybe
<1> QED BY <1>1, <1>2, <1>3, <1>4, <1>5, <1>6, <1>7, <1>8, <1>9

\* An idle connection is a request.
LEMMA NoCallType == NoCall \in CallState
BY DEF NoCall, CallState, Maybe, Pcs

\* A call that ends is as it was before it began.
LEMMA EndEnds ==
    ASSUME CallTypes, NEW c \in Calls, End(c)
    PROVE  Ends(c)
BY NoCallType DEF End, Ends, Rewrites, CallTypes

\* The helpers that update a call, in the form the proofs use: a step that only moves on,
LEMMA GotoMoves ==
    ASSUME CallTypes, NEW c \in Calls, NEW pc \in Pcs, Goto(c, pc)
    PROVE  Moves(c, pc)
<1> DEFINE u == [call[c] EXCEPT !.pc = pc]
<1>1. u \in CallState /\ call' = [call EXCEPT ![c] = u]
  BY CallFields DEF CallTypes, Goto
<1>2. /\ u.pc = pc /\ u.method = call[c].method /\ u.tab = call[c].tab
      /\ u.session = call[c].session /\ u.target = call[c].target /\ u.todo = call[c].todo
      /\ u.job = call[c].job /\ u.commands = call[c].commands /\ u.next = call[c].next
  BY DEF CallTypes, CallState
<1> HIDE DEF u
<1> QED
  BY <1>1, <1>2
  DEF CallTypes, Moves, Goes, Rewrites, SameTarget, SameTodo, SameJob, SameCommands

\* one that also looks a target up,
LEMMA TargetAimes ==
    ASSUME CallTypes, NEW c \in Calls, NEW pc \in Pcs, NEW t \in Maybe(Targets),
           \/ call' = [call EXCEPT ![c].pc = pc, ![c].target = t]
           \/ call' = [call EXCEPT ![c].target = t, ![c].pc = pc]
    PROVE  Aimes(c, pc, t)
<1> DEFINE u == [call[c] EXCEPT !.pc = pc, !.target = t]
<1>0. u \in CallState
  BY CallFields DEF CallTypes
<1>1. u \in CallState /\ call' = [call EXCEPT ![c] = u]
  BY <1>0 DEF CallTypes, CallState
<1>2. /\ u.pc = pc /\ u.method = call[c].method /\ u.tab = call[c].tab
      /\ u.session = call[c].session /\ u.target = t /\ u.todo = call[c].todo
      /\ u.job = call[c].job /\ u.commands = call[c].commands /\ u.next = call[c].next
  BY DEF CallTypes, CallState
<1> HIDE DEF u
<1> QED
  BY <1>1, <1>2 DEF CallTypes, Aimes, Goes, Rewrites, SameTodo, SameJob, SameCommands

\* one that also takes over tabs it must see to,
LEMMA TodoOwes ==
    ASSUME CallTypes, NEW c \in Calls, NEW pc \in Pcs, NEW B \in SUBSET Tabs,
           \/ call' = [call EXCEPT ![c].pc = pc, ![c].todo = B]
           \/ call' = [call EXCEPT ![c].todo = B, ![c].pc = pc]
    PROVE  Owes(c, pc, B)
<1> DEFINE u == [call[c] EXCEPT !.pc = pc, !.todo = B]
<1>0. u \in CallState
  BY CallFields DEF CallTypes
<1>1. u \in CallState /\ call' = [call EXCEPT ![c] = u]
  BY <1>0 DEF CallTypes, CallState
<1>2. /\ u.pc = pc /\ u.method = call[c].method /\ u.tab = call[c].tab
      /\ u.session = call[c].session /\ u.target = call[c].target /\ u.todo = B
      /\ u.job = call[c].job /\ u.commands = call[c].commands /\ u.next = call[c].next
  BY DEF CallTypes, CallState
<1> HIDE DEF u
<1> QED
  BY <1>1, <1>2 DEF CallTypes, Owes, Goes, Rewrites, SameTarget, SameJob, SameCommands

\* one that also takes a job,
LEMMA JobTakes ==
    ASSUME CallTypes, NEW c \in Calls, NEW pc \in Pcs, NEW j \in Maybe(Jobs),
           \/ call' = [call EXCEPT ![c].pc = pc, ![c].job = j]
           \/ call' = [call EXCEPT ![c].job = j, ![c].pc = pc]
    PROVE  Assigned(c, pc, j)
<1> DEFINE u == [call[c] EXCEPT !.pc = pc, !.job = j]
<1>0. u \in CallState
  BY CallFields DEF CallTypes
<1>1. u \in CallState /\ call' = [call EXCEPT ![c] = u]
  BY <1>0 DEF CallTypes, CallState
<1>2. /\ u.pc = pc /\ u.method = call[c].method /\ u.tab = call[c].tab
      /\ u.session = call[c].session /\ u.target = call[c].target /\ u.todo = call[c].todo
      /\ u.job = j /\ u.commands = call[c].commands /\ u.next = call[c].next
  BY DEF CallTypes, CallState
<1> HIDE DEF u
<1> QED
  BY <1>1, <1>2 DEF CallTypes, Assigned, Goes, Rewrites, SameTarget, SameTodo, SameCommands

\* and one that sets out the commands for the page.
LEMMA EmulatingCommands ==
    ASSUME CallTypes, NEW c \in Calls, NEW q \in Seq(Commands), NEW next \in Pcs,
           NEW s \in Maybe(Sessions),
           \/ call' = Emulating(c, q, next)
           \/ call' = [Emulating(c, q, next) EXCEPT ![c].prior = s]
    PROVE  Commanded(c, q, next)
<1> DEFINE v == [call[c] EXCEPT !.pc = "commanding", !.commands = q, !.next = next]
           w == [v EXCEPT !.prior = s]
<1>a. "commanding" \in Pcs
  BY DEF Pcs
<1>0. v \in CallState
  BY <1>a, CallFields DEF CallTypes
<1>1. v \in CallState /\ Emulating(c, q, next) = [call EXCEPT ![c] = v]
  BY <1>0 DEF CallTypes, CallState, Emulating
<1>2. v \in CallState /\ w \in CallState
  BY <1>1, CallFields
<1>3. /\ v.pc = "commanding" /\ v.method = call[c].method /\ v.tab = call[c].tab
      /\ v.session = call[c].session /\ v.target = call[c].target /\ v.todo = call[c].todo
      /\ v.job = call[c].job /\ v.commands = q /\ v.next = next
  BY DEF CallTypes, CallState
<1> HIDE DEF v
<1>4. /\ w.pc = v.pc /\ w.method = v.method /\ w.tab = v.tab
      /\ w.session = v.session /\ w.target = v.target /\ w.todo = v.todo
      /\ w.job = v.job /\ w.commands = v.commands /\ w.next = v.next
  BY <1>2 DEF CallState
<1>5. PICK u \in {v, w} : call' = [call EXCEPT ![c] = u]
  BY <1>1 DEF CallTypes
<1> HIDE DEF w
<1> QED
  BY <1>2, <1>3, <1>4, <1>5
  DEF CallTypes, Commanded, Goes, Rewrites, SameTarget, SameTodo, SameJob

\* The page has a command, and more are left; or it has had the last one.
LEMMA CommandSent ==
    ASSUME CallTypes, NEW c \in Calls, NEW q \in Seq(Commands)
    PROVE  /\ call' = [call EXCEPT ![c].commands = q] /\ At(c, "commanding")
                 => Commanded(c, q, call[c].next)
           /\ \A pc \in Pcs : call' = [call EXCEPT ![c].pc = pc, ![c].commands = q] =>
                 /\ Goes(c, pc) /\ call'[c].commands = q
                 /\ SameTarget(c) /\ SameTodo(c) /\ SameJob(c)
<1>1. ASSUME call' = [call EXCEPT ![c].commands = q], At(c, "commanding")
      PROVE  Commanded(c, q, call[c].next)
  <2> DEFINE u == [call[c] EXCEPT !.commands = q]
  <2>0. u \in CallState
    BY CallFields DEF CallTypes
  <2>1. u \in CallState /\ call' = [call EXCEPT ![c] = u]
    BY <1>1, <2>0 DEF CallTypes, CallState
  <2>2. /\ u.pc = call[c].pc /\ u.method = call[c].method /\ u.tab = call[c].tab
        /\ u.session = call[c].session /\ u.target = call[c].target /\ u.todo = call[c].todo
        /\ u.job = call[c].job /\ u.commands = q /\ u.next = call[c].next
    BY DEF CallTypes, CallState
  <2> HIDE DEF u
  <2> QED
    BY <1>1, <2>1, <2>2
    DEF CallTypes, At, Commanded, Goes, Rewrites, SameTarget, SameTodo, SameJob
<1>2. ASSUME NEW pc \in Pcs, call' = [call EXCEPT ![c].pc = pc, ![c].commands = q]
      PROVE  /\ Goes(c, pc) /\ call'[c].commands = q
             /\ SameTarget(c) /\ SameTodo(c) /\ SameJob(c)
  <2> DEFINE u == [call[c] EXCEPT !.pc = pc, !.commands = q]
  <2>0. u \in CallState
    BY CallFields DEF CallTypes
  <2>1. u \in CallState /\ call' = [call EXCEPT ![c] = u]
    BY <1>2, <2>0 DEF CallTypes, CallState
  <2>2. /\ u.pc = pc /\ u.method = call[c].method /\ u.tab = call[c].tab
        /\ u.session = call[c].session /\ u.target = call[c].target /\ u.todo = call[c].todo
        /\ u.job = call[c].job /\ u.commands = q
    BY DEF CallTypes, CallState
  <2> HIDE DEF u
  <2> QED
    BY <2>1, <2>2 DEF CallTypes, Goes, Rewrites, SameTarget, SameTodo, SameJob
<1> QED BY <1>1, <1>2

(***************************************************************************)
(* Every step is a step of the registry, or none.                          *)
(***************************************************************************)
\* The session, tab and target a request acts with, where it needs them.
LEMMA Carries ==
    ASSUME Types, NEW c \in Calls, Shape(c)
    PROVE  /\ ~At(c, "idle") => call[c].session \in Sessions /\ Live(call[c].session)
           /\ Is(c, TabMethods) => call[c].tab \in Tabs /\ leases[call[c].tab].state # "unissued"
           /\ Is(c, ClaimMethods \cup {"new_tab"}) => call[c].target \in Targets
           /\ Aimed(c) => call[c].target \in Targets
           /\ call[c] \in CallState
BY DEF Types, CallTypes, Shape

\* The steps that leave the registry alone.
Quiet(c) ==
    \/ CheckOwned(c) \/ \E b \in Tabs : Reconcile(c, b)
    \/ TakeTraces(c) \/ TraceStarts(c) \/ ReloadTraced(c) \/ StopTrace(c) \/ StoreArtifact(c)
    \/ Capture(c) \/ DeleteArtifact(c) \/ AuditStarts(c) \/ AuditRuns(c)
    \/ Emulate(c) \/ Command(c) \/ RecordOverride(c)
    \/ \E j \in Jobs : ReserveArtifact(c, j)
    \/ RefusedCast(c) \/ TakeJobs(c) \/ CastStarts(c) \/ CastFails(c) \/ StopCast(c)
    \/ LookUpClaim(c) \/ TakeoverStopsTrace(c) \/ TakeoverCancels(c) \/ ClaimRefused(c)
    \/ ValidateRelease(c) \/ ReleaseUntraced(c) \/ ValidateClose(c) \/ ClosePage(c)

\* A call does most of its work without the registry.
LEMMA QuietSteps ==
    ASSUME NEW c \in Calls, Quiet(c)
    PROVE  UNCHANGED vars
BY DEF Quiet, CheckOwned, Reconcile, TakeTraces, TraceStarts, ReloadTraced, StopTrace,
       StoreArtifact, Capture, DeleteArtifact, AuditStarts, AuditRuns, Emulate, Command,
       RecordOverride, ReserveArtifact, RefusedCast, TakeJobs, CastStarts, CastFails, StopCast,
       LookUpClaim, TakeoverStopsTrace, TakeoverCancels, ClaimRefused, ValidateRelease,
       ReleaseUntraced, ValidateClose, ClosePage, OnlyCall

\* So do the capture tasks, the sweep between its two registry sections, and the human.
LEMMA QuietBackground ==
    ASSUME \/ \E j \in Jobs : JobStep(j)
           \/ SweepCancels \/ SweepRemovesArtifacts \/ SweepEnds
           \/ \E b \in Tabs : SweepResets(b)
           \/ ShutsDown \/ CancelAll \/ \E t \in Targets : HumanCloses(t)
    PROVE  UNCHANGED vars
BY DEF JobStep, SourceStops, SourceFails, CaptureEnds, Finalize, OnlyJobs, SweepCancels,
       SweepRemovesArtifacts, SweepEnds, SweepResets, ShutsDown, CancelAll, HumanCloses

\* Giving a close reservation up is a call of the registry.
LEMMA EndsReservation ==
    ASSUME NEW c \in Calls, call[c].tab \in Tabs, call[c].target \in Targets, EndReservation(c)
    PROVE  [Next]_vars
BY DEF EndReservation, Next, TabNext

\* Requests call the registry's methods with arguments the methods accept.
LEMMA CallStepsTheRegistry ==
    ASSUME RegistryInv, Types, NEW c \in Calls, Shape(c),
           ClientStep(c) \/ ToolStep(c) \/ HandoverStep(c)
    PROVE  [Next]_vars
<1> USE Carries
<1>1. CASE Quiet(c)
  BY <1>1, QuietSteps
<1>2. ASSUME NEW m \in profile.methods, NEW s \in Sessions, NEW b \in Maybe(Tabs),
             NEW t \in Maybe(Targets), Send(c, m, s, b, t)
      PROVE  [Next]_vars
  BY <1>2 DEF Send, Next, SessionNext
<1>3. ASSUME NEW b \in Tabs, NewTab(c, b)
      PROVE  [Next]_vars
  <2>1. call[c].session \in Sessions /\ call[c].target \in Targets
    BY <1>3 DEF NewTab, At, Is
  <2>2. CASE LeaseTab(call[c].session, call[c].target, b)
    BY <2>1, <2>2 DEF Next, TabNext
  <2> QED BY <1>3, <2>2 DEF NewTab
<1>4. CASE ValidateTool(c)
  <2>1. \A S \in SUBSET Targets : MarkMissingTargetsNotIn(S) => [Next]_vars
    BY DEF Next, TabNext
  <2>2. {t \in Targets : page[t] = "open"} \in SUBSET Targets
    OBVIOUS
  <2> QED BY <1>4, <2>1, <2>2 DEF ValidateTool
<1>5. ASSUME NEW b \in Tabs, Claim(c, b)
      PROVE  [Next]_vars
  <2>0. call[c].method \in ClaimMethods /\ ~At(c, "idle")
    BY <1>5 DEF Claim, At, Shape, MethodsAt
  <2>1. call[c].session \in Sessions /\ call[c].target \in Targets
    BY <2>0 DEF Is
  <2>2. ClaimTab(call[c].session, call[c].target, b, Takes(c), Is(c, {"takeover"}))
    BY <1>5 DEF Claim
  <2>3. Takes(c) \in BOOLEAN /\ Is(c, {"takeover"}) \in BOOLEAN
    BY DEF Takes, Is
  <2> QED BY <2>1, <2>2, <2>3 DEF Next, TabNext
<1>6. CASE Release(c)
  <2>0. call[c].method = "release" /\ ~At(c, "idle")
    BY <1>6 DEF Release, At, Shape, MethodsAt
  <2>1. call[c].session \in Sessions /\ call[c].tab \in Tabs
    BY <2>0 DEF Is, TabMethods
  <2>2. CASE ReleaseTab(call[c].session, call[c].tab, FALSE)
    BY <2>1, <2>2 DEF Next, TabNext
  <2> QED BY <1>6, <2>2 DEF Release
<1>7. CASE Reserve(c) \/ ClosePageFails(c) \/ CommitClose(c)
  <2>0. call[c].method = "close" /\ call[c].pc \in {"reserve", "closing", "commit"}
    BY <1>7 DEF Reserve, ClosePageFails, CommitClose, At, Shape, MethodsAt
  <2>1. call[c].session \in Sessions /\ call[c].tab \in Tabs /\ call[c].target \in Targets
    BY <2>0 DEF Is, TabMethods, Aimed, At
  <2>2. CASE ReserveOwnedTabClose(call[c].session, call[c].tab)
    BY <2>1, <2>2 DEF Next, TabNext
  <2>3. CASE CommitOwnedTabClose(call[c].session, call[c].tab)
    BY <2>1, <2>3 DEF Next, TabNext
  <2>4. CASE EndReservation(c)
    BY <2>1, <2>4, EndsReservation
  <2> QED BY <1>7, <2>2, <2>3, <2>4 DEF Reserve, ClosePageFails, CommitClose
<1> QED
  BY <1>1, <1>2, <1>3, <1>4, <1>5, <1>6, <1>7 DEF ClientStep, ToolStep, HandoverStep, Quiet

\* Every step of the broker is a call the registry allows, or none: arguments, caller and
\* order of the calls the handlers make are among those of its own specification.
LEMMA StepsTheRegistry ==
    ASSUME RegistryInv, Types, ShapeInv, [CaptureNext]_capVars
    PROVE  [Next]_vars
<1>1. ASSUME NEW c \in Calls, ClientStep(c) \/ ToolStep(c) \/ HandoverStep(c)
      PROVE  [Next]_vars
  BY <1>1, CallStepsTheRegistry DEF ShapeInv
<1>2. ASSUME NEW s \in Sessions, Begin(s)
      PROVE  [Next]_vars
  BY <1>2 DEF Begin, Next, SessionNext, Maybe
<1>3. CASE SweepExpire
  <2>1. clock \in 0..clock /\ InFlight \in SUBSET Sessions
    BY DEF RegistryInv, TypeOK, InFlight, Types, CallTypes, CallState, Maybe
  <2> QED BY <1>3, <2>1 DEF SweepExpire, Next, ExpiryNext
<1>4. ASSUME NEW x \in sweep_closes, NEW closed \in BOOLEAN, SweepCloses(x, closed)
      PROVE  [Next]_vars
  BY <1>4 DEF SweepCloses, Next, ExpiryNext
<1>5. CASE TimePasses
  BY <1>5 DEF TimePasses, Next
<1>6. CASE UNCHANGED capVars
  BY <1>6 DEF capVars
<1> QED
  BY <1>1, <1>2, <1>3, <1>4, <1>5, <1>6, QuietBackground DEF CaptureNext, SweepStep

(***************************************************************************)
(* What no step does to sessions, leases and pages.                        *)
(***************************************************************************)
\* A session that was issued stays issued, and one that is gone stays gone.
StatusStays(s) ==
    /\ sessions[s].status # "unissued" => sessions'[s].status # "unissued"
    /\ sessions[s].status = "gone" => sessions'[s].status = "gone"
\* Only the sweep ends a session, and not one with a request under way.
Stays(s) == Live(s) => Live(s)'

\* A session that is gone stays gone, and only expiry ends one.
LEMMA SessionsStay ==
    ASSUME TypeOK, [Next]_vars, NEW s \in Sessions
    PROVE  /\ sessions[s].status = "gone" => sessions'[s].status = "gone"
           /\ ~ExpiryNext => Stays(s)
<1> USE DEF TypeOK, SessionRecord, StatusStays, Stays, Live
<1>1. CASE SessionNext
  <2>1. ASSUME NEW z \in Sessions, NEW w, StartSession(z, w) PROVE StatusStays(s) /\ Stays(s)
    BY <2>1 DEF StartSession
  <2>2. ASSUME NEW z \in Sessions, Touch(z) PROVE StatusStays(s) /\ Stays(s)
    BY <2>2 DEF Touch
  <2>3. ASSUME NEW i \in Identities, NEW z \in Sessions, NEW w, AmbientSessionCreate(i, z, w)
        PROVE  StatusStays(s) /\ Stays(s)
    BY <2>3 DEF AmbientSessionCreate
  <2>4. ASSUME NEW z \in Sessions, NEW w, BindWorkspaceRoot(z, w)
        PROVE  StatusStays(s) /\ Stays(s)
    BY <2>4 DEF BindWorkspaceRoot
  <2>5. ASSUME NEW i \in Identities, AmbientSessionReuse(i)
        PROVE  StatusStays(s) /\ Stays(s)
    <3>1. ambient_sessions[i] \in Sessions /\ Touch(ambient_sessions[i])
      BY <2>5 DEF AmbientSessionReuse, HasAmbientSession, Maybe
    <3> QED BY <3>1 DEF Touch
  <2> QED BY <1>1, <2>1, <2>2, <2>3, <2>4, <2>5 DEF SessionNext
<1>2. CASE TabNext
  BY <1>2
  DEF TabNext, LeaseTab, ClaimTab, ReleaseTab, ReserveOwnedTabClose, CommitOwnedTabClose,
      FinishOwnedTabCloseReservation, RequireActiveOwnedMissing, MarkMissingTargetsNotIn,
      MarkMissing, sessionVars
<1>3. CASE ExpiryNext
  <2>1. CASE \E c \in sweep_closes, closed \in BOOLEAN : FinishExpiredTargetClose(c, closed)
    BY <2>1 DEF FinishExpiredTargetClose, sessionVars
  <2>2. ASSUME NEW E, NEW batch, ExpireBatch(E, batch)
        PROVE  sessions' = [z \in Sessions |-> IF z \in E THEN Gone ELSE sessions[z]]
    BY <2>2 DEF ExpireBatch
  <2>3. ASSUME NEW n, NEW skip, ExpireSessions(n, skip)
        PROVE  sessions[s].status = "gone" => sessions'[s].status = "gone"
    <3>1. PICK batch : ExpireBatch(ExpiredIds(n, skip), batch)
      BY <2>3 DEF ExpireSessions
    <3>2. sessions' = [z \in Sessions |->
                         IF z \in ExpiredIds(n, skip) THEN Gone ELSE sessions[z]]
      BY <2>2, <3>1
    <3> HIDE DEF ExpiredIds
    <3> QED BY <3>2 DEF Gone
  <2> QED BY <1>3, <2>1, <2>3 DEF ExpiryNext
<1>4. CASE Tick \/ UNCHANGED vars
  BY <1>4 DEF Tick, vars, sessionVars
<1> QED BY <1>1, <1>2, <1>3, <1>4 DEF Next

\* Which steps call the registry, and what they ask of it.
AsksRegistry(c) ==
    \/ ValidateTool(c) \/ Release(c) \/ Reserve(c) \/ ClosePageFails(c) \/ CommitClose(c)
    \/ \E b \in Tabs : NewTab(c, b) \/ Claim(c, b)
SessionsOnly ==
    /\ \/ \E s \in Sessions : StartSession(s, None) \/ Touch(s)
       \/ Tick
    /\ UNCHANGED <<targetVars, expiryVars>>

\* Which steps change the registry.
LEMMA RegistrySteps ==
    ASSUME [CaptureNext]_capVars
    PROVE  \/ UNCHANGED vars \/ SessionsOnly
           \/ \E c \in Calls : AsksRegistry(c)
           \/ SweepExpire
           \/ \E x \in sweep_closes, closed \in BOOLEAN : SweepCloses(x, closed)
<1>1. ASSUME NEW c \in Calls, ClientStep(c)
      PROVE  SessionsOnly
  BY <1>1 DEF ClientStep, Send, SessionsOnly, Touch
<1>2. ASSUME NEW c \in Calls, ToolStep(c) \/ HandoverStep(c)
      PROVE  UNCHANGED vars \/ AsksRegistry(c)
  <2>1. Quiet(c) \/ AsksRegistry(c)
    BY <1>2 DEF ToolStep, HandoverStep, Quiet, AsksRegistry
  <2> QED BY <2>1, QuietSteps
<1>3. ASSUME NEW s \in Sessions, Begin(s)
      PROVE  SessionsOnly
  BY <1>3 DEF Begin, SessionsOnly, StartSession
<1>4. CASE TimePasses
  BY <1>4 DEF TimePasses, SessionsOnly, Tick
<1>5. CASE UNCHANGED capVars
  BY <1>5 DEF capVars
<1> QED
  BY <1>1, <1>2, <1>3, <1>4, <1>5, QuietBackground DEF CaptureNext, SweepStep

\* A request asks the registry about tabs, and leaves its sessions alone.
LEMMA AskedSessions ==
    ASSUME NEW c \in Calls, AsksRegistry(c)
    PROVE  UNCHANGED <<clock, sessions, expired_sessions, sweep_closes>>
<1>1. ASSUME NEW b \in Tabs, NewTab(c, b)
      PROVE  UNCHANGED <<clock, sessions, expired_sessions, sweep_closes>>
  BY <1>1 DEF NewTab, LeaseTab, vars, sessionVars, expiryVars
<1>2. ASSUME NEW b \in Tabs, Claim(c, b)
      PROVE  UNCHANGED <<clock, sessions, expired_sessions, sweep_closes>>
  BY <1>2 DEF Claim, ClaimTab, sessionVars, expiryVars
<1>3. CASE ValidateTool(c)
  BY <1>3
  DEF ValidateTool, MarkMissingTargetsNotIn, MarkMissing, vars, sessionVars, expiryVars
<1>4. CASE Release(c)
  BY <1>4 DEF Release, ReleaseTab, vars, sessionVars, expiryVars
<1>5. CASE Reserve(c)
  BY <1>5 DEF Reserve, ReserveOwnedTabClose, vars, sessionVars, expiryVars
<1>6. CASE ClosePageFails(c) \/ CommitClose(c)
  BY <1>6
  DEF ClosePageFails, CommitClose, CommitOwnedTabClose, EndReservation,
      FinishOwnedTabCloseReservation, vars, sessionVars, expiryVars
<1> QED BY <1>1, <1>2, <1>3, <1>4, <1>5, <1>6 DEF AsksRegistry

\* Sessions end by the sweep alone.
LEMMA LiveStays ==
    ASSUME RegistryInv, [CaptureNext]_capVars, NEW s \in Sessions, Live(s)
    PROVE  \/ Live(s)'
           \/ SweepExpire /\ s \in ExpiredIds(clock, InFlight)
<1> USE DEF Live
<1>1. CASE SweepExpire
  <2>1. PICK batch : ExpireBatch(ExpiredIds(clock, InFlight), batch)
    BY <1>1 DEF SweepExpire, ExpireSessions
  <2>2. sessions' = [z \in Sessions |->
                       IF z \in ExpiredIds(clock, InFlight) THEN Gone ELSE sessions[z]]
    BY <2>1 DEF ExpireBatch
  <2> QED BY <1>1, <2>2
<1>2. CASE \E x \in sweep_closes, closed \in BOOLEAN : SweepCloses(x, closed)
  BY <1>2 DEF SweepCloses, FinishExpiredTargetClose, sessionVars
<1>3. CASE UNCHANGED vars \/ \E c \in Calls : AsksRegistry(c)
  BY <1>3, AskedSessions DEF vars, sessionVars
<1>4. CASE SessionsOnly
  <2>1. sessions \in [Sessions -> SessionRecord]
    BY DEF RegistryInv, TypeOK
  <2> QED
    BY <1>4, <2>1 DEF SessionsOnly, StartSession, Touch, Tick, sessionVars, SessionRecord
<1> QED BY <1>1, <1>2, <1>3, <1>4, RegistrySteps

\* A session with a request under way outlives the step.
LEMMA InFlightStays ==
    ASSUME RegistryInv, Types, ShapeInv, [CaptureNext]_capVars, NEW c \in Calls, ~At(c, "idle")
    PROVE  call[c].session \in Sessions /\ sessions'[call[c].session].status = "live"
<1>1. PICK s \in Sessions : s = call[c].session /\ Live(s)
  BY Carries DEF ShapeInv
<1>2. s \in InFlight
  BY <1>1, NoneAssumption DEF InFlight
<1>3. s \notin ExpiredIds(clock, InFlight)
  BY <1>2 DEF ExpiredIds
<1>4. Live(s)'
  BY <1>1, <1>3, LiveStays
<1> QED BY <1>1, <1>4 DEF Live

\* A page that was opened is not born again, and one that is gone stays gone.
LEMMA PagesAge ==
    ASSUME Types, [CaptureNext]_capVars, NEW t \in Targets
    PROVE  /\ page[t] # "unborn" => page'[t] # "unborn"
           /\ page[t] = "gone" => page'[t] = "gone"
           /\ page'[t] = "open" => page[t] = "open" \/ \E c \in Calls, b \in Tabs : NewTab(c, b)
<1>0. page \in [Targets -> PageState]
  BY DEF Types, PageTypes
<1>1. ASSUME NEW u, page' \in {page, PageGone(u)}
      PROVE  /\ page[t] # "unborn" => page'[t] # "unborn"
             /\ page[t] = "gone" => page'[t] = "gone"
             /\ page'[t] = "open" => page[t] = "open"
  BY <1>0, <1>1 DEF PageGone, PageState
<1>2. ASSUME NEW c \in Calls, NEW b \in Tabs, NewTab(c, b)
      PROVE  /\ page[t] # "unborn" => page'[t] # "unborn"
             /\ page[t] = "gone" => page'[t] = "gone"
  BY <1>0, <1>2 DEF NewTab, PageState
<1>3. \/ page' = page \/ \E c \in Calls, b \in Tabs : NewTab(c, b)
      \/ \E u : page' = PageGone(u)
  <2> DEFINE Closes == \E u : page' = PageGone(u)
             Born  == \E c \in Calls, b \in Tabs : NewTab(c, b)
  <2>1. ASSUME NEW c \in Calls, ToolStep(c) \/ HandoverStep(c)
        PROVE  page' = page \/ Born \/ Closes
    BY <2>1
    DEF ToolStep, HandoverStep, ValidateTool, CheckOwned, Reconcile, TakeTraces, TraceStarts,
        ReloadTraced, StopTrace, StoreArtifact, Capture, DeleteArtifact, AuditStarts, AuditRuns,
        Emulate, Command, RecordOverride, ReserveArtifact, RefusedCast, TakeJobs, CastStarts,
        CastFails, StopCast, LookUpClaim, TakeoverStopsTrace, TakeoverCancels, Claim,
        ClaimRefused, ValidateRelease, ReleaseUntraced, Release, ValidateClose, Reserve,
        ClosePage, ClosePageFails, CommitClose, OnlyCall, NoBrowserWork, pageVars
  <2>2. ASSUME SweepStep PROVE page' = page \/ Closes
    BY <2>2
    DEF SweepStep, SweepExpire, SweepCancels, SweepRemovesArtifacts, SweepEnds, SweepResets,
        SweepCloses, pageVars
  <2>3. ASSUME \E w \in Targets : HumanCloses(w) PROVE Closes
    BY <2>3 DEF HumanCloses
  <2>4. ASSUME \/ \E s \in Sessions : Begin(s)
               \/ \E c \in Calls : ClientStep(c)
               \/ \E j \in Jobs : JobStep(j)
               \/ ShutsDown \/ CancelAll \/ TimePasses \/ UNCHANGED capVars
        PROVE  page' = page
    BY ZenonT(60), <2>4
    DEF Begin, ClientStep, Send, JobStep, SourceStops, SourceFails, CaptureEnds, Finalize,
        OnlyJobs, ShutsDown, CancelAll, TimePasses, NoBrowserWork, pageVars, capVars
  <2> HIDE DEF Closes, Born
  <2>5. page' = page \/ Born \/ Closes
    BY <2>1, <2>2, <2>3, <2>4 DEF CaptureNext
  <2> QED BY <2>5 DEF Closes, Born
<1> QED BY <1>1, <1>2, <1>3

(***************************************************************************)
(* Which steps change what.                                                *)
(***************************************************************************)
Acts(c) == ClientStep(c) \/ ToolStep(c) \/ HandoverStep(c)
Background ==
    \/ \E s \in Sessions : Begin(s)
    \/ \E j \in Jobs : JobStep(j)
    \/ SweepStep \/ ShutsDown \/ CancelAll \/ TimePasses
    \/ \E t \in Targets : HumanCloses(t)
    \/ UNCHANGED capVars

SameTraces == traces' = traces /\ history'.left = history.left
SameEmulation ==
    emulated' = emulated /\ history'.late = history.late /\ history'.unreset = history.unreset
SameCasts == UNCHANGED <<job, screencasts, cast_lock>>

\* A step is that of a call or of something in the background.
LEMMA Steps ==
    ASSUME [CaptureNext]_capVars
    PROVE  Background \/ \E c \in Calls : Acts(c)
BY DEF CaptureNext, Background, Acts

\* What a request changes besides itself.
LEMMA ActFootprint ==
    ASSUME Types, NEW c \in Calls, Acts(c)
    PROVE  /\ UNCHANGED <<profile, sweep, shutdown>>
           /\ \/ SameTraces
              \/ TraceStarts(c) \/ StopTrace(c) \/ TakeoverStopsTrace(c)
              \/ \E b \in Tabs : Reconcile(c, b)
           /\ SameEmulation \/ Command(c) \/ ClosePage(c) \/ ClosePageFails(c)
           /\ page' = page \/ ClosePage(c) \/ \E b \in Tabs : NewTab(c, b)
           /\ \/ SameCasts
              \/ TakeJobs(c) \/ CastStarts(c) \/ CastFails(c) \/ StopCast(c)
              \/ TakeoverCancels(c) \/ CommitClose(c) \/ \E b \in Tabs : Reconcile(c, b)
           /\ \/ UNCHANGED artifactVars
              \/ StoreArtifact(c) \/ DeleteArtifact(c) \/ RefusedCast(c) \/ CastFails(c)
              \/ \E j \in Jobs : ReserveArtifact(c, j)
<1> USE DEF Acts, ClientStep, ToolStep, HandoverStep,
            Send, NewTab, ValidateTool, CheckOwned, Reconcile, TakeTraces, TraceStarts,
            ReloadTraced, StopTrace, StoreArtifact, Capture, DeleteArtifact, AuditStarts,
            AuditRuns, Emulate, Command, RecordOverride, ReserveArtifact, RefusedCast, TakeJobs,
            CastStarts, CastFails, StopCast, LookUpClaim, TakeoverStopsTrace, TakeoverCancels,
            Claim, ClaimRefused, ValidateRelease, ReleaseUntraced, Release, ValidateClose,
            Reserve, ClosePage, ClosePageFails, CommitClose, OnlyCall, NoBrowserWork
<1>1. UNCHANGED <<profile, sweep, shutdown>>
  BY DEF pageVars
<1>2. \/ SameTraces
      \/ TraceStarts(c) \/ StopTrace(c) \/ TakeoverStopsTrace(c)
      \/ \E b \in Tabs : Reconcile(c, b)
  BY ZenonT(60) DEF traceVars, SameTraces, Types, ControlTypes, History
<1>3. SameEmulation \/ Command(c) \/ ClosePage(c) \/ ClosePageFails(c)
  BY ZenonT(60) DEF pageVars, SameEmulation, Types, ControlTypes, History
<1>4. page' = page \/ ClosePage(c) \/ \E b \in Tabs : NewTab(c, b)
  BY DEF pageVars
<1>5. \/ SameCasts
      \/ TakeJobs(c) \/ CastStarts(c) \/ CastFails(c) \/ StopCast(c)
      \/ TakeoverCancels(c) \/ CommitClose(c) \/ \E b \in Tabs : Reconcile(c, b)
  BY ZenonT(60) DEF SameCasts, castVars
<1>6. \/ UNCHANGED artifactVars
      \/ StoreArtifact(c) \/ DeleteArtifact(c) \/ RefusedCast(c) \/ CastFails(c)
      \/ \E j \in Jobs : ReserveArtifact(c, j)
  BY DEF castVars
<1> QED BY <1>1, <1>2, <1>3, <1>4, <1>5, <1>6

ExpiredCloses == \E x \in sweep_closes, closed \in BOOLEAN : SweepCloses(x, closed)

\* What changes when no request is served.
LEMMA BackgroundFootprint ==
    ASSUME Types, Background
    PROVE  /\ UNCHANGED <<profile, call>>
           /\ UNCHANGED vars \/ SessionsOnly \/ SweepExpire \/ ExpiredCloses
           /\ SameTraces \/ SweepExpire \/ ExpiredCloses
           /\ \/ SameEmulation \/ ExpiredCloses \/ \E b \in Tabs : SweepResets(b)
              \/ \E t \in Targets : HumanCloses(t)
           /\ page' = page \/ ExpiredCloses \/ \E t \in Targets : HumanCloses(t)
           /\ \/ SameCasts \/ SweepCancels \/ ExpiredCloses \/ CancelAll
              \/ \E j \in Jobs : JobStep(j)
           /\ \/ UNCHANGED artifactVars
              \/ SweepRemovesArtifacts \/ \E j \in Jobs : Finalize(j)
           /\ \/ sweep' = sweep
              \/ SweepExpire \/ SweepCancels \/ SweepRemovesArtifacts \/ SweepEnds
              \/ \E b \in Tabs : SweepResets(b)
           /\ shutdown' = shutdown \/ ShutsDown \/ CancelAll
<1> USE DEF Background, Begin, JobStep, SourceStops, SourceFails, CaptureEnds, Finalize,
            OnlyJobs, SweepStep, SweepExpire, SweepCancels, SweepRemovesArtifacts, SweepEnds,
            SweepResets, SweepCloses, ExpiredCloses, ShutsDown, CancelAll, TimePasses, HumanCloses,
            NoBrowserWork, capVars
<1>1. UNCHANGED <<profile, call>>
  BY DEF pageVars
<1>2. UNCHANGED vars \/ SessionsOnly \/ SweepExpire \/ ExpiredCloses
  BY DEF SessionsOnly, StartSession, Tick
<1>3. SameTraces \/ SweepExpire \/ ExpiredCloses
  BY DEF traceVars, SameTraces, Types, ControlTypes, History
<1>4. \/ SameEmulation \/ ExpiredCloses \/ \E b \in Tabs : SweepResets(b)
      \/ \E t \in Targets : HumanCloses(t)
  BY DEF pageVars, SameEmulation, Types, ControlTypes, History
<1>5. page' = page \/ ExpiredCloses \/ \E t \in Targets : HumanCloses(t)
  BY DEF pageVars
<1>6. SameCasts \/ SweepCancels \/ ExpiredCloses \/ CancelAll \/ \E j \in Jobs : JobStep(j)
  BY DEF SameCasts, castVars
<1>7. UNCHANGED artifactVars \/ SweepRemovesArtifacts \/ \E j \in Jobs : Finalize(j)
  BY DEF castVars
<1>8. \/ sweep' = sweep
      \/ SweepExpire \/ SweepCancels \/ SweepRemovesArtifacts \/ SweepEnds
      \/ \E b \in Tabs : SweepResets(b)
  OBVIOUS
<1>9. shutdown' = shutdown \/ ShutsDown \/ CancelAll
  OBVIOUS
<1> QED BY <1>1, <1>2, <1>3, <1>4, <1>5, <1>6, <1>7, <1>8, <1>9

(***************************************************************************)
(* The commands of an emulation.                                           *)
(***************************************************************************)
\* What setting and resetting sends is a sequence of commands, and a reset
\* reaches every override.
LEMMA CommandSequences ==
    /\ \A s \in Maybe(Sessions) : SetViewport(s) \in Seq(Commands) /\ SetViewport(s) # <<>>
    /\ \A s \in Maybe(Sessions) : <<Sets("rest", s)>> \in Seq(Commands) \ {<<>>}
    /\ ResetAll \in Seq(Commands) /\ ResetAll # <<>> /\ Len(ResetAll) = 3
    /\ \A i \in DOMAIN ResetAll : ResetAll[i].by = None
    /\ \A k \in Overrides : \E i \in DOMAIN ResetAll : ResetAll[i].override = k
<1>1. \A k \in Overrides, s \in Maybe(Sessions) :
         Sets(k, s) \in Commands /\ Sets(k, s).override = k /\ Sets(k, s).by = s
  BY DEF Sets, Commands
<1>2. ASSUME NEW s \in Maybe(Sessions)
      PROVE  /\ SetViewport(s) \in Seq(Commands) /\ SetViewport(s) # <<>>
             /\ Len(SetViewport(s)) = 2
             /\ SetViewport(s)[1] = Sets("metrics", s) /\ SetViewport(s)[2] = Sets("touch", s)
             /\ <<Sets("rest", s)>> \in Seq(Commands) \ {<<>>}
  <2>1. /\ Sets("metrics", s) \in Commands /\ Sets("touch", s) \in Commands
        /\ Sets("rest", s) \in Commands
    BY <1>1 DEF Overrides
  <2> QED BY <2>1 DEF SetViewport
<1>3. None \in Maybe(Sessions) /\ Sets("rest", None) \in Commands
  BY <1>1 DEF Maybe, Overrides
<1>4. /\ ResetAll \in Seq(Commands) /\ ResetAll # <<>> /\ Len(ResetAll) = 3
      /\ ResetAll[1] = Sets("metrics", None) /\ ResetAll[2] = Sets("touch", None)
      /\ ResetAll[3] = Sets("rest", None)
  <2>1. /\ ResetViewport \in Seq(Commands) /\ Len(ResetViewport) = 2
        /\ ResetViewport[1] = Sets("metrics", None) /\ ResetViewport[2] = Sets("touch", None)
    BY <1>2, <1>3 DEF ResetViewport
  <2>2. ASSUME NEW q \in Seq(Commands), NEW x \in Commands, Len(q) = 2
        PROVE  /\ Append(q, x) \in Seq(Commands) /\ Len(Append(q, x)) = 3
               /\ Append(q, x) # <<>>
               /\ Append(q, x)[1] = q[1] /\ Append(q, x)[2] = q[2] /\ Append(q, x)[3] = x
    <3>1. /\ Append(q, x) \in Seq(Commands) /\ Append(q, x) # <<>>
          /\ Len(Append(q, x)) = Len(q) + 1
          /\ \A i \in 1..Len(q) : Append(q, x)[i] = q[i]
          /\ Append(q, x)[Len(q) + 1] = x
      BY AppendProperties
    <3>2. Len(q) + 1 = 3 /\ 1 \in 1..Len(q) /\ 2 \in 1..Len(q)
      BY <2>2
    <3> QED BY <3>1, <3>2
  <2> QED BY <2>1, <2>2, <1>3 DEF ResetAll
<1>5. DOMAIN ResetAll = 1..3
  BY <1>4
<1>6. \A i \in DOMAIN ResetAll : ResetAll[i].by = None
  BY <1>1, <1>3, <1>4, <1>5 DEF Overrides
<1>7. \A k \in Overrides : \E i \in DOMAIN ResetAll : ResetAll[i].override = k
  BY <1>1, <1>3, <1>4, <1>5 DEF Overrides
<1> QED BY <1>2, <1>4, <1>6, <1>7

(***************************************************************************)
(* Where a request goes.                                                   *)
(***************************************************************************)
Fresh(c) ==
    /\ Rewrites(c) /\ At(c, "idle") /\ call'[c].pc = "handle"
    /\ call'[c].method \in AllMethods
    /\ call'[c].session \in Sessions /\ Live(call[c].session)'
    /\ call'[c].method \in TabMethods =>
          call'[c].tab \in Tabs /\ leases[call'[c].tab].state # "unissued"
    /\ call'[c].method \in ClaimMethods \cup {"new_tab"} => call'[c].target \in Targets
    /\ call'[c].method \in ClaimMethods => page[call'[c].target] # "unborn"
    /\ call'[c].method \in TabMethods => call'[c].target = None
    /\ call'[c].todo = {} /\ call'[c].job = None

\* Its place changes, and nothing else about it.
StepsOn(c) ==
    \/ At(c, "handle") /\ Is(c, PageTools) /\ Moves(c, "check")
    \/ At(c, "act") /\ Is(c, {"start_trace"}) /\ Moves(c, "tracing")
    \/ At(c, "tracing") /\ Moves(c, "reload")
    \/ At(c, "act") /\ Is(c, {"stop_trace", "capture"}) /\ Moves(c, "store")
    \/ At(c, "jobs") /\ TakeJobs(c) /\ Moves(c, "casting")
    \/ At(c, "handle") /\ Is(c, {"claim"}) /\ Moves(c, "claim")
    \/ At(c, "handle") /\ Is(c, Takeovers) /\ Moves(c, "take_trace")
    \/ At(c, "take_trace") /\ Moves(c, "take_casts")
    \/ At(c, "untraced") /\ call[c].target \notin traces /\ page[call[c].target] # "open"
       /\ Moves(c, "release")
    \/ At(c, "closing") /\ ClosePage(c) /\ Moves(c, "commit")

\* It finds the target of its tab.
Finds(c) ==
    \/ At(c, "check") /\ Owns(c) /\ Aimes(c, "act", leases[call[c].tab].target)
    \/ /\ At(c, "handle") /\ MayRelease(c)
       /\ \/ /\ Is(c, {"release"}) /\ leases[call[c].tab].state = "active"
             /\ Aimes(c, "untraced", leases[call[c].tab].target)
          \/ /\ Is(c, {"release"}) /\ leases[call[c].tab].state # "active"
             /\ Aimes(c, "release", leases[call[c].tab].target)
    \/ /\ At(c, "handle") /\ Is(c, {"close"})
       /\ RequireOwnedTab(call[c].session, call[c].tab)
       /\ leases[call[c].tab].target \notin traces
       /\ Aimes(c, "reserve", leases[call[c].tab].target)

Reconciles(c) ==
    \/ /\ At(c, "handle") /\ Is(c, PageTools)
       /\ MarkMissingTargetsNotIn({t \in Targets : page[t] = "open"})
       /\ Owes(c, "reconcile", Missing)
    \/ /\ At(c, "reconcile")
       /\ \E b \in call[c].todo :
             /\ Reconcile(c, b)
             /\ Owes(c, IF call[c].todo = {b} THEN "check" ELSE "reconcile", call[c].todo \ {b})

\* It has commands for the page, or has sent the last one.
Emulates(c) ==
    \/ /\ At(c, "act") /\ Is(c, {"set_viewport", "set_other", "reset", "audit"})
       /\ \E q \in Seq(Commands) \ {<<>>}, next \in GoesOnAt(c) : Commanded(c, q, next)
    \/ /\ At(c, "audit")
       /\ \E q \in Seq(Commands) \ {<<>>}, next \in {"store", "idle"} : Commanded(c, q, next)
    \/ At(c, "take_casts") /\ Commanded(c, ResetAll, "claim")
    \/ At(c, "untraced") /\ call[c].target \notin traces /\ Commanded(c, ResetAll, "release")
    \/ /\ At(c, "commanding") /\ Command(c) /\ Tail(call[c].commands) # <<>>
       /\ Commanded(c, Tail(call[c].commands), call[c].next)
    \/ /\ At(c, "commanding") /\ Command(c) /\ Tail(call[c].commands) = <<>>
       /\ call[c].next # "idle"
       /\ Goes(c, call[c].next) /\ SameTarget(c) /\ SameTodo(c) /\ SameJob(c)

\* It gets a job to look after.
Minds(c) ==
    \/ /\ At(c, "act") /\ Is(c, {"start_cast"})
       /\ \E j \in Jobs : ReserveArtifact(c, j) /\ Assigned(c, "jobs", j)
    \/ /\ At(c, "reserve") /\ Reserve(c) /\ MayRelease(c)
       /\ Assigned(c, IF leases[call[c].tab].state = "active" THEN "closing" ELSE "commit",
                   screencasts[call[c].tab])

Path(c) == Ends(c) \/ Fresh(c) \/ StepsOn(c) \/ Finds(c) \/ Reconciles(c) \/ Emulates(c) \/ Minds(c)

\* Every step of a call is one of the moves its place in the handler allows.
LEMMA Paths ==
    ASSUME RegistryInv, Types, NEW c \in Calls, Shape(c), Acts(c)
    PROVE  Path(c)
<1> USE DEF Path
<1>0. CallTypes /\ call[c] \in CallState
  BY DEF Types, CallTypes
<1>e. End(c) => Ends(c)
  BY <1>0, EndEnds
<1>g. \A pc \in Pcs : Goto(c, pc) => Moves(c, pc)
  BY <1>0, GotoMoves
<1>h. \A b \in Tabs : leases[b].target \in Maybe(Targets)
  BY DEF RegistryInv, TypeOK, TabLease
<1>i. CASE ClientStep(c)
  <2>1. PICK m \in profile.methods, s \in Sessions, b \in Maybe(Tabs), t \in Maybe(Targets) :
           /\ (m \in TabMethods) = (b # None)
           /\ (m \in ClaimMethods \cup {"new_tab"}) = (t # None)
           /\ Send(c, m, s, b, t)
    BY <1>i DEF ClientStep
  <2>2. m \in AllMethods
    BY ProfilesAssumption DEF Types, PageTypes, Profile
  <2> DEFINE u == [NoCall EXCEPT !.pc = "handle", !.method = m, !.session = s, !.tab = b,
                                 !.target = t]
  <2>a. "handle" \in Pcs
    BY DEF Pcs
  <2>3. u \in CallState
    BY <2>2, <2>a, CallFields, NoCallType
  <2>4. /\ u.pc = "handle" /\ u.method = m /\ u.session = s /\ u.tab = b /\ u.target = t
        /\ u.todo = {} /\ u.job = None
    BY DEF NoCall
  <2>5. call' = [call EXCEPT ![c] = u] /\ At(c, "idle") /\ Live(s)
    BY <2>1 DEF Send, Touch
  <2>6. Live(s)'
    <3>1. sessions \in [Sessions -> SessionRecord]
      BY DEF RegistryInv, TypeOK
    <3> QED BY <2>1, <3>1 DEF Send, Touch, Live, SessionRecord
  <2>7. Rewrites(c) /\ call'[c] = u
    BY <1>0, <2>3, <2>5 DEF Rewrites, CallTypes
  <2>8. /\ m \in TabMethods => b \in Tabs /\ leases[b].state # "unissued"
        /\ m \in TabMethods => t = None
        /\ m \in ClaimMethods \cup {"new_tab"} => t \in Targets
        /\ m \in ClaimMethods => page[t] # "unborn"
    BY <2>1 DEF Send, Maybe, TabMethods, PageTools, ClaimMethods
  <2> HIDE DEF u
  <2>9. Fresh(c)
    BY <2>2, <2>4, <2>5, <2>6, <2>7, <2>8 DEF Fresh, Live
  <2> QED BY <2>9
<1>1. CASE ValidateTool(c)
  <2>1. ASSUME call' = [call EXCEPT ![c].pc = "reconcile", ![c].todo = Missing],
               MarkMissingTargetsNotIn({t \in Targets : page[t] = "open"})
        PROVE  Reconciles(c)
    <3>1. Missing \in SUBSET Tabs
      BY DEF Missing, Vanished, RegistryInv, TypeOK, Maybe
    <3>2. Owes(c, "reconcile", Missing)
      BY <1>0, <2>1, <3>1, TodoOwes DEF Pcs
    <3> QED BY <1>1, <2>1, <3>2 DEF Reconciles, ValidateTool
  <2>2. ASSUME Goto(c, "check") PROVE StepsOn(c)
    BY <1>1, <1>g, <2>2 DEF StepsOn, ValidateTool, Pcs
  <2> QED BY <1>1, <1>e, <2>1, <2>2 DEF ValidateTool
<1>2. ASSUME NEW b \in Tabs, Reconcile(c, b)
      PROVE  Path(c)
  <2> DEFINE B == call[c].todo \ {b}
             pc == IF call[c].todo = {b} THEN "check" ELSE "reconcile"
  <2>1. B \in SUBSET Tabs /\ pc \in Pcs
    BY <1>0 DEF CallState, Pcs
  <2>2. call' = [call EXCEPT ![c].todo = B, ![c].pc = pc] /\ At(c, "reconcile")
        /\ b \in call[c].todo
    BY <1>2 DEF Reconcile, At
  <2>3. Owes(c, pc, B)
    BY <1>0, <2>1, <2>2, TodoOwes
  <2> QED BY <1>2, <2>2, <2>3 DEF Reconciles
<1>3. CASE CheckOwned(c)
  <2>1. ASSUME Owns(c),
               call' = [call EXCEPT ![c].pc = "act", ![c].target = leases[call[c].tab].target]
        PROVE  Finds(c)
    <3>1. Is(c, TabMethods)
      BY <1>3 DEF CheckOwned, At, Shape, MethodsAt, Is, TabMethods
    <3>2. leases[call[c].tab].target \in Maybe(Targets)
      BY <1>h, <3>1 DEF Shape
    <3>3. Aimes(c, "act", leases[call[c].tab].target)
      BY <1>0, <2>1, <3>2, TargetAimes DEF Pcs
    <3> QED BY <1>3, <2>1, <3>3 DEF Finds, CheckOwned
  <2> QED BY <1>3, <1>e, <2>1 DEF CheckOwned
<1>4. CASE TakeTraces(c) \/ TraceStarts(c) \/ StopTrace(c) \/ Capture(c) \/ TakeJobs(c)
           \/ LookUpClaim(c) \/ TakeoverStopsTrace(c) \/ ClosePage(c)
  <2>1. Ends(c) \/ StepsOn(c)
    BY <1>4, <1>e, <1>g
    DEF TakeTraces, TraceStarts, StopTrace, Capture, TakeJobs, LookUpClaim, TakeoverStopsTrace,
        ClosePage, StepsOn, Pcs, At, Is, ClaimMethods, Takeovers
  <2> QED BY <2>1
<1>5. CASE ReloadTraced(c) \/ StoreArtifact(c) \/ DeleteArtifact(c) \/ RecordOverride(c)
           \/ RefusedCast(c) \/ CastStarts(c) \/ CastFails(c) \/ StopCast(c)
           \/ ClaimRefused(c) \/ Release(c) \/ ClosePageFails(c) \/ CommitClose(c)
           \/ \E b \in Tabs : NewTab(c, b) \/ Claim(c, b)
  BY <1>5, <1>e
  DEF ReloadTraced, StoreArtifact, DeleteArtifact, RecordOverride, RefusedCast, CastStarts,
      CastFails, StopCast, ClaimRefused, Release, ClosePageFails, CommitClose, NewTab, Claim
<1>6. CASE Emulate(c) \/ AuditStarts(c) \/ AuditRuns(c) \/ TakeoverCancels(c)
  <2>1. \A q \in Seq(Commands), next \in Pcs :
            call' = Emulating(c, q, next) => Commanded(c, q, next)
    BY <1>0, EmulatingCommands DEF Maybe
  <2>2. ASSUME Emulate(c) PROVE Emulates(c)
    <3>1. call[c].session \in Sessions
      BY <2>2 DEF Emulate, Shape, At
    <3>2. CASE Is(c, {"set_viewport"})
      <4>1. call' = Emulating(c, SetViewport(call[c].session), "record")
        BY <2>2, <3>2 DEF Emulate, Is
      <4>2. Commanded(c, SetViewport(call[c].session), "record") /\ "record" \in GoesOnAt(c)
        BY <2>1, <3>1, <3>2, <4>1, CommandSequences DEF Maybe, Pcs, GoesOnAt, Is
      <4> QED BY <2>2, <3>1, <3>2, <4>2, CommandSequences DEF Emulates, Emulate, Maybe, Is
    <3>3. CASE Is(c, {"set_other"})
      <4>1. call' = Emulating(c, <<Sets("rest", call[c].session)>>, "idle")
        BY <2>2, <3>3 DEF Emulate, Is
      <4>2. Commanded(c, <<Sets("rest", call[c].session)>>, "idle") /\ "idle" \in GoesOnAt(c)
        BY <2>1, <3>1, <3>3, <4>1, CommandSequences DEF Maybe, Pcs, GoesOnAt, Is
      <4> QED BY <2>2, <3>1, <3>3, <4>2, CommandSequences DEF Emulates, Emulate, Maybe, Is
    <3>4. CASE Is(c, {"reset"})
      <4>1. call' = Emulating(c, ResetAll, "record")
        BY <2>2, <3>4 DEF Emulate, Is
      <4>2. Commanded(c, ResetAll, "record") /\ "record" \in GoesOnAt(c)
        BY <2>1, <3>4, <4>1, CommandSequences DEF Pcs, GoesOnAt, Is
      <4> QED BY <2>2, <3>4, <4>2, CommandSequences DEF Emulates, Emulate, Is
    <3> QED BY <2>2, <3>2, <3>3, <3>4 DEF Emulate, Is
  <2>3. ASSUME AuditStarts(c) PROVE Emulates(c)
    <3>1. /\ call[c].session \in Maybe(Sessions) /\ call[c].target \in Targets
          /\ viewport_overrides[call[c].target] \in Maybe(Sessions)
      BY <2>3 DEF AuditStarts, Shape, At, Aimed, Is, TabMethods, PageTools, Maybe, Types, PageTypes
    <3>2. Commanded(c, SetViewport(call[c].session), "audit")
      BY <1>0, <2>3, <3>1, EmulatingCommands, CommandSequences DEF AuditStarts, Pcs
    <3>3. "audit" \in GoesOnAt(c)
      BY <2>3 DEF AuditStarts, GoesOnAt, Is
    <3> QED BY <2>3, <3>1, <3>2, <3>3, CommandSequences DEF AuditStarts, Emulates, Is
  <2>4. ASSUME AuditRuns(c) PROVE Emulates(c)
    <3>1. call[c].prior \in Maybe(Sessions)
      BY <1>0 DEF CallState
    <3>2. \E next \in {"store", "idle"} : Commanded(c, SetViewport(call[c].prior), next)
      BY <2>1, <2>4, <3>1, CommandSequences DEF AuditRuns, Pcs
    <3> QED BY <2>4, <3>1, <3>2, CommandSequences DEF AuditRuns, Emulates
  <2>5. ASSUME TakeoverCancels(c) PROVE Emulates(c)
    BY <2>1, <2>5, CommandSequences DEF TakeoverCancels, Emulates, Pcs
  <2> QED BY <1>6, <2>2, <2>3, <2>4, <2>5
<1>7. CASE Command(c)
  <2> DEFINE rest == Tail(call[c].commands)
  <2>1. At(c, "commanding") /\ call[c].commands \in Seq(Commands) /\ call[c].commands # <<>>
        /\ call[c].next \in Pcs
    BY <1>0, <1>7 DEF Command, Shape, CallState
  <2>2. rest \in Seq(Commands) /\ <<>> \in Seq(Commands)
    BY <2>1
  <2>3. CASE rest # <<>> /\ call' = [call EXCEPT ![c].commands = rest]
    <3>1. Commanded(c, rest, call[c].next)
      BY <1>0, <2>1, <2>2, <2>3, CommandSent
    <3> QED BY <1>7, <2>1, <2>3, <3>1 DEF Emulates
  <2>4. CASE /\ rest = <<>> /\ call[c].next # "idle"
             /\ call' = [call EXCEPT ![c].pc = call[c].next, ![c].commands = <<>>]
    <3>1. Goes(c, call[c].next) /\ SameTarget(c) /\ SameTodo(c) /\ SameJob(c)
      BY <1>0, <2>1, <2>2, <2>4, CommandSent
    <3> QED BY <1>7, <2>1, <2>4, <3>1 DEF Emulates
  <2> QED BY <1>7, <1>e, <2>3, <2>4 DEF Command
<1>8. ASSUME NEW j \in Jobs, ReserveArtifact(c, j)
      PROVE  Path(c)
  <2>1. ASSUME call' = [call EXCEPT ![c].pc = "jobs", ![c].job = j] PROVE Minds(c)
    <3>1. Assigned(c, "jobs", j)
      BY <1>0, <2>1, JobTakes DEF Pcs, Maybe
    <3> QED BY <1>8, <3>1 DEF Minds, ReserveArtifact
  <2> QED BY <1>8, <1>e, <2>1 DEF ReserveArtifact
<1>9. CASE ValidateRelease(c) \/ ValidateClose(c)
  <2>1. Is(c, TabMethods) /\ call[c].tab \in Tabs
    BY <1>9 DEF ValidateRelease, ValidateClose, Is, TabMethods, Shape
  <2>2. leases[call[c].tab].target \in Maybe(Targets)
    BY <1>h, <2>1
  <2> DEFINE t == leases[call[c].tab].target
  <2>3. ASSUME ValidateRelease(c) PROVE Ends(c) \/ Finds(c)
    <3>1. ASSUME MayRelease(c),
                 call' = [call EXCEPT ![c].target = t,
                            ![c].pc = IF leases[call[c].tab].state = "active" THEN "untraced"
                                      ELSE "release"]
          PROVE  Finds(c)
      <4>1. CASE leases[call[c].tab].state = "active"
        <5>1. call' = [call EXCEPT ![c].target = t, ![c].pc = "untraced"]
          BY <3>1, <4>1
        <5>2. Aimes(c, "untraced", t)
          BY <1>0, <2>2, <5>1, TargetAimes DEF Pcs
        <5> QED BY <2>3, <3>1, <4>1, <5>2 DEF Finds, ValidateRelease
      <4>2. CASE leases[call[c].tab].state # "active"
        <5>1. call' = [call EXCEPT ![c].target = t, ![c].pc = "release"]
          BY <3>1, <4>2
        <5>2. Aimes(c, "release", t)
          BY <1>0, <2>2, <5>1, TargetAimes DEF Pcs
        <5> QED BY <2>3, <3>1, <4>2, <5>2 DEF Finds, ValidateRelease
      <4> QED BY <4>1, <4>2
    <3> QED BY <2>3, <1>e, <3>1 DEF ValidateRelease
  <2>4. ASSUME ValidateClose(c) PROVE Ends(c) \/ Finds(c)
    <3>1. ASSUME RequireOwnedTab(call[c].session, call[c].tab), t \notin traces,
                 call' = [call EXCEPT ![c].target = t, ![c].pc = "reserve"]
          PROVE  Finds(c)
      <4>1. Aimes(c, "reserve", t)
        BY <1>0, <2>2, <3>1, TargetAimes DEF Pcs
      <4> QED BY <2>4, <3>1, <4>1 DEF Finds, ValidateClose
    <3> QED BY <2>4, <1>e, <3>1 DEF ValidateClose
  <2> QED BY <1>9, <2>3, <2>4
<1>10. CASE ReleaseUntraced(c)
  <2>1. call' = Emulating(c, ResetAll, "release") => Commanded(c, ResetAll, "release")
    BY <1>0, EmulatingCommands, CommandSequences DEF Maybe, Pcs
  <2>2. Goto(c, "release") => Moves(c, "release")
    BY <1>g DEF Pcs
  <2> QED BY <1>10, <1>e, <2>1, <2>2 DEF ReleaseUntraced, StepsOn, Emulates
<1>11. CASE Reserve(c)
  <2>1. call[c].tab \in Tabs
    BY <1>11 DEF Reserve, At, Shape, MethodsAt, Is, TabMethods
  <2>2. screencasts[call[c].tab] \in Maybe(Jobs)
    BY <2>1 DEF Types, CastTypes
  <2> DEFINE pc == IF leases[call[c].tab].state = "active" THEN "closing" ELSE "commit"
  <2>3. pc \in Pcs
    BY DEF Pcs
  <2> HIDE DEF pc
  <2>4. ASSUME MayRelease(c),
               call' = [call EXCEPT ![c].job = screencasts[call[c].tab], ![c].pc = pc]
        PROVE  Minds(c)
    <3>1. Assigned(c, pc, screencasts[call[c].tab])
      BY <1>0, <2>2, <2>3, <2>4, JobTakes
    <3> QED BY <1>11, <2>4, <3>1 DEF Minds, Reserve, pc
  <2> QED BY <1>11, <1>e, <2>4 DEF Reserve, pc
<1> QED
  BY <1>i, <1>1, <1>2, <1>3, <1>4, <1>5, <1>6, <1>7, <1>8, <1>9, <1>10, <1>11
  DEF Acts, ToolStep, HandoverStep

(***************************************************************************)
(* What a request carries fits where it is, after every step.              *)
(***************************************************************************)
\* A lease that cannot act any more is remembered, with its owner and target.
LEMMA Retired ==
    ASSUME RegistryInv, [Next]_vars, NEW b \in Tabs
    PROVE  /\ leases[b].state # "unissued" => leases'[b].state # "unissued"
           /\ Known(b) /\ leases[b].state # "active" =>
                 /\ Known(b)' /\ leases'[b].state # "active"
                 /\ leases'[b].target = leases[b].target /\ leases'[b].owner = leases[b].owner
<1>1. Fate(b)
  BY LeaseFates
<1>2. leases[b].state # "unissued" => leases[b].state = "removed" \/ Known(b)
  BY DEF Known
<1> QED BY <1>1, <1>2 DEF Fate, Ages, Known

\* A call that does not move keeps its shape while others step.
LEMMA ShapeKept ==
    ASSUME RegistryInv, Types, ShapeInv, [CaptureNext]_capVars, NEW q \in Calls,
           call'[q] = call[q]
    PROVE  Shape(q)'
<1>1. [Next]_vars /\ Shape(q) /\ call[q] \in CallState
  BY StepsTheRegistry DEF ShapeInv, Types, CallTypes
<1>2. PICK u \in CallState : u = call[q]
  BY <1>1
<1>3. call'[q] = u
  BY <1>2
<1>4. u.pc # "idle" => u.session \in Sessions /\ sessions'[u.session].status = "live"
  BY <1>2, InFlightStays DEF At
<1>5. u.method \in TabMethods => u.tab \in Tabs /\ leases'[u.tab].state # "unissued"
  BY <1>1, <1>2, Retired DEF Shape, Is
<1>6. u.method \in ClaimMethods => u.target \in Targets /\ page'[u.target] # "unborn"
  BY <1>1, <1>2, PagesAge DEF Shape, Is
<1>7. \A b \in u.todo : Known(b)' /\ leases'[b].state # "active"
  BY <1>1, <1>2, Retired DEF Shape, CallState
<1> QED
  BY <1>1, <1>2, <1>3, <1>4, <1>5, <1>6, <1>7 DEF Shape, At, Is, Aimed, GoesOnAt, Live

\* An idle connection has nothing to fit.
LEMMA EndedShape ==
    ASSUME NEW c \in Calls, Ends(c)
    PROVE  Shape(c)'
<1>1. /\ NoCall.pc = "idle" /\ NoCall.method = "none" /\ NoCall.todo = {}
      /\ "none" \in MethodsAt("idle") /\ "none" \notin AllMethods
  BY DEF NoCall, MethodsAt, AllMethods, TabMethods, PageTools, ClaimMethods
<1>2. call'[c] = NoCall
  BY DEF Ends
<1> QED BY <1>1, <1>2 DEF Shape, At, Is, Aimed, AllMethods

\* A request that arrives has the shape of one.
LEMMA FreshShape ==
    ASSUME RegistryInv, [Next]_vars, Types, [CaptureNext]_capVars, NEW c \in Calls, Fresh(c)
    PROVE  Shape(c)'
<1>1. MethodsAt("handle") = AllMethods
  BY DEF MethodsAt
<1>2. call'[c].method \in TabMethods =>
        call'[c].tab \in Tabs /\ leases'[call'[c].tab].state # "unissued"
  BY Retired DEF Fresh
<1>3. call'[c].method \in ClaimMethods => page'[call'[c].target] # "unborn"
  BY PagesAge DEF Fresh
<1> QED
  BY <1>1, <1>2, <1>3 DEF Fresh, Shape, At, Is, Aimed, Live

\* Where a request goes on, its method and what it carries fit.
LEMMA MovedShape ==
    ASSUME RegistryInv, [Next]_vars, Types, ShapeInv, [CaptureNext]_capVars, NEW c \in Calls,
           ~At(c, "idle"), NEW pc \in Pcs \ {"idle"}, Goes(c, pc), call[c].method \in MethodsAt(pc),
           call'[c].todo = {} \/ pc = "reconcile",
           \A b \in call'[c].todo : Known(b)' /\ leases'[b].state # "active",
           \/ SameTarget(c) /\ (Aimed(c) \/ pc \in {"handle", "reconcile", "check"})
           \/ SameTarget(c) /\ ~Is(c, TabMethods)
           \/ /\ call'[c].target \in Targets /\ Is(c, TabMethods)
              /\ pc \notin {"handle", "reconcile", "check"},
           SameTarget(c) /\ pc \in {"handle", "reconcile", "check"} => ~Aimed(c),
           pc = "commanding" => call'[c].commands # <<>> /\ call'[c].next \in GoesOnAt(c),
           pc \in {"jobs", "casting"} => call'[c].job \in Jobs
    PROVE  Shape(c)'
<1>1. PICK u \in CallState : u = call[c]
  BY DEF Types, CallTypes
<1>2. PICK v \in CallState : v = call'[c]
  BY DEF Goes, Rewrites
<1>3. v.pc = pc /\ v.method = u.method /\ v.session = u.session /\ v.tab = u.tab
  BY <1>1, <1>2 DEF Goes
<1>4. Shape(c)
  BY DEF ShapeInv
<1>5. v.session \in Sessions /\ sessions'[v.session].status = "live"
  BY <1>1, <1>3, InFlightStays
<1>6. v.method \in TabMethods => v.tab \in Tabs /\ leases'[v.tab].state # "unissued"
  BY <1>1, <1>3, <1>4, Retired DEF Shape, Is
<1>7. ClaimMethods \cap TabMethods = {} /\ "new_tab" \notin TabMethods
  BY DEF ClaimMethods, TabMethods, PageTools
<1>8. v.method \in ClaimMethods \cup {"new_tab"} => v.target = u.target /\ v.target \in Targets
  BY <1>1, <1>2, <1>3, <1>4, <1>7 DEF Shape, Is, SameTarget
<1>9. v.method \in ClaimMethods => page'[v.target] # "unborn"
  BY <1>1, <1>3, <1>4, <1>8, PagesAge DEF Shape, Is
<1>10. v.method \in TabMethods =>
          IF pc \in {"handle", "reconcile", "check"} THEN v.target = None ELSE v.target \in Targets
  BY <1>1, <1>2, <1>3, <1>4, NoneAssumption DEF Shape, Is, SameTarget, Aimed
<1>11. v.todo # {} => pc = "reconcile"
  BY <1>2
<1>12. v.method \in MethodsAt(v.pc) /\ v.pc # "idle"
  BY <1>1, <1>3
<1>13. pc = "commanding" => v.commands # <<>> /\ v.next \in GoesOnAt(c)'
  BY <1>1, <1>2, <1>3 DEF GoesOnAt, Is
<1>14. pc \in {"jobs", "casting"} => v.job \in Jobs
  BY <1>2
<1> HIDE DEF GoesOnAt
<1>15. \A b \in v.todo : Known(b)' /\ leases'[b].state # "active"
  BY <1>2
<1> QED
  BY <1>2, <1>3, <1>5, <1>6, <1>8, <1>9, <1>10, <1>11, <1>12, <1>13, <1>14, <1>15
  DEF Shape, At, Is, Aimed, Live

\* The methods that reach each place, computed once.
LEMMA MethodTable ==
    /\ MethodsAt("handle") = AllMethods
    /\ MethodsAt("reconcile") = PageTools /\ MethodsAt("check") = PageTools
    /\ MethodsAt("act") = PageTools
    /\ MethodsAt("tracing") = {"start_trace"} /\ MethodsAt("reload") = {"start_trace"}
    /\ MethodsAt("store") = {"stop_trace", "capture", "audit"}
    /\ MethodsAt("record") = {"set_viewport", "reset"} /\ MethodsAt("audit") = {"audit"}
    /\ MethodsAt("jobs") = {"start_cast"} /\ MethodsAt("casting") = {"start_cast"}
    /\ MethodsAt("take_trace") = Takeovers /\ MethodsAt("take_casts") = Takeovers
    /\ MethodsAt("claim") = ClaimMethods
    /\ MethodsAt("untraced") = {"release"} /\ MethodsAt("release") = {"release"}
    /\ MethodsAt("reserve") = {"close"} /\ MethodsAt("closing") = {"close"}
    /\ MethodsAt("commit") = {"close"}
    /\ MethodsAt("commanding")
         = {"set_viewport", "set_other", "reset", "audit", "release"} \cup Takeovers
BY DEF MethodsAt

\* Which methods act on a tab.
LEMMA MethodKinds ==
    /\ PageTools \subseteq TabMethods /\ {"release", "close"} \subseteq TabMethods
    /\ Takeovers \subseteq ClaimMethods /\ ClaimMethods \cap TabMethods = {}
    /\ {"start_cast", "start_trace", "stop_trace", "set_viewport", "set_other", "reset", "audit",
        "capture"} = PageTools
    /\ "claim" \in ClaimMethods /\ Takeovers \cap PageTools = {}
    /\ "release" \notin PageTools /\ "close" \notin PageTools /\ "none" \notin PageTools
    /\ "none" \notin TabMethods \cup ClaimMethods
BY DEF PageTools, TabMethods, Takeovers, ClaimMethods

\* The tabs a reconciliation gives up are missing from then on.
LEMMA MissingNow ==
    ASSUME RegistryInv, MarkMissingTargetsNotIn({t \in Targets : page[t] = "open"})
    PROVE  \A b \in Missing : /\ b \in Tabs /\ leases[b].state = "active"
                              /\ leases'[b] = [leases[b] EXCEPT !.state = "missing"]
                              /\ leases'[b].state = "missing"
                              /\ leases'[b].target = leases[b].target
<1>1. \A b \in Missing : b \in Tabs /\ leases[b].state = "active"
  BY DEF Missing, Vanished, RegistryInv, TypeOK, TargetInv, ActiveIndexExact, Maybe
<1>2. leases' = [b \in Tabs |-> IF b \in Missing THEN [leases[b] EXCEPT !.state = "missing"]
                                                 ELSE leases[b]]
  BY DEF MarkMissingTargetsNotIn, MarkMissing, Missing
<1>3. \A b \in Tabs : leases[b] \in TabLease
  BY DEF RegistryInv, TypeOK
<1> QED BY <1>1, <1>2, <1>3 DEF TabLease

\* Each allowed move leads to a place whose shape the call has.
LEMMA PathShape ==
    ASSUME RegistryInv, [Next]_vars, Types, ShapeInv, [CaptureNext]_capVars, NEW c \in Calls,
           Path(c)
    PROVE  Shape(c)'
<1>a. Shape(c) /\ call[c] \in CallState
  BY DEF ShapeInv, Types, CallTypes
<1>b. ~At(c, "reconcile") => call[c].todo = {}
  BY <1>a DEF Shape
<1>c. \A b \in call[c].todo : Known(b)' /\ leases'[b].state # "active"
  BY <1>a, Retired DEF Shape, CallState
<1>d. Is(c, TabMethods) => call[c].tab \in Tabs /\ leases[call[c].tab].state # "unissued"
  BY <1>a DEF Shape
<1>e. \A b \in Tabs : Known(b) => leases[b].target \in Targets
  BY DEF RegistryInv, TargetInv, LeasesComplete
<1>g. ~Aimed(c) <=> ~Is(c, TabMethods) \/ call[c].pc \in {"idle", "handle", "reconcile", "check"}
  BY DEF Aimed
<1>h. call[c].method \in MethodsAt(call[c].pc)
  BY <1>a DEF Shape
<1>1. CASE Ends(c)
  BY <1>1, EndedShape
<1>2. CASE Fresh(c)
  BY <1>2, FreshShape
<1>3. CASE StepsOn(c)
  <2>1. PICK pc \in {"check", "tracing", "reload", "store", "casting", "claim", "take_trace",
                     "take_casts", "release", "commit"} : 
           /\ Moves(c, pc) /\ ~At(c, "idle") /\ ~At(c, "reconcile")
           /\ call[c].method \in MethodsAt(pc)
           /\ Aimed(c) \/ pc = "check" \/ ~Is(c, TabMethods)
           /\ pc = "check" => ~Aimed(c)
           /\ pc = "casting" => call[c].job \in Jobs
    BY <1>3, <1>a, <1>g, <1>h, MethodTable, MethodKinds DEF StepsOn, At, Is, Shape
  <2>2. pc \in Pcs
    BY DEF Pcs
  <2> QED BY <1>b, <1>c, <2>1, <2>2, MovedShape DEF Moves, SameTodo, SameJob
<1>4. CASE Finds(c)
  <2> DEFINE t == leases[call[c].tab].target
  <2>1. PICK pc \in {"act", "untraced", "release", "reserve"} :
           /\ Aimes(c, pc, t) /\ ~At(c, "idle") /\ ~At(c, "reconcile")
           /\ call[c].method \in MethodsAt(pc) /\ Is(c, TabMethods)
           /\ Known(call[c].tab)
    BY <1>4, <1>h, MethodTable, MethodKinds
    DEF Finds, At, Is, Owns, MayRelease, RequireOwnedTab
  <2>2. pc \in Pcs /\ t \in Targets
    BY <1>d, <1>e, <2>1 DEF Pcs
  <2> HIDE DEF t
  <2> QED BY <1>b, <1>c, <2>1, <2>2, MovedShape DEF Aimes, SameTodo
<1>5. CASE Reconciles(c)
  <2>1. CASE /\ At(c, "handle") /\ Is(c, PageTools) /\ Owes(c, "reconcile", Missing)
             /\ MarkMissingTargetsNotIn({t \in Targets : page[t] = "open"})
    <3>1. \A b \in call'[c].todo : Known(b)' /\ leases'[b].state # "active"
      BY <2>1, MissingNow DEF Owes, Known
    <3> QED
      BY <1>g, <2>1, <3>1, MethodTable, MovedShape DEF Owes, At, Is, Pcs
  <2>2. CASE /\ At(c, "reconcile")
             /\ \E b \in call[c].todo :
                   Owes(c, IF call[c].todo = {b} THEN "check" ELSE "reconcile", call[c].todo \ {b})
    <3>1. PICK b \in call[c].todo :
                   Owes(c, IF call[c].todo = {b} THEN "check" ELSE "reconcile", call[c].todo \ {b})
      BY <2>2
    <3>2. PICK pc \in {"check", "reconcile"} :
             pc = IF call[c].todo = {b} THEN "check" ELSE "reconcile"
      OBVIOUS
    <3>3. /\ Goes(c, pc) /\ SameTarget(c) /\ call'[c].todo = call[c].todo \ {b}
          /\ call'[c].todo = {} \/ pc = "reconcile"
      BY <3>1, <3>2 DEF Owes
    <3>4. pc \in Pcs \ {"idle"} /\ call[c].method \in MethodsAt(pc) /\ ~At(c, "idle")
      BY <2>2, <1>h, MethodTable DEF Pcs, At
    <3> QED BY <1>c, <1>g, <2>2, <3>3, <3>4, MovedShape DEF At
  <2> QED BY <1>5, <2>1, <2>2 DEF Reconciles
<1>6. CASE Emulates(c)
  <2>1. ASSUME NEW q \in Seq(Commands), q # <<>>, NEW next \in GoesOnAt(c), Commanded(c, q, next),
               ~At(c, "idle"), ~At(c, "reconcile"), Aimed(c) \/ ~Is(c, TabMethods),
               call[c].method \in MethodsAt("commanding")
        PROVE  Shape(c)'
    BY <1>b, <1>c, <2>1, MovedShape DEF Commanded, SameTodo, Pcs
  <2>2. CASE /\ At(c, "act") /\ Is(c, {"set_viewport", "set_other", "reset", "audit"})
             /\ \E q \in Seq(Commands) \ {<<>>}, next \in GoesOnAt(c) : Commanded(c, q, next)
    BY <1>g, <2>1, <2>2, MethodTable, MethodKinds DEF At, Is
  <2>3. CASE /\ At(c, "audit")
             /\ \E q \in Seq(Commands) \ {<<>>}, next \in {"store", "idle"} : Commanded(c, q, next)
    <3>1. {"store", "idle"} \subseteq GoesOnAt(c)
      BY <2>3, <1>h, MethodTable DEF At, GoesOnAt, Is
    <3> QED BY <1>g, <1>h, <2>1, <2>3, <3>1, MethodTable, MethodKinds DEF At, Is
  <2>4. CASE At(c, "take_casts") /\ Commanded(c, ResetAll, "claim")
    <3>1. "claim" \in GoesOnAt(c)
      BY <2>4, <1>h, MethodTable DEF At, GoesOnAt, Is, Takeovers
    <3> QED BY <1>g, <1>h, <2>1, <2>4, <3>1, MethodTable, MethodKinds, CommandSequences DEF At, Is
  <2>5. CASE At(c, "untraced") /\ Commanded(c, ResetAll, "release")
    <3>1. "release" \in GoesOnAt(c)
      BY <2>5, <1>h, MethodTable DEF At, GoesOnAt, Is
    <3> QED BY <1>g, <1>h, <2>1, <2>5, <3>1, MethodTable, MethodKinds, CommandSequences DEF At, Is
  <2>6. CASE /\ At(c, "commanding") /\ Tail(call[c].commands) # <<>>
             /\ Commanded(c, Tail(call[c].commands), call[c].next)
    <3>1. /\ call[c].commands \in Seq(Commands) /\ call[c].commands # <<>>
          /\ call[c].next \in GoesOnAt(c)
      BY <1>a, <2>6 DEF Shape, CallState
    <3>2. Tail(call[c].commands) \in Seq(Commands)
      BY <3>1
    <3> QED BY <1>g, <1>h, <2>1, <2>6, <3>1, <3>2 DEF At
  <2>7. CASE /\ At(c, "commanding") /\ call[c].next # "idle" /\ Goes(c, call[c].next)
             /\ SameTarget(c) /\ SameTodo(c)
    <3>1. call[c].next \in GoesOnAt(c)
      BY <1>a, <2>7 DEF Shape
    <3>2. PICK pc \in {"record", "audit", "store", "release", "claim"} :
              pc = call[c].next /\ call[c].method \in MethodsAt(pc)
      BY <1>h, <2>7, <3>1, MethodTable, MethodKinds DEF GoesOnAt, At, Is, Takeovers
    <3>3. pc \in Pcs
      BY DEF Pcs
    <3> QED BY <1>b, <1>c, <1>g, <2>7, <3>2, <3>3, MovedShape DEF At, SameTodo
  <2> QED BY <1>6, <2>2, <2>3, <2>4, <2>5, <2>6, <2>7 DEF Emulates
<1>7. CASE Minds(c)
  <2>1. PICK pc \in {"jobs", "closing", "commit"} :
           /\ Goes(c, pc) /\ SameTarget(c) /\ SameTodo(c)
           /\ Aimed(c) /\ ~At(c, "idle") /\ ~At(c, "reconcile")
           /\ call[c].method \in MethodsAt(pc)
           /\ pc = "jobs" => call'[c].job \in Jobs
    BY <1>7, <1>g, <1>h, MethodTable, MethodKinds DEF Minds, Assigned, At, Is
  <2>2. pc \in Pcs
    BY DEF Pcs
  <2> QED BY <1>b, <1>c, <2>1, <2>2, MovedShape DEF SameTodo
<1> QED BY <1>1, <1>2, <1>3, <1>4, <1>5, <1>6, <1>7 DEF Path

\* Together: calls keep their types and shapes.
LEMMA ShapesNext ==
    ASSUME RegistryInv, [Next]_vars, Types, ShapeInv, [CaptureNext]_capVars
    PROVE  /\ call' \in [Calls -> CallState]
           /\ \A q \in Calls : Shape(q)'
<1>1. CASE Background
  <2>1. call' = call
    BY <1>1, BackgroundFootprint
  <2> QED BY <2>1, ShapeKept DEF Types, CallTypes
<1>2. ASSUME NEW c \in Calls, Acts(c)
      PROVE  /\ call' \in [Calls -> CallState]
             /\ \A q \in Calls : Shape(q)'
  <2>1. Path(c)
    BY <1>2, Paths DEF ShapeInv
  <2>2. Rewrites(c)
    BY <2>1
    DEF Path, Ends, Fresh, StepsOn, Finds, Reconciles, Emulates, Minds, Moves, Aimes, Owes,
        Commanded, Assigned, Goes
  <2>3. Shape(c)'
    BY <2>1, PathShape
  <2>4. \A q \in Calls \ {c} : Shape(q)'
    BY <2>2, ShapeKept DEF Rewrites
  <2> QED BY <2>2, <2>3, <2>4 DEF Rewrites
<1> QED BY <1>1, <1>2, Steps

(***************************************************************************)
(* What a step does to the screencast jobs.                                *)
(***************************************************************************)
LEMMA JobFields ==
    ASSUME NEW u \in JobState
    PROVE  /\ \A x \in {"stop", "cancel"} :
                 LET v == [u EXCEPT !.control = x]
                 IN  /\ v \in JobState /\ v.control = x /\ v.phase = u.phase
                     /\ v.terminal = u.terminal /\ v.session = u.session /\ v.tab = u.tab
                     /\ v.target = u.target
           /\ \A x \in {"finalizing", "good", "bad"} :
                 LET v == [u EXCEPT !.phase = x]
                 IN  /\ v \in JobState /\ v.phase = x /\ v.control = u.control
                     /\ v.terminal = u.terminal /\ v.session = u.session /\ v.tab = u.tab
                     /\ v.target = u.target
           /\ \A x \in {"ready", "error"} :
                 LET v == [u EXCEPT !.phase = "done", !.terminal = x]
                 IN  /\ v \in JobState /\ v.phase = "done" /\ v.control = u.control
                     /\ v.terminal = x /\ v.session = u.session /\ v.tab = u.tab
                     /\ v.target = u.target
BY DEF JobState

\* A job that was started keeps what it records, and is not started again.
JobAges(j) ==
    /\ job'[j] \in JobState
    /\ job[j].phase = "unborn" => job'[j] = job[j]
    /\ job[j].phase # "unborn" => job'[j].phase # "unborn"
    /\ job'[j].session = job[j].session /\ job'[j].tab = job[j].tab
    /\ job'[j].target = job[j].target
    /\ job[j].control = "cancel" => job'[j].control = "cancel"
    /\ job[j].phase = "done" => job'[j].phase = "done" /\ job'[j].terminal = job[j].terminal
    /\ \/ job'[j].terminal = job[j].terminal /\ (job'[j].phase = "done" => job[j].phase = "done")
       \/ Finalize(j) /\ job'[j].phase = "done" /\ job'[j].terminal # "none"

Starting(c) ==
    /\ At(c, "casting") /\ CastStarts(c) /\ call[c].job \in Jobs /\ job[call[c].job] = NoJob
    /\ call[c].session \in Sessions /\ call[c].tab \in Tabs /\ call[c].target \in Targets
    /\ job'[call[c].job] = NewJob(c)
    /\ \A j \in Jobs \ {call[c].job} : job'[j] = job[j]
    /\ screencasts' = [screencasts EXCEPT ![call[c].tab] = call[c].job] /\ cast_lock' = None
    /\ shutdown = "no" /\ page[call[c].target] = "open"

\* Cancelling jobs makes them older and nothing else;
LEMMA CancelAges ==
    ASSUME Types, NEW J, \A j \in Jobs \cap J : job[j].phase # "unborn", job' = Cancelled(J)
    PROVE  job' \in [Jobs -> JobState] /\ \A j \in Jobs : JobAges(j)
<1>1. job \in [Jobs -> JobState]
  BY DEF Types, CastTypes
<1>2. ASSUME NEW j \in Jobs
      PROVE  job'[j] \in JobState /\ JobAges(j)
  <2>1. /\ job[j] \in JobState
        /\ job'[j] = IF j \in J THEN [job[j] EXCEPT !.control = "cancel"] ELSE job[j]
    BY <1>1 DEF Cancelled
  <2>2. CASE j \in J
    <3> DEFINE v == [job[j] EXCEPT !.control = "cancel"]
    <3>1. /\ v \in JobState /\ v.control = "cancel" /\ v.phase = job[j].phase
          /\ v.terminal = job[j].terminal /\ v.session = job[j].session /\ v.tab = job[j].tab
          /\ v.target = job[j].target
      BY <2>1, JobFields
    <3>2. job'[j] = v
      BY <2>1, <2>2
    <3> HIDE DEF v
    <3> QED BY <2>2, <3>1, <3>2 DEF JobAges
  <2>3. CASE j \notin J
    BY <2>1, <2>3 DEF JobAges
  <2> QED BY <2>2, <2>3
<1>3. job' = [j \in Jobs |-> job'[j]]
  BY DEF Cancelled
<1> QED BY <1>2, <1>3

\* so does leaving them alone,
LEMMA JobsKept ==
    ASSUME Types, job' = job
    PROVE  job' \in [Jobs -> JobState] /\ \A j \in Jobs : JobAges(j)
BY DEF Types, CastTypes, JobAges

\* One job goes on.
LEMMA JobGoesOn ==
    ASSUME Types, NEW j \in Jobs, JobShape(j), JobStep(j)
    PROVE  job' \in [Jobs -> JobState] /\ \A k \in Jobs : JobAges(k)
<1>1. job \in [Jobs -> JobState] /\ job[j] \in JobState
  BY DEF Types, CastTypes
<1>2. PICK v : /\ job' = [job EXCEPT ![j] = v]
               /\ \/ \E x \in {"finalizing", "good", "bad"} : v = [job[j] EXCEPT !.phase = x]
                  \/ /\ \E x \in {"ready", "error"} :
                           v = [job[j] EXCEPT !.phase = "done", !.terminal = x]
                     /\ Finalize(j)
               /\ job[j].phase \notin {"unborn", "done"}
  <2>1. CASE SourceStops(j)
    BY <1>1, <2>1 DEF SourceStops, Recording, Unfinished
  <2>2. CASE SourceFails(j)
    BY <1>1, <2>2 DEF SourceFails, Recording, Unfinished
  <2>3. CASE CaptureEnds(j)
    BY <1>1, <2>3 DEF CaptureEnds
  <2>4. CASE Finalize(j)
    <3>1. PICK x \in {"ready", "error"} : job' = [job EXCEPT ![j].phase = "done", ![j].terminal = x]
      BY <2>4 DEF Finalize
    <3>2. job' = [job EXCEPT ![j] = [job[j] EXCEPT !.phase = "done", !.terminal = x]]
      BY <1>1, <3>1 DEF JobState
    <3> QED BY <1>1, <2>4, <3>2 DEF Finalize
  <2> QED BY <2>1, <2>2, <2>3, <2>4 DEF JobStep
<1>3. /\ v \in JobState /\ v.session = job[j].session /\ v.tab = job[j].tab
      /\ v.target = job[j].target /\ v.control = job[j].control /\ v.phase # "unborn"
      /\ \/ v.terminal = job[j].terminal /\ v.phase # "done"
         \/ Finalize(j) /\ v.phase = "done" /\ v.terminal # "none"
  <2>1. ASSUME NEW x \in {"finalizing", "good", "bad"}, v = [job[j] EXCEPT !.phase = x]
        PROVE  /\ v \in JobState /\ v.session = job[j].session /\ v.tab = job[j].tab
               /\ v.target = job[j].target /\ v.control = job[j].control /\ v.phase = x
               /\ v.terminal = job[j].terminal
    BY <1>1, <2>1 DEF JobState
  <2>2. ASSUME NEW x \in {"ready", "error"}, v = [job[j] EXCEPT !.phase = "done", !.terminal = x]
        PROVE  /\ v \in JobState /\ v.session = job[j].session /\ v.tab = job[j].tab
               /\ v.target = job[j].target /\ v.control = job[j].control /\ v.phase = "done"
               /\ v.terminal = x
    BY <1>1, <2>2 DEF JobState
  <2> QED BY <1>2, <2>1, <2>2
<1>4. job' \in [Jobs -> JobState] /\ job'[j] = v /\ \A k \in Jobs \ {j} : job'[k] = job[k]
  BY <1>1, <1>2, <1>3
<1> QED BY <1>1, <1>2, <1>3, <1>4 DEF JobAges

\* and so does stopping one.
LEMMA StopAges ==
    ASSUME Types, NEW c \in Calls, call[c].tab \in Tabs, MapShape, StopCast(c)
    PROVE  job' \in [Jobs -> JobState] /\ \A j \in Jobs : JobAges(j)
<1>1. CASE job' = job
  BY <1>1, JobsKept
<1>2. CASE job' # job
  <2> DEFINE i == screencasts[call[c].tab]
  <2>0. job \in [Jobs -> JobState] /\ i \in Maybe(Jobs)
    BY DEF Types, CastTypes
  <2>1. job' = [job EXCEPT ![i].control = "stop"] /\ i # None /\ job[i].control = "record"
    BY <1>2 DEF StopCast
  <2>2. i \in Jobs /\ job[i] \in JobState /\ job[i].phase # "unborn"
    BY <2>0, <2>1 DEF Maybe, MapShape
  <2>3. PICK j \in Jobs : j = i
    BY <2>2
  <2> HIDE DEF i
  <2> DEFINE v == [job[j] EXCEPT !.control = "stop"]
  <2>4. /\ v \in JobState /\ v.control = "stop" /\ v.phase = job[j].phase
        /\ v.terminal = job[j].terminal /\ v.session = job[j].session /\ v.tab = job[j].tab
        /\ v.target = job[j].target
    BY <2>2, <2>3, JobFields
  <2>5. job' = [job EXCEPT ![j] = v]
    BY <2>0, <2>1, <2>3
  <2> HIDE DEF v
  <2>6. job' \in [Jobs -> JobState] /\ job'[j] = v /\ \A k \in Jobs \ {j} : job'[k] = job[k]
    BY <2>0, <2>4, <2>5
  <2>7. \A k \in Jobs \ {j} : JobAges(k)
    BY <2>0, <2>6 DEF JobAges
  <2>8. JobAges(j)
    BY <2>0, <2>1, <2>2, <2>3, <2>4, <2>6 DEF JobAges
  <2> QED BY <2>6, <2>7, <2>8
<1> QED BY <1>1, <1>2

\* A cast that starts turns an unborn job into a recording one.
LEMMA CastStarting ==
    ASSUME Types, NEW c \in Calls, Shape(c), Starts(c) => job[call[c].job] = NoJob, CastStarts(c)
    PROVE  job' \in [Jobs -> JobState] /\ Starting(c)
<1>1. /\ call[c].job \in Jobs /\ call[c].session \in Sessions /\ call[c].tab \in Tabs
      /\ call[c].target \in Targets /\ At(c, "casting") /\ Starts(c)
  BY MethodTable, MethodKinds DEF CastStarts, Shape, At, Is, Aimed, Starts
<1>2. NewJob(c) \in JobState
  BY <1>1 DEF NewJob, JobState, Maybe
<1>3. job \in [Jobs -> JobState] /\ job' = [job EXCEPT ![call[c].job] = NewJob(c)]
  BY DEF Types, CastTypes, CastStarts
<1> QED BY <1>1, <1>2, <1>3 DEF Starting, CastStarts, Inserts

CastStarted == \E c \in Calls : Starting(c)
JobsAge == \A j \in Jobs : JobAges(j)

\* In every step jobs only grow older, or one starts.
LEMMA JobFates ==
    ASSUME RegistryInv, Types, ShapeInv, \A c \in Calls : Starts(c) => job[call[c].job] = NoJob,
           [CaptureNext]_capVars
    PROVE  job' \in [Jobs -> JobState] /\ (JobsAge \/ CastStarted)
<1> USE DEF JobsAge
<1>a. \A b \in Tabs : screencasts[b] \in Maybe(Jobs)
  BY DEF Types, CastTypes
<1>1. CASE Background
  <2>1. \/ SameCasts \/ SweepCancels \/ ExpiredCloses \/ CancelAll
        \/ \E j \in Jobs : JobStep(j)
    BY <1>1, BackgroundFootprint
  <2>2. CASE SameCasts
    BY <2>2, JobsKept DEF SameCasts
  <2>3. CASE SweepCancels
    <3>1. PICK J : job' = Cancelled(J) /\ \A j \in J : Unfinished(j)
      BY <2>3 DEF SweepCancels
    <3> QED BY <3>1, CancelAges DEF Unfinished
  <2>4. CASE ExpiredCloses
    <3>1. PICK x \in sweep_closes, closed \in BOOLEAN : SweepCloses(x, closed)
      BY <2>4 DEF ExpiredCloses
    <3>2. job' = Cancelled({screencasts[x.tab]} \ {None})
      BY <3>1 DEF SweepCloses
    <3>3. \A j \in Jobs \cap ({screencasts[x.tab]} \ {None}) : job[j].phase # "unborn"
      <4>1. x.tab \in Tabs
        BY DEF RegistryInv, TypeOK, SweepClose
      <4> QED BY <1>a, <4>1 DEF ShapeInv, MapShape
    <3> QED BY <3>2, <3>3, CancelAges
  <2>5. CASE CancelAll
    <3> DEFINE J == {j \in {screencasts[b] : b \in Tabs} \ {None} : Unfinished(j)}
    <3>1. job' = Cancelled(J)
      BY <2>5 DEF CancelAll
    <3>2. \A j \in Jobs \cap J : job[j].phase # "unborn"
      BY DEF Unfinished
    <3> HIDE DEF J
    <3> QED BY <3>1, <3>2, CancelAges
  <2>6. CASE \E j \in Jobs : JobStep(j)
    BY <2>6, JobGoesOn DEF ShapeInv
  <2> QED BY <2>1, <2>2, <2>3, <2>4, <2>5, <2>6
<1>2. ASSUME NEW c \in Calls, Acts(c)
      PROVE  job' \in [Jobs -> JobState] /\ (JobsAge \/ CastStarted)
  <2>1. \/ SameCasts
        \/ TakeJobs(c) \/ CastStarts(c) \/ CastFails(c) \/ StopCast(c)
        \/ TakeoverCancels(c) \/ CommitClose(c) \/ \E b \in Tabs : Reconcile(c, b)
    BY <1>2, ActFootprint
  <2>2. CASE SameCasts \/ TakeJobs(c) \/ CastFails(c)
    BY <2>2, JobsKept DEF SameCasts, TakeJobs, CastFails
  <2>3. CASE CastStarts(c)
    BY <2>3, CastStarting DEF ShapeInv, CastStarted
  <2>4. CASE StopCast(c)
    <3>1. call[c].tab \in Tabs
      BY <2>4 DEF StopCast, ShapeInv, Shape, Is, TabMethods
    <3> QED BY <2>4, <3>1, StopAges DEF ShapeInv
  <2>5. CASE TakeoverCancels(c) \/ CommitClose(c) \/ \E b \in Tabs : Reconcile(c, b)
    <3>1. PICK J : job' = Cancelled(J) /\ \A j \in J : Unfinished(j)
      <4>1. CASE TakeoverCancels(c)
        BY <4>1 DEF TakeoverCancels, Recording
      <4>2. ASSUME NEW j, job' = Cancelled(IF j # None /\ Recording(j) THEN {j} ELSE {})
            PROVE  \E J : job' = Cancelled(J) /\ \A k \in J : Unfinished(k)
        BY <4>2 DEF Recording
      <4>3. CASE CommitClose(c)
        BY <4>2, <4>3 DEF CommitClose
      <4>4. ASSUME NEW b \in Tabs, Reconcile(c, b)
            PROVE  \E J : job' = Cancelled(J) /\ \A k \in J : Unfinished(k)
        BY <4>2, <4>4 DEF Reconcile
      <4> QED BY <2>5, <4>1, <4>3, <4>4
    <3> QED BY <3>1, CancelAges DEF Unfinished
  <2> QED BY <2>1, <2>2, <2>3, <2>4, <2>5
<1> QED BY <1>1, <1>2, Steps

\* What becomes of a request: it is left alone, ends, begins, or goes on with
\* its tab, its session and its target, or with the target its tab has.
Going(q) ==
    /\ ~At(q, "idle") /\ call'[q] \in CallState
    /\ call'[q].method = call[q].method /\ call'[q].session = call[q].session
    /\ call'[q].tab = call[q].tab
    /\ \/ SameTarget(q)
       \/ /\ Is(q, TabMethods) /\ Known(call[q].tab)
          /\ call'[q].target = leases[call[q].tab].target
CallFate(q) == call'[q] = call[q] \/ call'[q] = NoCall \/ (Acts(q) /\ (Fresh(q) \/ Going(q)))

\* What a step may do to a call that is not the one stepping.
LEMMA CallFates ==
    ASSUME RegistryInv, Types, ShapeInv, [CaptureNext]_capVars, NEW q \in Calls
    PROVE  CallFate(q)
<1>1. CASE Background
  BY <1>1, BackgroundFootprint DEF CallFate
<1>2. ASSUME NEW c \in Calls, Acts(c)
      PROVE  CallFate(q)
  <2>1. Path(c) /\ Shape(c)
    BY <1>2, Paths DEF ShapeInv
  <2>2. ASSUME NEW pc, Goes(c, pc), SameTarget(c), ~At(c, "idle") PROVE CallFate(q)
    BY <1>2, <2>2 DEF Goes, Rewrites, CallFate, Going
  <2>3. CASE Ends(c) \/ Fresh(c)
    BY <1>2, <2>3 DEF Ends, Fresh, Rewrites, CallFate
  <2>4. CASE StepsOn(c)
    BY <2>2, <2>4 DEF StepsOn, Moves, At
  <2>5. CASE Finds(c)
    <3>1. PICK pc : /\ Goes(c, pc) /\ call'[c].target = leases[call[c].tab].target
                    /\ Is(c, TabMethods) /\ Known(call[c].tab) /\ ~At(c, "idle")
      BY <2>1, <2>5, MethodTable, MethodKinds
      DEF Finds, Aimes, At, Is, Shape, Owns, MayRelease, RequireOwnedTab
    <3> QED BY <1>2, <3>1 DEF Goes, Rewrites, CallFate, Going
  <2>6. CASE Reconciles(c)
    BY <2>2, <2>6 DEF Reconciles, Owes, At
  <2>7. CASE Emulates(c)
    BY <2>2, <2>7 DEF Emulates, Commanded, At
  <2>8. CASE Minds(c)
    BY <2>2, <2>8 DEF Minds, Assigned, At
  <2> QED BY <2>1, <2>3, <2>4, <2>5, <2>6, <2>7, <2>8 DEF Path
<1> QED BY <1>1, <1>2, Steps

(***************************************************************************)
(* The jobs' map and the shapes of jobs and sweep.                         *)
(***************************************************************************)
\* An entry of the map is taken out or stays, but for the job that starts.
MapFate == \A b \in Tabs : screencasts'[b] \in {screencasts[b], None}

\* What a step may do to the map of jobs, and to its lock.
LEMMA MapFates ==
    ASSUME RegistryInv, Types, ShapeInv, \A c \in Calls : Starts(c) => job[call[c].job] = NoJob,
           [CaptureNext]_capVars
    PROVE  /\ screencasts' \in [Tabs -> Maybe(Jobs)] /\ cast_lock' \in Maybe(Calls)
           /\ MapFate \/ CastStarted
<1>a. screencasts \in [Tabs -> Maybe(Jobs)] /\ cast_lock \in Maybe(Calls) /\ None \in Maybe(Jobs)
  BY DEF Types, CastTypes, Maybe
<1> DEFINE Goal == /\ screencasts' \in [Tabs -> Maybe(Jobs)] /\ cast_lock' \in Maybe(Calls)
                   /\ MapFate
<1>b. ASSUME screencasts' = screencasts, cast_lock' \in Maybe(Calls) PROVE Goal
  BY <1>a, <1>b DEF MapFate
<1>1. CASE Background
  <2>1. \/ SameCasts \/ SweepCancels \/ ExpiredCloses \/ CancelAll
        \/ \E j \in Jobs : JobStep(j)
    BY <1>1, BackgroundFootprint
  <2>2. CASE SameCasts \/ \E j \in Jobs : JobStep(j)
    BY <1>a, <1>b, <2>2
    DEF SameCasts, JobStep, SourceStops, SourceFails, CaptureEnds, Finalize, OnlyJobs
  <2>3. CASE SweepCancels
    BY <1>a, <2>3 DEF SweepCancels, Without, MapFate
  <2>4. CASE ExpiredCloses
    <3>1. PICK x : screencasts' = [screencasts EXCEPT ![x.tab] = None] /\ cast_lock' = cast_lock
      BY <2>4 DEF ExpiredCloses, SweepCloses
    <3> QED BY <1>a, <3>1 DEF MapFate
  <2>5. CASE CancelAll
    BY <1>a, <2>5 DEF CancelAll, MapFate
  <2> QED BY <2>1, <2>2, <2>3, <2>4, <2>5
<1>2. ASSUME NEW c \in Calls, Acts(c)
      PROVE  /\ screencasts' \in [Tabs -> Maybe(Jobs)] /\ cast_lock' \in Maybe(Calls)
             /\ MapFate \/ CastStarted
  <2>1. \/ SameCasts
        \/ TakeJobs(c) \/ CastStarts(c) \/ CastFails(c) \/ StopCast(c)
        \/ TakeoverCancels(c) \/ CommitClose(c) \/ \E b \in Tabs : Reconcile(c, b)
    BY <1>2, ActFootprint
  <2>2. CASE SameCasts \/ StopCast(c) \/ TakeoverCancels(c) \/ CommitClose(c)
             \/ \E b \in Tabs : Reconcile(c, b)
    BY <1>a, <1>b, <2>2 DEF SameCasts, StopCast, TakeoverCancels, CommitClose, Reconcile
  <2>3. CASE TakeJobs(c)
    BY <1>a, <2>3 DEF TakeJobs, Maybe, MapFate
  <2>4. CASE CastFails(c)
    BY <1>b, <2>4 DEF CastFails, Maybe
  <2>5. CASE CastStarts(c)
    <3>1. Starting(c)
      BY <2>5, CastStarting DEF ShapeInv
    <3> QED BY <1>a, <3>1 DEF Starting, CastStarted, Maybe
  <2> QED BY <2>1, <2>2, <2>3, <2>4, <2>5
<1> QED BY <1>1, <1>2, Steps

\* Jobs, and the map of them, keep their shapes.
LEMMA JobShapesNext ==
    ASSUME RegistryInv, [Next]_vars, Types, ShapeInv,
           \A c \in Calls : Starts(c) => job[call[c].job] = NoJob, [CaptureNext]_capVars
    PROVE  (\A j \in Jobs : JobShape(j))' /\ MapShape'
<1>1. job' \in [Jobs -> JobState] /\ (JobsAge \/ CastStarted)
  BY JobFates
<1>2. ASSUME NEW j \in Jobs, JobAges(j)
      PROVE  JobShape(j)'
  BY <1>2, Retired DEF JobAges, ShapeInv, JobShape, NoJob
<1>3. ASSUME NEW c \in Calls, Starting(c), NEW j \in Jobs
      PROVE  JobShape(j)'
  <2>1. leases[call[c].tab].state # "unissued"
    BY <1>3, MethodTable, MethodKinds DEF Starting, ShapeInv, Shape, At, Is
  <2>2. CASE j = call[c].job
    BY <1>3, <2>1, <2>2, Retired DEF Starting, JobShape, NewJob
  <2>3. CASE j # call[c].job
    <3>1. job'[j] = job[j]
      BY <1>3, <2>3 DEF Starting
    <3> QED BY <3>1, Retired DEF ShapeInv, JobShape
  <2> QED BY <2>2, <2>3
<1>4. \A j \in Jobs : job[j].phase # "unborn" => job'[j].phase # "unborn"
  <2>1. ASSUME NEW c \in Calls, Starting(c), NEW j \in Jobs, job[j].phase # "unborn"
        PROVE  job'[j].phase # "unborn"
    <3>1. j = call[c].job \/ job'[j] = job[j]
      BY <2>1 DEF Starting
    <3>2. job'[call[c].job].phase = "recording"
      BY <2>1 DEF Starting, NewJob
    <3> QED BY <2>1, <3>1, <3>2
  <2> QED BY <1>1, <2>1 DEF JobsAge, JobAges, CastStarted
<1>5. MapShape'
  <2>1. \A b \in Tabs : screencasts[b] \in Maybe(Jobs)
    BY DEF Types, CastTypes
  <2>2. CASE MapFate
    BY <1>4, <2>1, <2>2 DEF MapFate, MapShape, ShapeInv, Maybe
  <2>3. ASSUME NEW c \in Calls, Starting(c)
        PROVE  MapShape'
    <3>1. \A b \in Tabs : \/ screencasts'[b] = screencasts[b]
                          \/ screencasts'[b] = call[c].job /\ job'[call[c].job].phase = "recording"
      BY <2>3 DEF Starting, NewJob, Types, CastTypes
    <3> QED BY <1>4, <2>1, <3>1 DEF MapShape, ShapeInv, Maybe
  <2> QED BY <2>2, <2>3, MapFates DEF CastStarted
<1> QED BY <1>1, <1>2, <1>3, <1>5 DEF JobsAge, CastStarted

\* What the sweep has still to do keeps its shape.
LEMMA SweepShapeNext ==
    ASSUME RegistryInv, [Next]_vars, Types, ShapeInv, [CaptureNext]_capVars
    PROVE  SweepShape' /\ sweep' \in SweepState
<1>1. sweep \in SweepState /\ SweepShape
  BY DEF Types, ControlTypes, ShapeInv
<1>2. ASSUME sweep' \in SweepState, sweep'.expired \subseteq sweep.expired,
             sweep'.released \subseteq sweep.released, sweep'.pc = "idle" => sweep' = NoSweep
      PROVE  SweepShape'
  <2>1. \A s \in sweep'.expired : sessions'[s].status = "gone"
    BY <1>1, <1>2, SessionsStay DEF SweepShape, SweepState, RegistryInv
  <2>2. \A b \in sweep'.released : Known(b)' /\ leases'[b].state # "active"
    BY <1>1, <1>2, Retired DEF SweepShape, SweepState
  <2> QED BY <1>2, <2>1, <2>2 DEF SweepShape
<1>3. CASE sweep' = sweep
  BY <1>1, <1>2, <1>3 DEF SweepShape
<1>4. CASE SweepExpire
  <2> DEFINE E == ExpiredIds(clock, InFlight)
  <2>1. PICK batch : ExpireBatch(E, batch)
    BY <1>4 DEF SweepExpire, ExpireSessions
  <2>2. E \in SUBSET Sessions /\ ToRelease(E) \in SUBSET Tabs
    BY DEF ExpiredIds, ToRelease
  <2>3. sweep' = [pc |-> "next", expired |-> E, released |-> ToRelease(E)]
    BY <1>4 DEF SweepExpire
  <2> HIDE DEF E
  <2>4. \A s \in E : sessions'[s].status = "gone"
    BY <2>1, <2>2 DEF ExpireBatch, Gone
  <2>5. \A b \in ToRelease(E) : b \notin ToClose(E)
    BY <2>2, DutiesHandedOver
  <2>6. \A b \in ToRelease(E) : leases'[b].state = "released"
    BY <2>1, <2>2, <2>5, ExpireEffects
  <2> QED BY <2>2, <2>3, <2>4, <2>6 DEF SweepShape, SweepState, Known
<1>5. CASE SweepCancels \/ SweepRemovesArtifacts \/ \E b \in Tabs : SweepResets(b)
  <2>1. /\ sweep' \in SweepState /\ sweep'.expired = sweep.expired
        /\ sweep'.released \subseteq sweep.released /\ sweep'.pc # "idle"
    BY ZenonT(60), <1>1, <1>5 DEF SweepCancels, SweepRemovesArtifacts, SweepResets, SweepState
  <2> QED BY <1>2, <2>1
<1>6. CASE SweepEnds
  BY <1>1, <1>2, <1>6 DEF SweepEnds, NoSweep, SweepState
<1>7. \/ sweep' = sweep
      \/ SweepExpire \/ SweepCancels \/ SweepRemovesArtifacts \/ SweepEnds
      \/ \E b \in Tabs : SweepResets(b)
  BY Steps, BackgroundFootprint, ActFootprint
<1> QED BY <1>1, <1>3, <1>4, <1>5, <1>6, <1>7

(***************************************************************************)
(* A tab keeps its target for whoever remembers it.                        *)
(***************************************************************************)
LEMMA AimsBack ==
    ASSUME RegistryInv, [Next]_vars, Types, ShapeInv,
           \A c \in Calls : Starts(c) => job[call[c].job] = NoJob, [CaptureNext]_capVars,
           NEW b \in Tabs, NEW t \in Targets, Aims(b, t)'
    PROVE  Aims(b, t) \/ (leases[b].state = "unissued" /\ leases'[b].target = t)
<1> DEFINE Goal == Aims(b, t) \/ (leases[b].state = "unissued" /\ leases'[b].target = t)
<1>1. ASSUME Known(b)', leases'[b].target = t
      PROVE  Goal
  <2>1. Fate(b)
    BY LeaseFates
  <2> QED BY <1>1, <2>1 DEF Fate, Ages, Known, Aims, Removed
<1>2. ASSUME NEW c \in Calls, call'[c].method \in TabMethods, call'[c].tab = b,
             call'[c].target = t
      PROVE  Goal
  <2>1. CallFate(c)
    BY CallFates
  <2>2. call'[c] # NoCall
    BY <1>2, MethodKinds DEF NoCall
  <2>3. ~Fresh(c)
    BY <1>2, NoneAssumption DEF Fresh
  <2>4. CASE call'[c] = call[c]
    BY <1>2, <2>4 DEF Aims, Is
  <2>5. CASE Going(c)
    BY <1>2, <2>5 DEF Going, SameTarget, Aims, Is
  <2> QED BY <2>1, <2>2, <2>3, <2>4, <2>5 DEF CallFate
<1>3. ASSUME NEW j \in Jobs, job'[j].tab = b, job'[j].target = t
      PROVE  Goal
  <2>1. CASE JobAges(j) \/ job'[j] = job[j]
    BY <1>3, <2>1 DEF JobAges, Aims
  <2>2. ASSUME NEW c \in Calls, Starting(c)
        PROVE  Goal
    <3>1. Is(c, TabMethods)
      BY <2>2, MethodTable, MethodKinds DEF Starting, ShapeInv, Shape, At, Is
    <3>2. CASE j = call[c].job
      BY <1>3, <2>2, <3>1, <3>2 DEF Starting, NewJob, Aims
    <3>3. CASE j # call[c].job
      BY <2>1, <2>2, <3>3 DEF Starting
    <3> QED BY <3>2, <3>3
  <2> QED BY <2>1, <2>2, JobFates DEF JobsAge, CastStarted
<1> QED BY <1>1, <1>2, <1>3 DEF Aims, Is

\* Nobody remembers a tab that was not issued.
LEMMA NobodyAims ==
    ASSUME Types, ShapeInv, NEW b \in Tabs, leases[b].state = "unissued", NEW t \in Targets
    PROVE  ~Aims(b, t)
<1>1. \A j \in Jobs : job[j].phase = "unborn" => job[j].target = None
  BY DEF ShapeInv, JobShape, NoJob
<1> QED BY <1>1, NoneAssumption DEF Aims, Known, ShapeInv, Shape, JobShape

\* The invariant of types and shapes is inductive beside that of the registry.
LEMMA AimNext ==
    ASSUME RegistryInv, [Next]_vars, Types, ShapeInv,
           \A c \in Calls : Starts(c) => job[call[c].job] = NoJob, [CaptureNext]_capVars
    PROVE  AimInv'
<1>1. ASSUME NEW b \in Tabs, NEW t \in Targets, NEW u \in Targets, Aims(b, t)', Aims(b, u)'
      PROVE  t = u
  BY <1>1, AimsBack, NobodyAims DEF ShapeInv, AimInv
<1> QED BY <1>1 DEF AimInv

(***************************************************************************)
(* Types.                                                                  *)
(***************************************************************************)
LEMMA CleanType == Clean \in Emulation
BY DEF Clean, Emulation, Maybe

\* What a reset of a page may leave is an emulation.
LEMMA ResetsType ==
    ASSUME Types, NEW t \in Targets
    PROVE  Resets(t) \subseteq [Targets -> Emulation]
<1>1. emulated \in [Targets -> Emulation] /\ emulated[t] \in Emulation
  BY DEF Types, PageTypes
<1>2. ASSUME NEW S
      PROVE  [k \in Overrides |-> IF k \in S THEN None ELSE emulated[t][k]] \in Emulation
  BY <1>1 DEF Emulation, Maybe
<1>3. ASSUME NEW f \in Resets(t)
      PROVE  f \in [Targets -> Emulation]
  <2>1. PICK S : f = [emulated EXCEPT ![t] = [k \in Overrides |-> IF k \in S THEN None ELSE @[k]]]
    BY <1>3 DEF Resets
  <2> DEFINE g == [k \in Overrides |-> IF k \in S THEN None ELSE emulated[t][k]]
  <2>2. g \in Emulation
    BY <1>2
  <2>3. f = [emulated EXCEPT ![t] = g]
    BY <1>1, <2>1
  <2> HIDE DEF g
  <2> QED BY <1>1, <2>2, <2>3
<1> QED BY <1>3

\* The places where a request has its target.
LEMMA HasTarget ==
    ASSUME RegistryInv, Types, NEW c \in Calls, Shape(c),
           call[c].pc \notin {"idle", "handle", "reconcile", "check"}
    PROVE  call[c].target \in Targets
<1>1. call[c].method \in TabMethods \cup ClaimMethods
  <2>1. call[c].pc \in Pcs /\ call[c].method \in MethodsAt(call[c].pc)
    BY DEF Types, CallTypes, CallState, Shape
  <2> QED BY <2>1, MethodTable, MethodKinds DEF Pcs
<1> QED BY <1>1 DEF Shape, Aimed, Is

\* The pages keep their types,
LEMMA PageTypesNext ==
    ASSUME RegistryInv, Types, ShapeInv, [CaptureNext]_capVars
    PROVE  PageTypes'
<1>0. /\ page \in [Targets -> PageState] /\ emulated \in [Targets -> Emulation]
      /\ viewport_overrides \in [Targets -> Maybe(Sessions)] /\ profile \in Profiles
  BY DEF Types, PageTypes
<1>1. profile' = profile
  BY Steps, ActFootprint, BackgroundFootprint
<1>a. \A x \in sweep_closes : x.target \in Targets
  BY DEF RegistryInv, TypeOK, SweepClose
<1>b. \A b \in Tabs : Known(b) => leases[b].target \in Targets
  BY DEF RegistryInv, TargetInv, LeasesComplete
<1>2. page' \in [Targets -> PageState]
  <2>1. ASSUME NEW t \in Targets PROVE PageGone(t) \in [Targets -> PageState]
    BY <1>0 DEF PageGone, PageState
  <2>2. ASSUME NEW c \in Calls, NEW b \in Tabs, NewTab(c, b) PROVE page' \in [Targets -> PageState]
    BY <1>0, <2>2 DEF NewTab, PageState
  <2>3. ASSUME NEW c \in Calls, ClosePage(c) PROVE page' \in [Targets -> PageState]
    BY <2>1, <2>3, HasTarget DEF ClosePage, At, ShapeInv
  <2>4. ASSUME ExpiredCloses PROVE page' \in [Targets -> PageState]
    BY <1>0, <1>a, <2>1, <2>4 DEF ExpiredCloses, SweepCloses
  <2>5. ASSUME \E t \in Targets : HumanCloses(t) PROVE page' \in [Targets -> PageState]
    BY <2>1, <2>5 DEF HumanCloses
  <2> QED BY <1>0, <2>2, <2>3, <2>4, <2>5, Steps, ActFootprint, BackgroundFootprint
<1>3. emulated' \in [Targets -> Emulation]
  <2>1. ASSUME NEW t \in Targets
        PROVE  /\ [emulated EXCEPT ![t] = Clean] \in [Targets -> Emulation]
               /\ Resets(t) \subseteq [Targets -> Emulation]
    BY <1>0, CleanType, ResetsType
  <2>2. ASSUME NEW c \in Calls, Command(c) PROVE emulated' \in [Targets -> Emulation]
    <3>1. call[c].target \in Targets /\ call[c].commands \in Seq(Commands) \ {<<>>}
      BY <2>2, HasTarget DEF Command, At, ShapeInv, Shape, Types, CallTypes, CallState
    <3>2. PICK t \in Targets, x \in Commands : t = call[c].target /\ x = Head(call[c].commands)
      BY <3>1
    <3>3. \/ emulated' = emulated
          \/ emulated' = [emulated EXCEPT ![t][x.override] = x.by]
      BY <2>2, <3>2 DEF Command
    <3>4. [emulated[t] EXCEPT ![x.override] = x.by] \in Emulation
      BY <1>0 DEF Commands, Emulation
    <3> QED BY <1>0, <3>3, <3>4
  <2>3. ASSUME NEW c \in Calls, ClosePage(c) \/ ClosePageFails(c)
        PROVE  emulated' \in [Targets -> Emulation]
    <3>1. call[c].target \in Targets
      BY <2>3, HasTarget DEF ClosePage, ClosePageFails, At, ShapeInv
    <3> QED BY <2>1, <2>3, <3>1 DEF ClosePage, ClosePageFails
  <2>4. ASSUME ExpiredCloses PROVE emulated' \in [Targets -> Emulation]
    BY <1>a, <2>1, <2>4 DEF ExpiredCloses, SweepCloses
  <2>5. ASSUME NEW b \in Tabs, SweepResets(b) PROVE emulated' \in [Targets -> Emulation]
    <3>1. leases[b].target \in Targets
      BY <1>b, <2>5 DEF SweepResets, ShapeInv, SweepShape
    <3> QED BY <2>1, <2>5, <3>1 DEF SweepResets
  <2>6. ASSUME \E t \in Targets : HumanCloses(t) PROVE emulated' \in [Targets -> Emulation]
    BY <2>1, <2>6 DEF HumanCloses
  <2> QED
    BY <1>0, <2>2, <2>3, <2>4, <2>5, <2>6, Steps, ActFootprint, BackgroundFootprint
    DEF SameEmulation
<1>4. viewport_overrides' \in [Targets -> Maybe(Sessions)]
  <2> DEFINE V == [Targets -> Maybe(Sessions)]
  <2>1. /\ \A S : Without(viewport_overrides, S) \in V
        /\ \A t : [viewport_overrides EXCEPT ![t] = None] \in V
        /\ \A t, s \in Maybe(Sessions) : [viewport_overrides EXCEPT ![t] = s] \in V
    BY <1>0 DEF Without, Maybe
  <2>2. ASSUME NEW c \in Calls, Acts(c)
        PROVE  \/ viewport_overrides' = viewport_overrides
               \/ RecordOverride(c)
               \/ \E S : viewport_overrides' = Without(viewport_overrides, S)
               \/ \E t : viewport_overrides' = [viewport_overrides EXCEPT ![t] = None]
    BY <2>2
    DEF Acts, ClientStep, ToolStep, HandoverStep, Send, NewTab, ValidateTool, CheckOwned,
        Reconcile, TakeTraces, TraceStarts, ReloadTraced, StopTrace, StoreArtifact, Capture,
        DeleteArtifact, AuditStarts, AuditRuns, Emulate, Command, ReserveArtifact, RefusedCast,
        TakeJobs, CastStarts, CastFails, StopCast, LookUpClaim, TakeoverStopsTrace,
        TakeoverCancels, Claim, ClaimRefused, Forgotten, ValidateRelease, ReleaseUntraced,
        Release, ValidateClose, Reserve, ClosePage, ClosePageFails, CommitClose, OnlyCall,
        NoBrowserWork, pageVars
  <2>3. ASSUME NEW c \in Calls, RecordOverride(c) PROVE viewport_overrides' \in V
    <3>1. call[c].session \in Sessions
      BY <2>3 DEF RecordOverride, At, ShapeInv, Shape
    <3> QED BY <2>1, <2>3, <3>1 DEF RecordOverride, Maybe
  <2>4. ASSUME Background
        PROVE  \/ viewport_overrides' = viewport_overrides
               \/ \E S : viewport_overrides' = Without(viewport_overrides, S)
               \/ \E t : viewport_overrides' = [viewport_overrides EXCEPT ![t] = None]
    BY <2>4
    DEF Background, Begin, JobStep, SourceStops, SourceFails, CaptureEnds, Finalize, OnlyJobs,
        SweepStep, SweepExpire, SweepCancels, SweepRemovesArtifacts, SweepEnds, SweepResets,
        SweepCloses, ShutsDown, CancelAll, TimePasses, HumanCloses, NoBrowserWork, pageVars,
        capVars
  <2>5. viewport_overrides \in V
    BY <1>0
  <2> HIDE DEF V
  <2>6. viewport_overrides' \in V
    BY <2>1, <2>2, <2>3, <2>4, <2>5, Steps
  <2> QED BY <2>6 DEF V
<1> QED BY <1>0, <1>1, <1>2, <1>3, <1>4 DEF PageTypes

\* the trace gate keeps its type,
LEMMA TraceTypesNext ==
    ASSUME RegistryInv, Types, ShapeInv, [CaptureNext]_capVars
    PROVE  TraceTypes'
<1>0. traces \in SUBSET Targets /\ trace_lock \in Maybe(Calls) /\ None \in Maybe(Calls)
  BY DEF Types, TraceTypes, Maybe
<1>1. ASSUME NEW c \in Calls, Acts(c)
      PROVE  trace_lock' \in {trace_lock, c, None}
  BY <1>1
  DEF Acts, ClientStep, ToolStep, HandoverStep, Send, NewTab, ValidateTool, CheckOwned,
      Reconcile, TakeTraces, TraceStarts, ReloadTraced, StopTrace, StoreArtifact, Capture,
      DeleteArtifact, AuditStarts, AuditRuns, Emulate, Command, RecordOverride,
      ReserveArtifact, RefusedCast, TakeJobs, CastStarts, CastFails, StopCast, LookUpClaim,
      TakeoverStopsTrace, TakeoverCancels, Claim, ClaimRefused, ValidateRelease,
      ReleaseUntraced, Release, ValidateClose, Reserve, ClosePage, ClosePageFails,
      CommitClose, OnlyCall, NoBrowserWork, traceVars
<1>2. ASSUME Background PROVE trace_lock' = trace_lock
  BY <1>2
  DEF Background, Begin, JobStep, SourceStops, SourceFails, CaptureEnds, Finalize, OnlyJobs,
      SweepStep, SweepExpire, SweepCancels, SweepRemovesArtifacts, SweepEnds, SweepResets,
      SweepCloses, ShutsDown, CancelAll, TimePasses, HumanCloses, NoBrowserWork, traceVars,
      capVars
<1>3. ASSUME NEW c \in Calls, Acts(c) PROVE traces' \in SUBSET Targets
  <2>1. TraceStarts(c) => call[c].target \in Targets
    BY HasTarget DEF TraceStarts, At, ShapeInv
  <2> QED
    BY <1>0, <1>3, <2>1, ActFootprint
    DEF SameTraces, TraceStarts, StopTrace, TakeoverStopsTrace, Reconcile
<1>4. ASSUME Background PROVE traces' \in SUBSET Targets
  BY <1>0, <1>4, BackgroundFootprint
  DEF SameTraces, SweepExpire, ExpiredCloses, SweepCloses, traceVars
<1> QED BY <1>0, <1>1, <1>2, <1>3, <1>4, Steps DEF TraceTypes, Maybe

\* files, records and reservations keep theirs,
LEMMA ArtifactTypesNext ==
    ASSUME RegistryInv, Types, ShapeInv, [CaptureNext]_capVars
    PROVE  ArtifactTypes'
<1>0. /\ reservations \in SUBSET Jobs /\ records \in SUBSET Record
      /\ files \in SUBSET FileState
  BY DEF Types, ArtifactTypes
<1>a. ASSUME NEW s \in Sessions, NEW k \in Jobs \cup {"tool"},
             NEW part \in {"whole", "partial", "temporary"}
      PROVE  RecordOf(s, k) \in Record /\ File(RecordOf(s, k), part) \in FileState
  BY DEF RecordOf, Record, File, FileState
<1>1. ASSUME NEW c \in Calls, Acts(c) PROVE ArtifactTypes'
  <2>1. ASSUME ~At(c, "idle") PROVE call[c].session \in Sessions
    BY <2>1 DEF ShapeInv, Shape
  <2>2. CASE UNCHANGED artifactVars
    BY <1>0, <2>2 DEF artifactVars, ArtifactTypes
  <2>3. CASE StoreArtifact(c)
    <3>1. /\ RecordOf(call[c].session, "tool") \in Record
          /\ File(RecordOf(call[c].session, "tool"), "whole") \in FileState
          /\ File(RecordOf(call[c].session, "tool"), "temporary") \in FileState
      BY <1>a, <2>1, <2>3 DEF StoreArtifact, At
    <3> QED BY <1>0, <2>3, <3>1 DEF StoreArtifact, ArtifactTypes
  <2>4. CASE DeleteArtifact(c)
    BY <1>0, <2>4 DEF DeleteArtifact, ArtifactTypes
  <2>5. CASE RefusedCast(c) \/ CastFails(c)
    BY <1>0, <2>5 DEF RefusedCast, CastFails, Discard, ArtifactTypes
  <2>6. ASSUME NEW j \in Jobs, ReserveArtifact(c, j) PROVE ArtifactTypes'
    <3>1. PartialFile(call[c].session, j) \in FileState
      BY <1>a, <2>1, <2>6 DEF ReserveArtifact, At, PartialFile
    <3> QED BY <1>0, <2>6, <3>1 DEF ReserveArtifact, ArtifactTypes
  <2> QED BY <1>1, <2>2, <2>3, <2>4, <2>5, <2>6, ActFootprint
<1>2. ASSUME Background PROVE ArtifactTypes'
  <2>1. CASE UNCHANGED artifactVars
    BY <1>0, <2>1 DEF artifactVars, ArtifactTypes
  <2>2. CASE SweepRemovesArtifacts
    BY <1>0, <2>2 DEF SweepRemovesArtifacts, Unreserved, ArtifactTypes
  <2>3. ASSUME NEW j \in Jobs, Finalize(j) PROVE ArtifactTypes'
    <3>1. job[j].session \in Sessions
      BY <2>3 DEF Finalize, ShapeInv, JobShape
    <3>2. /\ RecordOf(job[j].session, j) \in Record
          /\ File(RecordOf(job[j].session, j), "whole") \in FileState
      BY <1>a, <3>1
    <3> QED BY <1>0, <2>3, <3>2 DEF Finalize, Discard, ArtifactTypes
  <2> QED BY <1>2, <2>1, <2>2, <2>3, BackgroundFootprint
<1> QED BY <1>1, <1>2, Steps

\* and so do the sweep, the locks and the shutdown.
LEMMA ControlTypesNext ==
    ASSUME RegistryInv, [Next]_vars, Types, ShapeInv, [CaptureNext]_capVars
    PROVE  ControlTypes'
<1>0. history \in History /\ traces \in SUBSET Targets
      /\ shutdown \in {"no", "draining", "cancelled"}
  BY DEF Types, ControlTypes, TraceTypes
<1>1. sweep' \in SweepState
  BY SweepShapeNext
<1>2. shutdown' \in {"no", "draining", "cancelled"}
  BY <1>0, Steps, ActFootprint, BackgroundFootprint DEF ShutsDown, CancelAll
<1>a. \A x \in sweep_closes : x.target \in Targets
  BY DEF RegistryInv, TypeOK, SweepClose
<1>b. \A b \in Tabs : Known(b) => leases[b].target \in Targets
  BY DEF RegistryInv, TargetInv, LeasesComplete
<1>3. history' \in History
  <2>1. ASSUME NEW c \in Calls, Acts(c)
        PROVE  history' = history \/ TraceStarts(c) \/ Command(c)
    BY <2>1
    DEF Acts, ClientStep, ToolStep, HandoverStep, Send, NewTab, ValidateTool, CheckOwned,
        Reconcile, TakeTraces, ReloadTraced, StopTrace, StoreArtifact, Capture,
        DeleteArtifact, AuditStarts, AuditRuns, Emulate, RecordOverride,
        ReserveArtifact, RefusedCast, TakeJobs, CastStarts, CastFails, StopCast, LookUpClaim,
        TakeoverStopsTrace, TakeoverCancels, Claim, ClaimRefused, ValidateRelease,
        ReleaseUntraced, Release, ValidateClose, Reserve, ClosePage, ClosePageFails,
        CommitClose, OnlyCall, NoBrowserWork
  <2>2. ASSUME NEW c \in Calls, TraceStarts(c) \/ Command(c) PROVE history' \in History
    <3>1. call[c].target \in Targets
      BY <2>2, HasTarget DEF TraceStarts, Command, At, ShapeInv
    <3>2. CASE TraceStarts(c)
      BY <1>0, <3>1, <3>2 DEF TraceStarts, History
    <3>3. CASE Command(c)
      <4>1. CASE history' = history
        BY <1>0, <4>1
      <4>2. CASE history' # history
        <5> DEFINE t == call[c].target
                   L == IF Head(call[c].commands).by # None /\ HandedOver(c)
                        THEN history.late \cup {t}
                        ELSE IF emulated'[t] = Clean THEN history.late \ {t} ELSE history.late
                   U == IF emulated'[t] = Clean THEN history.unreset \ {t} ELSE history.unreset
        <5>1. L \in SUBSET Targets /\ U \in SUBSET Targets
          BY <1>0, <3>1 DEF History
        <5>2. history' = [history EXCEPT !.late = L, !.unreset = U]
          BY <3>3, <4>2 DEF Command
        <5> HIDE DEF L, U, t
        <5> QED BY <1>0, <5>1, <5>2 DEF History
      <4> QED BY <4>1, <4>2
    <3> QED BY <2>2, <3>2, <3>3
  <2>3. ASSUME Background
        PROVE  \/ history' = history \/ SweepExpire \/ ExpiredCloses
               \/ \E b \in Tabs : SweepResets(b)
    BY <2>3
    DEF Background, Begin, JobStep, SourceStops, SourceFails, CaptureEnds, Finalize, OnlyJobs,
        SweepStep, SweepCancels, SweepRemovesArtifacts, SweepEnds, ExpiredCloses,
        ShutsDown, CancelAll, TimePasses, HumanCloses, NoBrowserWork, capVars
  <2>4. CASE SweepExpire
    BY <1>0, <2>4 DEF SweepExpire, History
  <2>5. CASE ExpiredCloses
    BY <1>0, <1>a, <2>5 DEF ExpiredCloses, SweepCloses, History
  <2>6. ASSUME NEW b \in Tabs, SweepResets(b) PROVE history' \in History
    <3>1. leases[b].target \in Targets
      BY <1>b, <2>6 DEF SweepResets, ShapeInv, SweepShape
    <3>2. PICK t \in Targets : t = leases[b].target
      BY <3>1
    <3>3. \/ history' = [history EXCEPT !.late = @ \ {t}, !.unreset = @ \ {t}]
          \/ history' = [history EXCEPT !.unreset = @ \cup {t}]
      BY <2>6, <3>2 DEF SweepResets
    <3> QED BY <1>0, <3>3 DEF History
  <2> QED BY <1>0, <2>1, <2>2, <2>3, <2>4, <2>5, <2>6, Steps
<1> QED BY <1>1, <1>2, <1>3 DEF ControlTypes

StartsClean == \A c \in Calls : Starts(c) => job[call[c].job] = NoJob

\* Types and shapes hold after every step.
LEMMA ShapesStay ==
    ASSUME RegistryInv, Types, ShapeInv, StartsClean, [CaptureNext]_capVars
    PROVE  Types' /\ ShapeInv' /\ RegistryInv' /\ [Next]_vars
<1>1. [Next]_vars
  BY StepsTheRegistry
<1>2. RegistryInv'
  BY <1>1, RegistryStep
<1>3. CastTypes'
  BY JobFates, MapFates DEF StartsClean, CastTypes
<1>4. Types'
  BY <1>1, <1>3, PageTypesNext, TraceTypesNext, ArtifactTypesNext, ControlTypesNext, ShapesNext
  DEF Types, CallTypes
<1>5. ShapeInv'
  BY <1>1, ShapesNext, JobShapesNext, SweepShapeNext, AimNext DEF ShapeInv, StartsClean
<1> QED BY <1>1, <1>2, <1>4, <1>5

(***************************************************************************)
(* Recorders.                                                              *)
(***************************************************************************)
LEMMA Parts ==
    ASSUME CaptureInv
    PROVE  /\ RegistryInv /\ Types /\ ShapeInv /\ StartsClean
           /\ \A c \in Calls : Starts(c) => job[call[c].job] = NoJob
           /\ CastInv /\ RecordersAreAnsweredFor /\ ReserveInv /\ ArtifactsFollowSessions
           /\ TraceInv /\ PageInv /\ EmulationInv
BY DEF CaptureInv, ReserveInv, StartsClean

\* The cancellation of a job, and its end, are for good.
LEMMA UncancelledBack ==
    ASSUME NEW j \in Jobs, JobAges(j)
    PROVE  /\ Unfinished(j)' => Unfinished(j)
           /\ Uncancelled(j)' => Uncancelled(j)
           /\ job'[j].tab = job[j].tab /\ job'[j].target = job[j].target
           /\ job'[j].session = job[j].session
BY DEF JobAges, Unfinished, Uncancelled

\* A request that is about to act on a tab has the target of the tab's job.
LEMMA SameTabSameTarget ==
    ASSUME Types, ShapeInv, NEW c \in Calls, At(c, "jobs") \/ At(c, "casting"),
           NEW j \in Jobs, job[j].phase # "unborn", job[j].tab = call[c].tab
    PROVE  job[j].target = call[c].target
<1>1. Is(c, TabMethods) /\ call[c].tab \in Tabs /\ call[c].target \in Targets
  BY MethodTable, MethodKinds DEF ShapeInv, Shape, At, Is, Aimed
<1>2. job[j].target \in Targets
  BY DEF ShapeInv, JobShape
<1> QED BY <1>1, <1>2 DEF ShapeInv, AimInv, Aims

\* What takes a job out of the map cancels it, or has found it finished.
LEMMA MapKeeps ==
    ASSUME RegistryInv, Types, ShapeInv, StartsClean, CastInv, [CaptureNext]_capVars,
           NEW j \in Jobs, Uncancelled(j), Uncancelled(j)'
    PROVE  screencasts'[job[j].tab] = j
<1> DEFINE b == job[j].tab
<1>0. /\ b \in Tabs /\ screencasts[b] = j /\ job[j].phase # "unborn" /\ j # None
      /\ job[j].target \in Targets
  BY NamesAssumption DEF CastInv, Uncancelled, Unfinished, ShapeInv, JobShape
<1>a. screencasts \in [Tabs -> Maybe(Jobs)] /\ job \in [Jobs -> JobState]
  BY DEF Types, CastTypes
<1>b. \A J : job' = Cancelled(J) => j \notin J
  BY <1>a DEF Cancelled, Uncancelled, JobState
<1>c. Unfinished(j) /\ job[j].tab = b
  BY DEF Uncancelled
<1> HIDE DEF b
<1>1. CASE Background
  <2>1. \/ SameCasts \/ SweepCancels \/ ExpiredCloses \/ CancelAll
        \/ \E k \in Jobs : JobStep(k)
    BY <1>1, BackgroundFootprint
  <2>2. CASE SameCasts \/ \E k \in Jobs : JobStep(k)
    BY <1>0, <2>2
    DEF SameCasts, JobStep, SourceStops, SourceFails, CaptureEnds, Finalize, OnlyJobs, b
  <2>3. CASE SweepCancels
    <3> DEFINE mine == {d \in Tabs : screencasts[d] # None
                                     /\ job[screencasts[d]].session \in sweep.expired}
    <3>1. /\ screencasts' = Without(screencasts, mine)
          /\ job' = Cancelled({i \in {screencasts[d] : d \in mine} : Unfinished(i)})
      BY <2>3 DEF SweepCancels
    <3>2. j \notin {i \in {screencasts[d] : d \in mine} : Unfinished(i)}
      BY <1>b, <3>1
    <3>3. b \notin mine
      BY <1>0, <1>c, <3>2
    <3> HIDE DEF mine
    <3> QED BY <1>0, <1>a, <3>1, <3>3 DEF Without, b
  <2>4. CASE ExpiredCloses
    <3>1. PICK x : /\ screencasts' = [screencasts EXCEPT ![x.tab] = None]
                   /\ job' = Cancelled({screencasts[x.tab]} \ {None})
      BY <2>4 DEF ExpiredCloses, SweepCloses
    <3>2. x.tab # b
      BY <1>0, <1>b, <3>1
    <3> QED BY <1>0, <1>a, <3>1, <3>2 DEF b
  <2>5. CASE CancelAll
    <3>1. job' = Cancelled({i \in {screencasts[d] : d \in Tabs} \ {None} : Unfinished(i)})
      BY <2>5 DEF CancelAll
    <3>2. j \in {i \in {screencasts[d] : d \in Tabs} \ {None} : Unfinished(i)}
      BY <1>0, <1>c
    <3> QED BY <1>b, <3>1, <3>2
  <2> QED BY <2>1, <2>2, <2>3, <2>4, <2>5
<1>2. ASSUME NEW c \in Calls, Acts(c)
      PROVE  screencasts'[b] = j
  <2>1. \/ SameCasts
        \/ TakeJobs(c) \/ CastStarts(c) \/ CastFails(c) \/ StopCast(c)
        \/ TakeoverCancels(c) \/ CommitClose(c) \/ \E d \in Tabs : Reconcile(c, d)
    BY <1>2, ActFootprint
  <2>2. CASE SameCasts \/ CastFails(c) \/ StopCast(c) \/ TakeoverCancels(c) \/ CommitClose(c)
             \/ \E d \in Tabs : Reconcile(c, d)
    BY <1>0, <2>2
    DEF SameCasts, CastFails, StopCast, TakeoverCancels, CommitClose, Reconcile
  <2>3. CASE TakeJobs(c)
    <3>1. /\ screencasts' = [screencasts EXCEPT ![call[c].tab] = None]
          /\ ~Busy(call[c].target) /\ At(c, "jobs")
      BY <2>3 DEF TakeJobs
    <3>2. j \in Current(job[j].target)
      BY <1>0 DEF Current
    <3>3. job[j].target # call[c].target
      BY <1>c, <3>1, <3>2 DEF Busy
    <3>4. call[c].tab # b
      BY <1>0, <1>c, <3>1, <3>3, SameTabSameTarget
    <3> QED BY <1>0, <1>a, <3>1, <3>4
  <2>4. CASE CastStarts(c)
    <3>1. Starting(c) /\ At(c, "casting")
      BY <2>4, CastStarting DEF ShapeInv, StartsClean, Starting
    <3>2. screencasts[call[c].tab] = None
      BY <3>1 DEF CastInv
    <3> QED BY <1>0, <1>a, <3>1, <3>2 DEF Starting
  <2> QED BY <2>1, <2>2, <2>3, <2>4
<1> QED BY <1>1, <1>2, Steps DEF b

\* Who holds the lock on state.screencasts across the start of its capture is
\* the only one at that place.
LEMMA LockKept ==
    ASSUME RegistryInv, Types, ShapeInv, StartsClean, CastInv, [CaptureNext]_capVars,
           NEW q \in Calls, At(q, "casting")'
    PROVE  \/ call'[q] = call[q] /\ At(q, "casting") /\ cast_lock' = q /\ ~CastStarted
           \/ At(q, "jobs") /\ TakeJobs(q) /\ Moves(q, "casting")
<1>0. \A c \in Calls : At(c, "casting") => cast_lock = c
  BY DEF CastInv
<1>1. CASE Background
  <2>1. call' = call /\ At(q, "casting") /\ cast_lock = q
    BY <1>0, <1>1, BackgroundFootprint DEF At
  <2>2. cast_lock' = cast_lock
    BY <1>1
    DEF Background, Begin, JobStep, SourceStops, SourceFails, CaptureEnds, Finalize, OnlyJobs,
        SweepStep, SweepExpire, SweepCancels, SweepRemovesArtifacts, SweepEnds, SweepResets,
        SweepCloses, ShutsDown, CancelAll, TimePasses, HumanCloses, NoBrowserWork, castVars,
        capVars
  <2>3. ~CastStarted
    <3>1. ASSUME NEW c \in Calls, Starting(c) PROVE FALSE
      <4>1. c = q /\ cast_lock' = None
        BY <1>0, <2>1, <3>1 DEF Starting
      <4> QED BY <2>1, <2>2, <4>1, NamesAssumption
    <3> QED BY <3>1 DEF CastStarted
  <2> QED BY <2>1, <2>2, <2>3
<1>2. ASSUME NEW c \in Calls, Acts(c), c # q
      PROVE  call'[q] = call[q] /\ At(q, "casting") /\ cast_lock' = q /\ ~CastStarted
  <2>1. Path(c)
    BY <1>2, Paths DEF ShapeInv
  <2>2. Rewrites(c)
    BY <2>1
    DEF Path, Ends, Fresh, StepsOn, Finds, Reconciles, Emulates, Minds, Moves, Aimes, Owes,
        Commanded, Assigned, Goes
  <2>3. call'[q] = call[q] /\ At(q, "casting") /\ cast_lock = q /\ ~At(c, "casting")
    BY <1>0, <1>2, <2>2 DEF Rewrites, At
  <2>4. cast_lock # None
    BY <2>3, NamesAssumption
  <2>5. cast_lock' = cast_lock
    BY <1>2, <2>3, <2>4, ActFootprint
    DEF SameCasts, TakeJobs, CastStarts, CastFails, StopCast, TakeoverCancels, CommitClose,
        Reconcile
  <2>6. ~CastStarted
    BY <1>0, <2>3, <2>4, <2>5 DEF CastStarted, Starting
  <2> QED BY <2>3, <2>5, <2>6
<1>3. ASSUME Acts(q)
      PROVE  At(q, "jobs") /\ TakeJobs(q) /\ Moves(q, "casting")
  <2>1. Path(q) /\ Shape(q)
    BY <1>3, Paths DEF ShapeInv
  <2>2. \A c, next : next \in GoesOnAt(c) => next # "casting"
    BY DEF GoesOnAt
  <2>3. call'[q].pc = "casting" /\ NoCall.pc = "idle"
    BY DEF At, NoCall
  <2>4. CASE StepsOn(q)
    BY <2>3, <2>4 DEF StepsOn, Moves, Goes
  <2>5. ~Ends(q) /\ ~Fresh(q) /\ ~Finds(q) /\ ~Reconciles(q) /\ ~Minds(q)
    BY <2>3 DEF Ends, Fresh, Finds, Reconciles, Minds, Aimes, Owes, Assigned, Goes
  <2>6. ~Emulates(q)
    BY <2>1, <2>2, <2>3 DEF Emulates, Commanded, Goes, Shape
  <2> QED BY <2>1, <2>4, <2>5, <2>6 DEF Path
<1> QED BY <1>1, <1>2, <1>3, Steps

\* A target that no job of the map records is not recorded after the step.
LEMMA IdleStays ==
    ASSUME RegistryInv, Types, ShapeInv, StartsClean, [CaptureNext]_capVars, ~CastStarted,
           NEW t \in Targets, ~Busy(t)
    PROVE  ~Busy(t)'
<1>1. MapFate /\ JobsAge
  BY MapFates, JobFates DEF StartsClean
<1>2. \A b \in Tabs : screencasts[b] \in Maybe(Jobs)
  BY DEF Types, CastTypes
<1>3. ASSUME NEW b \in Tabs, NEW j \in Jobs, screencasts'[b] = j, job'[j].target = t,
             Unfinished(j)'
      PROVE  FALSE
  <2>1. screencasts[b] = j /\ job[j].target = t /\ Unfinished(j)
    BY <1>1, <1>3, UncancelledBack, NamesAssumption DEF MapFate, JobsAge
  <2> QED BY <2>1 DEF Busy, Current
<1> QED BY <1>3 DEF Busy, Current

\* The invariant of the jobs and their lock is preserved.
LEMMA CastNext ==
    ASSUME CaptureInv, [CaptureNext]_capVars
    PROVE  CastInv'
<1> USE Parts
<1>a. screencasts \in [Tabs -> Maybe(Jobs)] /\ job \in [Jobs -> JobState]
  BY DEF Types, CastTypes
<1>1. ASSUME NEW q \in Calls, At(q, "casting")'
      PROVE  /\ cast_lock' = q /\ ~Busy(call[q].target)'
             /\ screencasts'[call'[q].tab] = None
  <2>1. CASE call'[q] = call[q] /\ At(q, "casting") /\ cast_lock' = q /\ ~CastStarted
    <3>1. PICK t \in Targets, b \in Tabs : call[q].target = t /\ call[q].tab = b
      BY <2>1, MethodTable, MethodKinds DEF ShapeInv, Shape, At, Is, Aimed
    <3>2. ~Busy(t) /\ screencasts[b] = None
      BY <2>1, <3>1 DEF CastInv
    <3>3. ~Busy(t)'
      BY <2>1, <3>2, IdleStays
    <3>4. screencasts'[b] = None
      BY <2>1, <3>2, MapFates DEF MapFate, StartsClean
    <3> QED BY <2>1, <3>1, <3>3, <3>4
  <2>2. CASE At(q, "jobs") /\ TakeJobs(q) /\ Moves(q, "casting")
    <3>1. PICK t \in Targets, b \in Tabs : call[q].target = t /\ call[q].tab = b
      BY <2>2, MethodTable, MethodKinds DEF ShapeInv, Shape, At, Is, Aimed
    <3>2. call'[q].target = t /\ call'[q].tab = b
      BY <2>2, <3>1 DEF Moves, Goes, SameTarget
    <3>3. cast_lock' = q /\ screencasts'[b] = None /\ ~Busy(t)
      BY <1>a, <2>2, <3>1 DEF TakeJobs
    <3>4. ~CastStarted
      BY <3>3, NamesAssumption DEF CastStarted, Starting
    <3>5. ~Busy(t)'
      BY <3>3, <3>4, IdleStays
    <3> QED BY <3>2, <3>3, <3>5
  <2> QED BY <1>1, <2>1, <2>2, LockKept
<1>2. ASSUME NEW j \in Jobs, Uncancelled(j)'
      PROVE  screencasts'[job'[j].tab] = j
  <2>1. CASE JobAges(j)
    BY <1>2, <2>1, UncancelledBack, MapKeeps
  <2>2. ASSUME NEW c \in Calls, Starting(c)
        PROVE  screencasts'[job'[j].tab] = j
    <3>1. CASE j = call[c].job
      BY <1>a, <2>2, <3>1 DEF Starting, NewJob
    <3>2. CASE j # call[c].job
      <4>1. job'[j] = job[j] /\ Uncancelled(j)
        BY <1>2, <2>2, <3>2 DEF Starting, Uncancelled, Unfinished
      <4> QED BY <1>2, <4>1, MapKeeps
    <3> QED BY <3>1, <3>2
  <2> QED BY <2>1, <2>2, JobFates DEF JobsAge, CastStarted
<1> QED BY <1>1, <1>2 DEF CastInv

\* RecordersAreAnsweredFor is preserved.
LEMMA RecordersNext ==
    ASSUME CaptureInv, [CaptureNext]_capVars
    PROVE  RecordersAreAnsweredFor'
<1> USE Parts
<1>a. screencasts \in [Tabs -> Maybe(Jobs)] /\ job \in [Jobs -> JobState]
  BY DEF Types, CastTypes
<1>b. \A j, k \in Jobs : Uncancelled(j) /\ Uncancelled(k) /\ job[j].target = job[k].target => j = k
  BY DEF RecordersAreAnsweredFor, Uncancelled
\* The job that starts found its target idle.
<1>c. ASSUME NEW c \in Calls, Starting(c), NEW j \in Jobs \ {call[c].job}, Uncancelled(j)'
      PROVE  /\ job'[j] = job[j] /\ Uncancelled(j)
             /\ job[j].target # call[c].target /\ job'[call[c].job].target = call[c].target
  <2>1. job'[j] = job[j] /\ Uncancelled(j) /\ job'[call[c].job].target = call[c].target
    BY <1>c DEF Starting, NewJob, Uncancelled, Unfinished
  <2>2. screencasts[job[j].tab] = j /\ job[j].tab \in Tabs /\ Unfinished(j)
    BY <2>1 DEF CastInv, Uncancelled, Unfinished, ShapeInv, JobShape
  <2>3. Busy(job[j].target)
    BY <2>2 DEF Busy, Current
  <2>4. ~Busy(call[c].target)
    BY <1>c DEF Starting, CastInv
  <2> QED BY <2>1, <2>3, <2>4
<1>1. ASSUME NEW j \in Jobs, NEW k \in Jobs, Uncancelled(j)', Uncancelled(k)',
             job'[j].target = job'[k].target
      PROVE  j = k
  <2>1. CASE JobsAge
    BY <1>1, <1>b, <2>1, UncancelledBack DEF JobsAge
  <2>2. ASSUME NEW c \in Calls, Starting(c)
        PROVE  j = k
    BY <1>1, <1>b, <1>c, <2>2
  <2> QED BY <2>1, <2>2, JobFates DEF CastStarted
<1>2. ASSUME shutdown' = "cancelled", NEW j \in Jobs, Uncancelled(j)'
      PROVE  FALSE
  <2>1. shutdown = "cancelled" \/ CancelAll
    BY <1>2, Steps, ActFootprint, BackgroundFootprint DEF ShutsDown
  <2>2. CASE shutdown = "cancelled"
    <3>1. \A k \in Jobs : ~Uncancelled(k)
      BY <2>2 DEF RecordersAreAnsweredFor, Uncancelled
    <3>2. ~CastStarted
      BY <2>2 DEF CastStarted, Starting
    <3> QED BY <1>2, <3>1, <3>2, JobFates, UncancelledBack DEF JobsAge
  <2>3. CASE CancelAll
    <3>1. ~CastStarted
      BY <2>3 DEF CastStarted, Starting, CancelAll
    <3>2. Uncancelled(j)
      BY <1>2, <3>1, JobFates, UncancelledBack DEF JobsAge
    <3>3. screencasts'[job[j].tab] = j /\ job[j].tab \in Tabs
      BY <1>2, <3>2, MapKeeps DEF Uncancelled, Unfinished, ShapeInv, JobShape
    <3> QED BY <2>3, <3>3, NamesAssumption DEF CancelAll
  <2> QED BY <2>1, <2>2, <2>3
<1> QED BY <1>1, <1>2 DEF RecordersAreAnsweredFor, Uncancelled

(***************************************************************************)
(* Artifacts.                                                              *)
(***************************************************************************)
\* A start that has its artifact goes on with it, gives it up, or hands it to
\* its job.
LEMMA StartActs ==
    ASSUME NEW q \in Calls, Starts(q), Acts(q)
    PROVE  RefusedCast(q) \/ TakeJobs(q) \/ CastStarts(q) \/ CastFails(q)
BY DEF Starts, Acts, ClientStep, ToolStep, HandoverStep, Send, NewTab, ValidateTool, CheckOwned,
       Reconcile, TakeTraces, TraceStarts, ReloadTraced, StopTrace, StoreArtifact, Capture,
       DeleteArtifact, AuditStarts, AuditRuns, Emulate, Command, RecordOverride,
       ReserveArtifact, StopCast, LookUpClaim, TakeoverStopsTrace, TakeoverCancels, Claim,
       ClaimRefused, ValidateRelease, ReleaseUntraced, Release, ValidateClose, Reserve,
       ClosePage, ClosePageFails, CommitClose, At

\* A step of one request leaves the others alone.
LEMMA OthersKept ==
    ASSUME RegistryInv, Types, ShapeInv, [CaptureNext]_capVars, NEW q \in Calls
    PROVE  call'[q] = call[q] \/ Acts(q)
<1>1. ASSUME NEW c \in Calls, Acts(c), c # q PROVE call'[q] = call[q]
  <2>1. Path(c)
    BY <1>1, Paths DEF ShapeInv
  <2>2. Rewrites(c)
    BY <2>1
    DEF Path, Ends, Fresh, StepsOn, Finds, Reconciles, Emulates, Minds, Moves, Aimes, Owes,
        Commanded, Assigned, Goes
  <2> QED BY <1>1, <2>2 DEF Rewrites
<1>2. CASE Background
  BY <1>2, BackgroundFootprint
<1> QED BY <1>1, <1>2, Steps

Resumes(q) == call'[q].job = call[q].job /\ call'[q].session = call[q].session

\* A call that is starting a cast goes on, is refused, fails or starts it;
LEMMA StartsOn ==
    ASSUME RegistryInv, Types, ShapeInv, StartsClean, [CaptureNext]_capVars, NEW q \in Calls,
           Starts(q)
    PROVE  (Starts(q)' /\ Resumes(q)) \/ RefusedCast(q) \/ CastFails(q) \/ Starting(q)
<1>1. CASE call'[q] = call[q]
  BY <1>1 DEF Starts, Resumes
<1>2. CASE Acts(q)
  <2>1. CASE TakeJobs(q)
    <3>1. Moves(q, "casting")
      BY <2>1, GotoMoves DEF TakeJobs, Types, Pcs
    <3> QED BY <3>1 DEF Moves, Goes, SameJob, Starts, Resumes
  <2>2. CASE CastStarts(q)
    BY <2>2, CastStarting DEF ShapeInv, StartsClean
  <2> QED BY <1>2, <2>1, <2>2, StartActs
<1> QED BY <1>1, <1>2, OthersKept

\* and one that is starting a cast was doing so, or has just reserved an artifact for it.
LEMMA StartsBack ==
    ASSUME RegistryInv, Types, ShapeInv, StartsClean, [CaptureNext]_capVars, NEW q \in Calls,
           Starts(q)'
    PROVE  \/ Starts(q) /\ Resumes(q) /\ ~Starting(q)
           \/ /\ ~Starts(q)
              /\ \E j \in Jobs : ReserveArtifact(q, j) /\ Assigned(q, "jobs", j)
<1>0. call'[q].pc \in {"jobs", "casting"} /\ NoCall.pc = "idle"
  BY DEF Starts, NoCall
<1>a. ASSUME Starting(q) PROVE FALSE
  BY <1>0, <1>a, EndEnds DEF Starting, CastStarts, Ends, Types
<1>1. CASE call'[q] = call[q]
  BY <1>1, <1>a DEF Starts, Resumes
<1>2. CASE Acts(q)
  <2>1. Path(q) /\ Shape(q)
    BY <1>2, Paths DEF ShapeInv
  <2>2. \A next \in GoesOnAt(q) : next \notin {"jobs", "casting"}
    BY DEF GoesOnAt
  <2>3. CASE StepsOn(q)
    <3>1. At(q, "jobs") /\ Moves(q, "casting")
      BY <1>0, <2>3 DEF StepsOn, Moves, Goes
    <3> QED BY <1>a, <3>1 DEF Starts, Resumes, Moves, Goes, SameJob, At
  <2>4. CASE Minds(q)
    <3>1. PICK j \in Jobs : At(q, "act") /\ ReserveArtifact(q, j) /\ Assigned(q, "jobs", j)
      BY <1>0, <2>4 DEF Minds, Assigned, Goes
    <3> QED BY <3>1 DEF At, Starts
  <2>5. ~Ends(q) /\ ~Fresh(q) /\ ~Finds(q) /\ ~Reconciles(q)
    BY <1>0 DEF Ends, Fresh, Finds, Reconciles, Aimes, Owes, Goes
  <2>6. ~Emulates(q)
    BY <1>0, <2>1, <2>2 DEF Emulates, Commanded, Goes, Shape
  <2> QED BY <2>1, <2>3, <2>4, <2>5, <2>6 DEF Path
<1> QED BY <1>1, <1>2, OthersKept

\* A session keeps its artifacts until the sweep removes them.
LEMMA KeepsOn ==
    ASSUME RegistryInv, Types, ShapeInv, [CaptureNext]_capVars, NEW s \in Sessions,
           KeepsArtifacts(s)
    PROVE  KeepsArtifacts(s)' \/ (SweepRemovesArtifacts /\ s \in sweep.expired)
<1>1. CASE Live(s)
  <2>1. CASE SweepExpire /\ s \in ExpiredIds(clock, InFlight)
    <3> DEFINE E == ExpiredIds(clock, InFlight)
    <3>1. sweep' = [pc |-> "next", expired |-> E, released |-> ToRelease(E)] /\ s \in E
      BY <2>1 DEF SweepExpire
    <3> HIDE DEF E
    <3> QED BY <3>1 DEF KeepsArtifacts, Removing
  <2> QED BY <1>1, <2>1, LiveStays DEF KeepsArtifacts
<1>2. CASE Removing(s)
  <2>0. sweep \in SweepState
    BY DEF Types, ControlTypes
  <2>1. \/ sweep' = sweep
        \/ SweepExpire \/ SweepCancels \/ SweepRemovesArtifacts \/ SweepEnds
        \/ \E b \in Tabs : SweepResets(b)
    BY Steps, BackgroundFootprint, ActFootprint
  <2>2. CASE SweepCancels
    BY <1>2, <2>0, <2>2 DEF SweepCancels, Removing, KeepsArtifacts, SweepState
  <2> QED
    BY <1>2, <2>1, <2>2
    DEF SweepExpire, SweepEnds, SweepResets, Removing, KeepsArtifacts
<1> QED BY <1>1, <1>2 DEF KeepsArtifacts

\* What is written into the artifact directories.
LEMMA FileFields ==
    /\ \A f \in FileState : f = File(f.of, f.part) /\ f.of \in Record
    /\ \A r \in Record : r = RecordOf(r.session, r.from) /\ r.session \in Sessions
    /\ \A r, p : File(r, p).of = r /\ File(r, p).part = p
    /\ \A s, k : RecordOf(s, k).session = s /\ RecordOf(s, k).from = k
BY DEF FileState, Record, File, RecordOf

\* The jobs whose starts have not decided yet stay unborn, and nobody else has
\* their reservation.
LEMMA StartsNext ==
    ASSUME CaptureInv, [CaptureNext]_capVars
    PROVE  /\ \A c \in Calls : Starts(c)' => job'[call'[c].job] = NoJob
           /\ \A c, d \in Calls : Starts(c)' /\ Starts(d)' /\ call'[c].job = call'[d].job => c = d
<1> USE Parts
<1>a. \A c \in Calls : Starts(c) => call[c].job \in Jobs /\ job[call[c].job] = NoJob
  BY DEF Starts, ShapeInv, Shape, StartsClean
<1>b. \A c, d \in Calls : Starts(c) /\ Starts(d) /\ call[c].job = call[d].job => c = d
  BY DEF ReserveInv
<1>c. \A c \in Calls, j \in Jobs : Assigned(c, "jobs", j) =>
         /\ call'[c].job = j /\ \A d \in Calls \ {c} : call'[d] = call[d]
  BY DEF Assigned, Goes, Rewrites
<1>1. ASSUME NEW q \in Calls, Starts(q)'
      PROVE  job'[call'[q].job] = NoJob
  <2>1. CASE Starts(q) /\ Resumes(q) /\ ~Starting(q)
    <3>1. PICK j \in Jobs : j = call[q].job /\ j = call'[q].job /\ job[j] = NoJob
      BY <1>a, <2>1 DEF Resumes
    <3>2. CASE JobAges(j)
      BY <3>1, <3>2 DEF JobAges, NoJob
    <3>3. ASSUME NEW c \in Calls, Starting(c)
          PROVE  job'[j] = NoJob
      <4>1. Starts(c) /\ c # q
        BY <2>1, <3>3 DEF Starting, Starts, At
      <4>2. call[c].job # j
        BY <1>b, <2>1, <3>1, <4>1
      <4> QED BY <3>1, <3>3, <4>2 DEF Starting
    <3> QED BY <3>1, <3>2, <3>3, JobFates DEF JobsAge, CastStarted
  <2>2. ASSUME NEW j \in Jobs, ReserveArtifact(q, j), Assigned(q, "jobs", j)
        PROVE  job'[call'[q].job] = NoJob
    BY <1>c, <2>2 DEF ReserveArtifact
  <2> QED BY <1>1, <2>1, <2>2, StartsBack
<1>2. ASSUME NEW c \in Calls, NEW d \in Calls, NEW j \in Jobs, c # d,
             ReserveArtifact(c, j), Assigned(c, "jobs", j), Starts(d)'
      PROVE  call'[c].job # call'[d].job
  <2>1. call'[d] = call[d] /\ call'[c].job = j
    BY <1>c, <1>2
  <2> QED BY <1>2, <2>1 DEF ReserveArtifact
<1>3. ASSUME NEW c \in Calls, NEW d \in Calls, Starts(c)', Starts(d)',
             call'[c].job = call'[d].job, c # d
      PROVE  FALSE
  <2>1. CASE Starts(c) /\ Resumes(c) /\ Starts(d) /\ Resumes(d)
    BY <1>b, <1>3, <2>1 DEF Resumes
  <2> QED BY <1>2, <1>3, <2>1, StartsBack
<1> QED BY <1>1, <1>3

\* Every reservation has a holder.
LEMMA HoldersNext ==
    ASSUME CaptureInv, [CaptureNext]_capVars, NEW j \in reservations'
    PROVE  \/ \E c \in Calls : Starts(c)' /\ call'[c].job = j
           \/ Unfinished(j)' /\ KeepsArtifacts(job[j].session)'
<1> USE Parts
<1>a. reservations \in SUBSET Jobs /\ job \in [Jobs -> JobState]
  BY DEF Types, ArtifactTypes, CastTypes
<1>1. ASSUME NEW c \in Calls, NEW i \in Jobs, ReserveArtifact(c, i), j \notin reservations
      PROVE  \E d \in Calls : Starts(d)' /\ call'[d].job = j
  <2>1. i = j /\ call' = [call EXCEPT ![c].pc = "jobs", ![c].job = i]
    BY <1>1 DEF ReserveArtifact
  <2>2. Assigned(c, "jobs", j)
    BY <2>1, JobTakes DEF Types, Pcs, Maybe
  <2> QED BY <2>2 DEF Assigned, Goes, Starts
<1>2. ASSUME j \notin reservations
      PROVE  \E c \in Calls, i \in Jobs : ReserveArtifact(c, i)
  <2>1. ~UNCHANGED artifactVars
    BY <1>2 DEF artifactVars
  <2>2. ASSUME NEW c \in Calls, Acts(c) PROVE \E i \in Jobs : ReserveArtifact(c, i)
    BY <1>2, <2>1, <2>2, ActFootprint
    DEF StoreArtifact, DeleteArtifact, RefusedCast, CastFails, Discard
  <2>3. ASSUME Background PROVE FALSE
    BY <1>2, <2>1, <2>3, BackgroundFootprint
    DEF SweepRemovesArtifacts, Unreserved, Finalize, Discard
  <2> QED BY <2>2, <2>3, Steps
<1>3. ASSUME NEW c \in Calls, Starts(c), call[c].job = j
      PROVE  \/ Starts(c)' /\ call'[c].job = j
             \/ Unfinished(j)' /\ KeepsArtifacts(job[j].session)'
  <2>1. j \in Jobs
    BY <1>3 DEF Starts, ShapeInv, Shape
  <2>2. CASE RefusedCast(c) \/ CastFails(c)
    BY <1>3, <2>2 DEF RefusedCast, CastFails, Discard
  <2>3. CASE Starting(c)
    <3>1. job'[j] = NewJob(c) /\ ~At(c, "idle")
      BY <1>3, <2>3 DEF Starting, At
    <3>2. job'[j].session = call[c].session /\ Unfinished(j)'
      BY <3>1 DEF NewJob, Unfinished
    <3>3. sessions'[call[c].session].status = "live"
      BY <3>1, InFlightStays
    <3> QED BY <3>2, <3>3 DEF KeepsArtifacts, Live
  <2> QED BY <1>3, <2>2, <2>3, StartsOn DEF Resumes
<1>4. ASSUME Unfinished(j), KeepsArtifacts(job[j].session), j \in reservations
      PROVE  Unfinished(j)' /\ KeepsArtifacts(job[j].session)'
  <2>1. PICK s \in Sessions : s = job[j].session /\ j \in Jobs
    BY <1>4, <1>a DEF Unfinished, ShapeInv, JobShape
  <2>2. job'[j].session = s /\ Unfinished(j)'
    <3>1. CASE JobAges(j)
      <4>1. ~Finalize(j)
        BY <1>4 DEF Finalize, Discard
      <4> QED BY <1>4, <2>1, <3>1, <4>1 DEF JobAges, Unfinished
    <3>2. ASSUME NEW c \in Calls, Starting(c)
          PROVE  job'[j].session = s /\ Unfinished(j)'
      <4>1. call[c].job # j
        BY <1>4, <3>2 DEF Starting, Unfinished, NoJob
      <4> QED BY <1>4, <2>1, <3>2, <4>1 DEF Starting, Unfinished
    <3> QED BY <2>1, <3>1, <3>2, JobFates DEF JobsAge, CastStarted
  <2>3. KeepsArtifacts(s)'
    <3>1. ~(SweepRemovesArtifacts /\ s \in sweep.expired)
      BY <2>1 DEF SweepRemovesArtifacts, Unreserved
    <3> QED BY <1>4, <2>1, <3>1, KeepsOn
  <2> QED BY <2>2, <2>3 DEF KeepsArtifacts, Live, Removing
<1>5. CASE j \in reservations
  BY <1>3, <1>4, <1>5 DEF ReserveInv
<1> QED BY <1>1, <1>2, <1>5

\* Whoever holds a reservation has its partial file under its own session.
OwnPartials(s, j) == \A f \in files : f.part = "partial" /\ f.of.from = j => f = PartialFile(s, j)

\* A partial file belongs to the session of the job, or of the call about to start it.
LEMMA PartialsOwned ==
    ASSUME Types, ShapeInv, ReserveInv
    PROVE  /\ \A c \in Calls : Starts(c) => OwnPartials(call[c].session, call[c].job)
           /\ \A j \in Jobs : job[j].phase # "unborn" => OwnPartials(job[j].session, j)
<1>1. \A f \in files : f = File(RecordOf(f.of.session, f.of.from), f.part)
  BY FileFields DEF Types, ArtifactTypes
<1> QED BY <1>1 DEF OwnPartials, PartialFile, ReserveInv

\* A new partial file belongs to a start that has just reserved its artifact.
LEMMA NewPartials ==
    ASSUME RegistryInv, Types, ShapeInv, [CaptureNext]_capVars, NEW f \in files',
           f \notin files, f.part = "partial"
    PROVE  \E c \in Calls, j \in Jobs :
              ReserveArtifact(c, j) /\ Assigned(c, "jobs", j) /\ f = PartialFile(call[c].session, j)
<1>1. ~UNCHANGED artifactVars
  BY DEF artifactVars
<1>2. ASSUME NEW r, NEW p \in {"whole", "temporary"}, f = File(r, p) PROVE FALSE
  BY <1>2, FileFields
<1>3. ASSUME Background PROVE FALSE
  <2>1. SweepRemovesArtifacts \/ \E j \in Jobs : Finalize(j)
    BY <1>1, <1>3, BackgroundFootprint
  <2>2. ~SweepRemovesArtifacts
    BY DEF SweepRemovesArtifacts
  <2>3. PICK j \in Jobs : Finalize(j)
    BY <2>1, <2>2
  <2>4. f = File(RecordOf(job[j].session, j), "whole")
    BY <2>3 DEF Finalize, Discard
  <2> QED BY <1>2, <2>4
<1>4. ASSUME NEW c \in Calls, Acts(c)
      PROVE  \E j \in Jobs : ReserveArtifact(c, j) /\ f = PartialFile(call[c].session, j)
                             /\ Assigned(c, "jobs", j)
  <2>1. ~StoreArtifact(c)
    <3>1. ASSUME StoreArtifact(c)
          PROVE  f \in {File(RecordOf(call[c].session, "tool"), p) : p \in {"whole", "temporary"}}
      BY <3>1 DEF StoreArtifact
    <3> QED BY <1>2, <3>1
  <2>2. PICK j \in Jobs : ReserveArtifact(c, j)
    BY <1>1, <1>4, <2>1, ActFootprint DEF DeleteArtifact, RefusedCast, CastFails, Discard
  <2>3. f = PartialFile(call[c].session, j) /\ call' = [call EXCEPT ![c].pc = "jobs", ![c].job = j]
    BY <2>2 DEF ReserveArtifact
  <2>4. Assigned(c, "jobs", j)
    BY <2>3, JobTakes DEF Types, Pcs, Maybe
  <2> QED BY <2>2, <2>3, <2>4
<1> QED BY <1>3, <1>4, Steps

\* That stays so.
LEMMA PartialsNext ==
    ASSUME CaptureInv, [CaptureNext]_capVars, NEW f \in files', f.part = "partial"
    PROVE  /\ f.of.from \in Jobs
           /\ \A c \in Calls : Starts(c)' /\ call'[c].job = f.of.from
                 => f.of.session = call'[c].session
           /\ job'[f.of.from].phase # "unborn" => f.of.session = job'[f.of.from].session
<1> USE Parts
<1>1. CASE f \in files
  <2>1. PICK j \in Jobs : j = f.of.from /\ j \in reservations
    BY <1>1 DEF ReserveInv, ArtifactsFollowSessions
  <2>2. ASSUME NEW c \in Calls, Starts(c)', call'[c].job = j
        PROVE  f.of.session = call'[c].session
    <3>1. ASSUME NEW i \in Jobs, ReserveArtifact(c, i), Assigned(c, "jobs", i) PROVE FALSE
      BY <2>1, <2>2, <3>1 DEF ReserveArtifact, Assigned
    <3>2. Starts(c) /\ Resumes(c)
      BY <2>2, <3>1, StartsBack
    <3> QED BY <1>1, <2>1, <2>2, <3>2 DEF Resumes, ReserveInv
  <2>3. ASSUME job'[j].phase # "unborn"
        PROVE  f.of.session = job'[j].session
    <3>1. CASE JobAges(j)
      BY <1>1, <2>1, <2>3, <3>1 DEF JobAges, ReserveInv
    <3>2. ASSUME NEW c \in Calls, Starting(c)
          PROVE  f.of.session = job'[j].session
      <4>1. CASE j = call[c].job
        <5>1. Starts(c) /\ f.of.session = call[c].session
          BY <1>1, <2>1, <3>2, <4>1 DEF Starting, Starts, At, ReserveInv
        <5>2. job'[j].session = call[c].session
          BY <3>2, <4>1 DEF Starting, NewJob
        <5> QED BY <5>1, <5>2
      <4>2. CASE j # call[c].job
        BY <1>1, <2>1, <2>3, <3>2, <4>2 DEF Starting, ReserveInv
      <4> QED BY <4>1, <4>2
    <3> QED BY <3>1, <3>2, JobFates DEF JobsAge, CastStarted
  <2> QED BY <2>1, <2>2, <2>3
<1>2. CASE f \notin files
  <2>1. PICK c \in Calls, j \in Jobs :
           ReserveArtifact(c, j) /\ Assigned(c, "jobs", j) /\ f = PartialFile(call[c].session, j)
    BY <1>2, NewPartials
  <2>2. f.of.from = j /\ f.of.session = call[c].session
    BY <2>1, FileFields DEF PartialFile
  <2>3. Starts(c)' /\ call'[c].job = j /\ call'[c].session = call[c].session
    BY <2>1 DEF Assigned, Goes, Starts
  <2>4. job'[j].phase = "unborn"
    BY <2>1 DEF ReserveArtifact, NoJob
  <2> QED BY <2>2, <2>3, <2>4, StartsNext
<1> QED BY <1>1, <1>2

\* The invariant of the reservations is preserved.
LEMMA ReserveNext ==
    ASSUME CaptureInv, [CaptureNext]_capVars
    PROVE  ReserveInv'
<1>1. \A j \in reservations' : \/ \E c \in Calls : Starts(c)' /\ call'[c].job = j
                               \/ Unfinished(j)' /\ KeepsArtifacts(job[j].session)'
  BY HoldersNext
<1> QED BY <1>1, StartsNext, PartialsNext DEF ReserveInv

\* Artifacts that are published belong to a session that keeps them.
LEMMA RecordsNext ==
    ASSUME CaptureInv, [CaptureNext]_capVars, NEW r \in records'
    PROVE  KeepsArtifacts(r.session)'
<1> USE Parts
<1>a. records \in SUBSET Record /\ reservations \in SUBSET Jobs
  BY DEF Types, ArtifactTypes
<1>1. CASE r \in records
  <2>1. PICK s \in Sessions : s = r.session /\ KeepsArtifacts(s)
    BY <1>1, <1>a DEF Record, ArtifactsFollowSessions, KeepsArtifacts, Removing
  <2>2. ~(SweepRemovesArtifacts /\ s \in sweep.expired)
    BY <2>1 DEF SweepRemovesArtifacts
  <2>3. KeepsArtifacts(s)'
    BY <2>1, <2>2, KeepsOn
  <2> QED BY <2>1, <2>3
<1>2. ASSUME NEW c \in Calls, StoreArtifact(c), r \notin records
      PROVE  KeepsArtifacts(r.session)'
  <2>1. r = RecordOf(call[c].session, "tool") /\ ~At(c, "idle")
    BY <1>2 DEF StoreArtifact, At
  <2>2. sessions'[call[c].session].status = "live" /\ r.session = call[c].session
    BY <2>1, InFlightStays, FileFields
  <2> QED BY <2>2 DEF KeepsArtifacts, Live
<1>3. ASSUME NEW j \in Jobs, Finalize(j), r \notin records
      PROVE  KeepsArtifacts(r.session)'
  <2>1. /\ r = RecordOf(job[j].session, j) /\ j \in reservations /\ job[j].phase = "good"
        /\ sweep' = sweep
    BY <1>3 DEF Finalize, OnlyJobs, Publishes, StillReserved
  <2>2. \A c \in Calls : Starts(c) => call[c].job # j
    BY <2>1 DEF StartsClean, NoJob
  <2>3. PICK s \in Sessions : s = job[j].session /\ KeepsArtifacts(s)
    BY <2>1, <2>2 DEF ReserveInv, ShapeInv, JobShape
  <2>4. ~SweepRemovesArtifacts
    <3>1. sweep \in SweepState
      BY DEF Types, ControlTypes
    <3> QED BY <2>1, <3>1 DEF SweepRemovesArtifacts, SweepState
  <2>5. KeepsArtifacts(s)' /\ r.session = s
    BY <2>1, <2>3, <2>4, KeepsOn, FileFields
  <2> QED BY <2>5
<1>4. ASSUME r \notin records
      PROVE  \/ \E c \in Calls : StoreArtifact(c)
             \/ \E j \in Jobs : Finalize(j)
  <2>1. ~UNCHANGED artifactVars
    BY <1>4 DEF artifactVars
  <2>2. ASSUME NEW c \in Calls, Acts(c) PROVE StoreArtifact(c)
    BY <1>4, <2>1, <2>2, ActFootprint
    DEF DeleteArtifact, RefusedCast, CastFails, ReserveArtifact
  <2>3. ASSUME Background PROVE \E j \in Jobs : Finalize(j)
    BY <1>4, <2>1, <2>3, BackgroundFootprint DEF SweepRemovesArtifacts
  <2> QED BY <2>2, <2>3, Steps
<1> QED BY <1>1, <1>2, <1>3, <1>4

\* On disk lies what the registry knows of.
Wholes(F)   == {f.of : f \in {g \in F : g.part = "whole"}}
Partials(F) == {f.of.from : f \in {g \in F : g.part = "partial"}}
FilesKnown ==
    /\ records = Wholes(files) /\ reservations = Partials(files)
    /\ (\E f \in files : f.part = "temporary") => Fails

\* Writing and removing one file.
LEMMA OneFile ==
    ASSUME NEW F \in SUBSET FileState, NEW r \in Record
    PROVE  /\ Wholes(F \cup {File(r, "whole")}) = Wholes(F) \cup {r}
           /\ Wholes(F \ {File(r, "whole")}) = Wholes(F) \ {r}
           /\ Wholes(F \cup {File(r, "partial")}) = Wholes(F)
           /\ Wholes(F \ {File(r, "partial")}) = Wholes(F)
           /\ Wholes(F \cup {File(r, "temporary")}) = Wholes(F)
           /\ Partials(F \cup {File(r, "partial")}) = Partials(F) \cup {r.from}
           /\ Partials(F \cup {File(r, "whole")}) = Partials(F)
           /\ Partials(F \ {File(r, "whole")}) = Partials(F)
           /\ Partials(F \cup {File(r, "temporary")}) = Partials(F)
           /\ (\A f \in F : f.part = "partial" /\ f.of.from = r.from => f = File(r, "partial"))
                 => Partials(F \ {File(r, "partial")}) = Partials(F) \ {r.from}
<1>0. \A f \in F : f = File(f.of, f.part)
  BY FileFields
<1>1. \A p : File(r, p).of = r /\ File(r, p).part = p
  BY FileFields
<1>2. Wholes(F \cup {File(r, "whole")}) = Wholes(F) \cup {r}
  BY <1>1 DEF Wholes
<1>3. Wholes(F \ {File(r, "whole")}) = Wholes(F) \ {r}
  BY <1>0, <1>1 DEF Wholes
<1>4. \A p \in {"partial", "temporary"} : /\ Wholes(F \cup {File(r, p)}) = Wholes(F)
                                          /\ Wholes(F \ {File(r, p)}) = Wholes(F)
  BY <1>1 DEF Wholes
<1>5. Partials(F \cup {File(r, "partial")}) = Partials(F) \cup {r.from}
  BY <1>1 DEF Partials
<1>6. \A p \in {"whole", "temporary"} : /\ Partials(F \cup {File(r, p)}) = Partials(F)
                                        /\ Partials(F \ {File(r, p)}) = Partials(F)
  BY <1>1 DEF Partials
<1>7. (\A f \in F : f.part = "partial" /\ f.of.from = r.from => f = File(r, "partial"))
         => Partials(F \ {File(r, "partial")}) = Partials(F) \ {r.from}
  BY <1>1 DEF Partials
<1> QED BY <1>2, <1>3, <1>4, <1>5, <1>6, <1>7

\* Files stay known when the registry of artifacts follows the files.
LEMMA KnownNext ==
    ASSUME FilesKnown, profile' = profile, records' = Wholes(files'),
           reservations' = Partials(files'),
           \A f \in files' : f \in files \/ f.part # "temporary" \/ Fails
    PROVE  FilesKnown'
<1>1. Fails' <=> Fails
  BY DEF Fails, Happens
<1>2. ASSUME NEW f \in files', f.part = "temporary" PROVE Fails
  BY <1>2 DEF FilesKnown
<1> QED BY <1>1, <1>2 DEF FilesKnown

\* discard_reserved takes the reservation and its file together.
LEMMA Discards ==
    ASSUME Types, FilesKnown, NEW s \in Sessions, NEW j \in Jobs, OwnPartials(s, j),
           Discard(s, j), records' = records, profile' = profile
    PROVE  FilesKnown'
<1>1. RecordOf(s, j) \in Record /\ RecordOf(s, j).from = j
  BY DEF RecordOf, Record
<1>2. files \in SUBSET FileState
  BY DEF Types, ArtifactTypes
<1>3. /\ files' = files \ {File(RecordOf(s, j), "partial")} /\ reservations' = reservations \ {j}
      /\ \A f \in files : f.part = "partial" /\ f.of.from = j => f = File(RecordOf(s, j), "partial")
  BY DEF Discard, PartialFile, OwnPartials
<1>4. Wholes(files') = Wholes(files) /\ Partials(files') = Partials(files) \ {j}
  <2> DEFINE r == RecordOf(s, j)
  <2>1. r \in Record /\ r.from = j
    BY <1>1
  <2> HIDE DEF r
  <2>2. /\ files' = files \ {File(r, "partial")}
        /\ \A f \in files : f.part = "partial" /\ f.of.from = r.from => f = File(r, "partial")
    BY <1>3, <2>1 DEF r
  <2> QED BY <1>2, <2>1, <2>2, OneFile
<1> QED BY <1>3, <1>4, KnownNext DEF FilesKnown

\* Every file is known to the registry of artifacts, or a failure or shutdown is the reason.
LEMMA FilesNext ==
    ASSUME CaptureInv, [CaptureNext]_capVars
    PROVE  FilesKnown'
<1> USE Parts
<1>0. FilesKnown /\ files \in SUBSET FileState /\ reservations \in SUBSET Jobs
  BY DEF ArtifactsFollowSessions, FilesKnown, Wholes, Partials, Types, ArtifactTypes
<1>a. profile' = profile
  BY Steps, ActFootprint, BackgroundFootprint
<1>b. CASE UNCHANGED artifactVars
  BY <1>0, <1>a, <1>b DEF FilesKnown, artifactVars, Wholes, Partials, Fails, Happens
<1>c. \A s \in Sessions, k \in Jobs \cup {"tool"} :
         RecordOf(s, k) \in Record /\ RecordOf(s, k).from = k
  BY DEF RecordOf, Record
<1>d. \A r \in Record : \A p : File(r, p).part = p
  BY FileFields
<1>1. ASSUME NEW c \in Calls, Acts(c), ~UNCHANGED artifactVars
      PROVE  FilesKnown'
  <2>0. ~At(c, "idle") => call[c].session \in Sessions
    BY DEF ShapeInv, Shape
  <2>1. CASE StoreArtifact(c)
    <3>1. PICK r \in Record : r = RecordOf(call[c].session, "tool")
      BY <1>c, <2>0, <2>1 DEF StoreArtifact, At
    <3>2. /\ reservations' = reservations
          /\ \/ records' = records \cup {r} /\ files' = files \cup {File(r, "whole")}
             \/ /\ Fails /\ records' = records
                /\ files' = files \/ files' = files \cup {File(r, "temporary")}
      BY <2>1, <3>1 DEF StoreArtifact
    <3>3. CASE records' = records \cup {r} /\ files' = files \cup {File(r, "whole")}
      <4>1. Wholes(files') = Wholes(files) \cup {r} /\ Partials(files') = Partials(files)
        BY <1>0, <3>3, OneFile
      <4>2. \A f \in files' : f \in files \/ f.part # "temporary"
        BY <1>d, <3>3
      <4> QED BY <1>0, <1>a, <3>2, <3>3, <4>1, <4>2, KnownNext DEF FilesKnown
    <3>4. CASE Fails /\ records' = records /\ files' = files
      BY <1>0, <1>a, <3>2, <3>4 DEF FilesKnown, Fails, Happens
    <3>5. CASE Fails /\ records' = records /\ files' = files \cup {File(r, "temporary")}
      <4>1. Wholes(files') = Wholes(files) /\ Partials(files') = Partials(files)
        BY <1>0, <3>5, OneFile
      <4> QED BY <1>0, <1>a, <3>2, <3>5, <4>1, KnownNext DEF FilesKnown
    <3> QED BY <3>2, <3>3, <3>4, <3>5
  <2>2. CASE DeleteArtifact(c)
    <3>1. PICK r \in Record : /\ records' = records \ {r} /\ files' = files \ {File(r, "whole")}
                              /\ reservations' = reservations
      BY <1>1, <2>2 DEF DeleteArtifact, artifactVars, Types, ArtifactTypes
    <3>2. Wholes(files') = Wholes(files) \ {r} /\ Partials(files') = Partials(files)
      BY <1>0, <3>1, OneFile
    <3> QED BY <1>0, <1>a, <3>1, <3>2, KnownNext DEF FilesKnown
  <2>3. CASE RefusedCast(c) \/ CastFails(c)
    <3>1. Starts(c) /\ ~At(c, "idle") /\ call[c].job \in Jobs
      BY <2>3 DEF RefusedCast, CastFails, Starts, At, ShapeInv, Shape
    <3>2. OwnPartials(call[c].session, call[c].job)
      BY <3>1, PartialsOwned
    <3>3. Discard(call[c].session, call[c].job) /\ records' = records
      BY <2>3 DEF RefusedCast, CastFails
    <3> QED BY <1>0, <1>a, <2>0, <3>1, <3>2, <3>3, Discards
  <2>4. ASSUME NEW j \in Jobs, ReserveArtifact(c, j)
        PROVE  FilesKnown'
    <3>1. PICK r \in Record : r = RecordOf(call[c].session, j) /\ r.from = j
      BY <1>c, <2>0, <2>4 DEF ReserveArtifact, At
    <3>2. /\ records' = records /\ reservations' = reservations \cup {j}
          /\ files' = files \cup {File(r, "partial")}
      BY <1>1, <2>4, <3>1 DEF ReserveArtifact, PartialFile, artifactVars
    <3>3. /\ Wholes(files \cup {File(r, "partial")}) = Wholes(files)
          /\ Partials(files \cup {File(r, "partial")}) = Partials(files) \cup {r.from}
      BY <1>0, OneFile
    <3>4. Wholes(files') = Wholes(files) /\ Partials(files') = Partials(files) \cup {j}
      BY <3>1, <3>2, <3>3
    <3>5. \A f \in files' : f \in files \/ f.part # "temporary"
      BY <1>d, <3>2
    <3> QED BY <1>0, <1>a, <3>2, <3>4, <3>5, KnownNext DEF FilesKnown
  <2> QED BY <1>1, <2>1, <2>2, <2>3, <2>4, ActFootprint
<1>2. ASSUME NEW j \in Jobs, Finalize(j)
      PROVE  FilesKnown'
  <2>1. job[j].session \in Sessions /\ job[j].phase # "unborn"
    BY <1>2 DEF Finalize, ShapeInv, JobShape
  <2>2. OwnPartials(job[j].session, j)
    BY <2>1, PartialsOwned
  <2>3. CASE Discard(job[j].session, j) /\ records' = records
    BY <1>0, <1>a, <2>1, <2>2, <2>3, Discards
  <2>4. CASE ~(Discard(job[j].session, j) /\ records' = records)
    <3>1. PICK r \in Record : r = RecordOf(job[j].session, j) /\ r.from = j
      BY <1>c, <2>1
    <3>2. /\ records' = records \cup {r} /\ reservations' = reservations \ {j}
          /\ files' = (files \ {File(r, "partial")}) \cup {File(r, "whole")}
      BY <1>2, <2>4, <3>1 DEF Finalize
    <3>3. \A f \in files : f.part = "partial" /\ f.of.from = r.from => f = File(r, "partial")
      BY <2>2, <3>1 DEF OwnPartials, PartialFile
    <3> DEFINE F == files \ {File(r, "partial")}
    <3>a. /\ Wholes(files \ {File(r, "partial")}) = Wholes(files)
          /\ Partials(files \ {File(r, "partial")}) = Partials(files) \ {r.from}
      BY <1>0, <3>3, OneFile
    <3>4. F \in SUBSET FileState /\ Wholes(F) = Wholes(files) /\ Partials(F) = Partials(files) \ {j}
      BY <1>0, <3>1, <3>a
    <3>5. files' = F \cup {File(r, "whole")} /\ F \subseteq files
      BY <3>2
    <3> HIDE DEF F
    <3>b. Wholes(F \cup {File(r, "whole")}) = Wholes(F) \cup {r}
          /\ Partials(F \cup {File(r, "whole")}) = Partials(F)
      BY <3>4, OneFile
    <3>6. Wholes(files') = Wholes(files) \cup {r} /\ Partials(files') = Partials(files) \ {j}
      BY <3>4, <3>5, <3>b
    <3>7. \A f \in files' : f \in files \/ f.part # "temporary"
      BY <1>d, <3>5
    <3> QED BY <1>0, <1>a, <3>2, <3>6, <3>7, KnownNext DEF FilesKnown
  <2> QED BY <2>3, <2>4
<1>3. CASE SweepRemovesArtifacts
  <2>1. /\ records' = {r \in records : r.session \notin sweep.expired}
        /\ reservations' = {j \in reservations : job[j].session \notin sweep.expired}
        /\ files' = {f \in files : f.of.session \notin sweep.expired \/ f.part = "temporary"}
    BY <1>3 DEF SweepRemovesArtifacts, Unreserved
  <2>2. records' = Wholes(files')
    BY <1>0, <2>1 DEF FilesKnown, Wholes
  <2>3. ASSUME NEW f \in files, f.part = "partial"
        PROVE  f.of.session \in sweep.expired <=> job[f.of.from].session \in sweep.expired
    <3>1. PICK j \in Jobs : j = f.of.from /\ j \in reservations
      BY <1>0, <2>3 DEF FilesKnown, Partials
    <3>2. CASE job[j].phase # "unborn"
      BY <2>3, <3>1, <3>2 DEF ReserveInv
    <3>3. CASE job[j].phase = "unborn"
      <4>1. job[j].session = None /\ None \notin sweep.expired
        BY <3>3, NoneAssumption DEF ShapeInv, JobShape, NoJob, Types, ControlTypes, SweepState
      <4>2. PICK c \in Calls : Starts(c) /\ call[c].job = j
        BY <3>1, <3>3 DEF ReserveInv, Unfinished
      <4>3. f.of.session = call[c].session /\ Live(call[c].session)
        BY <2>3, <3>1, <4>2 DEF ReserveInv, ShapeInv, Shape, Starts, At
      <4>4. call[c].session \notin sweep.expired
        BY <4>3 DEF ShapeInv, SweepShape, Live
      <4> QED BY <3>1, <4>1, <4>3, <4>4
    <3> QED BY <3>1, <3>2, <3>3
  <2>4. reservations' = Partials(files')
    BY <1>0, <2>1, <2>3 DEF FilesKnown, Partials
  <2> QED BY <1>0, <1>a, <2>1, <2>2, <2>4, KnownNext
<1>4. CASE Background
  BY <1>b, <1>2, <1>3, <1>4, BackgroundFootprint
<1> QED BY <1>b, <1>1, <1>4, Steps

\* ArtifactsFollowSessions is preserved.
LEMMA ArtifactsNext ==
    ASSUME CaptureInv, [CaptureNext]_capVars
    PROVE  ArtifactsFollowSessions'
<1>1. \A r \in records' : KeepsArtifacts(r.session)'
  BY RecordsNext
<1>2. FilesKnown'
  BY FilesNext
<1>3. \A j \in reservations' :
         Unfinished(j)' \/ \E c \in Calls : call'[c].job = j /\ call'[c].pc \in {"jobs", "casting"}
  BY HoldersNext DEF Starts
<1> QED
  BY <1>1, <1>2, <1>3
  DEF ArtifactsFollowSessions, FilesKnown, Wholes, Partials, KeepsArtifacts, Removing, Live

(***************************************************************************)
(* Pages.                                                                  *)
(***************************************************************************)
LEMMA ResetKeepsClean ==
    ASSUME Types, NEW t \in Targets, NEW f \in Resets(t), NEW u \in Targets, emulated[u] = Clean
    PROVE  f[u] = Clean
<1>0. emulated \in [Targets -> Emulation] /\ emulated[t] \in Emulation
  BY DEF Types, PageTypes
<1>1. PICK S : f = [emulated EXCEPT ![t] = [k \in Overrides |-> IF k \in S THEN None ELSE @[k]]]
  BY DEF Resets
<1>2. CASE u # t
  BY <1>0, <1>1, <1>2
<1>3. CASE u = t
  <2>1. f[u] = [k \in Overrides |-> IF k \in S THEN None ELSE emulated[u][k]]
    BY <1>0, <1>1, <1>3
  <2> QED BY <2>1 DEF Clean
<1> QED BY <1>2, <1>3

\* A request that has its target has that of its tab's lease.
LEMMA AimedTarget ==
    ASSUME RegistryInv, ShapeInv, NEW c \in Calls, Is(c, TabMethods), call[c].target \in Targets,
           Known(call[c].tab)
    PROVE  leases[call[c].tab].target = call[c].target /\ call[c].tab \in Tabs
<1>1. call[c].tab \in Tabs
  BY DEF ShapeInv, Shape
<1>2. leases[call[c].tab].target \in Targets
  BY <1>1 DEF RegistryInv, TargetInv, LeasesComplete
<1> QED BY <1>1, <1>2 DEF ShapeInv, AimInv, Aims

\* Leases begin with a new tab or a claim.
LEMMA NewLease ==
    ASSUME RegistryInv, [Next]_vars, [CaptureNext]_capVars, NEW b \in Tabs,
           leases[b].state = "unissued", Known(b)'
    PROVE  \E c \in Calls :
              /\ NewTab(c, b) \/ Claim(c, b)
              /\ leases'[b] = ActiveLease(call[c].session, call[c].target)
<1>0. leases \in [Tabs -> TabLease]
  BY DEF RegistryInv, TypeOK
<1>a. leases' # leases /\ leases'[b].state \notin {"unissued", "removed"}
  BY DEF Known
<1>1. ASSUME NEW c \in Calls, NEW d \in Tabs, NewTab(c, d)
      PROVE  d = b /\ leases'[b] = ActiveLease(call[c].session, call[c].target)
  <2>1. leases' = [leases EXCEPT ![d] = ActiveLease(call[c].session, call[c].target)]
    BY <1>1, <1>a DEF NewTab, LeaseTab, vars, targetVars
  <2> QED BY <1>0, <1>a, <2>1
<1>2. ASSUME NEW c \in Calls, NEW d \in Tabs, Claim(c, d)
      PROVE  d = b /\ leases'[b] = ActiveLease(call[c].session, call[c].target)
  <2>1. leases'[b] = CASE b = d -> ActiveLease(call[c].session, call[c].target)
                       [] b # d /\ HasActiveLease(call[c].target)
                          /\ b = active_target_owners[call[c].target] -> Removed
                       [] OTHER -> leases[b]
    BY <1>2 DEF Claim, ClaimTab
  <2> QED BY <1>a, <2>1 DEF Removed
<1>3. ASSUME leases'[b].state = leases[b].state PROVE FALSE
  BY <1>a, <1>3
<1>4. ASSUME NEW c \in Calls, AsksRegistry(c), \A d \in Tabs : ~NewTab(c, d) /\ ~Claim(c, d)
      PROVE  FALSE
  <2>1. CASE ValidateTool(c)
    <3>1. leases' = [d \in Tabs |-> IF d \in Missing THEN [leases[d] EXCEPT !.state = "missing"]
                                    ELSE leases[d]]
      BY <1>a, <2>1
      DEF ValidateTool, MarkMissingTargetsNotIn, MarkMissing, Missing, vars, targetVars
    <3>2. b \notin Missing
      BY DEF Missing, Vanished, RegistryInv, TargetInv, ActiveIndexExact
    <3> QED BY <1>3, <3>1, <3>2
  <2>2. CASE Release(c) \/ CommitClose(c)
    <3>1. Known(call[c].tab) /\ \E v : leases' = [leases EXCEPT ![call[c].tab].state = v]
      BY <1>a, <2>2
      DEF Release, CommitClose, ReleaseTab, CommitOwnedTabClose, RequireOwnedTab, EndReservation,
          FinishOwnedTabCloseReservation, vars, targetVars
    <3> QED BY <1>0, <1>3, <3>1 DEF Known
  <2>3. CASE Reserve(c) \/ ClosePageFails(c)
    BY <1>a, <2>3
    DEF Reserve, ClosePageFails, ReserveOwnedTabClose, EndReservation,
        FinishOwnedTabCloseReservation, vars, targetVars
  <2> QED BY <1>4, <2>1, <2>2, <2>3 DEF AsksRegistry
<1>5. ASSUME SweepExpire PROVE FALSE
  <2> DEFINE E == ExpiredIds(clock, InFlight)
  <2>1. PICK batch : ExpireBatch(E, batch)
    BY <1>5 DEF SweepExpire, ExpireSessions
  <2>2. E \in SUBSET Sessions
    BY DEF ExpiredIds
  <2>3. b \notin ToClose(E) /\ b \notin ToRelease(E)
    BY DEF ToClose, ToRelease
  <2> HIDE DEF E
  <2> QED BY <1>3, <2>1, <2>2, <2>3, ExpireEffects
<1>6. ASSUME NEW x \in sweep_closes, NEW closed \in BOOLEAN, SweepCloses(x, closed) PROVE FALSE
  <2>1. leases' = leases \/ (Known(x.tab) /\ leases' = [leases EXCEPT ![x.tab].state = "released"])
    BY <1>6 DEF SweepCloses, FinishExpiredTargetClose
  <2> QED BY <1>0, <1>3, <1>a, <2>1 DEF Known
<1>7. ASSUME UNCHANGED vars \/ SessionsOnly PROVE FALSE
  BY <1>a, <1>7 DEF SessionsOnly, vars, targetVars
<1> QED BY <1>1, <1>2, <1>4, <1>5, <1>6, <1>7, RegistrySteps

\* Reconciliation gives a lease up when its page is gone.
LEMMA NewMissing ==
    ASSUME RegistryInv, PageInv, Types, [Next]_vars, [CaptureNext]_capVars, NEW b \in Tabs,
           leases'[b].state = "missing", leases[b].state # "missing"
    PROVE  leases'[b].target = leases[b].target /\ page'[leases[b].target] = "gone"
<1>0. leases \in [Tabs -> TabLease] /\ page \in [Targets -> PageState]
  BY DEF RegistryInv, TypeOK, Types, PageTypes
<1>a. leases' # leases
  OBVIOUS
<1>1. ASSUME NEW c \in Calls, ValidateTool(c)
      PROVE  leases'[b].target = leases[b].target /\ page'[leases[b].target] = "gone"
  <2>1. /\ leases' = [d \in Tabs |-> IF d \in Missing THEN [leases[d] EXCEPT !.state = "missing"]
                                     ELSE leases[d]]
        /\ page' = page
    BY <1>1, <1>a
    DEF ValidateTool, MarkMissingTargetsNotIn, MarkMissing, Missing, vars, targetVars,
        NoBrowserWork, pageVars
  <2>2. b \in Missing /\ leases'[b].target = leases[b].target
    BY <1>0, <2>1 DEF TabLease
  <2>3. PICK t \in Targets : t = leases[b].target /\ page[t] # "open" /\ leases[b].state = "active"
    BY <2>2 DEF Missing, Vanished, RegistryInv, TargetInv, ActiveIndexExact
  <2>4. page[t] # "unborn"
    BY <2>3 DEF PageInv, Known
  <2> QED BY <1>0, <2>1, <2>2, <2>3, <2>4 DEF PageState
<1>2. ASSUME NEW c \in Calls, AsksRegistry(c), ~ValidateTool(c)
      PROVE  FALSE
  <2>1. ASSUME NEW d \in Tabs, NewTab(c, d) PROVE FALSE
    <3>1. leases' = [leases EXCEPT ![d] = ActiveLease(call[c].session, call[c].target)]
      BY <2>1, <1>a DEF NewTab, LeaseTab, vars, targetVars
    <3> QED BY <1>0, <3>1 DEF ActiveLease
  <2>2. ASSUME NEW d \in Tabs, Claim(c, d) PROVE FALSE
    BY <2>2 DEF Claim, ClaimTab, ActiveLease, Removed
  <2>3. CASE Release(c) \/ CommitClose(c)
    <3>1. \E v \in {"released", "closed"} : leases' = [leases EXCEPT ![call[c].tab].state = v]
      BY <1>a, <2>3
      DEF Release, CommitClose, ReleaseTab, CommitOwnedTabClose, EndReservation,
          FinishOwnedTabCloseReservation, vars, targetVars
    <3> QED BY <1>0, <3>1 DEF TabLease
  <2>4. CASE Reserve(c) \/ ClosePageFails(c)
    BY <1>a, <2>4
    DEF Reserve, ClosePageFails, ReserveOwnedTabClose, EndReservation,
        FinishOwnedTabCloseReservation, vars, targetVars
  <2> QED BY <1>2, <2>1, <2>2, <2>3, <2>4 DEF AsksRegistry
<1>3. ASSUME SweepExpire PROVE FALSE
  <2> DEFINE E == ExpiredIds(clock, InFlight)
  <2>1. PICK batch : ExpireBatch(E, batch)
    BY <1>3 DEF SweepExpire, ExpireSessions
  <2>2. E \in SUBSET Sessions
    BY DEF ExpiredIds
  <2> HIDE DEF E
  <2> QED BY <2>1, <2>2, ExpireEffects
<1>4. ASSUME NEW x \in sweep_closes, NEW closed \in BOOLEAN, SweepCloses(x, closed) PROVE FALSE
  <2>1. leases' = leases \/ leases' = [leases EXCEPT ![x.tab].state = "released"]
    BY <1>4 DEF SweepCloses, FinishExpiredTargetClose
  <2> QED BY <1>0, <2>1 DEF TabLease
<1>5. ASSUME UNCHANGED vars \/ SessionsOnly PROVE FALSE
  BY <1>a, <1>5 DEF SessionsOnly, vars, targetVars
<1> QED BY <1>1, <1>2, <1>3, <1>4, <1>5, RegistrySteps

\* Nothing is set over a page that is not open.
LEMMA ShutPagesClean ==
    ASSUME RegistryInv, Types, ShapeInv, PageInv, [CaptureNext]_capVars, NEW t \in Targets,
           page'[t] # "open"
    PROVE  emulated'[t] = Clean
<1>0. emulated \in [Targets -> Emulation] /\ page \in [Targets -> PageState]
  BY DEF Types, PageTypes
<1>1. page[t] # "open" => emulated[t] = Clean
  BY DEF PageInv
<1>2. CASE SameEmulation /\ page' = page
  BY <1>1, <1>2 DEF SameEmulation
<1>3. ASSUME NEW c \in Calls, Acts(c)
      PROVE  emulated'[t] = Clean
  <2>1. CASE Command(c)
    <3>1. page' = page
      BY <2>1 DEF Command
    <3>2. \/ emulated' = emulated
          \/ /\ page[call[c].target] = "open"
             /\ \E k, s : emulated' = [emulated EXCEPT ![call[c].target][k] = s]
      BY <2>1 DEF Command
    <3> QED BY <1>0, <1>1, <3>1, <3>2
  <2>2. CASE ClosePage(c)
    <3>1. /\ page' = PageGone(call[c].target)
          /\ emulated' = [emulated EXCEPT ![call[c].target] = Clean]
      BY <2>2 DEF ClosePage
    <3> QED BY <1>0, <1>1, <3>1 DEF PageGone
  <2>3. CASE ClosePageFails(c)
    <3>1. page' = page /\ emulated' \in Resets(call[c].target) /\ call[c].target \in Targets
      BY <2>3, HasTarget DEF ClosePageFails, At, ShapeInv
    <3> QED BY <1>1, <3>1, ResetKeepsClean
  <2>4. ASSUME NEW b \in Tabs, NewTab(c, b) PROVE emulated'[t] = Clean
    <3>1. emulated' = emulated /\ (page' = page \/ page' = [page EXCEPT ![call[c].target] = "open"])
      BY <2>4 DEF NewTab
    <3> QED BY <1>0, <1>1, <3>1
  <2> QED BY <1>2, <1>3, <2>1, <2>2, <2>3, <2>4, ActFootprint DEF SameEmulation
<1>4. ASSUME Background
      PROVE  emulated'[t] = Clean
  <2>1. CASE ExpiredCloses
    <3>1. PICK x \in sweep_closes, closed \in BOOLEAN : SweepCloses(x, closed)
      BY <2>1 DEF ExpiredCloses
    <3>2. x.target \in Targets
      BY DEF RegistryInv, TypeOK, SweepClose
    <3>3. \/ /\ page' \in {page, PageGone(x.target)}
             /\ emulated' = [emulated EXCEPT ![x.target] = Clean]
          \/ page' = page /\ emulated' \in Resets(x.target)
      BY <3>1 DEF SweepCloses
    <3>4. CASE /\ page' \in {page, PageGone(x.target)}
               /\ emulated' = [emulated EXCEPT ![x.target] = Clean]
      BY <1>0, <1>1, <3>4 DEF PageGone
    <3> QED BY <1>1, <3>2, <3>3, <3>4, ResetKeepsClean
  <2>2. ASSUME NEW b \in Tabs, SweepResets(b) PROVE emulated'[t] = Clean
    <3>1. leases[b].target \in Targets /\ page' = page
      BY <2>2 DEF SweepResets, ShapeInv, SweepShape, RegistryInv, TargetInv, LeasesComplete
    <3>2. \/ emulated' = [emulated EXCEPT ![leases[b].target] = Clean]
          \/ emulated' \in Resets(leases[b].target)
      BY <2>2 DEF SweepResets
    <3>3. CASE emulated' = [emulated EXCEPT ![leases[b].target] = Clean]
      BY <1>0, <1>1, <3>1, <3>3
    <3> QED BY <1>1, <3>1, <3>2, <3>3, ResetKeepsClean
  <2>3. ASSUME NEW u \in Targets, HumanCloses(u) PROVE emulated'[t] = Clean
    <3>1. page' = PageGone(u) /\ emulated' = [emulated EXCEPT ![u] = Clean]
      BY <2>3 DEF HumanCloses
    <3> QED BY <1>0, <1>1, <3>1 DEF PageGone
  <2> QED BY <1>2, <1>4, <2>1, <2>2, <2>3, BackgroundFootprint DEF SameEmulation
<1> QED BY <1>3, <1>4, Steps

\* The invariant of who acts on a page is preserved.
LEMMA PageNext ==
    ASSUME CaptureInv, [CaptureNext]_capVars
    PROVE  PageInv'
<1> USE Parts, ShapesStay
<1>0. page \in [Targets -> PageState] /\ page' \in [Targets -> PageState]
  BY DEF Types, PageTypes
<1>a. \A b \in Tabs : Known(b) => leases[b].target \in Targets
  BY DEF RegistryInv, TargetInv, LeasesComplete
<1>b. [Next]_vars
  BY StepsTheRegistry
<1>1. ASSUME NEW b \in Tabs, Known(b)'
      PROVE  page'[leases'[b].target] # "unborn"
  <2>1. Fate(b)
    BY LeaseFates
  <2>2. CASE Known(b)
    <3>1. leases'[b].target = leases[b].target
      BY <1>1, <2>1, <2>2 DEF Fate, Ages, Known, Removed
    <3> QED BY <1>a, <2>2, <3>1, PagesAge DEF PageInv
  <2>3. CASE ~Known(b)
    <3>1. leases[b].state = "unissued"
      BY <1>1, <2>1, <2>3 DEF Fate, Known
    <3>a. RegistryInv /\ (~(leases'[b].state = "unissued") /\ ~(leases'[b].state = "removed"))
      BY <1>1 DEF Known
    <3>b. PICK c \in Calls : /\ NewTab(c, b) \/ Claim(c, b)
                             /\ leases'[b] = ActiveLease(call[c].session, call[c].target)
      BY <1>1, <1>b, <3>1, <3>a, NewLease
    <3>2. leases'[b].target = call[c].target
      BY <3>b DEF ActiveLease
    <3>3. CASE NewTab(c, b)
      <4>1. call[c].target \in Targets
        BY <3>3 DEF NewTab, ShapeInv, Shape, Is
      <4>2. page'[call[c].target] # "unborn"
        BY <1>0, <3>3, <4>1 DEF NewTab
      <4> QED BY <3>2, <4>2
    <3>4. CASE Claim(c, b)
      <4>1. call[c].target \in Targets /\ page[call[c].target] # "unborn"
        BY <3>4, MethodTable, MethodKinds DEF Claim, ShapeInv, Shape, Is, At
      <4> QED BY <3>2, <4>1, PagesAge
    <3> QED BY <3>b, <3>3, <3>4
  <2> QED BY <2>2, <2>3
<1>2. ASSUME NEW b \in Tabs, leases'[b].state = "missing"
      PROVE  page'[leases'[b].target] = "gone"
  <2>1. CASE leases[b].state = "missing"
    <3>1. Known(b) /\ leases'[b].target = leases[b].target
      BY <2>1, Retired DEF Known
    <3> QED BY <1>a, <2>1, <3>1, PagesAge DEF PageInv
  <2> QED BY <1>2, <2>1, NewMissing
\* Who remembers a target remembers one whose page was opened.
<1>3. ASSUME NEW q \in Calls, Aimed(q)'
      PROVE  page'[call'[q].target] # "unborn"
  <2>1. call'[q].method \in TabMethods /\ call'[q].target \in Targets
    BY <1>3 DEF Aimed, Is, ShapeInv, Shape
  <2>2. CASE call'[q].target = call[q].target /\ call'[q].method = call[q].method
    <3>1. Aimed(q) /\ call[q].target \in Targets
      BY <2>1, <2>2, NoneAssumption DEF ShapeInv, Shape, Is
    <3> QED BY <2>2, <3>1, PagesAge DEF PageInv
  <2>3. CASE /\ Is(q, TabMethods) /\ Known(call[q].tab)
             /\ call'[q].target = leases[call[q].tab].target
    <3>1. call[q].tab \in Tabs
      BY <2>3 DEF ShapeInv, Shape
    <3> QED BY <1>a, <2>3, <3>1, PagesAge DEF PageInv
  <2>4. call'[q] # NoCall /\ ~Fresh(q)
    BY <2>1, MethodKinds, NoneAssumption DEF NoCall, Fresh
  <2> QED BY <2>2, <2>3, <2>4, CallFates DEF CallFate, Going, SameTarget
<1>4. ASSUME NEW q \in Calls, At(q, "commit")'
      PROVE  page'[call'[q].target] = "gone"
  <2>1. CASE call'[q] = call[q]
    <3>1. At(q, "commit") /\ call[q].target \in Targets
      BY <1>4, <2>1, HasTarget DEF At, ShapeInv
    <3> QED BY <2>1, <3>1, PagesAge DEF PageInv
  <2>2. CASE Acts(q)
    <3>0. Path(q) /\ Shape(q) /\ call'[q].pc = "commit" /\ NoCall.pc = "idle"
      BY <1>4, <2>2, Paths DEF ShapeInv, At, NoCall
    <3>1. CASE StepsOn(q)
      <4>1. At(q, "closing") /\ ClosePage(q) /\ SameTarget(q)
        BY <3>0, <3>1 DEF StepsOn, Moves, Goes
      <4>2. call[q].target \in Targets /\ page[call[q].target] # "unborn"
        BY <3>0, <4>1, MethodTable, MethodKinds DEF Shape, Aimed, At, Is, PageInv
      <4>3. page'[call[q].target] = "gone"
        BY <1>0, <4>1, <4>2 DEF ClosePage, PageGone, PageState
      <4> QED BY <4>1, <4>3 DEF SameTarget
    <3>2. CASE Minds(q)
      <4>1. /\ At(q, "reserve") /\ MayRelease(q) /\ leases[call[q].tab].state # "active"
            /\ SameTarget(q)
        BY <3>0, <3>2 DEF Minds, Assigned, Goes
      <4>2. Is(q, TabMethods) /\ call[q].target \in Targets
        BY <3>0, <4>1, MethodTable, MethodKinds DEF Shape, Aimed, At, Is
      <4>3. leases[call[q].tab].state = "missing" /\ call[q].tab \in Tabs
        BY <3>0, <4>1, <4>2 DEF MayRelease, Releasable, Shape
      <4>4. leases[call[q].tab].target = call[q].target
        BY <4>2, <4>3, AimedTarget DEF Known
      <4>5. page[call[q].target] = "gone"
        BY <4>3, <4>4 DEF PageInv
      <4> QED BY <4>1, <4>2, <4>5, PagesAge DEF SameTarget
    <3>3. ~Ends(q) /\ ~Fresh(q) /\ ~Finds(q) /\ ~Reconciles(q)
      BY <3>0 DEF Ends, Fresh, Finds, Reconciles, Aimes, Owes, Goes
    <3>4. ~Emulates(q)
      BY <3>0 DEF Emulates, Commanded, Goes, Shape, GoesOnAt
    <3> QED BY <3>0, <3>1, <3>2, <3>3, <3>4 DEF Path
  <2> QED BY <2>1, <2>2, OthersKept
<1> QED BY <1>1, <1>2, <1>3, <1>4, ShutPagesClean DEF PageInv

(***************************************************************************)
(* Traces.                                                                 *)
(***************************************************************************)
LEMMA LeftGrows ==
    ASSUME Types, [CaptureNext]_capVars
    PROVE  history.left \subseteq history'.left
<1>0. history \in History
  BY DEF Types, ControlTypes
<1>1. CASE SameTraces
  BY <1>1 DEF SameTraces
<1>2. ASSUME NEW L, history' = [history EXCEPT !.left = L], history.left \subseteq L
      PROVE  history.left \subseteq history'.left
  BY <1>0, <1>2 DEF History
<1>3. ASSUME NEW c \in Calls, TraceStarts(c) PROVE history.left \subseteq history'.left
  <2>1. \/ history' = history
        \/ history' = [history EXCEPT !.left = IF HandedOver(c) THEN @ \cup {call[c].target} ELSE @]
    BY <1>3 DEF TraceStarts
  <2> QED BY <1>2, <2>1
<1>4. CASE SweepExpire
  BY <1>2, <1>4 DEF SweepExpire
<1>5. CASE ExpiredCloses
  <2>1. PICK U : history' = [history EXCEPT !.unreset = U]
    BY <1>5 DEF ExpiredCloses, SweepCloses
  <2> QED BY <1>0, <2>1 DEF History
<1>6. ASSUME NEW c \in Calls,
             StopTrace(c) \/ TakeoverStopsTrace(c) \/ \E b \in Tabs : Reconcile(c, b)
      PROVE  history.left \subseteq history'.left
  BY <1>6 DEF StopTrace, TakeoverStopsTrace, Reconcile
<1> QED BY <1>1, <1>3, <1>4, <1>5, <1>6, Steps, ActFootprint, BackgroundFootprint

\* A trace begins by a start, and is noted when the start was too late.
LEMMA TracesGrow ==
    ASSUME Types, [CaptureNext]_capVars, NEW t \in traces', t \notin traces
    PROVE  \E d \in Calls : /\ TraceStarts(d) /\ t = call[d].target
                            /\ HandedOver(d) => t \in history'.left
<1>0. history \in History
  BY DEF Types, ControlTypes
<1>1. PICK d \in Calls : TraceStarts(d)
  BY Steps, ActFootprint, BackgroundFootprint
  DEF SameTraces, StopTrace, TakeoverStopsTrace, Reconcile, SweepExpire, traceVars,
      ExpiredCloses, SweepCloses
<1>2. /\ t = call[d].target
      /\ history' = [history EXCEPT !.left = IF HandedOver(d) THEN @ \cup {call[d].target} ELSE @]
  BY <1>1 DEF TraceStarts
<1>3. HandedOver(d) => t \in history'.left
  <2> DEFINE L == history.left \cup {call[d].target}
  <2>1. HandedOver(d) => history' = [history EXCEPT !.left = L]
    BY <1>2
  <2>2. t \in L
    BY <1>2
  <2> HIDE DEF L
  <2> QED BY <1>0, <2>1, <2>2 DEF History
<1> QED BY <1>1, <1>2, <1>3

\* How a lease stops being active.
LEMMA ActiveEnds ==
    ASSUME RegistryInv, [Next]_vars, [CaptureNext]_capVars, NEW b \in Tabs,
           leases[b].state = "active"
    PROVE  \/ leases'[b].state = "active" /\ leases'[b].target = leases[b].target
           \/ \E c \in Calls, d \in Tabs : Claim(c, d) /\ call[c].target = leases[b].target
           \/ \E c \in Calls : (Release(c) \/ CommitClose(c)) /\ call[c].tab = b /\ MayRelease(c)
           \/ \E c \in Calls : ValidateTool(c) /\ b \in Missing /\ leases'[b].state = "missing"
           \/ /\ SweepExpire
              /\ b \in ToClose(ExpiredIds(clock, InFlight))
                         \cup ToRelease(ExpiredIds(clock, InFlight))
<1>0. leases \in [Tabs -> TabLease]
  BY DEF RegistryInv, TypeOK
<1>1. ASSUME leases'[b] = leases[b]
      PROVE  leases'[b].state = "active" /\ leases'[b].target = leases[b].target
  BY <1>1
<1>2. ASSUME NEW c \in Calls, NEW d \in Tabs, Claim(c, d)
      PROVE  leases'[b] = leases[b] \/ call[c].target = leases[b].target
  <2>1. /\ leases[d].state = "unissued"
        /\ leases'[b] = CASE b = d -> ActiveLease(call[c].session, call[c].target)
                          [] b # d /\ HasActiveLease(call[c].target)
                             /\ b = active_target_owners[call[c].target] -> Removed
                          [] OTHER -> leases[b]
    BY <1>2 DEF Claim, ClaimTab, FreshTab
  <2>2. ASSUME HasActiveLease(call[c].target), b = active_target_owners[call[c].target]
        PROVE  call[c].target = leases[b].target
    <3>1. CASE call[c].target \in Targets
      BY <2>2, <3>1, NoneAssumption DEF RegistryInv, TargetInv, ActiveIndexExact
    <3>2. CASE call[c].target \notin Targets
      <4>1. active_target_owners' = [active_target_owners EXCEPT ![call[c].target] = d]
            /\ active_target_owners' \in [Targets -> Maybe(Tabs)]
        BY <1>2, RegistryStep DEF Claim, ClaimTab, RegistryInv, TypeOK
      <4>2. leases[b].target \in Targets /\ active_target_owners[leases[b].target] = b
        BY DEF RegistryInv, TargetInv, ActiveIndexExact, LeasesComplete, Known
      <4>3. active_target_owners'[leases[b].target] = b
        BY <3>2, <4>1, <4>2 DEF RegistryInv, TypeOK
      <4>4. leases'[b].state = "active"
        BY <4>2, <4>3, RegistryStep, NoneAssumption DEF RegistryInv, TargetInv, ActiveIndexExact
      <4> QED BY <2>1, <2>2, <4>4 DEF Removed
    <3> QED BY <3>1, <3>2
  <2> QED BY <2>1, <2>2
<1>3. ASSUME NEW c \in Calls, Release(c) \/ CommitClose(c)
      PROVE  leases'[b] = leases[b] \/ (call[c].tab = b /\ MayRelease(c))
  <2>1. \/ leases' = leases
        \/ MayRelease(c) /\ \E v : leases' = [leases EXCEPT ![call[c].tab].state = v]
    BY <1>3
    DEF Release, CommitClose, ReleaseTab, CommitOwnedTabClose, EndReservation,
        FinishOwnedTabCloseReservation, vars, targetVars
  <2> QED BY <1>0, <2>1
<1>4. ASSUME NEW c \in Calls, ValidateTool(c)
      PROVE  leases'[b] = leases[b] \/ (b \in Missing /\ leases'[b].state = "missing")
  <2>1. \/ leases' = leases
        \/ leases' = [d \in Tabs |-> IF d \in Missing THEN [leases[d] EXCEPT !.state = "missing"]
                                     ELSE leases[d]]
    BY <1>4
    DEF ValidateTool, MarkMissingTargetsNotIn, MarkMissing, Missing, vars, targetVars
  <2> QED BY <1>0, <2>1 DEF TabLease
<1>5. ASSUME NEW c \in Calls, NEW d \in Tabs, NewTab(c, d)
      PROVE  leases'[b] = leases[b]
  <2>1. \/ leases' = leases
        \/ /\ leases[d].state = "unissued"
           /\ leases' = [leases EXCEPT ![d] = ActiveLease(call[c].session, call[c].target)]
    BY <1>5 DEF NewTab, LeaseTab, FreshTab, vars, targetVars
  <2> QED BY <1>0, <2>1
<1>6. ASSUME NEW c \in Calls, Reserve(c) \/ ClosePageFails(c)
      PROVE  leases'[b] = leases[b]
  BY <1>6
  DEF Reserve, ClosePageFails, ReserveOwnedTabClose, EndReservation,
      FinishOwnedTabCloseReservation, vars, targetVars
<1>7. CASE SweepExpire
  <2> DEFINE E == ExpiredIds(clock, InFlight)
  <2>1. PICK batch : ExpireBatch(E, batch)
    BY <1>7 DEF SweepExpire, ExpireSessions
  <2>2. E \in SUBSET Sessions
    BY DEF ExpiredIds
  <2> HIDE DEF E
  <2>3. \/ leases'[b].state = "active" /\ leases'[b].target = leases[b].target
        \/ b \in ToClose(E) \cup ToRelease(E)
    BY <2>1, <2>2, ExpireEffects
  <2> QED BY <1>7, <2>3 DEF E
<1>8. ASSUME NEW x \in sweep_closes, NEW closed \in BOOLEAN, SweepCloses(x, closed)
      PROVE  leases'[b] = leases[b]
  <2>1. leases' = leases \/ leases' = [leases EXCEPT ![x.tab].state = "released"]
    BY <1>8 DEF SweepCloses, FinishExpiredTargetClose
  <2>2. leases[x.tab].state = "closed"
    BY SweptLease DEF RegistryInv, TargetInv
  <2> QED BY <1>0, <2>1, <2>2
<1>9. CASE UNCHANGED vars \/ SessionsOnly
  BY <1>9 DEF SessionsOnly, vars, targetVars
<1> QED
  BY <1>1, <1>2, <1>3, <1>4, <1>5, <1>6, <1>7, <1>8, <1>9, RegistrySteps DEF AsksRegistry

\* How a target that is about to be closed stops being so.
LEMMA ClosingEnds ==
    ASSUME RegistryInv, Types, ShapeInv, [CaptureNext]_capVars, NEW t \in Targets, Closing(t)
    PROVE  \/ Closing(t)'
           \/ \E c \in Calls : (ClosePageFails(c) \/ CommitClose(c)) /\ call[c].target = t
           \/ \E x \in sweep_closes, closed \in BOOLEAN : SweepCloses(x, closed) /\ x.target = t
<1> USE DEF Closing
<1>0. pending_target_closes \in [Targets -> Maybe(Tabs)]
  BY DEF RegistryInv, TypeOK
<1>1. ASSUME NEW c \in Calls, ClosePageFails(c) \/ CommitClose(c)
      PROVE  pending_target_closes'[t] = pending_target_closes[t] \/ call[c].target = t
  <2>1. Is(c, TabMethods) /\ call[c].target \in Targets
    BY <1>1, MethodTable, MethodKinds
    DEF ClosePageFails, CommitClose, At, Is, Aimed, ShapeInv, Shape
  <2>2. CASE EndReservation(c)
    BY <1>0, <2>2 DEF EndReservation, FinishOwnedTabCloseReservation, vars, targetVars
  <2>3. CASE MayRelease(c) /\ CommitOwnedTabClose(call[c].session, call[c].tab)
    <3>1. leases[call[c].tab].target = call[c].target
      BY <2>1, <2>3, AimedTarget DEF MayRelease, RequireOwnedTab
    <3>2. \E v : pending_target_closes'
                   = [pending_target_closes EXCEPT ![leases[call[c].tab].target] = v]
      BY <2>3 DEF CommitOwnedTabClose
    <3> QED BY <1>0, <3>1, <3>2
  <2> QED BY <1>1, <2>2, <2>3 DEF ClosePageFails, CommitClose
<1>2. ASSUME NEW c \in Calls, AsksRegistry(c), ~ClosePageFails(c), ~CommitClose(c)
      PROVE  Closing(t)'
  <2>1. CASE Reserve(c)
    <3>1. \/ pending_target_closes' = pending_target_closes
          \/ /\ call[c].tab # None
             /\ pending_target_closes' =
                  [pending_target_closes EXCEPT ![leases[call[c].tab].target] = call[c].tab]
      <4>1. call[c].tab \in Tabs
        BY <2>1, MethodTable, MethodKinds DEF Reserve, At, Is, ShapeInv, Shape
      <4> QED BY <2>1, <4>1, NoneAssumption DEF Reserve, ReserveOwnedTabClose, vars, targetVars
    <3> QED BY <1>0, <3>1
  <2>2. CASE ValidateTool(c) \/ Release(c)
    BY <2>2
    DEF ValidateTool, Release, MarkMissingTargetsNotIn, MarkMissing, ReleaseTab, vars, targetVars
  <2>3. ASSUME NEW d \in Tabs, NewTab(c, d) \/ Claim(c, d) PROVE Closing(t)'
    BY <2>3 DEF NewTab, Claim, LeaseTab, ClaimTab, vars, targetVars
  <2> QED BY <1>2, <2>1, <2>2, <2>3 DEF AsksRegistry
<1>3. CASE SweepExpire
  <2> DEFINE E == ExpiredIds(clock, InFlight)
  <2>1. PICK batch : ExpireBatch(E, batch)
    BY <1>3 DEF SweepExpire, ExpireSessions
  <2>2. pending_target_closes' =
          [u \in Targets |-> IF \E b \in ToClose(E) : leases[b].target = u
                             THEN CHOOSE b \in ToClose(E) : leases[b].target = u
                             ELSE pending_target_closes[u]]
    BY <2>1 DEF ExpireBatch
  <2>3. None \notin ToClose(E)
    BY NoneAssumption DEF ToClose
  <2> HIDE DEF E
  <2>4. CASE \E b \in ToClose(E) : leases[b].target = t
    <3>1. (CHOOSE b \in ToClose(E) : leases[b].target = t) \in ToClose(E)
      BY <2>4
    <3> QED BY <2>2, <2>3, <2>4, <3>1
  <2> QED BY <2>2, <2>4
<1>4. ASSUME NEW x \in sweep_closes, NEW closed \in BOOLEAN, SweepCloses(x, closed)
      PROVE  Closing(t)' \/ x.target = t
  BY <1>0, <1>4 DEF SweepCloses, FinishExpiredTargetClose
<1>5. CASE UNCHANGED vars \/ SessionsOnly
  BY <1>5 DEF SessionsOnly, vars, targetVars
<1> QED BY <1>1, <1>2, <1>3, <1>4, <1>5, RegistrySteps

\* Who goes on to hand a target over has seen it without a trace.
LEMMA BlocksBack ==
    ASSUME RegistryInv, Types, ShapeInv, [Next]_vars, [CaptureNext]_capVars, NEW c \in Calls,
           Blocks(c)'
    PROVE  \/ call'[c] = call[c] /\ Blocks(c)
           \/ /\ Acts(c) /\ ~TraceStarts(c)
              /\ call'[c].target \notin traces \/ (Blocks(c) /\ SameTarget(c))
<1>0. /\ call'[c].pc \in {"reserve", "closing", "commit", "commanding", "release"}
      /\ NoCall.pc = "idle"
      /\ call'[c].pc \in {"commanding", "release"} =>
            call'[c].method = "release" /\ leases'[call'[c].tab].state = "active"
  BY DEF Blocks, Is, At, NoCall
<1>a. ASSUME call[c].method = "release", leases'[call[c].tab].state = "active"
      PROVE  leases[call[c].tab].state = "active"
  <2>1. PICK b \in Tabs : b = call[c].tab /\ leases[b].state # "unissued"
    BY <1>a, MethodKinds DEF ShapeInv, Shape, Is
  <2> QED BY <1>a, <2>1, LeaseFates DEF Fate, Ages, Known
<1>1. CASE call'[c] = call[c]
  <2>1. call[c].pc \in {"commanding", "release"} =>
          call[c].method = "release" /\ leases[call[c].tab].state = "active"
    BY <1>0, <1>1, <1>a
  <2> QED BY <1>0, <1>1, <2>1 DEF Blocks, Is
<1>2. CASE Acts(c)
  <2>1. Path(c) /\ Shape(c)
    BY <1>2, Paths DEF ShapeInv
  <2>2. ~TraceStarts(c)
    <3>1. ASSUME TraceStarts(c)
          PROVE  Goto(c, "reload") \/ End(c)
      BY <3>1 DEF TraceStarts
    <3>2. CASE Goto(c, "reload")
      BY <1>0, <3>2, GotoMoves DEF Types, Pcs, Moves, Goes
    <3>3. CASE End(c)
      BY <1>0, <3>3, EndEnds DEF Types, Ends
    <3> QED BY <3>1, <3>2, <3>3
  <2>3. ASSUME call[c].pc \in {"commanding", "release", "reserve", "closing", "commit"},
               NEW pc, Goes(c, pc), SameTarget(c),
               pc \in {"reserve", "closing", "commit"} =>
                  call[c].pc \in {"reserve", "closing", "commit"}
        PROVE  Blocks(c) /\ SameTarget(c)
    <3>1. call'[c].pc = pc /\ call'[c].method = call[c].method /\ call'[c].tab = call[c].tab
      BY <2>3 DEF Goes
    <3>2. CASE pc \in {"reserve", "closing", "commit"}
      BY <2>3, <3>2 DEF Blocks
    <3>3. CASE pc \in {"commanding", "release"}
      <4>1. call[c].method = "release" /\ leases[call[c].tab].state = "active"
        BY <1>0, <1>a, <3>1, <3>3
      <4> QED BY <2>3, <4>1 DEF Blocks, Is
    <3> QED BY <1>0, <3>1, <3>2, <3>3
  <2>4. CASE StepsOn(c)
    <3>1. \/ /\ At(c, "untraced") /\ call[c].target \notin traces /\ SameTarget(c)
          \/ At(c, "closing") /\ Moves(c, "commit")
      BY <1>0, <2>4 DEF StepsOn, Moves, Goes
    <3> QED BY <1>2, <2>2, <2>3, <3>1 DEF SameTarget, Moves, At
  <2>5. CASE Finds(c)
    <3>1. CASE /\ At(c, "handle") /\ Is(c, {"close"})
               /\ leases[call[c].tab].target \notin traces
               /\ Aimes(c, "reserve", leases[call[c].tab].target)
      BY <1>2, <2>2, <3>1 DEF Aimes
    <3>2. CASE Is(c, {"release"}) /\ leases[call[c].tab].state # "active"
               /\ Aimes(c, "release", leases[call[c].tab].target)
      <4>1. call'[c].pc = "release" /\ call'[c].tab = call[c].tab
        BY <3>2 DEF Aimes, Goes
      <4> QED BY <1>0, <1>a, <3>2, <4>1 DEF Is
    <3> QED BY <1>0, <2>5, <3>1, <3>2 DEF Finds, Aimes, Goes
  <2>6. CASE Emulates(c)
    <3>1. CASE At(c, "untraced") /\ call[c].target \notin traces /\ SameTarget(c)
      BY <1>2, <2>2, <3>1 DEF SameTarget
    <3>2. CASE At(c, "commanding") /\ SameTarget(c) /\ \E pc : Goes(c, pc)
      <4>1. call'[c].pc \notin {"reserve", "closing", "commit"}
        BY <2>1, <2>6, <3>2 DEF Emulates, Commanded, Goes, At, Shape, GoesOnAt
      <4>2. PICK pc : Goes(c, pc) /\ pc = call'[c].pc
        BY <3>2 DEF Goes
      <4> QED BY <1>2, <2>2, <2>3, <3>2, <4>1, <4>2 DEF At
    <3>3. CASE At(c, "act") \/ At(c, "audit") \/ At(c, "take_casts")
      <4>1. call[c].method # "release" /\ call'[c].method = call[c].method
        BY <2>1, <2>6, <3>3, MethodTable
        DEF Emulates, Commanded, Goes, At, Shape, PageTools, Takeovers
      <4>2. call'[c].pc = "commanding"
        BY <2>6, <3>3 DEF Emulates, Commanded, Goes, At
      <4> QED BY <1>0, <4>1, <4>2
    <3> QED BY <2>6, <3>1, <3>2, <3>3 DEF Emulates, Commanded
  <2>7. CASE Minds(c)
    <3>1. At(c, "reserve") /\ SameTarget(c) /\ \E pc \in {"closing", "commit"} : Goes(c, pc)
      BY <1>0, <2>7 DEF Minds, Assigned, Goes
    <3> QED BY <1>2, <2>2, <2>3, <3>1 DEF At
  <2>8. ~Ends(c) /\ ~Fresh(c) /\ ~Reconciles(c)
    BY <1>0 DEF Ends, Fresh, Reconciles, Owes, Goes
  <2> QED BY <2>1, <2>4, <2>5, <2>6, <2>7, <2>8 DEF Path
<1> QED BY <1>1, <1>2, OthersKept

\* A target of an active lease is held.
LEMMA HeldNext ==
    ASSUME RegistryInv', NEW b \in Tabs, NEW t \in Targets,
           leases'[b].state = "active", leases'[b].target = t
    PROVE  HasActiveLease(t)'
BY NoneAssumption DEF RegistryInv, TargetInv, ActiveIndexExact, HasActiveLease

\* Who gives tabs up tidies up after them one by one.
LEMMA ReconcileActs ==
    ASSUME NEW q \in Calls, At(q, "reconcile"), Acts(q)
    PROVE  \E b \in Tabs : Reconcile(q, b)
BY DEF Acts, ClientStep, ToolStep, HandoverStep, Send, NewTab, ValidateTool, CheckOwned,
       TakeTraces, TraceStarts, ReloadTraced, StopTrace, StoreArtifact, Capture,
       DeleteArtifact, AuditStarts, AuditRuns, Emulate, Command, RecordOverride,
       ReserveArtifact, RefusedCast, TakeJobs, CastStarts, CastFails, StopCast,
       LookUpClaim, TakeoverStopsTrace, TakeoverCancels, Claim,
       ClaimRefused, ValidateRelease, ReleaseUntraced, Release, ValidateClose, Reserve,
       ClosePage, ClosePageFails, CommitClose, At

\* A trace whose target has an active lease is met by it, or by whoever ends
\* that lease.
LEMMA HeldTraceMet ==
    ASSUME CaptureInv, [CaptureNext]_capVars, NEW t \in traces, HasActiveLease(t)
    PROVE  Met(t)'
<1> USE Parts, ShapesStay
<1>a. t \in Targets /\ [Next]_vars
  BY StepsTheRegistry DEF Types, TraceTypes
<1>1. PICK b \in Tabs : leases[b].state = "active" /\ leases[b].target = t
  <2>1. active_target_owners[t] \in Tabs
    BY <1>a DEF HasActiveLease, RegistryInv, TypeOK, Maybe
  <2>2. leases[active_target_owners[t]].target = t
    BY <1>a DEF HasActiveLease, RegistryInv, TargetInv, ActiveIndexExact
  <2> QED BY <2>1, <2>2 DEF HasActiveLease
<1>2. CASE leases'[b].state = "active" /\ leases'[b].target = leases[b].target
  BY <1>1, <1>2, <1>a, HeldNext DEF Met
<1>3. ASSUME NEW c \in Calls, NEW d \in Tabs, Claim(c, d), call[c].target = leases[b].target
      PROVE  Met(t)'
  <2>1. leases'[d] = ActiveLease(call[c].session, call[c].target)
    BY <1>3 DEF Claim, ClaimTab
  <2>2. leases'[d].state = "active" /\ leases'[d].target = t
    BY <1>1, <1>3, <2>1 DEF ActiveLease
  <2> QED BY <1>a, <2>2, HeldNext DEF Met
<1>4. ASSUME NEW c \in Calls, Release(c) \/ CommitClose(c), call[c].tab = b, MayRelease(c)
      PROVE  Met(t)'
  <2>0. call[c].pc \in {"release", "commit"} /\ Shape(c)
    BY <1>4 DEF Release, CommitClose, At, ShapeInv
  <2>a. \/ call[c].pc = "release" /\ call[c].method = "release"
        \/ call[c].pc = "commit" /\ call[c].method = "close"
    BY <2>0, MethodTable DEF Shape
  <2>b. Is(c, TabMethods) /\ Blocks(c)
    BY <1>1, <1>4, <2>a, MethodKinds DEF Is, Blocks
  <2>1. Is(c, TabMethods) /\ call[c].target \in Targets /\ Blocks(c)
    BY <2>0, <2>b DEF Shape, Aimed
  <2>2. leases[b].target = call[c].target
    BY <1>1, <1>4, <2>1, AimedTarget DEF Known
  <2>3. t \in history.left
    BY <1>1, <2>1, <2>2 DEF TraceInv
  <2> QED BY <2>3, LeftGrows DEF Met
<1>5. ASSUME NEW c \in Calls, ValidateTool(c), b \in Missing, leases'[b].state = "missing"
      PROVE  Met(t)'
  <2>1. leases'[b].target = t
    <3>1. Known(b) /\ leases'[b].state # "removed"
      BY <1>1, <1>5 DEF Known
    <3>2. Fate(b)
      BY <1>a, LeaseFates
    <3> QED BY <1>1, <1>5, <3>1, <3>2 DEF Fate, Ages, Removed
  <2>2. call'[c].todo = Missing
    <3>1. leases' # leases
      BY <1>1, <1>5
    <3>2. call' = [call EXCEPT ![c].pc = "reconcile", ![c].todo = Missing]
      BY <1>5, <3>1 DEF ValidateTool, vars, targetVars
    <3> QED BY <3>2 DEF Types, CallTypes, CallState
  <2> QED BY <1>5, <2>1, <2>2 DEF Met
<1>6. ASSUME SweepExpire,
             b \in ToClose(ExpiredIds(clock, InFlight)) \cup ToRelease(ExpiredIds(clock, InFlight))
      PROVE  Met(t)'
  <2> DEFINE E == ExpiredIds(clock, InFlight)
  <2>1. CASE b \in ToRelease(E)
    <3> DEFINE L == history.left \cup (traces \cap {leases[d].target : d \in ToRelease(E)})
    <3>1. history' = [history EXCEPT !.left = L]
      BY <1>6 DEF SweepExpire
    <3>2. t \in L
      BY <1>1, <2>1
    <3> HIDE DEF L
    <3>3. t \in history'.left
      BY <3>1, <3>2 DEF Types, ControlTypes, History
    <3> QED BY <3>3 DEF Met
  <2>2. CASE b \in ToClose(E)
    <3>1. PICK batch : ExpireBatch(E, batch)
      BY <1>6 DEF SweepExpire, ExpireSessions
    <3>2. pending_target_closes' =
            [u \in Targets |-> IF \E d \in ToClose(E) : leases[d].target = u
                               THEN CHOOSE d \in ToClose(E) : leases[d].target = u
                               ELSE pending_target_closes[u]]
      BY <3>1 DEF ExpireBatch
    <3>3. None \notin ToClose(E)
      BY NoneAssumption DEF ToClose
    <3> HIDE DEF E
    <3>4. (CHOOSE d \in ToClose(E) : leases[d].target = t) \in ToClose(E)
      BY <1>1, <2>2
    <3>5. pending_target_closes'[t] # None
      BY <1>1, <1>a, <2>2, <3>2, <3>3, <3>4
    <3> QED BY <3>5 DEF Met, Closing
  <2> QED BY <1>6, <2>1, <2>2
<1> QED BY <1>a, <1>1, <1>2, <1>3, <1>4, <1>5, <1>6, ActiveEnds

\* A trace whose target is about to be closed is met by the close.
LEMMA ClosingTraceMet ==
    ASSUME CaptureInv, [CaptureNext]_capVars, NEW t \in traces, t \in traces', Closing(t)
    PROVE  Met(t)'
<1> USE Parts, ShapesStay
<1>a. t \in Targets /\ [Next]_vars
  BY StepsTheRegistry DEF Types, TraceTypes
<1>1. CASE Closing(t)'
  BY <1>1 DEF Met
<1>2. ASSUME NEW c \in Calls, ClosePageFails(c) \/ CommitClose(c), call[c].target = t
      PROVE  Met(t)'
  <2>1. t \in history.left
    BY <1>2 DEF ClosePageFails, CommitClose, At, Blocks, TraceInv
  <2> QED BY <2>1, LeftGrows DEF Met
<1>3. ASSUME NEW x \in sweep_closes, NEW closed \in BOOLEAN, SweepCloses(x, closed), x.target = t
      PROVE  Met(t)'
  BY <1>3 DEF SweepCloses
<1> QED BY <1>a, <1>1, <1>2, <1>3, ClosingEnds

\* A trace of a tab that was given up is met by who gave it up.
LEMMA OwedTraceMet ==
    ASSUME CaptureInv, [CaptureNext]_capVars, NEW t \in traces, t \in traces',
           NEW c \in Calls, NEW b \in call[c].todo, leases[b].target = t
    PROVE  Met(t)'
<1> USE Parts, ShapesStay
<1>a. t \in Targets /\ [Next]_vars /\ b \in Tabs
  BY StepsTheRegistry DEF Types, TraceTypes, CallTypes, CallState
<1>1. At(c, "reconcile") /\ Known(b) /\ leases[b].state # "active"
  BY DEF ShapeInv, Shape
<1>2. leases'[b].target = t
  BY <1>a, <1>1, Retired
<1>3. b \in call'[c].todo
  <2>1. CASE call'[c] = call[c]
    BY <2>1
  <2>2. CASE Acts(c)
    <3>1. PICK d \in Tabs : Reconcile(c, d)
      BY <1>1, <2>2, ReconcileActs
    <3>2. d # b
      BY <3>1 DEF Reconcile
    <3>3. call' = [call EXCEPT ![c].todo = @ \ {d},
                               ![c].pc = IF call[c].todo = {d} THEN "check" ELSE @]
      BY <3>1 DEF Reconcile
    <3>4. call'[c].todo = call[c].todo \ {d}
      <4> DEFINE pc == IF call[c].todo = {d} THEN "check" ELSE "reconcile"
                 B == call[c].todo \ {d}
      <4>1. call' = [call EXCEPT ![c].todo = B, ![c].pc = pc]
        BY <1>1, <3>3 DEF At
      <4>2. pc \in Pcs /\ B \in SUBSET Tabs
        BY DEF Types, CallTypes, CallState, Pcs
      <4> HIDE DEF pc, B
      <4>3. Owes(c, pc, B)
        BY <4>1, <4>2, TodoOwes DEF Types
      <4> QED BY <4>3 DEF Owes, B
    <3> QED BY <3>2, <3>4
  <2> QED BY <2>1, <2>2, OthersKept
<1> QED BY <1>2, <1>3 DEF Met

\* A trace that begins belongs to the owner of its tab, or is noted.
LEMMA NewTraceMet ==
    ASSUME CaptureInv, [CaptureNext]_capVars, NEW t \in traces', t \notin traces
    PROVE  Met(t)'
<1> USE Parts, ShapesStay
<1>1. PICK d \in Calls : /\ TraceStarts(d) /\ t = call[d].target
                         /\ HandedOver(d) => t \in history'.left
  BY TracesGrow
<1>2. CASE HandedOver(d)
  BY <1>1, <1>2 DEF Met
<1>3. CASE ~HandedOver(d)
  <2>1. Owns(d) /\ UNCHANGED vars
    BY <1>1, <1>3, QuietSteps DEF HandedOver, Quiet
  <2>2. Is(d, TabMethods) /\ call[d].target \in Targets
    BY <1>1, MethodTable, MethodKinds DEF TraceStarts, At, Is, Aimed, ShapeInv, Shape
  <2>3. Known(call[d].tab) /\ leases[call[d].tab].state = "active"
    BY <2>1 DEF Owns, Known
  <2>4. PICK b \in Tabs : b = call[d].tab /\ leases[b].target = t
    BY <1>1, <2>2, <2>3, AimedTarget
  <2>5. leases'[b].state = "active" /\ leases'[b].target = t
    BY <2>1, <2>3, <2>4 DEF vars, targetVars
  <2> QED BY <1>1, <2>2, <2>5, HeldNext DEF Met
<1> QED BY <1>2, <1>3

\* Who is past its look at the traces has met none, or the trace is noted.
LEMMA BlocksNext ==
    ASSUME CaptureInv, [CaptureNext]_capVars, NEW c \in Calls, Blocks(c)'
    PROVE  call'[c].target \notin traces' \/ call'[c].target \in history'.left
<1> USE Parts, ShapesStay
<1>a. [Next]_vars /\ history.left \subseteq history'.left
  BY StepsTheRegistry, LeftGrows
<1>1. SUFFICES ASSUME NEW t, t = call'[c].target, t \in traces'
               PROVE  t \in history'.left
  OBVIOUS
<1>2. CASE call'[c] = call[c] /\ Blocks(c)
  <2>1. CASE t \in traces
    BY <1>1, <1>2, <1>a, <2>1 DEF TraceInv
  <2>2. CASE t \notin traces
    <3>1. PICK d \in Calls : /\ TraceStarts(d) /\ t = call[d].target
                             /\ HandedOver(d) => t \in history'.left
      BY <1>1, <2>2, TracesGrow
    <3>2. HandedOver(d)
      BY <1>1, <1>2, <3>1, MethodKinds DEF HandedOver, Blocks, At, Is
    <3> QED BY <3>1, <3>2
  <2> QED BY <2>1, <2>2
<1>3. CASE /\ Acts(c) /\ ~TraceStarts(c)
           /\ call'[c].target \notin traces \/ (Blocks(c) /\ SameTarget(c))
  <2>1. traces' \subseteq traces
    BY <1>3, ActFootprint DEF SameTraces, StopTrace, TakeoverStopsTrace, Reconcile
  <2> QED BY <1>1, <1>3, <1>a, <2>1 DEF SameTarget, TraceInv
<1> QED BY <1>a, <1>2, <1>3, BlocksBack

\* The invariant of the trace gate is preserved.
LEMMA TraceNext ==
    ASSUME CaptureInv, [CaptureNext]_capVars
    PROVE  TraceInv'
<1>1. ASSUME NEW t \in traces' PROVE Met(t)'
  <2>1. CASE t \notin traces
    BY <1>1, <2>1, NewTraceMet
  <2>2. CASE t \in traces
    <3>1. Met(t)
      BY <2>2, Parts DEF TraceInv
    <3>2. CASE t \in history.left
      BY <3>2, LeftGrows, Parts DEF Met
    <3> QED BY <1>1, <2>2, <3>1, <3>2, HeldTraceMet, ClosingTraceMet, OwedTraceMet DEF Met
  <2> QED BY <2>1, <2>2
<1>2. ASSUME NEW c \in Calls, Blocks(c)'
      PROVE  call'[c].target \notin traces' \/ call'[c].target \in history'.left
  BY <1>2, BlocksNext
<1> QED BY <1>1, <1>2 DEF TraceInv

(***************************************************************************)
(* Emulation.                                                              *)
(***************************************************************************)
\* A reset takes overrides away, and only at its target.
LEMMA ResetsShrink ==
    ASSUME Types, NEW t \in Targets, NEW f \in Resets(t), NEW u \in Targets, NEW k \in Overrides
    PROVE  f[u][k] \in {emulated[u][k], None}
<1>1. emulated \in [Targets -> Emulation]
  BY DEF Types, PageTypes
<1>2. PICK done :
          f = [emulated EXCEPT ![t] = [o \in Overrides |-> IF o \in done THEN None ELSE @[o]]]
  BY DEF Resets
<1>3. CASE u = t
  <2>1. f[u] = [o \in Overrides |-> IF o \in done THEN None ELSE emulated[u][o]]
    BY <1>1, <1>2, <1>3
  <2> QED BY <2>1
<1>4. CASE u # t
  <2>1. f[u] = emulated[u]
    BY <1>1, <1>2, <1>4
  <2> QED BY <2>1
<1> QED BY <1>3, <1>4

\* The page of t has a command of c that sets something.
Dirties(c, t) ==
    /\ Command(c) /\ call[c].target = t /\ Head(call[c].commands).by # None
    /\ HandedOver(c) => t \in history'.late
Shrinks(t) == \A k \in Overrides : emulated'[t][k] \in {emulated[t][k], None}

\* What a command that the page gets does to it.
CommandRuns(c, t) ==
    /\ call[c].target = t /\ page[t] = "open" /\ Command(c)
    /\ emulated' = [emulated EXCEPT
                       ![t][Head(call[c].commands).override] = Head(call[c].commands).by]
    /\ history' =
         [history EXCEPT
            !.late = IF Head(call[c].commands).by # None /\ HandedOver(c) THEN @ \cup {t}
                     ELSE IF emulated'[t] = Clean THEN @ \ {t} ELSE @,
            !.unreset = IF emulated'[t] = Clean THEN @ \ {t} ELSE @]

\* A command runs on the target of its call, or it fails and the call ends.
LEMMA CommandRan ==
    ASSUME RegistryInv, Types, NEW c \in Calls, Shape(c), Command(c)
    PROVE  /\ call[c].target \in Targets
           /\ call[c].commands \in Seq(Commands) /\ call[c].commands # <<>>
           /\ Head(call[c].commands) \in Commands
           /\ \/ CommandRuns(c, call[c].target)
              \/ emulated' = emulated /\ history' = history /\ Ends(c)
<1>1. At(c, "commanding")
  BY DEF Command
<1>2. call[c].target \in Targets
  BY <1>1, HasTarget DEF At
<1>3. call[c].commands \in Seq(Commands) /\ call[c].commands # <<>>
  BY <1>1 DEF Shape, Types, CallTypes, CallState
<1>4. Head(call[c].commands) \in Commands
  BY <1>3
<1>5. \/ CommandRuns(c, call[c].target)
      \/ emulated' = emulated /\ history' = history /\ End(c)
  BY DEF Command, CommandRuns
<1> QED BY <1>2, <1>3, <1>4, <1>5, EndEnds DEF Types

\* A command that runs writes its own override and no other.
LEMMA RunWrites ==
    ASSUME Types, NEW c \in Calls, NEW t \in Targets, CommandRuns(c, t),
           Head(call[c].commands) \in Commands
    PROVE  LET command == Head(call[c].commands)
           IN  /\ emulated'[t][command.override] = command.by
               /\ \A k \in Overrides : k # command.override => emulated'[t][k] = emulated[t][k]
               /\ \A u \in Targets : u # t => emulated'[u] = emulated[u]
               /\ t \in history'.late \/ ~(command.by # None /\ HandedOver(c))
               /\ \A u \in Targets : Marked(u) => Marked(u)' \/ emulated'[u] = Clean
<1> DEFINE command == Head(call[c].commands)
           L == IF command.by # None /\ HandedOver(c) THEN history.late \cup {t}
                ELSE IF emulated'[t] = Clean THEN history.late \ {t} ELSE history.late
           U == IF emulated'[t] = Clean THEN history.unreset \ {t} ELSE history.unreset
<1>1. emulated \in [Targets -> Emulation] /\ history \in History
  BY DEF Types, PageTypes, ControlTypes
<1>2. history' = [history EXCEPT !.late = L, !.unreset = U]
  BY DEF CommandRuns
<1>3. history'.late = L /\ history'.unreset = U
  <2> HIDE DEF L, U
  <2> QED BY <1>1, <1>2 DEF History
<1>4. command.override \in Overrides
  BY DEF Commands
<1>5. emulated' = [emulated EXCEPT ![t] = [@ EXCEPT ![command.override] = command.by]]
  BY DEF CommandRuns
<1>6. emulated'[t] = [emulated[t] EXCEPT ![command.override] = command.by]
  BY <1>1, <1>5
<1>7. /\ emulated'[t][command.override] = command.by
      /\ \A k \in Overrides : k # command.override => emulated'[t][k] = emulated[t][k]
  BY <1>1, <1>4, <1>6 DEF Emulation
<1>8. \A u \in Targets : u # t => emulated'[u] = emulated[u]
  BY <1>1, <1>5
<1>9. t \in history'.late \/ ~(command.by # None /\ HandedOver(c))
  BY <1>3
<1>10. \A u \in Targets : Marked(u) => Marked(u)' \/ emulated'[u] = Clean
  BY <1>3 DEF Marked
<1> QED BY <1>7, <1>8, <1>9, <1>10

\* Only a command that sets something puts an override over a page.
LEMMA EmulationFates ==
    ASSUME RegistryInv, Types, ShapeInv, [CaptureNext]_capVars, NEW t \in Targets
    PROVE  Shrinks(t) \/ \E c \in Calls : Dirties(c, t)
<1>0. emulated \in [Targets -> Emulation]
  BY DEF Types, PageTypes
<1>1. CASE emulated' = emulated
  BY <1>1 DEF Shrinks
<1>2. ASSUME NEW c \in Calls, Command(c) PROVE Shrinks(t) \/ Dirties(c, t)
  <2>1. /\ Head(call[c].commands) \in Commands /\ call[c].target \in Targets
        /\ CommandRuns(c, call[c].target) \/ emulated' = emulated
    BY <1>2, CommandRan DEF ShapeInv
  <2>2. CASE emulated' = emulated
    BY <2>2 DEF Shrinks
  <2>3. CASE CommandRuns(c, call[c].target)
    <3>1. CASE call[c].target # t
      BY <2>1, <2>3, <3>1, RunWrites DEF Shrinks
    <3>2. CASE call[c].target = t /\ Head(call[c].commands).by = None
      BY <2>1, <2>3, <3>2, RunWrites DEF Shrinks
    <3>3. CASE call[c].target = t /\ Head(call[c].commands).by # None
      BY <1>2, <2>1, <2>3, <3>3, RunWrites DEF Dirties
    <3> QED BY <3>1, <3>2, <3>3
  <2> QED BY <2>1, <2>2, <2>3
<1>3. ASSUME NEW u \in Targets, emulated' = [emulated EXCEPT ![u] = Clean]
      PROVE  Shrinks(t)
  BY <1>0, <1>3 DEF Shrinks, Clean
<1>4. ASSUME NEW u \in Targets, emulated' \in Resets(u)
      PROVE  Shrinks(t)
  BY <1>4, ResetsShrink DEF Shrinks
<1>5. ASSUME NEW c \in Calls, ClosePage(c) \/ ClosePageFails(c) PROVE Shrinks(t)
  <2>1. call[c].target \in Targets
    BY <1>5, HasTarget DEF ClosePage, ClosePageFails, At, ShapeInv
  <2>2. \/ emulated' = [emulated EXCEPT ![call[c].target] = Clean]
        \/ emulated' \in Resets(call[c].target)
    BY <1>5 DEF ClosePage, ClosePageFails
  <2> QED BY <1>3, <1>4, <2>1, <2>2
<1>6. ASSUME NEW b \in Tabs, SweepResets(b) PROVE Shrinks(t)
  <2>1. leases[b].target \in Targets
    BY <1>6 DEF SweepResets, ShapeInv, SweepShape, RegistryInv, TargetInv, LeasesComplete
  <2>2. \/ emulated' = [emulated EXCEPT ![leases[b].target] = Clean]
        \/ emulated' \in Resets(leases[b].target)
    BY <1>6 DEF SweepResets
  <2> QED BY <1>3, <1>4, <2>1, <2>2
<1>7. CASE ExpiredCloses
  <2>1. PICK x \in sweep_closes, closed \in BOOLEAN : SweepCloses(x, closed)
    BY <1>7 DEF ExpiredCloses
  <2>2. x.target \in Targets
    BY DEF RegistryInv, TypeOK, SweepClose
  <2>3. emulated' = [emulated EXCEPT ![x.target] = Clean] \/ emulated' \in Resets(x.target)
    BY <2>1 DEF SweepCloses
  <2> QED BY <1>3, <1>4, <2>2, <2>3
<1>8. ASSUME NEW u \in Targets, HumanCloses(u) PROVE Shrinks(t)
  BY <1>3, <1>8 DEF HumanCloses
<1> QED BY <1>1, <1>2, <1>5, <1>6, <1>7, <1>8, Steps, ActFootprint, BackgroundFootprint
     DEF SameEmulation

\* What the history tells of a target it tells until the target is clean.
LEMMA MarkStays ==
    ASSUME RegistryInv, Types, ShapeInv, [CaptureNext]_capVars, NEW t \in Targets, Marked(t)
    PROVE  Marked(t)' \/ emulated'[t] = Clean
<1>0. emulated \in [Targets -> Emulation] /\ history \in History
  BY DEF Types, PageTypes, ControlTypes
<1>1. CASE history'.late = history.late /\ history'.unreset = history.unreset
  BY <1>1 DEF Marked
<1>2. ASSUME NEW c \in Calls, Command(c) PROVE Marked(t)' \/ emulated'[t] = Clean
  <2>1. /\ Head(call[c].commands) \in Commands /\ call[c].target \in Targets
        /\ CommandRuns(c, call[c].target) \/ history' = history
    BY <1>2, CommandRan DEF ShapeInv
  <2> QED BY <1>1, <2>1, RunWrites
<1>3. ASSUME NEW c \in Calls, ClosePage(c) \/ ClosePageFails(c)
      PROVE  Marked(t)' \/ emulated'[t] = Clean
  BY <1>1, <1>3 DEF ClosePage, ClosePageFails
<1>4. ASSUME NEW b \in Tabs, SweepResets(b) PROVE Marked(t)' \/ emulated'[t] = Clean
  <2>1. CASE /\ emulated' = [emulated EXCEPT ![leases[b].target] = Clean]
             /\ history' = [history EXCEPT !.late = @ \ {leases[b].target},
                                           !.unreset = @ \ {leases[b].target}]
    <3>1. CASE leases[b].target = t
      BY <1>0, <2>1, <3>1
    <3>2. CASE leases[b].target # t
      BY <1>0, <2>1, <3>2 DEF Marked, History
    <3> QED BY <3>1, <3>2
  <2>2. CASE history' = [history EXCEPT !.unreset = @ \cup {leases[b].target}]
    BY <1>0, <2>2 DEF Marked, History
  <2> QED BY <1>4, <2>1, <2>2 DEF SweepResets
<1>5. CASE ExpiredCloses
  <2>1. PICK x : history' = [history EXCEPT !.unreset = IF emulated'[x.target] = Clean THEN @
                                                        ELSE @ \cup {x.target}]
    BY <1>5 DEF ExpiredCloses, SweepCloses
  <2> DEFINE U == IF emulated'[x.target] = Clean THEN history.unreset
                  ELSE history.unreset \cup {x.target}
  <2>2. history' = [history EXCEPT !.unreset = U] /\ history.unreset \subseteq U
    BY <2>1
  <2> HIDE DEF U
  <2> QED BY <1>0, <2>2 DEF Marked, History
<1>6. ASSUME NEW u \in Targets, HumanCloses(u) PROVE Marked(t)' \/ emulated'[t] = Clean
  BY <1>1, <1>6 DEF HumanCloses
<1> QED BY <1>1, <1>2, <1>3, <1>4, <1>5, <1>6, Steps, ActFootprint, BackgroundFootprint
     DEF SameEmulation

\* Who has no override is clean.
LEMMA CleanIs ==
    ASSUME NEW f \in Emulation
    PROVE  f = Clean <=> \A k \in Overrides : f[k] = None
BY DEF Emulation, Clean

\* Who has commands to reset a target that it hands over had them before, less
\* the one the page has just had, or has them all.
LEMMA HandingBack ==
    ASSUME RegistryInv, Types, ShapeInv, [CaptureNext]_capVars, NEW c \in Calls, Handing(c)'
    PROVE  \/ call'[c] = call[c] /\ Handing(c)
           \/ Acts(c) /\ call'[c].commands = ResetAll
           \/ /\ Handing(c) /\ CommandRuns(c, call[c].target) /\ SameTarget(c)
              /\ call'[c].commands = Tail(call[c].commands)
<1>1. call'[c].pc = "commanding" /\ call'[c].method \notin PageTools
  BY DEF Handing, At, Is
<1>2. CASE call'[c] = call[c]
  BY <1>1, <1>2 DEF Handing, At, Is
<1>3. CASE Acts(c)
  <2>1. Path(c) /\ Shape(c)
    BY <1>3, Paths DEF ShapeInv
  <2>2. Emulates(c)
    BY <1>1, <2>1
    DEF Path, Ends, NoCall, Fresh, StepsOn, Finds, Reconciles, Minds, Moves, Aimes, Owes, Assigned,
        Goes
  <2>3. call'[c].method = call[c].method
    BY <2>2 DEF Emulates, Commanded, Goes
  <2>4. ~At(c, "act") /\ ~At(c, "audit")
    BY <1>1, <2>1, <2>3, MethodTable, MethodKinds DEF Shape, At
  <2>5. CASE \E next : Commanded(c, ResetAll, next)
    BY <1>3, <2>5 DEF Commanded
  <2>6. CASE At(c, "commanding") /\ Command(c)
    <3>1. Handing(c)
      BY <1>1, <2>3, <2>6 DEF Handing, Is
    <3>2. CommandRuns(c, call[c].target)
      BY <1>1, <2>1, <2>6, CommandRan DEF Ends, NoCall
    <3>3. call[c].next # "commanding"
      BY <2>1, <2>6 DEF Shape, GoesOnAt
    <3>4. Commanded(c, Tail(call[c].commands), call[c].next)
      BY <1>1, <2>2, <2>4, <2>6, <3>3 DEF Emulates, Goes, At
    <3> QED BY <3>1, <3>2, <3>4 DEF Commanded
  <2> QED BY <2>2, <2>4, <2>5, <2>6 DEF Emulates
<1> QED BY <1>2, <1>3, OthersKept

\* Who is about to hand a target over that it has reset has sent its last
\* command, or found the page gone.
LEMMA ClearedBack ==
    ASSUME RegistryInv, Types, ShapeInv, [Next]_vars, [CaptureNext]_capVars, NEW c \in Calls,
           Cleared(c)'
    PROVE  \/ call'[c] = call[c] /\ Cleared(c)
           \/ Acts(c) /\ page[call[c].target] # "open" /\ SameTarget(c) /\ Aimed(c)
           \/ /\ Handing(c) /\ CommandRuns(c, call[c].target) /\ SameTarget(c)
              /\ Tail(call[c].commands) = <<>>
<1>1. \/ call'[c].pc = "release" /\ leases'[call'[c].tab].state = "active"
      \/ call'[c].pc = "claim" /\ call'[c].method \in Takeovers
  BY DEF Cleared, Takes, Takeovers, At, Is
<1>a. ASSUME call[c].pc # "idle", call[c].method = "release",
             leases'[call[c].tab].state = "active"
      PROVE  leases[call[c].tab].state = "active"
  <2>1. PICK b \in Tabs : b = call[c].tab /\ leases[b].state # "unissued"
    BY <1>a, MethodKinds DEF ShapeInv, Shape, Is
  <2> QED BY <1>a, <2>1, LeaseFates DEF Fate, Ages, Known
<1>2. CASE call'[c] = call[c]
  <2>1. CASE call[c].pc = "release"
    <3>1. call[c].method = "release"
      BY <2>1, MethodTable DEF ShapeInv, Shape
    <3> QED BY <1>1, <1>2, <1>a, <2>1, <3>1 DEF Cleared, At
  <2>2. CASE call[c].pc = "claim" /\ call[c].method \in Takeovers
    BY <1>2, <2>2 DEF Cleared, Takes, Takeovers, At, Is
  <2> QED BY <1>1, <1>2, <2>1, <2>2
<1>3. CASE Acts(c)
  <2>1. Path(c) /\ Shape(c)
    BY <1>3, Paths DEF ShapeInv
  <2>2. CASE Emulates(c)
    <3>1. At(c, "commanding") /\ Command(c) /\ Tail(call[c].commands) = <<>> /\ SameTarget(c)
          /\ Goes(c, call[c].next) /\ call[c].next = call'[c].pc
      BY <1>1, <2>2 DEF Emulates, Commanded, Goes, At
    <3>2. ~Is(c, PageTools)
      BY <1>1, <2>1, <3>1 DEF Shape, GoesOnAt, Is, Goes, PageTools, At, MethodsAt, Takeovers
    <3>3. CommandRuns(c, call[c].target)
      BY <1>1, <2>1, <3>1, CommandRan DEF Ends, NoCall
    <3> QED BY <3>1, <3>2, <3>3 DEF Handing
  <2>3. CASE StepsOn(c)
    <3>1. call'[c].method = call[c].method
      BY <2>3 DEF StepsOn, Moves, Goes
    <3>2. /\ At(c, "untraced") /\ page[call[c].target] # "open" /\ Moves(c, "release")
      BY <1>1, <2>3, <3>1 DEF StepsOn, Moves, Goes, Is, Takeovers, At
    <3>3. Aimed(c)
      BY <2>1, <3>2, MethodTable, MethodKinds DEF At, Aimed, Is, Shape
    <3> QED BY <1>3, <3>2, <3>3 DEF Moves
  <2>4. CASE Finds(c)
    <3>1. /\ At(c, "handle") /\ Is(c, {"release"}) /\ leases[call[c].tab].state # "active"
          /\ Aimes(c, "release", leases[call[c].tab].target)
      BY <1>1, <2>4 DEF Finds, Aimes, Goes
    <3>2. call'[c].tab = call[c].tab /\ call'[c].pc = "release"
      BY <3>1 DEF Aimes, Goes
    <3> QED BY <1>1, <1>a, <3>1, <3>2 DEF At, Is
  <2>5. ~Ends(c) /\ ~Fresh(c) /\ ~Reconciles(c) /\ ~Minds(c)
    BY <1>1 DEF Ends, NoCall, Fresh, Reconciles, Owes, Minds, Assigned, Goes
  <2> QED BY <2>1, <2>2, <2>3, <2>4, <2>5 DEF Path
<1> QED BY <1>2, <1>3, OthersKept

\* An override that is put over the target of a request that hands it over is
\* noted.
LEMMA DirtNoted ==
    ASSUME NEW c \in Calls, NEW d \in Calls, NEW t, Dirties(d, t), call[c].target = t,
           Handing(c) \/ Cleared(c)
    PROVE  Marked(t)'
<1>1. HandedOver(d)
  BY DEF HandedOver, Dirties, Handing, Cleared, At
<1> QED BY <1>1 DEF Dirties, Marked

\* A claim that resets a page sends only resets, and those it has sent hold, or the page
\* is marked.
LEMMA HandingNext ==
    ASSUME CaptureInv, [CaptureNext]_capVars, NEW c \in Calls, Handing(c)',
           NEW t \in Targets, t = call'[c].target
    PROVE  /\ \A i \in DOMAIN call'[c].commands : call'[c].commands[i].by = None
           /\ Marked(t)' \/ \A k \in Overrides : Sent(c, k)' => emulated'[t][k] = None
<1> USE Parts, ShapesStay
<1>1. CASE call'[c] = call[c] /\ Handing(c)
  <2>1. /\ t = call[c].target /\ call'[c].commands = call[c].commands
        /\ \A i \in DOMAIN call[c].commands : call[c].commands[i].by = None
    BY <1>1 DEF EmulationInv
  <2>2. CASE Marked(t)
    <3>1. Marked(t)' \/ emulated'[t] = Clean
      BY <2>2, MarkStays
    <3> QED BY <2>1, <3>1 DEF Clean
  <2>3. CASE ~Marked(t)
    <3>1. \A k \in Overrides : Sent(c, k) => emulated[t][k] = None
      BY <1>1, <2>1, <2>3 DEF EmulationInv
    <3>2. Marked(t)' \/ Shrinks(t)
      BY <1>1, <2>1, EmulationFates, DirtNoted
    <3>3. \A k \in Overrides : Sent(c, k)' => Sent(c, k)
      BY <1>1 DEF Sent
    <3> QED BY <2>1, <3>1, <3>2, <3>3 DEF Shrinks
  <2> QED BY <2>2, <2>3
<1>2. CASE call'[c].commands = ResetAll
  <2>1. \A k \in Overrides : ~Sent(c, k)'
    BY <1>2, CommandSequences DEF Sent
  <2> QED BY <1>2, <2>1, CommandSequences
<1>3. CASE /\ Handing(c) /\ CommandRuns(c, call[c].target) /\ SameTarget(c)
           /\ call'[c].commands = Tail(call[c].commands)
  <2> DEFINE q == call[c].commands
  <2>1. t = call[c].target
    BY <1>3 DEF SameTarget
  <2>a. Command(c)
    BY <1>3 DEF CommandRuns
  <2>2. q \in Seq(Commands) /\ q # <<>> /\ Head(q) \in Commands /\ Head(q) = q[1]
    BY <2>a, CommandRan DEF ShapeInv
  <2>3. /\ \A i \in DOMAIN q : q[i].by = None
        /\ Head(q).by = None
    BY <1>3, <2>2 DEF EmulationInv
  <2>b. /\ Len(q) \in Nat \ {0} /\ DOMAIN q = 1..Len(q) /\ DOMAIN Tail(q) = 1..(Len(q) - 1)
        /\ \A i \in 1..(Len(q) - 1) : Tail(q)[i] = q[i + 1]
    BY <2>2
  <2>4. \A i \in DOMAIN Tail(q) : i + 1 \in DOMAIN q /\ Tail(q)[i] = q[i + 1]
    BY <2>b
  <2>5. \A i \in DOMAIN q : i = 1 \/ (i - 1 \in DOMAIN Tail(q) /\ Tail(q)[i - 1] = q[i])
    <3> TAKE i \in DOMAIN q
    <3>1. i = 1 \/ i - 1 \in 1..(Len(q) - 1)
      BY <2>b
    <3>2. i - 1 \in 1..(Len(q) - 1) => Tail(q)[i - 1] = q[(i - 1) + 1] /\ (i - 1) + 1 = i
      BY <2>b
    <3> QED BY <2>b, <3>1, <3>2
  <2>6. \A k \in Overrides : Sent(c, k)' => k = Head(q).override \/ Sent(c, k)
    BY <1>3, <2>2, <2>5 DEF Sent
  <2>7. /\ emulated'[t][Head(q).override] = None
        /\ \A k \in Overrides : k # Head(q).override => emulated'[t][k] = emulated[t][k]
        /\ Marked(t) => Marked(t)' \/ emulated'[t] = Clean
    BY <1>3, <2>1, <2>2, <2>3, RunWrites
  <2>9. \A i \in DOMAIN call'[c].commands : call'[c].commands[i].by = None
    BY <1>3, <2>3, <2>4
  <2>10. Marked(t)' \/ \A k \in Overrides : Sent(c, k)' => emulated'[t][k] = None
    <3>1. CASE Marked(t)
      BY <2>7, <3>1 DEF Clean
    <3>2. CASE ~Marked(t)
      <4>1. \A k \in Overrides : Sent(c, k) => emulated[t][k] = None
        BY <1>3, <2>1, <3>2 DEF EmulationInv
      <4> QED BY <2>6, <2>7, <4>1
    <3> QED BY <3>1, <3>2
  <2> QED BY <2>9, <2>10
<1> QED BY <1>1, <1>2, <1>3, HandingBack

\* A claim that has sent them all left the page clean, or the page is marked.
LEMMA ClearedNext ==
    ASSUME CaptureInv, [CaptureNext]_capVars, NEW c \in Calls, Cleared(c)',
           NEW t \in Targets, t = call'[c].target
    PROVE  Marked(t)' \/ emulated'[t] = Clean
<1> USE Parts, ShapesStay
<1>a. [Next]_vars /\ emulated \in [Targets -> Emulation] /\ emulated' \in [Targets -> Emulation]
  BY StepsTheRegistry DEF Types, PageTypes
<1>1. CASE call'[c] = call[c] /\ Cleared(c)
  <2>1. t = call[c].target
    BY <1>1
  <2>2. CASE Marked(t)
    BY <2>2, MarkStays
  <2>3. CASE ~Marked(t)
    <3>1. emulated[t] = Clean
      BY <1>1, <2>1, <2>3 DEF EmulationInv
    <3>2. Marked(t)' \/ Shrinks(t)
      BY <1>1, <2>1, EmulationFates, DirtNoted
    <3>3. Shrinks(t) => emulated'[t] = Clean
      BY <1>a, <3>1, CleanIs DEF Shrinks
    <3> QED BY <3>2, <3>3
  <2> QED BY <2>2, <2>3
<1>2. CASE Acts(c) /\ page[call[c].target] # "open" /\ SameTarget(c) /\ Aimed(c)
  <2>1. t = call[c].target
    BY <1>2 DEF SameTarget
  <2>2. page[t] = "gone"
    BY <1>2, <2>1 DEF PageInv, Types, PageTypes, PageState
  <2>3. page'[t] = "gone"
    BY <2>1, <2>2, PagesAge
  <2> QED BY <2>3, ShutPagesClean
<1>3. CASE /\ Handing(c) /\ CommandRuns(c, call[c].target) /\ SameTarget(c)
           /\ Tail(call[c].commands) = <<>>
  <2> DEFINE q == call[c].commands
  <2>1. t = call[c].target
    BY <1>3 DEF SameTarget
  <2>a. Command(c)
    BY <1>3 DEF CommandRuns
  <2>2. /\ q \in Seq(Commands) /\ q # <<>> /\ Head(q) \in Commands /\ Head(q) = q[1]
        /\ DOMAIN q = {1}
    <3>1. q \in Seq(Commands) /\ q # <<>> /\ Head(q) \in Commands
      BY <2>a, CommandRan DEF ShapeInv
    <3>2. Len(q) = 1
      <4>1. Len(Tail(q)) = Len(q) - 1 /\ Len(q) \in Nat /\ Tail(q) \in Seq(Commands)
        BY <3>1
      <4>2. Len(Tail(q)) = 0
        BY <1>3, <4>1, EmptySeq
      <4> QED BY <4>1, <4>2
    <3> QED BY <3>1, <3>2
  <2>3. Head(q).by = None
    BY <1>3, <2>2 DEF EmulationInv
  <2>4. \A k \in Overrides : k = Head(q).override \/ Sent(c, k)
    BY <2>2 DEF Sent
  <2>5. /\ emulated'[t][Head(q).override] = None
        /\ \A k \in Overrides : k # Head(q).override => emulated'[t][k] = emulated[t][k]
        /\ Marked(t) => Marked(t)' \/ emulated'[t] = Clean
    BY <1>3, <2>1, <2>2, <2>3, RunWrites
  <2>6. CASE Marked(t)
    BY <2>5, <2>6
  <2>7. CASE ~Marked(t)
    <3>1. \A k \in Overrides : Sent(c, k) => emulated[t][k] = None
      BY <1>3, <2>1, <2>7 DEF EmulationInv
    <3>2. \A k \in Overrides : emulated'[t][k] = None
      BY <2>4, <2>5, <3>1
    <3> QED BY <1>a, <3>2, CleanIs
  <2> QED BY <2>6, <2>7
<1> QED BY <1>a, <1>1, <1>2, <1>3, ClearedBack

\* Whose session owns a tab keeps its target while the registry rests.
LEMMA OwnerHolds ==
    ASSUME CaptureInv, [CaptureNext]_capVars, NEW c \in Calls, Aimed(c), Owns(c), UNCHANGED vars,
           NEW t \in Targets, t = call[c].target
    PROVE  HasActiveLease(t)'
<1> USE Parts, ShapesStay
<1>1. Known(call[c].tab) /\ leases[call[c].tab].state = "active"
  BY DEF Owns, Known
<1>2. Is(c, TabMethods)
  BY DEF Aimed
<1>3. PICK b \in Tabs : b = call[c].tab /\ leases[b].target = t
  BY <1>1, <1>2, AimedTarget
<1>4. leases'[b].state = "active" /\ leases'[b].target = t
  BY <1>1, <1>3 DEF vars, targetVars
<1> QED BY <1>4, HeldNext

\* An override of a target with an active lease is its owner's to answer for,
\* or that of whoever ends the lease.
LEMMA HeldEmulation ==
    ASSUME CaptureInv, [CaptureNext]_capVars, NEW t \in Targets, HasActiveLease(t),
           emulated[t] # Clean, emulated'[t] # Clean
    PROVE  HasActiveLease(t)' \/ Loose(t)' \/ \E x \in sweep_closes' : x.target = t
<1> USE Parts, ShapesStay
<1>a. [Next]_vars
  BY StepsTheRegistry
<1>b. page[t] = "open"
  BY DEF PageInv
<1>1. PICK b \in Tabs : leases[b].state = "active" /\ leases[b].target = t
                        /\ active_target_owners[t] = b
  <2>1. active_target_owners[t] \in Tabs
    BY DEF HasActiveLease, RegistryInv, TypeOK, Maybe
  <2>2. leases[active_target_owners[t]].target = t
    BY DEF HasActiveLease, RegistryInv, TargetInv, ActiveIndexExact
  <2> QED BY <2>1, <2>2 DEF HasActiveLease
<1>2. CASE leases'[b].state = "active" /\ leases'[b].target = leases[b].target
  BY <1>1, <1>2, HeldNext
<1>3. ASSUME NEW c \in Calls, NEW d \in Tabs, Claim(c, d), call[c].target = leases[b].target
      PROVE  HasActiveLease(t)'
  <2>1. leases'[d] = ActiveLease(call[c].session, call[c].target)
    BY <1>3 DEF Claim, ClaimTab
  <2>2. leases'[d].state = "active" /\ leases'[d].target = t
    BY <1>1, <1>3, <2>1 DEF ActiveLease
  <2> QED BY <2>2, HeldNext
<1>4. ASSUME NEW c \in Calls, Release(c) \/ CommitClose(c), call[c].tab = b, MayRelease(c)
      PROVE  Loose(t)'
  <2>1. /\ call[c].pc \in {"release", "commit"} /\ Shape(c)
        /\ emulated' = emulated
    BY <1>4 DEF Release, CommitClose, At, ShapeInv
  <2>2. \/ call[c].pc = "release" /\ call[c].method = "release"
        \/ call[c].pc = "commit" /\ call[c].method = "close"
    BY <2>1, MethodTable DEF Shape
  <2>3. Is(c, TabMethods) /\ call[c].target \in Targets
    BY <2>1, <2>2, MethodKinds DEF Is, Shape, Aimed
  <2>4. call[c].target = t
    BY <1>1, <1>4, <2>3, AimedTarget DEF Known
  <2>5. call[c].pc = "release"
    BY <1>b, <2>2, <2>4 DEF PageInv, At
  <2>6. Marked(t)
    BY <1>1, <1>4, <2>4, <2>5 DEF EmulationInv, Cleared, At
  <2> QED BY <2>6, MarkStays DEF Loose, Marked
<1>5. ASSUME NEW c \in Calls, b \in Missing PROVE FALSE
  <2>1. PICK u \in Targets : page[u] # "open" /\ active_target_owners[u] = b
    BY <1>5 DEF Missing, Vanished
  <2>2. leases[b].target = u
    BY <2>1, NoneAssumption DEF RegistryInv, TargetInv, ActiveIndexExact
  <2> QED BY <1>1, <1>b, <2>1, <2>2
<1>6. ASSUME SweepExpire,
             b \in ToClose(ExpiredIds(clock, InFlight)) \cup ToRelease(ExpiredIds(clock, InFlight))
      PROVE  Loose(t)' \/ \E x \in sweep_closes' : x.target = t
  <2> DEFINE E == ExpiredIds(clock, InFlight)
  <2>1. PICK batch : ExpireBatch(E, batch)
    BY <1>6 DEF SweepExpire, ExpireSessions
  <2>2. E \in SUBSET Sessions
    BY DEF ExpiredIds
  <2>3. sweep' = [pc |-> "next", expired |-> E, released |-> ToRelease(E)]
    BY <1>6 DEF SweepExpire
  <2>4. sweep_closes' = sweep_closes \cup {CloseOf(d) : d \in ToClose(E)}
    BY <2>1 DEF ExpireBatch
  <2>a. b \in ToClose(E) \/ b \in ToRelease(E)
    BY <1>6
  <2> HIDE DEF E
  <2>5. CASE b \in ToRelease(E)
    <3>1. leases'[b].target = t
      BY <1>1, <2>1, <2>2, ExpireEffects
    <3>2. b \in sweep'.released
      BY <2>3, <2>5
    <3> QED BY <3>1, <3>2 DEF Loose
  <2>6. CASE b \in ToClose(E)
    <3>1. CloseOf(b) \in sweep_closes' /\ CloseOf(b).target = t
      BY <1>1, <2>4, <2>6 DEF CloseOf
    <3> QED BY <3>1
  <2> QED BY <2>a, <2>5, <2>6
<1> QED BY <1>a, <1>1, <1>2, <1>3, <1>4, <1>5, <1>6, ActiveEnds

\* A tab the sweep has to reset it resets, or leaves to the history.
LEMMA ReleasedEmulation ==
    ASSUME CaptureInv, [CaptureNext]_capVars, NEW t \in Targets, emulated'[t] # Clean,
           NEW b \in sweep.released, leases[b].target = t
    PROVE  Loose(t)'
<1> USE Parts, ShapesStay
<1>a. [Next]_vars /\ b \in Tabs /\ sweep \in SweepState /\ history \in History
      /\ emulated \in [Targets -> Emulation]
  BY StepsTheRegistry DEF Types, ControlTypes, SweepState, PageTypes
<1>b. leases'[b].target = t
  <2>1. Known(b) /\ leases[b].state # "active"
    BY DEF ShapeInv, SweepShape
  <2> QED BY <1>a, <2>1, Retired
<1>1. CASE b \in sweep'.released
  BY <1>b, <1>1 DEF Loose
<1>2. ASSUME NEW d \in Tabs, SweepResets(d) PROVE Loose(t)'
  <2>1. sweep' = [sweep EXCEPT !.released = @ \ {d}]
    BY <1>2 DEF SweepResets
  <2>2. CASE d # b
    <3>1. b \in sweep'.released
      BY <1>a, <2>1, <2>2 DEF SweepState
    <3> QED BY <1>1, <3>1
  <2>3. CASE d = b
    <3>1. \/ emulated' = [emulated EXCEPT ![t] = Clean]
          \/ history' = [history EXCEPT !.unreset = @ \cup {t}]
      BY <1>2, <2>3 DEF SweepResets
    <3>2. history' = [history EXCEPT !.unreset = @ \cup {t}]
      BY <1>a, <3>1
    <3>3. t \in history'.unreset
      BY <1>a, <3>2 DEF History
    <3> QED BY <3>3 DEF Loose, Marked
  <2> QED BY <2>2, <2>3
<1>3. CASE SweepExpire \/ SweepEnds
  BY <1>3 DEF SweepExpire, SweepEnds, ShapeInv, SweepShape, NoSweep
<1>4. CASE SweepCancels \/ SweepRemovesArtifacts
  <2>1. \E pc : sweep' = [sweep EXCEPT !.pc = pc]
    BY <1>4 DEF SweepCancels, SweepRemovesArtifacts
  <2>2. sweep'.released = sweep.released
    BY <1>a, <2>1 DEF SweepState
  <2> QED BY <1>1, <2>2
<1>5. CASE sweep' = sweep
  BY <1>1, <1>5
<1> QED BY <1>2, <1>3, <1>4, <1>5, Steps, ActFootprint, BackgroundFootprint

\* A target the sweep has to close is closed, reset, or left to the history.
LEMMA SweptEmulation ==
    ASSUME CaptureInv, [CaptureNext]_capVars, NEW t \in Targets, emulated'[t] # Clean,
           NEW x \in sweep_closes, x.target = t
    PROVE  Loose(t)' \/ \E y \in sweep_closes' : y.target = t
<1> USE Parts, ShapesStay
<1>a. history \in History
  BY DEF Types, ControlTypes
<1>1. CASE x \in sweep_closes'
  BY <1>1
<1>2. ASSUME NEW y \in sweep_closes, NEW closed \in BOOLEAN, SweepCloses(y, closed)
      PROVE  Loose(t)' \/ \E z \in sweep_closes' : z.target = t
  <2>1. sweep_closes' = sweep_closes \ {y}
    BY <1>2 DEF SweepCloses, FinishExpiredTargetClose
  <2>2. CASE y # x
    BY <1>1, <2>1, <2>2
  <2>3. CASE y = x
    <3>1. history' = [history EXCEPT !.unreset = @ \cup {t}]
      BY <1>2, <2>3 DEF SweepCloses
    <3>2. t \in history'.unreset
      BY <1>a, <3>1 DEF History
    <3> QED BY <3>2 DEF Loose, Marked
  <2> QED BY <2>2, <2>3
<1>3. CASE SweepExpire
  <2>1. sweep_closes \subseteq sweep_closes'
    BY <1>3 DEF SweepExpire, ExpireSessions, ExpireBatch
  <2> QED BY <1>1, <2>1
<1>4. ASSUME NEW c \in Calls, AsksRegistry(c)
      PROVE  \E z \in sweep_closes' : z.target = t
  BY <1>1, <1>4, AskedSessions
<1>5. CASE UNCHANGED vars \/ SessionsOnly
  BY <1>1, <1>5 DEF vars, expiryVars, SessionsOnly
<1> QED BY <1>2, <1>3, <1>4, <1>5, RegistrySteps

\* A page that is not clean is held, or what was done to it is on its way to be undone.
LEMMA EmulatedNext ==
    ASSUME CaptureInv, [CaptureNext]_capVars, NEW t \in Targets, emulated'[t] # Clean
    PROVE  HasActiveLease(t)' \/ Loose(t)' \/ \E x \in sweep_closes' : x.target = t
<1> USE Parts, ShapesStay
<1>a. emulated \in [Targets -> Emulation] /\ emulated' \in [Targets -> Emulation]
  BY DEF Types, PageTypes
<1>1. ASSUME NEW c \in Calls, Dirties(c, t) PROVE HasActiveLease(t)' \/ Loose(t)'
  <2>1. CASE HandedOver(c)
    BY <1>1, <2>1 DEF Dirties, Loose, Marked
  <2>2. CASE ~HandedOver(c)
    <3>1. Command(c) /\ Owns(c) /\ UNCHANGED vars /\ t = call[c].target
      BY <1>1, <2>2, QuietSteps DEF HandedOver, Quiet, Dirties
    <3>2. Shape(c) /\ At(c, "commanding")
      BY <3>1 DEF ShapeInv, Command
    <3>3. Is(c, PageTools)
      <4>1. CASE Handing(c)
        <5>1. /\ Head(call[c].commands) = call[c].commands[1]
              /\ 1 \in DOMAIN call[c].commands
          <6>1. call[c].commands \in Seq(Commands) /\ call[c].commands # <<>>
            BY <3>1, <3>2, CommandRan
          <6> QED BY <6>1
        <5> QED BY <1>1, <4>1, <5>1 DEF EmulationInv, Dirties
      <4> QED BY <3>2, <4>1 DEF Handing
    <3>4. Aimed(c)
      BY <3>2, <3>3, MethodKinds DEF Aimed, Is, At
    <3> QED BY <3>1, <3>4, OwnerHolds
  <2> QED BY <2>1, <2>2
<1>2. CASE Shrinks(t)
  <2>1. emulated[t] # Clean
    BY <1>a, <1>2, CleanIs DEF Shrinks
  <2>2. CASE HasActiveLease(t)
    BY <2>1, <2>2, HeldEmulation
  <2>3. CASE Marked(t)
    BY <2>3, MarkStays DEF Loose, Marked
  <2>4. ASSUME NEW b \in sweep.released, leases[b].target = t PROVE Loose(t)'
    BY <2>4, ReleasedEmulation
  <2>5. ASSUME NEW x \in sweep_closes, x.target = t
        PROVE  Loose(t)' \/ \E y \in sweep_closes' : y.target = t
    BY <2>5, SweptEmulation
  <2> QED BY <2>1, <2>2, <2>3, <2>4, <2>5 DEF EmulationInv, Loose
<1> QED BY <1>1, <1>2, EmulationFates

\* The invariant of the overrides is preserved.
LEMMA EmulationNext ==
    ASSUME CaptureInv, [CaptureNext]_capVars
    PROVE  EmulationInv'
<1> USE Parts, ShapesStay
<1>1. ASSUME NEW t \in Targets
      PROVE  \/ emulated'[t] = Clean \/ HasActiveLease(t)' \/ Loose(t)'
             \/ \E x \in sweep_closes' : x.target = t
  BY <1>1, EmulatedNext
<1>2. ASSUME NEW c \in Calls, Handing(c)'
      PROVE  /\ \A i \in DOMAIN call'[c].commands : call'[c].commands[i].by = None
             /\ \E t : /\ t = call'[c].target
                       /\ Marked(t)' \/ \A k \in Overrides : Sent(c, k)' => emulated'[t][k] = None
  <2>1. PICK t \in Targets : t = call'[c].target
    BY <1>2 DEF Handing, At, ShapeInv, Shape, Aimed, Is, MethodsAt, PageTools, TabMethods,
                Takeovers, ClaimMethods
  <2> QED BY <1>2, <2>1, HandingNext
<1>3. ASSUME NEW c \in Calls, Cleared(c)'
      PROVE  \E t : t = call'[c].target /\ (Marked(t)' \/ emulated'[t] = Clean)
  <2>1. PICK t \in Targets : t = call'[c].target
    BY <1>3 DEF Cleared, Takes, At, ShapeInv, Shape, Aimed, Is, MethodsAt, PageTools, TabMethods,
                Takeovers, ClaimMethods
  <2> QED BY <1>3, <2>1, ClearedNext
<1> QED BY <1>1, <1>2, <1>3 DEF EmulationInv, Marked, Sent

(***************************************************************************)
(* The invariant.                                                          *)
(***************************************************************************)
LEMMA CaptureStarts == CaptureInit => CaptureInv
<1> SUFFICES ASSUME CaptureInit PROVE CaptureInv
  OBVIOUS
<1>1. RegistryInv
  BY InitType, InitTargets DEF RegistryInv, CaptureInit
<1>2. /\ \A c \in Calls : call[c] = NoCall /\ At(c, "idle") /\ ~Is(c, AllMethods)
                          /\ call[c].todo = {} /\ call[c].target = None
                          /\ call[c].pc = "idle" /\ call[c].method = "none"
      /\ \A j \in Jobs : job[j] = NoJob /\ job[j].phase = "unborn" /\ ~Unfinished(j)
                         /\ job[j].terminal = "none" /\ job[j].target = None
  <2>1. NoCall.pc = "idle" /\ NoCall.method = "none" /\ NoCall.todo = {} /\ NoCall.target = None
    BY DEF NoCall
  <2>2. NoJob.phase = "unborn" /\ NoJob.terminal = "none" /\ NoJob.target = None
    BY DEF NoJob
  <2> QED BY <2>1, <2>2 DEF CaptureInit, At, Is, AllMethods, TabMethods, PageTools, ClaimMethods,
            Unfinished
<1>3. Types
  <2>1. job \in [Jobs -> JobState] /\ sweep \in SweepState /\ history \in History
    BY DEF CaptureInit, NoJob, JobState, NoSweep, SweepState, History, Maybe
  <2>2. call \in [Calls -> CallState]
    BY NoCallType DEF CaptureInit
  <2>3. emulated \in [Targets -> Emulation]
    BY CleanType DEF CaptureInit
  <2> QED BY <2>1, <2>2, <2>3
          DEF CaptureInit, Types, PageTypes, TraceTypes, CastTypes, ArtifactTypes, ControlTypes,
              CallTypes, PageState, Maybe
<1>4. \A b \in Tabs : leases[b].state = "unissued" /\ ~Known(b)
  BY DEF CaptureInit, Init, NoLease, Known
<1>5. ShapeInv
  <2>1. \A c \in Calls : Shape(c)
    BY <1>2, MethodKinds
    DEF Shape, MethodsAt, Is, At, Aimed, AllMethods, TabMethods, PageTools, ClaimMethods
  <2>2. (\A j \in Jobs : JobShape(j)) /\ MapShape /\ SweepShape
    BY <1>2 DEF JobShape, MapShape, SweepShape, CaptureInit, NoSweep
  <2>3. AimInv
    BY <1>2, <1>4, NoneAssumption DEF AimInv, Aims
  <2> QED BY <2>1, <2>2, <2>3 DEF ShapeInv
<1>6. CastInv /\ RecordersAreAnsweredFor
  BY <1>2 DEF CastInv, At, Uncancelled, RecordersAreAnsweredFor, Unfinished, CaptureInit
<1>7. ReserveInv /\ ArtifactsFollowSessions
  BY <1>2 DEF ReserveInv, Starts, CaptureInit, ArtifactsFollowSessions
<1>8. TraceInv
  BY <1>2 DEF TraceInv, Blocks, Is, CaptureInit
<1>9. PageInv
  BY <1>2, <1>4 DEF PageInv, CaptureInit, At, Aimed
<1>10. EmulationInv
  <2>1. \A t \in Targets : emulated[t] = Clean
    BY DEF CaptureInit
  <2>2. \A c \in Calls : ~Handing(c) /\ ~Cleared(c)
    BY <1>2 DEF Handing, Cleared, At
  <2> QED BY <2>1, <2>2 DEF EmulationInv
<1> QED BY <1>1, <1>3, <1>5, <1>6, <1>7, <1>8, <1>9, <1>10 DEF CaptureInv

\* The whole invariant is inductive.
LEMMA CaptureStep ==
    ASSUME CaptureInv, [CaptureNext]_capVars
    PROVE  CaptureInv'
<1>1. RegistryInv' /\ Types' /\ ShapeInv'
  BY Parts, ShapesStay
<1> QED BY <1>1, CastNext, RecordersNext, ReserveNext, ArtifactsNext, TraceNext, PageNext,
           EmulationNext
        DEF CaptureInv

\* The invariant holds in every behaviour, whatever may happen together.
THEOREM CaptureInvariant == CaptureSpec => []CaptureInv
BY CaptureStarts, CaptureStep, PTL DEF CaptureSpec

\* Captures, jobs, artifacts, requests and sweep have their types.
THEOREM CaptureTypes == CaptureSpec => []CaptureTypeOK
<1>1. CaptureInv => CaptureTypeOK
  <2> SUFFICES ASSUME CaptureInv PROVE CaptureTypeOK
    OBVIOUS
  <2>1. Types
    BY Parts
  <2>2. \A c \in Calls : call[c].todo \in SUBSET Tabs /\ call[c].job \in Maybe(Jobs)
    BY <2>1 DEF Types, CallTypes, CallState
  <2> QED BY <2>1, <2>2
          DEF CaptureTypeOK, Types, PageTypes, TraceTypes, CastTypes, ArtifactTypes, ControlTypes,
              PageState, Emulation, JobState, FileState, SweepState, History
<1> QED BY <1>1, CaptureInvariant, PTL

\* Tools, handovers, jobs and the sweep call the registry only as its methods
\* allow, so that everything proved of the registry holds under them.
THEOREM CapturesRunTheRegistry == CaptureSpec => Spec
<1>1. CaptureInit => Init
  BY DEF CaptureInit
<1>2. CaptureInv /\ [CaptureNext]_capVars => [Next]_vars
  BY Parts, StepsTheRegistry
<1> QED BY <1>1, <1>2, CaptureInvariant, PTL DEF CaptureSpec, Spec

\* No artifact outlives its session, every reservation is a start's or a job's,
\* and on disk lies what the registry knows of (publish_reserved, remove_session,
\* discard_reserved in artifacts.rs; start_screencast and finalize_screencast_job
\* in broker.rs).
THEOREM ArtifactsEndWithSessions == CaptureSpec => []ArtifactsFollowSessions
<1>1. CaptureInv => ArtifactsFollowSessions
  BY DEF CaptureInv
<1> QED BY <1>1, CaptureInvariant, PTL

\* A target has at most one recorder that nobody has cancelled, and the shutdown
\* misses none (state.screencasts and shutting_down in start_screencast,
\* cancel_all_screencasts).
THEOREM RecordersAreFew == CaptureSpec => []RecordersAreAnsweredFor
<1>1. CaptureInv => RecordersAreAnsweredFor
  BY DEF CaptureInv
<1> QED BY <1>1, CaptureInvariant, PTL

\* A running trace has somebody who will meet it, unless an expiry left it
\* running or its start overlapped a handover (state.traces in start_trace,
\* claim_tab, release_tab, close_tab, reconcile_missing_targets and the sweep).
THEOREM TracesEnd == CaptureSpec => []TracesCanBeEnded
<1>1. CaptureInv => TracesCanBeEnded
  BY DEF CaptureInv, TraceInv, Met, TracesCanBeEnded
<1> QED BY <1>1, CaptureInvariant, PTL

\* A target that gets a driver carries nobody else's overrides, or is noted.
LEMMA CleanHandovers ==
    ASSUME CaptureInv, [CaptureNext]_capVars, NEW t \in Targets,
           active_target_owners'[t] \notin {None, active_target_owners[t]}
    PROVE  emulated[t] = Clean \/ Loose(t)
<1> USE Parts
<1>0. active_target_owners \in [Targets -> Maybe(Tabs)]
  BY DEF RegistryInv, TypeOK
<1>1. ASSUME NEW c \in Calls, NEW b \in Tabs, NewTab(c, b) PROVE emulated[t] = Clean
  <2>1. /\ page[call[c].target] = "unborn"
        /\ active_target_owners' = [active_target_owners EXCEPT ![call[c].target] = b]
    BY <1>1 DEF NewTab, LeaseTab, vars, targetVars
  <2>2. call[c].target = t
    BY <1>0, <2>1
  <2> QED BY <2>1, <2>2 DEF PageInv
<1>2. ASSUME NEW c \in Calls, NEW b \in Tabs, Claim(c, b) PROVE emulated[t] = Clean \/ Loose(t)
  <2>1. /\ At(c, "claim") /\ ~Withdrawn(call[c].target)
        /\ HasActiveLease(call[c].target) => Takes(c)
        /\ active_target_owners' = [active_target_owners EXCEPT ![call[c].target] = b]
    BY <1>2 DEF Claim, ClaimTab
  <2>2. call[c].target = t
    BY <1>0, <2>1
  <2>3. CASE Takes(c)
    BY <2>1, <2>2, <2>3 DEF EmulationInv, Cleared, Loose
  <2>4. CASE ~Takes(c)
    <3>1. \A x \in sweep_closes : x.target # t
      <4> SUFFICES ASSUME NEW x \in sweep_closes, x.target = t PROVE FALSE
        OBVIOUS
      <4>1. pending_target_closes[t] = x.tab /\ x.tab \in Tabs
        BY DEF RegistryInv, TargetInv, SweepHoldsReservation, TypeOK, SweepClose
      <4> QED BY <2>1, <2>2, <4>1, NoneAssumption DEF Withdrawn, Closing
    <3> QED BY <2>1, <2>2, <2>4, <3>1 DEF EmulationInv
  <2> QED BY <2>3, <2>4
<1>3. ASSUME NEW c \in Calls,
             ValidateTool(c) \/ Release(c) \/ Reserve(c) \/ ClosePageFails(c) \/ CommitClose(c)
      PROVE  FALSE
  <2>1. active_target_owners' = active_target_owners
        \/ \E B : active_target_owners' = WithoutActive(B)
    BY <1>3
    DEF ValidateTool, MarkMissingTargetsNotIn, MarkMissing, Release, ReleaseTab, Reserve,
        ReserveOwnedTabClose, ClosePageFails, EndReservation, FinishOwnedTabCloseReservation,
        CommitClose, CommitOwnedTabClose, vars, targetVars
  <2> QED BY <2>1 DEF WithoutActive
<1>4. CASE SweepExpire
  <2>1. \E B : active_target_owners' = WithoutActive(B)
    BY <1>4 DEF SweepExpire, ExpireSessions, ExpireBatch
  <2> QED BY <2>1 DEF WithoutActive
<1>5. ASSUME NEW x \in sweep_closes, NEW closed \in BOOLEAN, SweepCloses(x, closed) PROVE FALSE
  BY <1>5 DEF SweepCloses, FinishExpiredTargetClose
<1>6. CASE UNCHANGED vars \/ SessionsOnly
  BY <1>6 DEF vars, targetVars, SessionsOnly
<1> QED BY <1>1, <1>2, <1>3, <1>4, <1>5, <1>6, RegistrySteps DEF AsksRegistry

\* Who claims a target does not inherit another session's overrides, but for a
\* reset that failed or is still to come and an emulation that overlapped the
\* handover (claim_tab, release_tab and close_tab reset with
\* BrowserBackend::emulate).
THEOREM ClaimsFindCleanTargets == CaptureSpec => HandoversAreClean
<1>1. CaptureInv /\ [CaptureNext]_capVars =>
        [\A t \in Targets :
            active_target_owners'[t] \notin {None, active_target_owners[t]}
            => \/ \A k \in Overrides :
                     emulated[t][k] \in {None, leases'[active_target_owners'[t]].owner}
               \/ t \in history.late \cup history.unreset
               \/ \E b \in sweep.released : leases[b].target = t]_capVars
  <2> SUFFICES ASSUME CaptureInv, [CaptureNext]_capVars, NEW t \in Targets,
                      active_target_owners'[t] \notin {None, active_target_owners[t]}
               PROVE  \/ \A k \in Overrides : emulated[t][k] = None
                      \/ t \in history.late \cup history.unreset
                      \/ \E b \in sweep.released : leases[b].target = t
    OBVIOUS
  <2>1. emulated[t] = Clean \/ Loose(t)
    BY CleanHandovers
  <2> QED BY <2>1 DEF Clean, Loose, Marked
<1> QED BY <1>1, CaptureInvariant, PTL DEF CaptureSpec, HandoversAreClean
=============================================================================
