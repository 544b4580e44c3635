------------------------------ MODULE Screencast ------------------------------
(***************************************************************************)
(* One screencast (src/src/cdp.rs: start_screencast, RawCdpClient,         *)
(* run_streaming_screencast, write_screencast_chunks, activate_target,     *)
(* has_focus): frames of the source page go through a queue and a worker   *)
(* to a hidden recorder page, whose chunks come back as events over a      *)
(* connection of its own and are written to the reserved file.  TabCaptures *)
(* has the job around it as three phases; here are the tasks inside.       *)
(*                                                                         *)
(* There is no clock: a wait with a timeout may time out whenever it is    *)
(* not over.  One screencast runs on the source page.                      *)
(***************************************************************************)
EXTENDS Naturals, Sequences, FiniteSets

CONSTANTS
    EventCap,     \* capacity of the queue of recorder events
    MaxChunks,    \* bound: chunks the recorder emits
    MaxEvents,    \* bound: visibility events not yet seen
    Scenarios     \* bound: what may happen together in one behaviour

Acts == {"refuses",     \* the browser or the disk refuses
         "closes",      \* the source page closes
         "stops", "cancels"}

\* frames and switches: how many frames the page produces, and how often its
\* tab is hidden or shown.
Scenario == [acts : SUBSET Acts, frames : Nat, switches : Nat]

ASSUME CastAssumption ==
    EventCap \in Nat \ {0} /\ MaxChunks \in Nat /\ MaxEvents \in Nat /\ Scenarios \subseteq Scenario

VARIABLES
    scenario,  \* chosen at the start, counted down
    pc,        \* start_screencast, then the capture task
    control,   \* watch channel: "record", "stop" or "cancel"
    outcome,   \* what the task knows, and its result
    source,    \* the source page and its unread frame
    queue,     \* the frame channel, of capacity one
    worker,    \* frame_worker
    recorder,  \* the hidden page and its MediaRecorder
    raw,       \* the task of RawCdpClient: "none", "up" or "down"
    wire,      \* recorder events on their way from Chrome
    events,    \* recorder events in the channel to the writer
    writer,    \* chunk_writer
    written,   \* the chunks in the file
    focus,     \* visibility of the source page and the focus override
    activation \* activate_target of another call: "idle", "shown" or "removing"

taskVars  == <<pc, control, outcome>>
frameVars == <<source, queue, worker>>
chunkVars == <<recorder, raw, wire, events, writer, written>>
focusVars == <<focus, activation>>
castVars  == <<scenario, taskVars, frameVars, chunkVars, focusVars>>

Chunk(n) == [kind |-> "chunk", n |-> n]
Done     == [kind |-> "done", n |-> 0]
Failed   == [kind |-> "error", n |-> 0]
Messages == {Chunk(n) : n \in 1..MaxChunks} \cup {Done, Failed}

CastTypeOK ==
    /\ scenario \in Scenario
    /\ pc \in {"start", "connected", "created", "ready", "recording", "engaging", "engaged", "restoring",
               "stopping", "unfocusing", "disabling", "draining", "finishing", "completing",
               "closing", "ended"}
    /\ control \in {"record", "stop", "cancel"}
    /\ outcome \in [phase : {"recording", "finalizing"}, failure : BOOLEAN, cancelled : BOOLEAN,
                    result : {"none", "refused", "good", "bad", "cancelled"},
                    encoded : Nat, trouble : BOOLEAN]
    /\ source \in [state : {"idle", "casting", "stopped", "gone"}, frame : BOOLEAN]
    /\ queue \in [held : BOOLEAN, open : BOOLEAN, accepted : Nat]
    /\ worker \in {"none", "waiting", "pushing", "done", "failed", "aborted"}
    /\ recorder \in [page : {"none", "open", "closed"}, chunks : 0..MaxChunks, data : BOOLEAN,
                     media : {"off", "on", "stopping", "done"}]
    /\ raw \in {"none", "up", "down"}
    /\ {wire, events} \subseteq Seq(Messages) /\ Len(events) <= EventCap
    /\ writer \in {"none", "writing", "done", "failed", "aborted"}
    /\ written \in Seq(1..MaxChunks)
    /\ focus \in [override : BOOLEAN, emulated : BOOLEAN, hidden : BOOLEAN, echo : BOOLEAN,
                  seen : Seq(BOOLEAN)]
    /\ activation \in {"idle", "shown", "removing"}

CastInit ==
    /\ scenario \in Scenarios
    /\ pc = "start" /\ control = "record"
    /\ outcome = [phase |-> "recording", failure |-> FALSE, cancelled |-> FALSE, result |-> "none",
                  encoded |-> 0, trouble |-> FALSE]
    /\ source = [state |-> "idle", frame |-> FALSE]
    /\ queue = [held |-> FALSE, open |-> TRUE, accepted |-> 0]
    /\ worker = "none"
    /\ recorder = [page |-> "none", chunks |-> 0, data |-> FALSE, media |-> "off"]
    /\ raw = "none" /\ wire = <<>> /\ events = <<>>
    /\ writer = "none" /\ written = <<>>
    /\ focus = [override |-> FALSE, emulated |-> FALSE, hidden |-> FALSE, echo |-> FALSE, seen |-> <<>>]
    /\ activation = "idle"

Happens(a) == a \in scenario.acts
Refuses  == Happens("refuses")
Gone     == source.state = "gone"

Troubled(o) == [o EXCEPT !.trouble = TRUE]
Failing(o)  == [o EXCEPT !.failure = TRUE, !.trouble = TRUE]

\* A command over the recorder's connection is answered only then; at any time
\* it may fail or come too late.
RawAnswers == raw = "up" /\ recorder.page # "closed"

\* A page looks visible and focused while the emulation is on.
Observed(f) == ~f.hidden \/ f.emulated

(***************************************************************************)
(* start_screencast.  What it has set up when a step fails, it takes down. *)
(***************************************************************************)
ConnectRaw ==
    /\ pc = "start"
    /\ \/ ~Gone /\ raw' = "up" /\ pc' = "connected" /\ UNCHANGED outcome
       \/ /\ pc' = "ended" /\ outcome' = [outcome EXCEPT !.result = "refused"]
          /\ UNCHANGED raw
    /\ UNCHANGED <<scenario, control, frameVars, recorder, wire, events, writer, written, focusVars>>

CreateRecorder ==
    /\ pc = "connected" /\ RawAnswers
    /\ recorder' = [recorder EXCEPT !.page = "open"]
    /\ pc' = "created"
    /\ UNCHANGED <<scenario, control, outcome, frameVars, raw, wire, events, writer, written, focusVars>>

\* attach, Runtime.enable, addBinding and recorder_program
InitializeRecorder ==
    /\ pc = "created" /\ RawAnswers
    /\ recorder' = [recorder EXCEPT !.media = "on"]
    /\ pc' = "ready"
    /\ UNCHANGED <<scenario, control, outcome, frameVars, raw, wire, events, writer, written, focusVars>>

\* Page.startScreencast, which Chrome answers with the page's visibility too
StartSource ==
    /\ pc = "ready" /\ source.state = "idle"
    /\ source' = [source EXCEPT !.state = "casting"]
    /\ worker' = "waiting" /\ writer' = "writing"
    /\ focus' = [focus EXCEPT !.seen = <<Observed(focus)>>]
    /\ pc' = "recording"
    /\ UNCHANGED <<scenario, control, outcome, queue, recorder, raw, wire, events, written, activation>>

\* A start that knows of no recorder page closes none: one whose creation was
\* not answered goes with the connection.
StartFails ==
    /\ pc \in {"connected", "created", "ready"}
    /\ pc' = IF pc = "connected" THEN "ended" ELSE "closing"
    /\ raw' = IF pc = "connected" THEN "down" ELSE raw
    /\ recorder' \in {recorder} \cup (IF pc = "connected" THEN {[recorder EXCEPT !.page = "open"]} ELSE {})
    /\ outcome' = [outcome EXCEPT !.result = "refused"]
    /\ UNCHANGED <<scenario, control, frameVars, wire, events, writer, written, focusVars>>

(***************************************************************************)
(* The loop of run_streaming_screencast.                                   *)
(***************************************************************************)
\* Out of the loop; from then on the job is finalizing unless it has failed.
Leave(failure, cancelled) ==
    /\ outcome' = [outcome EXCEPT !.failure = failure, !.cancelled = cancelled,
                                  !.phase = IF failure \/ cancelled THEN @ ELSE "finalizing"]
    /\ pc' = "stopping"
    /\ UNCHANGED <<scenario, control, frameVars, chunkVars, focusVars>>

ReachDeadline == pc = "recording" /\ Leave(FALSE, FALSE)
SeeControl    == pc = "recording" /\ control # "record" /\ Leave(FALSE, control = "cancel")
LoseSource    == pc = "recording" /\ Gone /\ ~source.frame /\ Leave(TRUE, FALSE)

\* A frame is acknowledged, and dropped when it is not due or the queue is full
\* or its worker gone.
TakeFrame ==
    /\ pc = "recording" /\ source.frame
    /\ source' = [source EXCEPT !.frame = FALSE]
    /\ \/ UNCHANGED queue
       \/ /\ ~queue.held /\ worker \in {"waiting", "pushing"}
          /\ queue' = [queue EXCEPT !.held = TRUE, !.accepted = @ + 1]
    /\ UNCHANGED <<scenario, taskVars, worker, chunkVars, focusVars>>

\* The page's listener is told when what it shows changes.
Seeing(g) ==
    IF Observed(g) # Observed(focus) /\ source.state = "casting"
    THEN [g EXCEPT !.seen = Append(@, Observed(g))] ELSE g

SeeHidden ==
    /\ pc = "recording" /\ focus.seen # <<>> /\ ~Head(focus.seen)
    /\ IF focus.override
       THEN focus' = [focus EXCEPT !.seen = Tail(@)] /\ UNCHANGED pc
       ELSE /\ focus' = [focus EXCEPT !.seen = Tail(@), !.override = TRUE, !.echo = TRUE]
            /\ pc' = "engaging"
    /\ UNCHANGED <<scenario, control, outcome, frameVars, chunkVars, activation>>

\* The emulation's own echo is not a change the user made.
SeeVisible ==
    /\ pc = "recording" /\ focus.seen # <<>> /\ Head(focus.seen)
    /\ focus' = [focus EXCEPT !.seen = Tail(@), !.echo = FALSE, !.override = @ /\ focus.echo]
    /\ pc' = IF focus.override /\ ~focus.echo THEN "restoring" ELSE pc
    /\ UNCHANGED <<scenario, control, outcome, frameVars, chunkVars, activation>>

Engage ==
    /\ pc = "engaging"
    /\ \/ ~Gone /\ focus' = Seeing([focus EXCEPT !.emulated = TRUE]) /\ pc' = "engaged"
       \/ /\ Gone \/ Refuses
          /\ focus' = [focus EXCEPT !.echo = FALSE, !.override = FALSE]
          /\ pc' = "recording"
    /\ UNCHANGED <<scenario, control, outcome, frameVars, chunkVars, activation>>

CheckEngagedNot ==
    /\ pc = "engaged"
    /\ pc' = "recording"
    /\ UNCHANGED <<scenario, control, outcome, frameVars, chunkVars, focusVars>>

\* An activation may have withdrawn the override while it was being engaged.
CheckEngaged ==
    /\ pc = "engaged"
    /\ pc' = IF focus.override THEN "recording" ELSE "restoring"
    /\ focus' = [focus EXCEPT !.echo = @ /\ focus.override]
    /\ UNCHANGED <<scenario, control, outcome, frameVars, chunkVars, activation>>

\* setFocusEmulationEnabled(false), whose failure nobody looks at
Disabled == {Seeing([focus EXCEPT !.emulated = FALSE])} \cup (IF Refuses THEN {focus} ELSE {})
LeftOn   == IF focus'.emulated THEN Troubled(outcome) ELSE outcome

Restore ==
    /\ pc = "restoring"
    /\ focus' \in Disabled
    /\ outcome' = LeftOn
    /\ pc' = "recording"
    /\ UNCHANGED <<scenario, control, frameVars, chunkVars, activation>>

(***************************************************************************)
(* After the loop: stop the source, give the focus back, drain the frames, *)
(* stop the recorder and wait for the writer; a cancel cuts every wait.    *)
(***************************************************************************)
StoppedSource == [source EXCEPT !.state = IF @ = "casting" THEN "stopped" ELSE @]

SourceErrors == [outcome EXCEPT !.failure = @ \/ ~outcome.cancelled, !.trouble = TRUE]

\* source_screencast_disappeared: a source that is gone has stopped.
StopSource ==
    /\ pc = "stopping"
    /\ \/ source' = StoppedSource /\ UNCHANGED outcome
       \/ /\ outcome' = SourceErrors
          /\ UNCHANGED source
       \/ /\ control = "cancel" /\ ~outcome.cancelled
          /\ outcome' = [outcome EXCEPT !.cancelled = TRUE]
          /\ source' \in {StoppedSource, source}
    /\ pc' = "unfocusing"
    /\ UNCHANGED <<scenario, control, queue, worker, chunkVars, focusVars>>

\* the override's removal; then drop(frame_tx)
Unfocus ==
    /\ pc = "unfocusing"
    /\ focus' = [focus EXCEPT !.override = FALSE]
    /\ pc' = IF focus.override THEN "disabling" ELSE "draining"
    /\ queue' = IF focus.override THEN queue ELSE [queue EXCEPT !.open = FALSE]
    /\ UNCHANGED <<scenario, control, outcome, source, worker, chunkVars, activation>>

DisableFocus ==
    /\ pc = "disabling"
    /\ focus' \in Disabled
    /\ outcome' = LeftOn
    /\ queue' = [queue EXCEPT !.open = FALSE]
    /\ pc' = "draining"
    /\ UNCHANGED <<scenario, control, source, worker, chunkVars, activation>>

\* The task returns and closes the recorder; a writer it did not abort goes on.
Return(result, aborts) ==
    /\ outcome' = [outcome EXCEPT !.result = result]
    /\ writer' = IF aborts /\ writer = "writing" THEN "aborted" ELSE writer
    /\ pc' = "closing"

SeeCancel ==
    /\ pc \in {"draining", "finishing", "completing"} /\ control = "cancel"
    /\ Return("cancelled", TRUE)
    /\ worker' = IF pc = "draining" /\ worker \in {"waiting", "pushing"} THEN "aborted" ELSE worker
    /\ UNCHANGED <<scenario, control, source, queue, recorder, raw, wire, events, written, focusVars>>

\* Drained(o): the worker has been waited for, and o is known.
Drained(o) ==
    IF o.cancelled \/ o.failure
    THEN /\ outcome' = [o EXCEPT !.result = IF o.cancelled THEN "cancelled" ELSE "bad"]
         /\ writer' = IF writer = "writing" THEN "aborted" ELSE writer
         /\ pc' = "closing"
    ELSE outcome' = o /\ pc' = "finishing" /\ UNCHANGED writer

Drain ==
    /\ pc = "draining" /\ worker \in {"done", "failed"}
    /\ Drained(IF worker = "failed" THEN Failing(outcome) ELSE outcome)
    /\ UNCHANGED <<scenario, control, frameVars, recorder, raw, wire, events, written, focusVars>>

DrainTimesOut ==
    /\ pc = "draining" /\ worker \in {"waiting", "pushing"}
    /\ Drained(Failing(outcome))
    /\ worker' = IF outcome.failure THEN worker ELSE "aborted"
    /\ UNCHANGED <<scenario, control, source, queue, recorder, raw, wire, events, written, focusVars>>

FinishRecorder ==
    /\ pc = "finishing"
    /\ \/ /\ RawAnswers /\ recorder.page = "open"
          /\ recorder' = [recorder EXCEPT !.media = IF @ = "on" THEN "stopping" ELSE @]
          /\ pc' = "completing"
          /\ UNCHANGED <<outcome, writer>>
       \/ /\ outcome' = [Troubled(outcome) EXCEPT !.result = "bad"]
          /\ pc' = "closing"
          /\ UNCHANGED <<recorder, writer>>
    /\ UNCHANGED <<scenario, control, frameVars, raw, wire, events, written, focusVars>>

Complete ==
    /\ pc = "completing" /\ writer \in {"done", "failed"}
    /\ \/ /\ writer = "done" /\ outcome.encoded > 0 /\ written # <<>>
          /\ outcome' = [outcome EXCEPT !.result = "good"]
       \/ /\ writer = "done" /\ (outcome.encoded = 0 \/ written = <<>>)
          /\ outcome' = [outcome EXCEPT !.result = "bad"]
       \/ /\ writer = "failed" \/ Refuses
          /\ outcome' = [Troubled(outcome) EXCEPT !.result = "bad"]
    /\ pc' = "closing"
    /\ UNCHANGED <<scenario, control, frameVars, chunkVars, focusVars>>

WaitsForever == FALSE

\* SCREENCAST_FINALIZATION_TIMEOUT
GivesUp == TRUE

CompletionTimesOut ==
    /\ pc = "completing" /\ GivesUp /\ writer = "writing"
    /\ outcome' = [Troubled(outcome) EXCEPT !.result = "bad"]
    /\ writer' = "aborted"
    /\ pc' = "closing"
    /\ UNCHANGED <<scenario, control, frameVars, recorder, raw, wire, events, written, focusVars>>

\* close_hidden_screencast_target and recorder_task.abort()
CloseRecorder ==
    /\ pc = "closing"
    /\ recorder' \in {[recorder EXCEPT !.page = "closed"], recorder}
    /\ raw' = "down" /\ wire' = <<>>
    /\ pc' = "ended"
    /\ UNCHANGED <<scenario, control, outcome, frameVars, events, writer, written, focusVars>>

TaskStep ==
    \/ ConnectRaw \/ CreateRecorder \/ InitializeRecorder \/ StartSource \/ StartFails
    \/ ReachDeadline \/ SeeControl \/ LoseSource \/ TakeFrame
    \/ SeeHidden \/ SeeVisible \/ Engage \/ CheckEngaged \/ Restore
    \/ StopSource \/ Unfocus \/ DisableFocus \/ SeeCancel \/ Drain \/ DrainTimesOut
    \/ FinishRecorder \/ Complete \/ CompletionTimesOut \/ CloseRecorder

(***************************************************************************)
(* frame_worker                                                            *)
(***************************************************************************)
OnlyWorker == UNCHANGED <<scenario, pc, control, source, raw, wire, events, writer, written, focusVars>>

WorkerTakes ==
    /\ worker = "waiting" /\ queue.held
    /\ worker' = "pushing"
    /\ queue' = [queue EXCEPT !.held = FALSE]
    /\ UNCHANGED <<outcome, recorder>> /\ OnlyWorker

WorkerPushes ==
    /\ worker = "pushing" /\ RawAnswers
    /\ recorder' = [recorder EXCEPT !.data = @ \/ recorder.media = "on"]
    /\ outcome' = [outcome EXCEPT !.encoded = @ + 1]
    /\ worker' = "waiting"
    /\ UNCHANGED queue /\ OnlyWorker

\* The frame may have been drawn all the same.
PushFails ==
    /\ worker = "pushing"
    /\ recorder' \in {recorder} \cup
                    (IF RawAnswers THEN {[recorder EXCEPT !.data = @ \/ recorder.media = "on"]} ELSE {})
    /\ worker' = "failed"
    /\ queue' = [queue EXCEPT !.held = FALSE]
    /\ UNCHANGED outcome /\ OnlyWorker

WorkerEnds ==
    /\ worker = "waiting" /\ ~queue.held /\ ~queue.open
    /\ worker' = "done"
    /\ UNCHANGED <<outcome, queue, recorder>> /\ OnlyWorker

WorkerStep == WorkerTakes \/ WorkerPushes \/ PushFails \/ WorkerEnds

(***************************************************************************)
(* The recorder page: recorder_program                                     *)
(***************************************************************************)
OnlyRecorder == UNCHANGED <<scenario, taskVars, frameVars, raw, events, writer, written, focusVars>>

EmitChunk ==
    /\ recorder.page = "open" /\ raw = "up" /\ recorder.data
    /\ recorder.media \in {"on", "stopping"} /\ recorder.chunks < MaxChunks
    /\ recorder' = [recorder EXCEPT !.chunks = @ + 1, !.data = FALSE]
    /\ wire' = Append(wire, Chunk(recorder.chunks + 1))
    /\ OnlyRecorder

\* onstop, after the last emission
EmitDone ==
    /\ recorder.page = "open" /\ raw = "up"
    /\ recorder.media = "stopping" /\ ~recorder.data
    /\ recorder' = [recorder EXCEPT !.media = "done"]
    /\ wire' = Append(wire, Done)
    /\ OnlyRecorder

EmitError ==
    /\ Refuses /\ recorder.page = "open" /\ raw = "up" /\ recorder.media \in {"on", "stopping"}
    /\ recorder' = [recorder EXCEPT !.media = "done"]
    /\ wire' = Append(wire, Failed)
    /\ OnlyRecorder

\* Chrome closes a hidden page with the session that created it.
RecorderGoes ==
    /\ recorder.page = "open" /\ raw = "down"
    /\ recorder' = [recorder EXCEPT !.page = "closed"]
    /\ UNCHANGED wire /\ OnlyRecorder

(***************************************************************************)
(* The task of RawCdpClient, and the writer.                               *)
(***************************************************************************)
Lossy(event) == wire' = Tail(wire) /\ UNCHANGED <<raw, events>>

\* try_forward_binding_event: an event that does not fit ends the connection.
Overflow(event) == raw' = "down" /\ wire' = <<>> /\ UNCHANGED events

Forward ==
    /\ raw = "up" /\ wire # <<>>
    /\ IF Len(events) < EventCap /\ writer \in {"none", "writing"}
       THEN events' = Append(events, Head(wire)) /\ wire' = Tail(wire) /\ UNCHANGED raw
       ELSE Overflow(Head(wire))
    /\ UNCHANGED <<scenario, taskVars, frameVars, recorder, writer, written, focusVars>>

ConnectionLost ==
    /\ Refuses /\ raw = "up"
    /\ raw' = "down" /\ wire' = <<>>
    /\ UNCHANGED <<scenario, taskVars, frameVars, recorder, events, writer, written, focusVars>>

OnlyWriter == UNCHANGED <<scenario, taskVars, frameVars, recorder, raw, wire, focusVars>>

WriteEvent ==
    /\ writer = "writing" /\ events # <<>>
    /\ events' = Tail(events)
    /\ LET m == Head(events)
       IN  \/ m.kind = "chunk" /\ written' = Append(written, m.n) /\ UNCHANGED writer
           \/ m.kind = "done" /\ writer' = "done" /\ UNCHANGED written
           \/ (m.kind = "error" \/ Refuses) /\ writer' = "failed" /\ UNCHANGED written
    /\ OnlyWriter

WriterLosesEvents ==
    /\ writer = "writing" /\ events = <<>> /\ raw = "down"
    /\ writer' = "failed"
    /\ UNCHANGED <<events, written>> /\ OnlyWriter

ConnectionStep == Forward \/ WriteEvent \/ WriterLosesEvents

(***************************************************************************)
(* The source page, its user, other calls of the broker.                   *)
(***************************************************************************)
SendFrame ==
    /\ source.state = "casting" /\ ~source.frame /\ scenario.frames > 0 /\ Observed(focus)
    /\ source' = [source EXCEPT !.frame = TRUE]
    /\ scenario' = [scenario EXCEPT !.frames = @ - 1]
    /\ UNCHANGED <<taskVars, queue, worker, chunkVars, focusVars>>

SourceCloses ==
    /\ Happens("closes") /\ ~Gone
    /\ source' = [source EXCEPT !.state = "gone"]
    /\ focus' = [focus EXCEPT !.emulated = FALSE, !.hidden = FALSE, !.seen = <<>>]
    /\ UNCHANGED <<scenario, taskVars, queue, worker, chunkVars, activation>>

Controls ==
    /\ pc # "start"
    /\ \/ Happens("stops") /\ control = "record" /\ control' = "stop"
       \/ Happens("cancels") /\ control # "cancel" /\ control' = "cancel"
    /\ UNCHANGED <<scenario, pc, outcome, frameVars, chunkVars, focusVars>>

\* The user, or a page that opens another, hides the tab or shows it.
Switch ==
    /\ scenario.switches > 0 /\ ~Gone /\ Len(focus.seen) < MaxEvents
    /\ scenario' = [scenario EXCEPT !.switches = @ - 1]
    /\ focus' = Seeing([focus EXCEPT !.hidden = ~@])
    /\ UNCHANGED <<taskVars, frameVars, chunkVars, activation>>

\* activate_target: show the page, withdraw the override, turn it off.
Activate ==
    /\ activation = "idle" /\ scenario.switches > 0 /\ ~Gone /\ Len(focus.seen) < MaxEvents
    /\ scenario' = [scenario EXCEPT !.switches = @ - 1]
    /\ focus' = Seeing([focus EXCEPT !.hidden = FALSE])
    /\ activation' = "shown"
    /\ UNCHANGED <<taskVars, frameVars, chunkVars>>

WithdrawOverride ==
    /\ activation = "shown"
    /\ focus' = [focus EXCEPT !.override = FALSE]
    /\ activation' = IF focus.override THEN "removing" ELSE "idle"
    /\ UNCHANGED <<scenario, taskVars, frameVars, chunkVars>>

DisableAfterActivation ==
    /\ activation = "removing"
    /\ focus' \in Disabled
    /\ outcome' = LeftOn
    /\ activation' = "idle"
    /\ UNCHANGED <<scenario, pc, control, frameVars, chunkVars>>

ActivationStep == WithdrawOverride \/ DisableAfterActivation

\* has_focus as another call would be answered now
HasFocus == ~focus.override /\ ~Gone /\ Observed(focus)

CastNext ==
    \/ TaskStep \/ WorkerStep
    \/ EmitChunk \/ EmitDone \/ EmitError \/ RecorderGoes
    \/ ConnectionStep \/ ConnectionLost
    \/ SendFrame \/ SourceCloses \/ Controls \/ Switch \/ Activate \/ ActivationStep

CastSpec == CastInit /\ [][CastNext]_castVars

\* The broker's tasks run, their timeouts elapse and max_duration_ms is over
\* some day; Chrome owes nothing but that a hidden page goes with its session.
FairCastSpec ==
    /\ CastSpec
    /\ WF_castVars(TaskStep) /\ WF_castVars(WorkerStep) /\ WF_castVars(ConnectionStep)
    /\ WF_castVars(ActivationStep) /\ WF_castVars(RecorderGoes)

-----------------------------------------------------------------------------
\* A recording that becomes an artifact is whole: the file has every chunk the
\* recorder emitted, in order and up to its end, and every frame that was
\* accepted went into it.  And a recording that got as far as finalizing is
\* lost only when something failed or nothing was encoded: that its source page
\* closes meanwhile is no reason.
FinalizedAsRecorded ==
    /\ outcome.result = "good" =>
          /\ written = [i \in 1..recorder.chunks |-> i]
          /\ recorder.media = "done" /\ outcome.encoded = queue.accepted
    /\ outcome.result = "bad" /\ outcome.phase = "finalizing" =>
          outcome.trouble \/ outcome.encoded = 0

\* Focus emulation is a lie told to the page: whoever has it on, has_focus knows
\* of it or somebody is about to turn it off, whatever an activation by
\* another call and the screencast's own listener do at the same time.
LiesAreTakenBack ==
    focus.emulated /\ HasFocus =>
        \/ ~focus.hidden \/ outcome.trouble
        \/ pc \in {"engaged", "restoring", "disabling"} \/ activation = "removing"

\* However recorder, browser and disk behave, every screencast ends, its tasks
\* with it, and no recorder page stays behind.
CastsEnd ==
    <>(pc = "ended" /\ worker \notin {"waiting", "pushing"} /\ writer # "writing"
       /\ recorder.page # "open")
=============================================================================
