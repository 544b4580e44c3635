-------------------------- MODULE InspectionProofs --------------------------
(***************************************************************************)
(* Proofs about the two models of what a client inspects a page with, the  *)
(* diagnostics log and the heap graph.  The models are independent and so  *)
(* are the two parts of this module.                                       *)
(*                                                                         *)
(* About DiagnosticsLog, for any requests, messages, limits and profiles:  *)
(* its types, what an id means, that a listed request can be got, and that *)
(* a click does not repeat a submission it saw answered.                   *)
(*                                                                         *)
(* About HeapGraph, for any snapshot, question and limit: every retaining  *)
(* path the memory tool answers with is one.                               *)
(***************************************************************************)
EXTENDS DiagnosticsLog, HeapGraph, FiniteSetTheorems, TLAPS

Queued == [about : Requests \cup Messages, method : Methods]

Entry(x, m) == [about |-> x, method |-> m]

\* A stream has one more entry.
Enqueue(k, x) == streams' = [streams EXCEPT ![k] = Append(@, x)]

LEMMA QueuedNext ==
    ASSUME NEW k \in Kinds, NEW x \in Requests \cup Messages, NEW m \in Methods, Emit(k, x, m)
    PROVE  /\ UNCHANGED streams \/ Enqueue(k, Entry(x, m))
           /\ Entry(x, m) \in Queued /\ Entry(x, m).about = x /\ Entry(x, m).method = m
<1>1. UNCHANGED streams \/ Enqueue(k, Entry(x, m))
  BY Zenon DEF Emit, Enqueue, Entry
<1> QED BY <1>1 DEF Entry, Queued

(***************************************************************************)
(* The invariant.  Events are numbered as they are recorded, and an id is  *)
(* the number of an event; every part of a buffer has a last event, which  *)
(* the baseline of a click is; a request is asked once, unless redirected; *)
(* and a click's own requests are recorded after its baseline.             *)
(***************************************************************************)
Buffer(b) == IF b = "console" THEN console ELSE network

Numbered ==
    /\ \A e \in console \cup network : e.sequence < next_sequence
    /\ \A d, e \in console : d.sequence = e.sequence => d = e
    /\ \A d, e \in network : d.sequence = e.sequence => d = e
    /\ \A g \in given :
         /\ g.id < next_sequence
         /\ \A e \in Buffer(g.buffer) :
              e.sequence = g.id => e.about = g.about /\ (g.asked <=> e.kind = "request")

PartsHaveTheirLast ==
    \A part \in SUBSET network :
        part # {} => \E e \in part : \A d \in part : d.sequence <= e.sequence

Waits(k, i) == i \in 1..Len(streams[k])

SentFirst ==
    /\ \A e \in network : e.about \in Requests
    /\ \A k \in Kinds \ {"console"}, i \in Nat : Waits(k, i) => streams[k][i].about \in Requests
    /\ \A r \in Requests : page[r] = "unsent" =>
         /\ r \notin redirected
         /\ \A e \in network : e.about # r
         /\ \A k \in Kinds \ {"console"}, i \in Nat : Waits(k, i) => streams[k][i].about # r

Asking(i, r) == Waits("request", i) /\ streams["request"][i].about = r

AskedOnce ==
    \A r \in Requests \ redirected :
        /\ \A i, j \in Nat : Asking(i, r) /\ Asking(j, r) => i = j
        /\ \A i \in Nat : Asking(i, r) =>
              Asks(network, r) = {} /\ streams["request"][i].method = method[r]
        /\ \A d, e \in Asks(network, r) : d = e
        /\ \A e \in Asks(network, r) : e.method = method[r]

ClickSeesItsOwn ==
    /\ click.since < next_sequence
    /\ \A r \in click.sent, e \in network : e.about = r => e.sequence > click.since

LogInv ==
    /\ LogTypeOK /\ Numbered /\ PartsHaveTheirLast /\ SentFirst /\ AskedOnce /\ ClickSeesItsOwn
    /\ IsFiniteSet(network)

\* A click starts after everything that has been recorded.
LEMMA BaselineIsLast ==
    ASSUME LogTypeOK, Numbered, PartsHaveTheirLast
    PROVE  Baseline \in Nat /\ Baseline < next_sequence
<1> DEFINE numbers == {e.sequence : e \in network}
<1>1. numbers \subseteq Nat /\ \A n \in numbers : n < next_sequence
  BY DEF LogTypeOK, Event, Numbered
<1>2. CASE numbers = {}
  BY <1>2 DEF Baseline, LogTypeOK
<1>3. CASE numbers # {}
  <2>1. network # {} /\ network \in SUBSET network
    BY <1>3
  <2>2. \E n \in numbers : \A i \in numbers : i <= n
    BY <2>1 DEF PartsHaveTheirLast
  <2>3. Baseline \in numbers
    BY <1>3, <2>2 DEF Baseline
  <2> QED BY <1>1, <2>3
<1> QED BY <1>2, <1>3

(***************************************************************************)
(* Types.                                                                  *)
(***************************************************************************)
LEMMA TypeInit == LogInit => LogTypeOK
<1> SUFFICES ASSUME LogInit PROVE LogTypeOK
  OBVIOUS
<1>1. streams \in [Kinds -> Seq(Queued)]
  <2>1. <<>> \in Seq(Queued)
    OBVIOUS
  <2> QED BY <2>1 DEF LogInit, NoEvents
<1>2. click \in [pc : {"idle", "effect", "again", "activate"}, since : Nat, sent : SUBSET Requests]
  BY DEF LogInit, NoClick
<1>3. /\ page \in [Requests -> {"unsent", "sent", "answered", "done"}]
      /\ method \in [Requests -> Methods]
  BY DEF LogInit, Methods
<1>4. streams \in [Kinds -> Seq([about : Requests \cup Messages, method : Methods])]
  BY <1>1 DEF Queued
<1>5. /\ console \subseteq Event /\ network \subseteq Event /\ next_sequence \in Nat \ {0}
      /\ monitor \in {"on", "stopping", "off"} /\ redirected \subseteq Requests
      /\ given = {} /\ profile \in Profiles
  BY DEF LogInit
<1> QED BY <1>2, <1>3, <1>4, <1>5, Zenon DEF LogTypeOK

\* An emission keeps the streams' type.
LEMMA EmitType ==
    ASSUME LogTypeOK, NEW k \in Kinds, NEW x \in Requests \cup Messages, NEW m \in Methods,
           Emit(k, x, m)
    PROVE  streams' \in [Kinds -> Seq(Queued)]
<1>1. streams \in [Kinds -> Seq(Queued)] /\ Entry(x, m) \in Queued
  BY QueuedNext DEF LogTypeOK, Queued
<1>2. Append(streams[k], Entry(x, m)) \in Seq(Queued)
  BY <1>1
<1>3. CASE Enqueue(k, Entry(x, m))
  BY <1>1, <1>2, <1>3 DEF Enqueue
<1> QED BY <1>1, <1>3, QueuedNext

\* What was taken from a stream is an event about a request or message.
LEMMA Taken ==
    ASSUME LogTypeOK, NEW k \in Kinds, streams[k] # <<>>
    PROVE  /\ Head(streams[k]) \in Queued
           /\ Tail(streams[k]) \in Seq(Queued)
           /\ Head(streams[k]) = streams[k][1]
<1>1. streams[k] \in Seq(Queued)
  BY DEF LogTypeOK, Queued
<1> QED BY <1>1

\* The event a recording adds, and what it does to the buffers.
New(k) == [sequence |-> next_sequence, kind |-> k, about |-> Head(streams[k]).about,
           method |-> Head(streams[k]).method]

LEMMA RecordEffects ==
    ASSUME LogTypeOK, NEW k \in Kinds, Record(k)
    PROVE  /\ New(k) \in Event
           /\ streams[k] # <<>> /\ streams' = [streams EXCEPT ![k] = Tail(@)]
           /\ next_sequence' = next_sequence + 1
           /\ k = "console" => network' = network /\ console' \subseteq console \cup {New(k)}
           /\ k # "console" => console' = console /\ network' \subseteq network \cup {New(k)}
           /\ UNCHANGED <<monitor, page, method, redirected, click, given, profile>>
<1>1. Head(streams[k]) \in Queued
  BY Taken DEF Record
<1>2. New(k) \in Event
  BY <1>1 DEF New, Event, Queued, LogTypeOK
<1>3. \A S : Capped(S) \subseteq S
  BY DEF Capped
<1>4. /\ k = "console" => network' = network /\ console' = Capped(console \cup {New(k)})
      /\ k # "console" => console' = console /\ network' = Capped(network \cup {New(k)})
  BY DEF Record, New
<1>5. /\ k = "console" => console' \subseteq console \cup {New(k)}
      /\ k # "console" => network' \subseteq network \cup {New(k)}
  BY <1>3, <1>4
<1> QED BY <1>2, <1>4, <1>5 DEF Record, pageVars

LEMMA TypeNext ==
    ASSUME LogTypeOK, Numbered, PartsHaveTheirLast, [LogNext]_logVars
    PROVE  LogTypeOK'
<1>t. streams \in [Kinds -> Seq(Queued)]
  BY DEF LogTypeOK, Queued
<1>1. CASE UNCHANGED logVars
  BY <1>1 DEF logVars, bufferVars, pageVars, LogTypeOK
<1>2. ASSUME NEW r \in Requests, NEW m \in Methods, PageSends(r, m)
      PROVE  LogTypeOK'
  <2>1. streams' \in [Kinds -> Seq(Queued)]
    BY <1>2, EmitType DEF PageSends, Kinds
  <2>2. click' \in [pc : {"idle", "effect", "again", "activate"}, since : Nat,
                    sent : SUBSET Requests]
    BY <1>2 DEF PageSends, LogTypeOK
  <2>3. page' \in [Requests -> {"unsent", "sent", "answered", "done"}]
        /\ method' \in [Requests -> Methods]
    BY <1>2 DEF PageSends, LogTypeOK
  <2> QED BY <1>2, <2>1, <2>2, <2>3 DEF PageSends, LogTypeOK, Queued, bufferVars
<1>3. ASSUME NEW r \in Requests, NEW m \in Methods, PageRedirects(r, m)
      PROVE  LogTypeOK'
  <2>1. streams' \in [Kinds -> Seq(Queued)]
    BY <1>3, EmitType DEF PageRedirects, Kinds
  <2> QED BY <1>3, <2>1 DEF PageRedirects, LogTypeOK, Queued, bufferVars
<1>4. ASSUME NEW r \in Requests, NEW from, NEW to \in {"answered", "done"}, NEW k \in Completions,
             PageProgress(r, from, to, k)
      PROVE  LogTypeOK'
  <2>1. streams' \in [Kinds -> Seq(Queued)]
    BY <1>4, EmitType DEF PageProgress, Kinds, Methods
  <2>2. page' \in [Requests -> {"unsent", "sent", "answered", "done"}]
    BY <1>4 DEF PageProgress, LogTypeOK
  <2> QED BY <1>4, <2>1, <2>2 DEF PageProgress, LogTypeOK, Queued, bufferVars
<1>5. ASSUME NEW x \in Messages, PageLogs(x)
      PROVE  LogTypeOK'
  <2>1. streams' \in [Kinds -> Seq(Queued)]
    BY <1>5, EmitType DEF PageLogs, Kinds, Methods
  <2> QED BY <1>5, <2>1 DEF PageLogs, LogTypeOK, Queued, bufferVars, pageVars
<1>6. ASSUME NEW k \in Kinds, Record(k)
      PROVE  LogTypeOK'
  <2>1. streams' \in [Kinds -> Seq(Queued)]
    BY <1>6, <1>t, RecordEffects, Taken
  <2>2. console' \subseteq Event /\ network' \subseteq Event
    <3>1. console \subseteq Event /\ network \subseteq Event
      BY DEF LogTypeOK
    <3>2. New(k) \in Event /\ console' \subseteq console \cup {New(k)}
          /\ network' \subseteq network \cup {New(k)}
      BY <1>6, RecordEffects
    <3> QED BY <3>1, <3>2
  <2>3. next_sequence' \in Nat \ {0}
    <3>1. next_sequence' = next_sequence + 1 /\ next_sequence \in Nat
      BY <1>6, RecordEffects DEF LogTypeOK
    <3> QED BY <3>1
  <2> QED BY <1>6, <2>1, <2>2, <2>3, RecordEffects DEF LogTypeOK, Queued
<1>7. CASE StopMonitor \/ EnsureMonitor \/ ResetTarget
  BY <1>7 DEF StopMonitor, EnsureMonitor, ResetTarget, NumbersAfterReset, LogTypeOK, bufferVars,
              pageVars
<1>8. CASE MonitorEnds
  <2>1. streams' \in [Kinds -> Seq(Queued)]
    BY <1>8 DEF MonitorEnds, NoEvents
  <2> QED BY <1>8, <2>1 DEF MonitorEnds, LogTypeOK, Queued, bufferVars, pageVars
<1>9. ASSUME NEW since \in 0..next_sequence, ListConsole(since) \/ ListNetwork(since)
      PROVE  LogTypeOK'
  <2>1. PICK e \in console \cup network, b \in {"console", "network"} : Give(b, e)
    BY <1>9 DEF ListConsole, ListNetwork, Since, Records
  <2>2. e \in Event
    BY DEF LogTypeOK
  <2>3. given' \subseteq [buffer : {"console", "network"}, id : Nat,
                          about : Requests \cup Messages, asked : BOOLEAN]
    BY <2>1, <2>2 DEF Give, Event
  <2> QED BY <1>9, <2>3 DEF ListConsole, ListNetwork, LogTypeOK, bufferVars, pageVars
<1>10. CASE ClearConsole \/ ClearNetwork
  BY <1>10 DEF ClearConsole, ClearNetwork, LogTypeOK, pageVars
<1>11. CASE SeeEffect \/ LookAgain \/ EffectTimesOut \/ SemanticActivate
  <2>1. /\ click' = NoClick \/ \E pc \in {"again", "activate"} : click' = [click EXCEPT !.pc = pc]
        /\ UNCHANGED <<bufferVars, monitor, streams, pageVars, given, profile>>
    BY <1>11 DEF SeeEffect, LookAgain, EffectTimesOut, SemanticActivate
  <2>2. click' \in [pc : {"idle", "effect", "again", "activate"}, since : Nat,
                    sent : SUBSET Requests]
    <3>1. CASE click' = NoClick
      BY <3>1 DEF NoClick
    <3>2. ASSUME NEW pc \in {"again", "activate"}, click' = [click EXCEPT !.pc = pc]
          PROVE  click' \in [pc : {"idle", "effect", "again", "activate"}, since : Nat,
                             sent : SUBSET Requests]
      BY <3>2 DEF LogTypeOK
    <3> QED BY <2>1, <3>1, <3>2
  <2> QED BY <2>1, <2>2 DEF LogTypeOK, bufferVars, pageVars
<1>12. CASE Click
  BY <1>12, BaselineIsLast DEF Click, NoClick, LogTypeOK, bufferVars, pageVars
<1> QED
  BY <1>1, <1>2, <1>3, <1>4, <1>5, <1>6, <1>7, <1>8, <1>9, <1>10, <1>11, <1>12
  DEF LogNext, PageStep, ToolStep, PageAnswers, PageFinishes, PageFails, Completions

(***************************************************************************)
(* What a step does to the buffers and the ids.                            *)
(***************************************************************************)
Lists == \E since \in 0..next_sequence : ListConsole(since) \/ ListNetwork(since)

LEMMA BuffersNext ==
    ASSUME LogTypeOK, [LogNext]_logVars
    PROVE  \/ \E k \in Kinds : Record(k)
           \/ Lists
           \/ /\ console' \subseteq console /\ network' \subseteq network
              /\ UNCHANGED <<next_sequence, given>>
<1>1. CASE UNCHANGED logVars
  BY <1>1 DEF logVars, bufferVars
<1>2. CASE PageStep
  BY <1>2 DEF PageStep, PageSends, PageRedirects, PageAnswers, PageFinishes, PageFails,
              PageProgress, PageLogs, bufferVars
<1>3. CASE StopMonitor \/ MonitorEnds \/ EnsureMonitor \/ ResetTarget
  BY <1>3 DEF StopMonitor, MonitorEnds, EnsureMonitor, ResetTarget, NumbersAfterReset, bufferVars
<1>4. CASE ToolStep
  BY <1>4 DEF ToolStep, Lists, ClearConsole, ClearNetwork, Click, SeeEffect, LookAgain,
              EffectTimesOut, SemanticActivate, bufferVars
<1> QED BY <1>1, <1>2, <1>3, <1>4 DEF LogNext

\* Ids keep their meaning because a number is given out once, to one event.
LEMMA NumberedNext ==
    ASSUME LogTypeOK, Numbered, [LogNext]_logVars
    PROVE  Numbered'
<1>n. next_sequence \in Nat /\ console \subseteq Event /\ network \subseteq Event
  BY DEF LogTypeOK
<1>g. \A g \in given : g.id \in Nat /\ g.buffer \in {"console", "network"}
  BY DEF LogTypeOK
<1>1. ASSUME NEW k \in Kinds, Record(k) PROVE Numbered'
  <2>1. /\ New(k).sequence = next_sequence /\ next_sequence' = next_sequence + 1
        /\ console' \subseteq console \cup {New(k)}
        /\ network' \subseteq network \cup {New(k)}
        /\ given' = given
    BY <1>1, RecordEffects DEF New
  <2>2. \A e \in console' \cup network' : e.sequence < next_sequence'
    BY <2>1, <1>n DEF Numbered, Event
  <2>3. \A d, e \in console' : d.sequence = e.sequence => d = e
    BY <2>1, <1>n DEF Numbered, Event
  <2>4. \A d, e \in network' : d.sequence = e.sequence => d = e
    BY <2>1, <1>n DEF Numbered, Event
  <2>5. \A g \in given' : g.id < next_sequence'
    BY <2>1, <1>n, <1>g DEF Numbered
  <2>6. ASSUME NEW g \in given', NEW e \in Buffer(g.buffer)', e.sequence = g.id
        PROVE  e.about = g.about /\ (g.asked <=> e.kind = "request")
    <3>1. g \in given /\ g.id < next_sequence /\ e # New(k)
      BY <2>1, <2>6, <1>n, <1>g DEF Numbered
    <3>2. e \in Buffer(g.buffer)
      BY <2>1, <3>1 DEF Buffer
    <3> QED BY <3>1, <3>2, <2>6 DEF Numbered
  <2> QED BY <2>2, <2>3, <2>4, <2>5, <2>6 DEF Numbered
<1>2. CASE Lists
  <2>1. PICK e \in console \cup network, b \in {"console", "network"} :
           Give(b, e) /\ e \in Buffer(b)
    BY <1>2 DEF Lists, ListConsole, ListNetwork, Since, Records, Buffer
  <2>2. UNCHANGED bufferVars
    BY <1>2 DEF Lists, ListConsole, ListNetwork
  <2>3. \A d \in Buffer(b) : d.sequence = e.sequence => d = e
    BY <2>1 DEF Numbered, Buffer
  <2>4. given' = {[buffer |-> b, id |-> e.sequence, about |-> e.about,
                   asked |-> e.kind = "request"]}
    BY <2>1 DEF Give
  <2>5. Buffer(b)' = Buffer(b)
    BY <2>2 DEF Buffer, bufferVars
  <2>6. \A g \in given' :
           /\ g.id < next_sequence'
           /\ \A d \in Buffer(g.buffer)' :
                d.sequence = g.id => d.about = g.about /\ (g.asked <=> d.kind = "request")
    <3>1. SUFFICES ASSUME NEW g \in given' PROVE
             /\ g.id < next_sequence'
             /\ \A d \in Buffer(g.buffer)' :
                  d.sequence = g.id => d.about = g.about /\ (g.asked <=> d.kind = "request")
      OBVIOUS
    <3>2. g.id = e.sequence /\ g.about = e.about /\ (g.asked <=> e.kind = "request")
          /\ g.buffer = b
      <4>1. g = [buffer |-> b, id |-> e.sequence, about |-> e.about, asked |-> e.kind = "request"]
        BY <2>4, <3>1
      <4> QED BY Zenon, <4>1
    <3>3. Buffer(g.buffer)' = Buffer(b)
      BY <2>5, <3>2
    <3>4. e.sequence < next_sequence'
      BY <2>2 DEF Numbered, bufferVars
    <3> QED BY <2>3, <3>2, <3>3, <3>4
  <2> QED BY <2>2, <2>6 DEF Numbered, bufferVars
<1>3. CASE /\ console' \subseteq console /\ network' \subseteq network
           /\ UNCHANGED <<next_sequence, given>>
  BY <1>3 DEF Numbered, Buffer
<1> QED BY <1>1, <1>2, <1>3, BuffersNext

\* The event that is recorded is the last of every part it is in.
LEMMA LastNext ==
    ASSUME LogTypeOK, Numbered, PartsHaveTheirLast, [LogNext]_logVars
    PROVE  PartsHaveTheirLast'
<1>1. CASE network' \subseteq network
  BY <1>1 DEF PartsHaveTheirLast
<1>2. ASSUME NEW k \in Kinds, Record(k) PROVE PartsHaveTheirLast'
  <2>1. network' \subseteq network \cup {New(k)} /\ New(k).sequence = next_sequence
    BY <1>2, RecordEffects DEF New
  <2>2. SUFFICES ASSUME NEW part \in SUBSET network', part # {}
                 PROVE  \E e \in part : \A d \in part : d.sequence <= e.sequence
    BY DEF PartsHaveTheirLast
  <2>3. CASE New(k) \in part
    <3>1. \A d \in part : d.sequence <= New(k).sequence
      BY <2>1 DEF Numbered, LogTypeOK, Event
    <3> QED BY <2>3, <3>1
  <2>4. CASE New(k) \notin part
    <3>1. part \in SUBSET network
      BY <2>1, <2>4
    <3> QED BY <2>2, <3>1 DEF PartsHaveTheirLast
  <2> QED BY <2>3, <2>4
<1>3. CASE Lists
  BY <1>1, <1>3 DEF Lists, ListConsole, ListNetwork, bufferVars
<1> QED BY <1>1, <1>2, <1>3, BuffersNext

\* A buffer holds finitely many events.
LEMMA FiniteNext ==
    ASSUME LogTypeOK, IsFiniteSet(network), [LogNext]_logVars
    PROVE  IsFiniteSet(network)'
<1>1. CASE network' \subseteq network
  BY <1>1, FS_Subset
<1>2. ASSUME NEW k \in Kinds, Record(k) PROVE IsFiniteSet(network)'
  <2>1. network' \subseteq network \cup {New(k)}
    BY <1>2, RecordEffects
  <2>2. IsFiniteSet(network \cup {New(k)})
    BY FS_AddElement
  <2> QED BY <2>1, <2>2, FS_Subset
<1>3. CASE Lists
  BY <1>1, <1>3 DEF Lists, ListConsole, ListNetwork, bufferVars
<1> QED BY <1>1, <1>2, <1>3, BuffersNext

(***************************************************************************)
(* What a step does to the streams.                                        *)
(***************************************************************************)
LEMMA AppendAt ==
    ASSUME LogTypeOK, NEW k \in Kinds, NEW x \in Queued,
           Enqueue(k, x)
    PROVE  \A l \in Kinds, i \in Nat : Waits(l, i)' =>
             \/ Waits(l, i) /\ streams'[l][i] = streams[l][i]
             \/ l = k /\ i = Len(streams[k]) + 1 /\ streams'[l][i] = x
<1>1. streams \in [Kinds -> Seq(Queued)]
  BY DEF LogTypeOK, Queued
<1>2. SUFFICES ASSUME NEW l \in Kinds, NEW i \in Nat, Waits(l, i)'
               PROVE  \/ Waits(l, i) /\ streams'[l][i] = streams[l][i]
                      \/ l = k /\ i = Len(streams[k]) + 1 /\ streams'[l][i] = x
  OBVIOUS
<1>3. CASE l # k
  BY <1>1, <1>2, <1>3 DEF Waits, Enqueue
<1>4. CASE l = k
  <2>1. streams'[k] = Append(streams[k], x) /\ streams[k] \in Seq(Queued)
    BY <1>1 DEF Enqueue
  <2> QED BY <1>2, <1>4, <2>1 DEF Waits
<1> QED BY <1>3, <1>4

LEMMA TailAt ==
    ASSUME LogTypeOK, NEW k \in Kinds, streams[k] # <<>>,
           streams' = [streams EXCEPT ![k] = Tail(@)]
    PROVE  /\ \A l \in Kinds \ {k} : streams'[l] = streams[l]
           /\ \A i \in Nat : Waits(k, i)' => Waits(k, i + 1) /\ streams'[k][i] = streams[k][i + 1]
           /\ Waits(k, 1) /\ Head(streams[k]) = streams[k][1]
<1>1. streams \in [Kinds -> Seq(Queued)]
  BY DEF LogTypeOK, Queued
<1>2. streams'[k] = Tail(streams[k]) /\ streams[k] \in Seq(Queued)
  BY <1>1
<1> QED BY <1>1, <1>2 DEF Waits

\* A step that neither the page nor the monitor takes.
Aside ==
    /\ streams' = streams \/ streams' = NoEvents
    /\ UNCHANGED pageVars
    /\ network' \subseteq network

LEMMA PageOrMonitor ==
    ASSUME LogTypeOK, [LogNext]_logVars
    PROVE  \/ \E r \in Requests, m \in Methods : PageSends(r, m) \/ PageRedirects(r, m)
           \/ \E r \in Requests, from \in {"sent", "answered"}, to \in {"answered", "done"},
                 k \in Completions : PageProgress(r, from, to, k)
           \/ \E x \in Messages : PageLogs(x)
           \/ \E k \in Kinds : Record(k)
           \/ Aside
<1>1. CASE UNCHANGED logVars
  BY <1>1 DEF logVars, bufferVars, Aside
<1>2. CASE PageStep
  BY <1>2 DEF PageStep, PageAnswers, PageFinishes, PageFails, Completions
<1>3. CASE StopMonitor \/ MonitorEnds \/ EnsureMonitor \/ ResetTarget
  BY <1>3 DEF StopMonitor, MonitorEnds, EnsureMonitor, ResetTarget, bufferVars, Aside
<1>4. CASE ToolStep
  BY <1>4 DEF ToolStep, ListConsole, ListNetwork, ClearConsole, ClearNetwork, Click, SeeEffect,
              LookAgain, EffectTimesOut, SemanticActivate, bufferVars, Aside
<1> QED BY <1>1, <1>2, <1>3, <1>4 DEF LogNext

\* Nothing waits after the monitor has dropped its streams, nor anything new
\* after a step aside.
LEMMA AsideAt ==
    ASSUME Aside
    PROVE  \A k \in Kinds, i \in Nat :
             Waits(k, i)' => Waits(k, i) /\ streams'[k][i] = streams[k][i]
<1>1. CASE streams' = streams
  BY <1>1 DEF Waits
<1>2. CASE streams' = NoEvents
  <2>1. \A k \in Kinds : Len(streams'[k]) = 0
    BY <1>2 DEF NoEvents
  <2> QED BY <2>1 DEF Waits
<1> QED BY <1>1, <1>2 DEF Aside

(***************************************************************************)
(* A request's events come after the page has sent it.                     *)
(***************************************************************************)
LEMMA SentNext ==
    ASSUME LogTypeOK, SentFirst, [LogNext]_logVars
    PROVE  SentFirst'
<1>t. page \in [Requests -> {"unsent", "sent", "answered", "done"}] /\ "request" \in Kinds
      /\ Completions \subseteq Kinds /\ "console" \notin Completions
  BY DEF LogTypeOK, Kinds, Completions
<1>1. ASSUME NEW r \in Requests, NEW m \in Methods, NEW k \in Kinds \ {"console"},
             page[r] # "unsent" \/ page'[r] # "unsent", Emit(k, r, m), network' = network,
             \A q \in Requests : page'[q] = "unsent" =>
                page[q] = "unsent" /\ (q \in redirected' => q \in redirected)
      PROVE  SentFirst'
  <2>0. page'[r] # "unsent"
    BY <1>1
  <2>1. Entry(r, m) \in Queued /\ Entry(r, m).about = r
    BY <1>1, QueuedNext
  <2>2. ASSUME NEW l \in Kinds \ {"console"}, NEW i \in Nat, Waits(l, i)'
        PROVE  \/ Waits(l, i) /\ streams'[l][i] = streams[l][i]
               \/ streams'[l][i].about = r
    <3>1. CASE UNCHANGED streams
      BY <2>2, <3>1 DEF Waits
    <3>2. CASE Enqueue(k, Entry(r, m))
      BY <2>1, <2>2, <3>2, AppendAt
    <3> QED BY <1>1, <3>1, <3>2, QueuedNext
  <2>3. \A l \in Kinds \ {"console"}, i \in Nat : Waits(l, i)' => streams'[l][i].about \in Requests
    BY <2>2 DEF SentFirst
  <2>4. ASSUME NEW q \in Requests, page'[q] = "unsent"
        PROVE  /\ q \notin redirected'
               /\ \A e \in network' : e.about # q
               /\ \A l \in Kinds \ {"console"}, i \in Nat :
                     Waits(l, i)' => streams'[l][i].about # q
    <3>1. q # r /\ page[q] = "unsent" /\ (q \in redirected' => q \in redirected)
      BY <1>1, <2>0, <2>4
    <3> QED BY <1>1, <2>2, <3>1 DEF SentFirst
  <2> QED BY <1>1, <2>3, <2>4 DEF SentFirst
<1>2. ASSUME NEW r \in Requests, NEW m \in Methods, PageSends(r, m) PROVE SentFirst'
  <2>1. /\ Emit("request", r, m) /\ network' = network /\ redirected' = redirected
        /\ page' = [page EXCEPT ![r] = "sent"]
    BY <1>2 DEF PageSends, bufferVars
  <2> QED BY <2>1, <1>1, <1>t
<1>3. ASSUME NEW r \in Requests, NEW m \in Methods, PageRedirects(r, m) PROVE SentFirst'
  <2>1. /\ Emit("request", r, m) /\ network' = network /\ redirected' = redirected \cup {r}
        /\ page' = page /\ page[r] = "sent"
    BY <1>3 DEF PageRedirects, bufferVars
  <2> QED BY <2>1, <1>1, <1>t
<1>4. ASSUME NEW r \in Requests, NEW from \in {"sent", "answered"}, NEW to \in {"answered", "done"},
             NEW k \in Completions, PageProgress(r, from, to, k)
      PROVE  SentFirst'
  <2>1. /\ Emit(k, r, "GET") /\ network' = network /\ redirected' = redirected
        /\ page' = [page EXCEPT ![r] = to] /\ page[r] # "unsent" /\ "GET" \in Methods
    BY <1>4 DEF PageProgress, bufferVars, Methods
  <2> QED BY <2>1, <1>1, <1>t
<1>5. ASSUME NEW x \in Messages, PageLogs(x) PROVE SentFirst'
  <2>1. /\ Emit("console", x, "GET") /\ network' = network /\ UNCHANGED pageVars
        /\ "GET" \in Methods /\ "console" \in Kinds
    BY <1>5 DEF PageLogs, bufferVars, Methods, Kinds
  <2>2. \A l \in Kinds \ {"console"} : streams'[l] = streams[l]
    BY <2>1, QueuedNext DEF Enqueue, LogTypeOK
  <2> QED BY <2>1, <2>2 DEF SentFirst, Waits, pageVars
<1>6. ASSUME NEW k \in Kinds, Record(k) PROVE SentFirst'
  <2>1. /\ streams[k] # <<>> /\ streams' = [streams EXCEPT ![k] = Tail(@)]
        /\ UNCHANGED <<page, redirected>>
        /\ k = "console" => network' = network
        /\ k # "console" => network' \subseteq network \cup {New(k)}
    BY <1>6, RecordEffects
  <2>2. /\ \A l \in Kinds \ {k} : streams'[l] = streams[l]
        /\ \A i \in Nat : Waits(k, i)' => Waits(k, i + 1) /\ streams'[k][i] = streams[k][i + 1]
        /\ Waits(k, 1) /\ New(k).about = streams[k][1].about
    BY <2>1, TailAt DEF New
  <2>3. ASSUME NEW l \in Kinds \ {"console"}, NEW i \in Nat, Waits(l, i)'
        PROVE  \E j \in Nat : Waits(l, j) /\ streams'[l][i] = streams[l][j]
    <3>1. CASE l = k
      BY <2>2, <2>3, <3>1
    <3>2. CASE l # k
      BY <2>2, <2>3, <3>2 DEF Waits
    <3> QED BY <3>1, <3>2
  <2>4. k # "console" => New(k).about = streams[k][1].about /\ Waits(k, 1)
    BY <2>2
  <2>5. \A e \in network' : \/ e \in network
                            \/ k # "console" /\ e.about = streams[k][1].about
    BY <2>1, <2>2
  <2>6. \A e \in network' : e.about \in Requests
    BY <2>4, <2>5 DEF SentFirst
  <2>7. \A l \in Kinds \ {"console"}, i \in Nat : Waits(l, i)' => streams'[l][i].about \in Requests
    BY <2>3 DEF SentFirst
  <2>8. ASSUME NEW q \in Requests, page'[q] = "unsent"
        PROVE  /\ q \notin redirected'
               /\ \A e \in network' : e.about # q
               /\ \A l \in Kinds \ {"console"}, i \in Nat :
                     Waits(l, i)' => streams'[l][i].about # q
    <3>1. page[q] = "unsent" /\ q \notin redirected'
      BY <2>1, <2>8 DEF SentFirst
    <3>2. \A l \in Kinds \ {"console"}, j \in Nat : Waits(l, j) => streams[l][j].about # q
      BY <3>1 DEF SentFirst
    <3>3. \A e \in network' : e.about # q
      BY <2>4, <2>5, <3>1, <3>2 DEF SentFirst
    <3> QED BY <2>3, <3>1, <3>2, <3>3
  <2> QED BY <2>6, <2>7, <2>8 DEF SentFirst
<1>7. CASE Aside
  BY <1>7, AsideAt DEF SentFirst, Aside, pageVars
<1> QED BY <1>2, <1>3, <1>4, <1>5, <1>6, <1>7, PageOrMonitor

(***************************************************************************)
(* A request is asked once, unless it is redirected.                       *)
(***************************************************************************)
\* The streams and records of one request that is not redirected.
AskedAtMostOnce(r) ==
    /\ \A i, j \in Nat : Asking(i, r) /\ Asking(j, r) => i = j
    /\ \A i \in Nat : Asking(i, r) =>
          Asks(network, r) = {} /\ streams["request"][i].method = method[r]
    /\ \A d, e \in Asks(network, r) : d = e
    /\ \A e \in Asks(network, r) : e.method = method[r]

\* A step that adds no request event of r keeps it so.
LEMMA StaysOnce ==
    ASSUME NEW r \in Requests, AskedAtMostOnce(r), method'[r] = method[r],
           Asks(network, r)' \subseteq Asks(network, r),
           NEW n \in Nat,
           \A i \in Nat : Asking(i, r)' =>
              Asking(i + n, r) /\ streams'["request"][i] = streams["request"][i + n]
    PROVE  AskedAtMostOnce(r)'
<1>1. \A i, j \in Nat : Asking(i, r)' /\ Asking(j, r)' => i = j
  <2>1. SUFFICES ASSUME NEW i \in Nat, NEW j \in Nat, Asking(i, r)', Asking(j, r)' PROVE i = j
    OBVIOUS
  <2>2. i + n \in Nat /\ j + n \in Nat /\ Asking(i + n, r) /\ Asking(j + n, r)
    BY <2>1
  <2>3. i + n = j + n
    BY <2>2 DEF AskedAtMostOnce
  <2> QED BY <2>3
<1>2. ASSUME NEW i \in Nat, Asking(i, r)'
      PROVE  Asks(network, r)' = {} /\ streams'["request"][i].method = method'[r]
  <2>1. i + n \in Nat /\ Asking(i + n, r) /\ streams'["request"][i] = streams["request"][i + n]
    BY <1>2
  <2> QED BY <2>1 DEF AskedAtMostOnce
<1>3. \A d, e \in Asks(network, r)' : d = e
  BY DEF AskedAtMostOnce
<1>4. \A e \in Asks(network, r)' : e.method = method'[r]
  BY DEF AskedAtMostOnce
<1> QED BY <1>1, <1>2, <1>3, <1>4 DEF AskedAtMostOnce

\* The page asks for r, for which no request event exists.
LEMMA AskedAnew ==
    ASSUME LogTypeOK, NEW r \in Requests, NEW m \in Methods, Emit("request", r, m),
           network' = network, Asks(network, r) = {}, \A i \in Nat : ~Asking(i, r),
           method'[r] = m
    PROVE  AskedAtMostOnce(r)'
<1>1. Asks(network, r)' = {}
  BY DEF Asks, Own
<1>2. CASE UNCHANGED streams
  BY <1>1, <1>2 DEF AskedAtMostOnce, Asking, Waits
<1>3. CASE Enqueue("request", Entry(r, m))
  <2>1. Entry(r, m) \in Queued /\ Entry(r, m).method = m /\ "request" \in Kinds
    BY QueuedNext DEF Kinds
  <2>2. \A i \in Nat : Waits("request", i)' =>
           \/ Waits("request", i) /\ streams'["request"][i] = streams["request"][i]
           \/ i = Len(streams["request"]) + 1 /\ streams'["request"][i] = Entry(r, m)
    BY <1>3, <2>1, AppendAt
  <2>3. \A i \in Nat : Asking(i, r)' =>
           i = Len(streams["request"]) + 1 /\ streams'["request"][i].method = m
    BY <2>1, <2>2 DEF Asking
  <2> QED BY <1>1, <2>3 DEF AskedAtMostOnce
<1> QED BY <1>2, <1>3, QueuedNext DEF Kinds

\* An emission about another request, or of another kind, asks nothing of q.
LEMMA EmitOther ==
    ASSUME LogTypeOK, NEW k \in Kinds, NEW x \in Requests \cup Messages, NEW m \in Methods,
           Emit(k, x, m), NEW q \in Requests, k # "request" \/ x # q
    PROVE  \A i \in Nat : Asking(i, q)' =>
              Asking(i, q) /\ streams'["request"][i] = streams["request"][i]
<1>1. CASE UNCHANGED streams
  BY <1>1 DEF Asking, Waits
<1>2. CASE Enqueue(k, Entry(x, m))
  <2>1. Entry(x, m) \in Queued /\ Entry(x, m).about = x /\ "request" \in Kinds
    BY QueuedNext DEF Kinds
  <2>2. \A i \in Nat : Waits("request", i)' =>
           \/ Waits("request", i) /\ streams'["request"][i] = streams["request"][i]
           \/ "request" = k /\ streams'["request"][i] = Entry(x, m)
    BY <1>2, <2>1, AppendAt
  <2> QED BY <2>1, <2>2 DEF Asking
<1> QED BY <1>1, <1>2, QueuedNext

LEMMA OnceNext ==
    ASSUME LogTypeOK, SentFirst, AskedOnce, [LogNext]_logVars
    PROVE  AskedOnce'
<1>o. \A r \in Requests \ redirected : AskedAtMostOnce(r)
  BY DEF AskedOnce, AskedAtMostOnce
<1>s. SUFFICES ASSUME NEW q \in Requests, q \notin redirected' PROVE AskedAtMostOnce(q)'
  BY DEF AskedOnce, AskedAtMostOnce
<1>k. "request" \in Kinds /\ "GET" \in Methods /\ "console" \in Kinds
      /\ Completions \subseteq Kinds \ {"request"}
  BY DEF Kinds, Methods, Completions
<1>1. ASSUME NEW k \in Kinds, NEW x \in Requests \cup Messages, NEW m \in Methods, Emit(k, x, m),
             k # "request" \/ x # q, network' = network, method'[q] = method[q],
             q \notin redirected
      PROVE  AskedAtMostOnce(q)'
  <2>1. \A i \in Nat : Asking(i, q)' =>
           Asking(i + 0, q) /\ streams'["request"][i] = streams["request"][i + 0]
    BY <1>1, EmitOther
  <2>2. Asks(network, q)' \subseteq Asks(network, q)
    BY <1>1 DEF Asks, Own
  <2>3. AskedAtMostOnce(q)
    BY <1>1, <1>o
  <2> QED BY <1>1, <2>1, <2>2, <2>3, StaysOnce
<1>2. ASSUME NEW r \in Requests, NEW m \in Methods, PageSends(r, m) PROVE AskedAtMostOnce(q)'
  <2>1. /\ Emit("request", r, m) /\ network' = network /\ redirected' = redirected
        /\ page[r] = "unsent" /\ method' = [method EXCEPT ![r] = m]
        /\ method \in [Requests -> Methods]
    BY <1>2 DEF PageSends, bufferVars, LogTypeOK
  <2>2. CASE q # r
    BY <2>1, <2>2, <1>1, <1>k, <1>s
  <2>3. CASE q = r
    <3>1. Asks(network, r) = {} /\ \A i \in Nat : ~Asking(i, r)
      BY <2>1, <1>k DEF SentFirst, Asks, Own, Asking
    <3> QED BY <2>1, <2>3, <3>1, AskedAnew
  <2> QED BY <2>2, <2>3
<1>3. ASSUME NEW r \in Requests, NEW m \in Methods, PageRedirects(r, m) PROVE AskedAtMostOnce(q)'
  <2>1. /\ Emit("request", r, m) /\ network' = network /\ redirected' = redirected \cup {r}
        /\ method' = method
    BY <1>3 DEF PageRedirects, bufferVars
  <2>2. q # r /\ q \notin redirected
    BY <2>1, <1>s
  <2> QED BY <2>1, <2>2, <1>1, <1>k
<1>4. ASSUME NEW r \in Requests, NEW from, NEW to, NEW k \in Completions,
             PageProgress(r, from, to, k)
      PROVE  AskedAtMostOnce(q)'
  <2>1. Emit(k, r, "GET") /\ network' = network /\ UNCHANGED <<method, redirected>>
    BY <1>4 DEF PageProgress, bufferVars
  <2> QED BY <2>1, <1>1, <1>k, <1>s
<1>5. ASSUME NEW x \in Messages, PageLogs(x) PROVE AskedAtMostOnce(q)'
  <2>1. Emit("console", x, "GET") /\ network' = network /\ UNCHANGED <<method, redirected>>
    BY <1>5 DEF PageLogs, bufferVars, pageVars
  <2> QED BY <2>1, <1>1, <1>k, <1>s
<1>6. ASSUME NEW k \in Kinds, Record(k) PROVE AskedAtMostOnce(q)'
  <2>1. /\ streams[k] # <<>> /\ streams' = [streams EXCEPT ![k] = Tail(@)]
        /\ UNCHANGED <<method, redirected>>
        /\ k = "console" => network' = network
        /\ k # "console" => network' \subseteq network \cup {New(k)}
        /\ New(k).kind = k /\ New(k).about = Head(streams[k]).about
        /\ New(k).method = Head(streams[k]).method
    BY <1>6, RecordEffects DEF New
  <2>2. /\ \A l \in Kinds \ {k} : streams'[l] = streams[l]
        /\ \A i \in Nat : Waits(k, i)' => Waits(k, i + 1) /\ streams'[k][i] = streams[k][i + 1]
        /\ Waits(k, 1) /\ Head(streams[k]) = streams[k][1]
    BY <2>1, TailAt
  <2>3. AskedAtMostOnce(q)
    BY <1>o, <1>s, <2>1
  <2>4. CASE k # "request"
    <3>1. \A i \in Nat : Asking(i, q)' =>
             Asking(i + 0, q) /\ streams'["request"][i] = streams["request"][i + 0]
      BY <2>2, <2>4, <1>k DEF Asking, Waits
    <3>2. Asks(network, q)' \subseteq Asks(network, q)
      BY <2>1, <2>4 DEF Asks, Own
    <3> QED BY <2>1, <2>3, <3>1, <3>2, StaysOnce
  <2>5. CASE k = "request" /\ New(k).about # q
    <3>1. \A i \in Nat : Asking(i, q)' =>
             Asking(i + 1, q) /\ streams'["request"][i] = streams["request"][i + 1]
      BY <2>2, <2>5 DEF Asking
    <3>2. Asks(network, q)' \subseteq Asks(network, q)
      BY <2>1, <2>5 DEF Asks, Own
    <3> QED BY <2>1, <2>3, <3>1, <3>2, StaysOnce
  <2>6. CASE k = "request" /\ New(k).about = q
    <3>1. Asking(1, q)
      BY <2>1, <2>2, <2>6 DEF Asking
    <3>2. \A i \in Nat : ~Asking(i, q)'
      <4>1. SUFFICES ASSUME NEW i \in Nat, Asking(i, q)' PROVE FALSE
        OBVIOUS
      <4>2. Asking(i + 1, q) /\ i >= 1
        BY <4>1, <2>2, <2>6 DEF Asking, Waits
      <4>3. i + 1 = 1
        BY <4>2, <3>1, <2>3 DEF AskedAtMostOnce
      <4> QED BY <4>2, <4>3
    <3>3. Asks(network, q) = {} /\ streams["request"][1].method = method[q]
      BY <3>1, <2>3 DEF AskedAtMostOnce
    <3>4. \A e \in Asks(network, q)' : e = New(k)
      BY <2>1, <2>6, <3>3 DEF Asks, Own
    <3>5. New(k).method = method'[q]
      BY <2>1, <2>2, <2>6, <3>3
    <3> QED BY <3>2, <3>4, <3>5 DEF AskedAtMostOnce
  <2> QED BY <2>4, <2>5, <2>6
<1>7. CASE Aside
  <2>1. \A i \in Nat : Asking(i, q)' =>
           Asking(i + 0, q) /\ streams'["request"][i] = streams["request"][i + 0]
    BY <1>7, AsideAt, <1>k DEF Asking
  <2>2. Asks(network, q)' \subseteq Asks(network, q)
    BY <1>7 DEF Aside, Asks, Own
  <2>3. AskedAtMostOnce(q) /\ method'[q] = method[q]
    BY <1>7, <1>o, <1>s DEF Aside, pageVars
  <2> QED BY <2>1, <2>2, <2>3, StaysOnce
<1> QED BY <1>2, <1>3, <1>4, <1>5, <1>6, <1>7, PageOrMonitor

(***************************************************************************)
(* A click's own requests are recorded after its baseline.                 *)
(***************************************************************************)
LEMMA ClickNext ==
    ASSUME LogTypeOK, Numbered, PartsHaveTheirLast, SentFirst, ClickSeesItsOwn, [LogNext]_logVars
    PROVE  ClickSeesItsOwn'
<1>t. click.since \in Nat /\ next_sequence \in Nat \ {0} /\ \A e \in network : e.sequence \in Nat
  BY DEF LogTypeOK, Event
<1>1. ASSUME NEW k \in Kinds, Record(k) PROVE ClickSeesItsOwn'
  <2>1. /\ network' \subseteq network \cup {New(k)} /\ New(k).sequence = next_sequence
        /\ next_sequence' = next_sequence + 1 /\ click' = click
    BY <1>1, RecordEffects DEF New
  <2> QED BY <2>1, <1>t DEF ClickSeesItsOwn
<1>2. ASSUME NEW r \in Requests, NEW m \in Methods, PageSends(r, m) PROVE ClickSeesItsOwn'
  <2>1. /\ network' = network /\ next_sequence' = next_sequence
        /\ click'.since = click.since /\ click'.sent \subseteq click.sent \cup {r}
        /\ \A e \in network : e.about # r
    BY <1>2 DEF PageSends, bufferVars, LogTypeOK, SentFirst
  <2> QED BY <2>1 DEF ClickSeesItsOwn
<1>3. CASE Click
  <2>1. /\ click'.since = Baseline /\ click'.sent = {} /\ next_sequence' = next_sequence
    BY <1>3 DEF Click, NoClick, bufferVars
  <2> QED BY <2>1, BaselineIsLast DEF ClickSeesItsOwn
<1>4. CASE /\ network' \subseteq network /\ next_sequence' = next_sequence
           /\ click'.since \in {click.since, 0} /\ click'.sent \in {click.sent, {}}
           /\ click'.since = 0 => click'.sent = {} \/ click'.since = click.since
  BY <1>4, <1>t DEF ClickSeesItsOwn
<1>5. CASE UNCHANGED logVars
  BY <1>4, <1>5 DEF logVars, bufferVars
<1>6. CASE /\ PageStep
           /\ ~\E r \in Requests, m \in Methods : PageSends(r, m)
  <2>1. network' = network /\ next_sequence' = next_sequence /\ click' = click
    BY <1>6 DEF PageStep, PageRedirects, PageAnswers, PageFinishes, PageFails, PageProgress,
                PageLogs, bufferVars
  <2> QED BY <1>4, <2>1
<1>7. CASE StopMonitor \/ MonitorEnds \/ EnsureMonitor \/ ResetTarget
  <2>1. network' \subseteq network /\ next_sequence' = next_sequence /\ click' = click
    BY <1>7 DEF StopMonitor, MonitorEnds, EnsureMonitor, ResetTarget, NumbersAfterReset, bufferVars
  <2> QED BY <1>4, <2>1
<1>8. CASE ToolStep /\ ~Click
  <2>1. /\ network' \subseteq network /\ next_sequence' = next_sequence
        /\ \/ click'.since = click.since /\ click'.sent = click.sent
           \/ click' = NoClick
    BY <1>8 DEF ToolStep, ListConsole, ListNetwork, ClearConsole, ClearNetwork, SeeEffect,
                LookAgain, EffectTimesOut, SemanticActivate, bufferVars, LogTypeOK
  <2> QED BY <1>4, <2>1 DEF NoClick
<1> QED BY <1>1, <1>2, <1>3, <1>5, <1>6, <1>7, <1>8 DEF LogNext, ToolStep

(***************************************************************************)
(* The theorems.                                                           *)
(***************************************************************************)
LEMMA InvInit == LogInit => LogInv
<1> SUFFICES ASSUME LogInit PROVE LogInv
  OBVIOUS
<1>1. \A k \in Kinds, i \in Nat : ~Waits(k, i)
  BY DEF LogInit, NoEvents, Waits
<1>2. SentFirst /\ AskedOnce
  BY <1>1 DEF LogInit, SentFirst, AskedOnce, Asking, Asks, Own, Kinds
<1>3. Numbered /\ PartsHaveTheirLast
  BY DEF LogInit, Numbered, PartsHaveTheirLast
<1>4. ClickSeesItsOwn
  BY DEF LogInit, NoClick, ClickSeesItsOwn
<1>5. IsFiniteSet(network)
  BY FS_EmptySet DEF LogInit
<1> QED BY TypeInit, <1>2, <1>3, <1>4, <1>5 DEF LogInv

\* What events are numbered, when they come and what ids were given: the
\* invariant of the log.
THEOREM LogInvariant == LogSpec => []LogInv
<1>1. LogInv /\ [LogNext]_logVars => LogInv'
  BY TypeNext, NumberedNext, LastNext, SentNext, OnceNext, ClickNext, FiniteNext DEF LogInv
<1> QED BY InvInit, <1>1, PTL DEF LogSpec

\* The buffers, streams, requests and ids keep their types.
THEOREM TypeCorrect == LogSpec => []LogTypeOK
<1>1. LogInv => LogTypeOK
  BY DEF LogInv
<1> QED BY LogInvariant, <1>1, PTL

\* An id names one message or request for as long as the broker runs
\* (console and network get, whatever push_event, clear and reset_target did).
THEOREM IdsKeepMeaning == LogSpec => []IdsKeepTheirMeaning
<1>1. LogInv => IdsKeepTheirMeaning
  <2> SUFFICES ASSUME LogInv, NEW g \in given, NEW x \in Got(g.buffer, g.id) PROVE x = g.about
    BY DEF IdsKeepTheirMeaning
  <2>1. g.buffer \in {"console", "network"}
    BY DEF LogInv, LogTypeOK
  <2>2. PICK e \in Buffer(g.buffer) : e.sequence = g.id /\ x = e.about
    BY <2>1 DEF Got, Buffer, Records
  <2> QED BY <2>2 DEF LogInv, Numbered
<1> QED BY LogInvariant, <1>1, PTL

\* The record of a request that is not redirected has the id of its one request
\* event: get finds it for as long as that event is kept.
THEOREM ListedCanBeGot == LogSpec => []ListedRequestsCanBeGot
<1>1. LogInv => ListedRequestsCanBeGot
  <2> SUFFICES ASSUME LogInv, NEW g \in given, g.buffer = "network", g.asked,
                      g.about \notin redirected,
                      NEW e \in network, e.sequence = g.id
               PROVE  Got("network", g.id) # {}
    BY DEF ListedRequestsCanBeGot
  <2>1. e.about = g.about /\ e.kind = "request"
    BY DEF LogInv, Numbered, Buffer
  <2>2. e.about \in Requests \ redirected
    BY <2>1 DEF LogInv, SentFirst
  <2>3. Asks(network, e.about) = {e}
    BY <2>1, <2>2 DEF LogInv, AskedOnce, Asks, Own
  <2>4. e.sequence <= e.sequence
    BY DEF LogInv, LogTypeOK, Event
  <2>5. e \in Records(network)
    BY <2>1, <2>3, <2>4 DEF Records, IsKey
  <2> QED BY <2>5 DEF Got
<1> QED BY LogInvariant, <1>1, PTL

(***************************************************************************)
(* The click's reading.                                                    *)
(***************************************************************************)
\* There is one record per request.
LEMMA OneRecordEach ==
    ASSUME NEW events \in SUBSET Event,
           \A d, e \in events : d.sequence = e.sequence => d = e,
           NEW d \in Records(events), NEW e \in Records(events), d.about = e.about
    PROVE  d = e
<1>1. d \in events /\ e \in events /\ IsKey(d, events) /\ IsKey(e, events)
  BY DEF Records
<1>2. d.sequence \in Nat /\ e.sequence \in Nat
  BY <1>1 DEF Event
<1>3. CASE Asks(events, d.about) = {}
  <2>1. d \in Own(events, d.about) /\ e \in Own(events, d.about)
    BY <1>1 DEF Own
  <2>2. d.sequence <= e.sequence /\ e.sequence <= d.sequence
    BY <1>1, <1>3, <2>1 DEF IsKey, IsFirst
  <2> QED BY <1>1, <1>2, <2>2
<1>4. CASE Asks(events, d.about) # {}
  <2>1. d \in Asks(events, d.about) /\ e \in Asks(events, d.about)
    BY <1>1, <1>4 DEF IsKey, Asks, Own
  <2>2. d.sequence <= e.sequence /\ e.sequence <= d.sequence
    BY <1>1, <1>4, <2>1 DEF IsKey
  <2> QED BY <1>1, <1>2, <2>2
<1> QED BY <1>3, <1>4

\* A click that does not see the answer to a request it caused looks at
\* EvidenceLimit other requests first.
LEMMA UnseenAnswer ==
    ASSUME LogInv, ~SubmitSignal,
           NEW r \in click.sent, method[r] # "GET", r \notin redirected,
           NEW q \in Asks(network, r), NEW c \in Own(network, r), c.kind \in Completions
    PROVE  Cardinality({e.about : e \in Since(network, click.since)} \ {r}) >= EvidenceLimit
<1> DEFINE events == Since(network, click.since)
           before == {d \in Records(events) : d.sequence < q.sequence}
           others == {e.about : e \in events} \ {r}
<1>1. /\ events \in SUBSET Event /\ events \subseteq network
      /\ \A d, e \in events : d.sequence = e.sequence => d = e
      /\ r \in Requests
  BY DEF LogInv, LogTypeOK, Since, Numbered
<1>2. q \in events /\ c \in events /\ q.about = r /\ c.about = r /\ q.kind = "request"
  BY DEF LogInv, ClickSeesItsOwn, Since, Asks, Own
<1>3. /\ Asks(network, r) = {q} /\ q.method = method[r]
  BY <1>1 DEF LogInv, AskedOnce
<1>4. Asks(events, r) = {q} /\ q.sequence <= q.sequence
  BY <1>1, <1>2, <1>3 DEF Asks, Own, Event
<1>5. q \in Records(events)
  BY <1>2, <1>4 DEF Records, IsKey
<1>6. Completed(q, events) /\ RecordMethod(q, events) # "GET"
  BY <1>2, <1>3 DEF Completed, RecordMethod, Own
<1>7. q \notin Evidence(events)
  BY <1>6 DEF SubmitSignal
<1>8. IsFiniteSet(events) /\ IsFiniteSet(before)
  <2>1. before \subseteq events
    BY DEF Records
  <2>2. IsFiniteSet(events)
    BY <1>1, FS_Subset DEF LogInv
  <2> QED BY <2>1, <2>2, FS_Subset
<1>9. Cardinality(before) \in Nat /\ Cardinality(before) >= EvidenceLimit
  <2>1. Cardinality(before) \in Nat /\ EvidenceLimit \in Nat
    BY <1>8, FS_CardinalityType, LogProfilesAssumption
  <2>2. ~(Cardinality(before) < EvidenceLimit)
    BY <1>5, <1>7 DEF Evidence
  <2> QED BY <2>1, <2>2
<1>10. \A d, e \in before : d.about = e.about => d = e
  BY <1>1, OneRecordEach
<1>11. ASSUME NEW d \in before PROVE d.about \in others
  <2>1. d \in Records(events) /\ d \in events /\ d.sequence < q.sequence
    BY DEF Records
  <2>2. d.about # r
    BY <1>1, <1>2, <1>5, <2>1, OneRecordEach DEF Event
  <2> QED BY <2>1, <2>2
<1>12. IsFiniteSet(others)
  <2> DEFINE g == [e \in events |-> e.about]
             all == {e.about : e \in events}
  <2>1. g \in Surjection(events, all)
    BY DEF Surjection
  <2> HIDE DEF g, events
  <2>2. IsFiniteSet(all)
    BY <2>1, <1>8, FS_Surjection
  <2> QED BY <2>2, FS_Subset
<1>13. Cardinality(before) <= Cardinality(others)
  <2> DEFINE f == [d \in before |-> d.about]
  <2>1. f \in Injection(before, others)
    BY <1>10, <1>11 DEF Injection, IsInjective
  <2> HIDE DEF f, before, others
  <2> QED BY <2>1, <1>12, FS_Injection
<1>14. Cardinality(others) \in Nat
  BY <1>12, FS_CardinalityType
<1> QED BY <1>9, <1>13, <1>14, LogProfilesAssumption

\* A click falls back to form.requestSubmit() only where it has not seen an
\* answered submission of its own (click_effect, has_submit_signal), in
\* whatever order the monitor recorded request and answer.
THEOREM AnsweredStaysAnswered == LogSpec => AnsweredClicksDoNotFallBack
<1> DEFINE Rightly ==
      click.pc # "activate" /\ click'.pc = "activate" =>
         \A r \in click.sent :
            \/ method[r] = "GET" \/ r \in redirected
            \/ Asks(network, r) = {} \/ \A e \in Own(network, r) : e.kind \notin Completions
            \/ Cardinality({e.about : e \in Since(network, click.since)} \ {r}) >= EvidenceLimit
<1>1. ASSUME LogInv, [LogNext]_logVars PROVE [Rightly]_logVars
  <2>1. SUFFICES ASSUME LogNext, click.pc # "activate", click'.pc = "activate" PROVE Rightly
    BY <1>1
  <2>2. ~SubmitSignal
    <3>1. CASE PageStep
      <4>1. click' = click \/ \E r \in Requests : click' = [click EXCEPT !.sent = @ \cup {r}]
        BY <3>1 DEF PageStep, PageSends, PageRedirects, PageAnswers, PageFinishes, PageFails,
                    PageProgress, PageLogs
      <4>2. click'.pc = click.pc
        BY <1>1, <4>1 DEF LogInv, LogTypeOK
      <4> QED BY <2>1, <4>2
    <3>2. CASE (\E k \in Kinds : Record(k)) \/ StopMonitor \/ MonitorEnds \/ EnsureMonitor
                  \/ ResetTarget
      BY <2>1, <3>2 DEF Record, StopMonitor, MonitorEnds, EnsureMonitor, ResetTarget
    <3>3. CASE ToolStep
      <4>1. CASE LookAgain \/ EffectTimesOut
        BY <2>1, <4>1 DEF LookAgain, EffectTimesOut, NoClick
      <4>2. CASE SeeEffect
        <5>1. click' = [click EXCEPT !.pc = "again"]
          BY <4>2 DEF SeeEffect
        <5>2. click'.pc = "again"
          BY <1>1, <5>1 DEF LogInv, LogTypeOK
        <5> QED BY <2>1, <5>2
      <4>3. CASE Click \/ SemanticActivate
        BY <2>1, <4>3 DEF Click, SemanticActivate, NoClick
      <4>4. ASSUME ToolStep, ~(LookAgain \/ EffectTimesOut \/ SeeEffect \/ Click \/ SemanticActivate)
            PROVE  click' = click
        BY <4>4 DEF ToolStep, ListConsole, ListNetwork, ClearConsole, ClearNetwork
      <4> QED BY <2>1, <3>3, <4>1, <4>2, <4>3, <4>4
    <3> QED BY <2>1, <3>1, <3>2, <3>3 DEF LogNext
  <2>3. ASSUME NEW r \in click.sent, method[r] # "GET", r \notin redirected,
               NEW q \in Asks(network, r), NEW c \in Own(network, r), c.kind \in Completions
        PROVE  Cardinality({e.about : e \in Since(network, click.since)} \ {r}) >= EvidenceLimit
    BY <1>1, <2>2, <2>3, UnseenAnswer
  <2> QED BY <2>3
<1> QED BY <1>1, LogInvariant, PTL DEF LogSpec, AnsweredClicksDoNotFallBack

-----------------------------------------------------------------------------
(***************************************************************************)
(* The heap graph.  A path of the answer leads from the root to the node   *)
(* along edges of the graph, goes through no node twice and is no longer   *)
(* than asked.  The search pops a path, then tries its retainers one by    *)
(* one, so the invariant speaks of the paths that wait, of the path being  *)
(* extended and of the retainers still to be tried on it.                  *)
(***************************************************************************)
\* `m` keeps `n` alive through an edge.
Retains(m, n) == \E i \in DOMAIN incoming[n] : incoming[n][i] = m

\* A path of the search: from the node of the question upwards.
Walk(p) ==
    /\ p \in Seq(Node) /\ Len(p) > 0
    /\ p[1] = question.node
    /\ \A i, j \in 1 .. Len(p) : p[i] = p[j] => i = j
    /\ \A i \in 1 .. Len(p) : i < Len(p) => Retains(p[i + 1], p[i])
    /\ Len(p) <= question.max_depth + 1

\* A path of the answer: from the root down.
RetainingPath(p) ==
    /\ Len(p) > 0 /\ p[1] = Root /\ p[Len(p)] = question.node
    /\ \A i, j \in 1 .. Len(p) : p[i] = p[j] => i = j
    /\ \A i \in 1 .. Len(p) : i < Len(p) => Retains(p[i], p[i + 1])
    /\ Len(p) <= question.max_depth + 1

\* The paths a client may be given are retaining paths (retaining_paths).
PathsSound ==
    stage \in {"paths", "answered", "read"} /\ question.op = "retaining_paths" =>
        \A i \in 1 .. Len(data) : RetainingPath(data[i])

GraphInv ==
    /\ source \in Nat
    /\ incoming \in [Node -> Seq(Node)]

QueueInv ==
    stage = "paths" =>
        /\ question \in Questions
        /\ queue \in Seq(Seq(Node))
        /\ \A i \in 1 .. Len(queue) : Walk(queue[i])

PathInv ==
    stage = "paths" /\ parents # <<>> =>
        /\ Walk(path) /\ Len(path) <= question.max_depth
        /\ parents \in Seq(Node)
        /\ \A i \in 1 .. Len(parents) : Retains(parents[i], path[Len(path)])

FoundInv ==
    stage = "paths" =>
        /\ data \in Seq(Seq(Node))
        /\ question.op = "retaining_paths"
        /\ \A i \in 1 .. Len(data) : RetainingPath(data[i])

StageInv ==
    stage \in {"edges", "sizes", "parsed"} => data = <<>> /\ parents = <<>>

SearchInv ==
    GraphInv /\ StageInv /\ QueueInv /\ PathInv /\ FoundInv /\ PathsSound

LEMMA ReversedWalk ==
    ASSUME NEW p, Walk(p), p[Len(p)] = Root
    PROVE  RetainingPath(Reverse(p)) /\ Reverse(p) \in Seq(Node)
<1> DEFINE r == [i \in 1 .. Len(p) |-> p[(Len(p) - i) + 1]]
<1>1. Reverse(p) = r
  BY DEF Reverse
<1>2. Len(p) \in Nat /\ Len(p) > 0 /\ p \in [1 .. Len(p) -> Node]
  BY DEF Walk
<1>3. r \in Seq(Node) /\ Len(r) = Len(p)
  <2>1. \A i \in 1 .. Len(p) : (Len(p) - i) + 1 \in 1 .. Len(p)
    BY <1>2
  <2>2. r \in [1 .. Len(p) -> Node]
    BY <1>2, <2>1
  <2> QED
    BY <1>2, <2>2
<1>4. r[1] = Root /\ r[Len(r)] = question.node
  BY <1>2, <1>3 DEF Walk
<1>5. \A i, j \in 1 .. Len(r) : r[i] = r[j] => i = j
  <2> SUFFICES ASSUME NEW i \in 1 .. Len(p), NEW j \in 1 .. Len(p), r[i] = r[j]
               PROVE  i = j
    BY <1>3
  <2> DEFINE x == (Len(p) - i) + 1
             y == (Len(p) - j) + 1
  <2>1. x \in 1 .. Len(p) /\ y \in 1 .. Len(p) /\ p[x] = p[y]
    BY <1>2
  <2>2. x = y
    BY <2>1 DEF Walk
  <2> QED
    BY <1>2, <2>2
<1>6. \A i \in 1 .. Len(r) : i < Len(r) => Retains(r[i], r[i + 1])
  <2> SUFFICES ASSUME NEW i \in 1 .. Len(p), i < Len(p)
               PROVE  Retains(r[i], r[i + 1])
    BY <1>3
  <2> DEFINE x == Len(p) - i
  <2>1. x \in 1 .. Len(p) /\ x < Len(p) /\ r[i] = p[x + 1] /\ r[i + 1] = p[x]
    BY <1>2
  <2>2. Retains(p[x + 1], p[x])
    BY <2>1 DEF Walk
  <2> QED
    BY <2>1, <2>2
<1> QED
  BY <1>1, <1>2, <1>3, <1>4, <1>5, <1>6 DEF RetainingPath, Walk

\* A path that waits, with one more retainer that it does not hold yet.
LEMMA ExtendedWalk ==
    ASSUME NEW p, Walk(p), Len(p) <= question.max_depth, question.max_depth \in Nat,
           NEW m \in Node, Retains(m, p[Len(p)]),
           \A i \in 1 .. Len(p) : p[i] # m
    PROVE  Walk(Append(p, m))
<1> DEFINE q == Append(p, m)
<1>1. p \in Seq(Node) /\ Len(p) \in Nat /\ Len(p) > 0
  BY DEF Walk
<1>2. q \in Seq(Node) /\ Len(q) = Len(p) + 1 /\ q[Len(p) + 1] = m
  BY <1>1
<1>3. \A i \in 1 .. Len(p) : q[i] = p[i]
  BY <1>1
<1>4. q[1] = question.node
  BY <1>1, <1>3 DEF Walk
<1>5. \A i, j \in 1 .. Len(q) : q[i] = q[j] => i = j
  <2> SUFFICES ASSUME NEW i \in 1 .. Len(p) + 1, NEW j \in 1 .. Len(p) + 1, q[i] = q[j]
               PROVE  i = j
    BY <1>2
  <2>1. CASE i \in 1 .. Len(p) /\ j \in 1 .. Len(p)
    BY <2>1, <1>3 DEF Walk
  <2>2. CASE i = Len(p) + 1 /\ j \in 1 .. Len(p)
    BY <2>2, <1>2, <1>3
  <2>3. CASE i \in 1 .. Len(p) /\ j = Len(p) + 1
    BY <2>3, <1>2, <1>3
  <2> QED
    BY <2>1, <2>2, <2>3, <1>1
<1>6. \A i \in 1 .. Len(p) : Retains(q[i + 1], q[i])
  <2> SUFFICES ASSUME NEW i \in 1 .. Len(p)
               PROVE  Retains(q[i + 1], q[i])
    OBVIOUS
  <2>1. CASE i < Len(p)
    <3>1. i + 1 \in 1 .. Len(p)
      BY <2>1, <1>1
    <3>2. q[i + 1] = p[i + 1] /\ q[i] = p[i]
      BY <3>1, <1>3
    <3>3. Retains(p[i + 1], p[i])
      BY <2>1 DEF Walk
    <3> QED
      BY <3>2, <3>3
  <2>2. CASE i = Len(p)
    BY <2>2, <1>1, <1>2, <1>3
  <2> QED
    BY <2>1, <2>2, <1>1
<1>7. \A i \in 1 .. Len(q) : i < Len(q) => i \in 1 .. Len(p)
  BY <1>1, <1>2
<1>8. \A i \in 1 .. Len(q) : i < Len(q) => Retains(q[i + 1], q[i])
  BY <1>6, <1>7
<1>9. Len(q) > 0 /\ Len(q) <= question.max_depth + 1
  BY <1>1, <1>2
<1> QED
  BY <1>2, <1>4, <1>5, <1>8, <1>9 DEF Walk

\* The search changes neither the graph nor the question.
LEMMA WalksStay ==
    ASSUME incoming' = incoming, question' = question
    PROVE  /\ \A p : Walk(p)' <=> Walk(p)
           /\ \A p : RetainingPath(p)' <=> RetainingPath(p)
           /\ \A m, n : Retains(m, n)' <=> Retains(m, n)
BY DEF Walk, RetainingPath, Retains

LEMMA SearchInit == Init => SearchInv
BY SnapshotsAssumption, LastNodeAssumption
DEF Init, SearchInv, GraphInv, QueueInv, PathInv, FoundInv, StageInv, PathsSound

LEMMA ParseKeeps == SearchInv /\ Parse => SearchInv'
<1> SUFFICES ASSUME SearchInv, Parse PROVE SearchInv'
  OBVIOUS
<1>1. CASE ReadEdge
  <2> DEFINE target == snapshot.rows[cursor + 1]
  <2>1. GraphInv'
    <3>1. source' \in Nat
      BY <1>1 DEF ReadEdge, SearchInv, GraphInv
    <3>2. CASE target \in Node
      <4>1. incoming' = [incoming EXCEPT ![target] = <<source>> \o incoming[target]]
        BY <1>1, <3>2 DEF ReadEdge
      <4>2. incoming \in [Node -> Seq(Node)] /\ source \in Node
        BY <1>1 DEF ReadEdge, SearchInv, GraphInv
      <4>3. <<source>> \o incoming[target] \in Seq(Node)
        BY <3>2, <4>2
      <4> QED
        BY <3>1, <3>2, <4>1, <4>2, <4>3 DEF GraphInv
    <3>3. CASE target \notin Node
      BY <1>1, <3>1, <3>3 DEF ReadEdge, SearchInv, GraphInv, graph
    <3> QED
      BY <3>2, <3>3
  <2> QED
    BY <1>1, <2>1 DEF ReadEdge, SearchInv, QueueInv, PathInv, FoundInv, StageInv,
                      PathsSound, search, answer
<1>2. CASE TruncatedEdges
  BY <1>2 DEF TruncatedEdges, SearchInv, GraphInv, QueueInv, PathInv, FoundInv, StageInv,
              PathsSound, parsing, graph, search, answer
<1>3. CASE NextSource
  BY <1>3, LastNodeAssumption
  DEF NextSource, SearchInv, GraphInv, QueueInv, PathInv, FoundInv, StageInv,
      PathsSound, Node, graph, search, answer
<1>4. CASE SortDepths \/ PassUp \/ Parsed
  BY <1>4 DEF SortDepths, PassUp, Parsed, SearchInv, GraphInv, QueueInv, PathInv,
              FoundInv, StageInv, PathsSound, parsing, graph, search, answer
<1> QED
  BY <1>1, <1>2, <1>3, <1>4 DEF Parse

LEMMA AskKeeps == SearchInv /\ Ask => SearchInv'
<1> SUFFICES ASSUME SearchInv, NEW q \in Questions, AskListing(q) \/ AskUnknown(q) \/ AskPaths(q)
             PROVE  SearchInv'
  BY DEF Ask
<1>1. q.max_depth \in Nat
  BY QuestionsAssumption DEF Question
<1>2. CASE AskListing(q)
  BY <1>2 DEF AskListing, SearchInv, GraphInv, QueueInv, PathInv, FoundInv, StageInv,
              PathsSound, parsing, graph, search
<1>3. CASE AskUnknown(q)
  BY <1>3 DEF AskUnknown, SearchInv, GraphInv, QueueInv, PathInv, FoundInv, StageInv,
              PathsSound, parsing, graph, search, answer
<1>4. CASE AskPaths(q)
  <2>1. data' = <<>> /\ parents' = <<>> /\ GraphInv' /\ question' = q /\ stage' = "paths"
    BY <1>4 DEF AskPaths, SearchInv, GraphInv, StageInv, parsing, graph, answer
  <2>2. queue' = <<<<q.node>>>> /\ q.node \in Node
    BY <1>4 DEF AskPaths
  <2>3. Walk(<<q.node>>)'
    BY <1>1, <2>1, <2>2 DEF Walk
  <2>4. QueueInv'
    BY <2>1, <2>2, <2>3 DEF QueueInv
  <2>5. FoundInv' /\ PathsSound'
    BY <1>4, <2>1 DEF AskPaths, FoundInv, PathsSound
  <2> QED
    BY <2>1, <2>4, <2>5 DEF SearchInv, StageInv, PathInv
<1> QED
  BY <1>2, <1>3, <1>4

LEMMA FindKeeps == SearchInv /\ FindPath => SearchInv'
<1> SUFFICES ASSUME SearchInv, FindPath PROVE SearchInv'
  OBVIOUS
<1> DEFINE p == Head(queue)
<1>1. /\ incoming' = incoming /\ question' = question /\ source' = source
      /\ parents' = <<>> /\ stage = "paths" /\ queue' = Tail(queue)
      /\ stage' \in {"paths", "answered"} /\ queue # <<>> /\ p[Len(p)] = Root
      /\ data' = Append(data, Reverse(p))
  BY DEF FindPath, parsing, graph
<1>2. queue \in Seq(Seq(Node)) /\ question \in Questions
      /\ \A i \in 1 .. Len(queue) : Walk(queue[i])
  BY <1>1 DEF SearchInv, QueueInv
<1>3. Walk(p)
  BY <1>1, <1>2
<1>4. RetainingPath(Reverse(p)) /\ Reverse(p) \in Seq(Node)
  BY <1>1, <1>3, ReversedWalk
<1>5. QueueInv'
  <2>1. Tail(queue) \in Seq(Seq(Node)) /\ \A i \in 1 .. Len(Tail(queue)) : Walk(Tail(queue)[i])
    BY <1>1, <1>2
  <2> QED
    BY <1>1, <1>2, <2>1, WalksStay DEF QueueInv
<1>6. /\ data' \in Seq(Seq(Node)) /\ question.op = "retaining_paths"
      /\ \A i \in 1 .. Len(data') : RetainingPath(data'[i])
  <2>1. /\ data \in Seq(Seq(Node)) /\ question.op = "retaining_paths"
        /\ \A i \in 1 .. Len(data) : RetainingPath(data[i])
    BY <1>1 DEF SearchInv, FoundInv
  <2> QED
    BY <1>1, <1>4, <2>1
<1>7. FoundInv' /\ PathsSound'
  BY <1>1, <1>6, WalksStay DEF FoundInv, PathsSound
<1> QED
  BY <1>1, <1>5, <1>7 DEF SearchInv, GraphInv, StageInv, PathInv

LEMMA VisitKeeps == SearchInv /\ VisitPath => SearchInv'
<1> SUFFICES ASSUME SearchInv, VisitPath PROVE SearchInv'
  OBVIOUS
<1> DEFINE p == Head(queue)
<1>1. /\ incoming' = incoming /\ question' = question /\ source' = source
      /\ stage = "paths" /\ stage' = "paths" /\ queue # <<>> /\ queue' = Tail(queue)
      /\ data' = data /\ parents = <<>>
  BY DEF VisitPath, parsing, graph, answer
<1>2. queue \in Seq(Seq(Node)) /\ question \in Questions
      /\ \A i \in 1 .. Len(queue) : Walk(queue[i])
  BY <1>1 DEF SearchInv, QueueInv
<1>3. Walk(p)
  BY <1>1, <1>2
<1>4. QueueInv'
  <2>1. Tail(queue) \in Seq(Seq(Node)) /\ \A i \in 1 .. Len(Tail(queue)) : Walk(Tail(queue)[i])
    BY <1>1, <1>2
  <2> QED
    BY <1>1, <1>2, <2>1, WalksStay DEF QueueInv
<1>5. PathInv'
  <2>1. CASE Len(p) > question.max_depth
    BY <1>1, <2>1 DEF VisitPath, PathInv
  <2>2. CASE ~(Len(p) > question.max_depth)
    <3>1. path' = p /\ parents' = incoming[p[Len(p)]]
      BY <2>2 DEF VisitPath
    <3>2. p \in Seq(Node) /\ Len(p) \in Nat /\ Len(p) > 0 /\ p[Len(p)] \in Node
      BY <1>3 DEF Walk
    <3>3. question.max_depth \in Nat
      BY <1>2, QuestionsAssumption DEF Question
    <3>4. parents' \in Seq(Node)
      BY <3>1, <3>2 DEF SearchInv, GraphInv
    <3>5. \A i \in 1 .. Len(parents') : Retains(parents'[i], p[Len(p)])
      BY <3>1, <3>4 DEF Retains
    <3>6. Len(p) <= question.max_depth
      BY <2>2, <3>2, <3>3
    <3> QED
      BY <1>1, <1>3, <3>1, <3>4, <3>5, <3>6, WalksStay DEF PathInv
  <2> QED
    BY <2>1, <2>2
<1>6. FoundInv' /\ PathsSound'
  BY <1>1, WalksStay DEF SearchInv, FoundInv, PathsSound
<1> QED
  BY <1>1, <1>4, <1>5, <1>6 DEF SearchInv, GraphInv, StageInv

LEMMA ExtendKeeps == SearchInv /\ ExtendPath => SearchInv'
<1> SUFFICES ASSUME SearchInv, ExtendPath PROVE SearchInv'
  OBVIOUS
<1> DEFINE m == Head(parents)
<1>1. /\ incoming' = incoming /\ question' = question /\ source' = source
      /\ stage = "paths" /\ stage' = "paths" /\ path' = path /\ data' = data
      /\ parents # <<>> /\ parents' = Tail(parents)
  BY DEF ExtendPath, parsing, graph, answer
<1>2. queue \in Seq(Seq(Node)) /\ question \in Questions
      /\ \A i \in 1 .. Len(queue) : Walk(queue[i])
  BY <1>1 DEF SearchInv, QueueInv
<1>3. /\ Walk(path) /\ Len(path) <= question.max_depth /\ parents \in Seq(Node)
      /\ \A i \in 1 .. Len(parents) : Retains(parents[i], path[Len(path)])
  BY <1>1 DEF SearchInv, PathInv
<1>4. question.max_depth \in Nat
  BY <1>2, QuestionsAssumption DEF Question
<1>5. m \in Node /\ Retains(m, path[Len(path)])
  BY <1>1, <1>3
<1>6. QueueInv'
  <2>1. CASE \E i \in DOMAIN path : path[i] = m
    <3>1. queue' = queue
      BY <2>1 DEF ExtendPath, OnPath
    <3> QED
      BY <1>1, <1>2, <3>1, WalksStay DEF QueueInv
  <2>2. CASE ~ \E i \in DOMAIN path : path[i] = m
    <3>1. queue' = Append(queue, Append(path, m))
      BY <2>2 DEF ExtendPath, OnPath
    <3>2. \A i \in 1 .. Len(path) : path[i] # m
      BY <2>2, <1>3 DEF Walk
    <3>3. Walk(Append(path, m))
      BY <1>3, <1>4, <1>5, <3>2, ExtendedWalk
    <3>4. Append(path, m) \in Seq(Node)
      BY <3>3 DEF Walk
    <3>5. queue' \in Seq(Seq(Node)) /\ \A i \in 1 .. Len(queue') : Walk(queue'[i])
      BY <1>2, <3>1, <3>3, <3>4
    <3> QED
      BY <1>1, <1>2, <3>5, WalksStay DEF QueueInv
  <2> QED
    BY <2>1, <2>2
<1>7. PathInv'
  <2>1. Tail(parents) \in Seq(Node)
        /\ \A i \in 1 .. Len(Tail(parents)) : Retains(Tail(parents)[i], path[Len(path)])
    BY <1>1, <1>3
  <2> QED
    BY <1>1, <1>3, <2>1, WalksStay DEF PathInv
<1>8. FoundInv' /\ PathsSound'
  BY <1>1, WalksStay DEF SearchInv, FoundInv, PathsSound
<1> QED
  BY <1>1, <1>6, <1>7, <1>8 DEF SearchInv, GraphInv, StageInv

LEMMA StepKeeps == SearchInv /\ [Next]_vars => SearchInv'
<1> SUFFICES ASSUME SearchInv, [Next]_vars PROVE SearchInv'
  OBVIOUS
<1>1. CASE NoMorePaths \/ TakePage \/ UNCHANGED vars
  <2>1. /\ incoming' = incoming /\ question' = question /\ source' = source
        /\ queue' = queue /\ path' = path /\ parents' = parents /\ data' = data
    BY <1>1 DEF NoMorePaths, TakePage, vars, parsing, graph, search, answer
  <2>2. \/ stage = "paths" /\ stage' = "answered"
        \/ stage = "answered" /\ stage' \in {"answered", "read"}
        \/ stage' = stage
    BY <1>1 DEF NoMorePaths, TakePage, vars
  <2> QED
    BY <2>1, <2>2, WalksStay
    DEF SearchInv, GraphInv, StageInv, QueueInv, PathInv, FoundInv, PathsSound
<1> QED
  BY <1>1, ParseKeeps, AskKeeps, FindKeeps, VisitKeeps, ExtendKeeps DEF Next, Search

\* Whatever the snapshot, the question and the limits: a path the search has
\* found is a simple path of the graph from the root to the node, within the
\* depth asked for (HeapGraph::retaining_paths).
THEOREM RetainingPathsAreSound == Spec => []PathsSound
<1>1. SearchInv => PathsSound
  BY DEF SearchInv
<1> QED
  BY <1>1, SearchInit, StepKeeps, PTL DEF Spec
=============================================================================
