# Visible Browser Lab: TLA+ models and proofs

Visible Browser Lab lets coding agents share one visible Chrome. A broker
process keeps *sessions*, hands each of them *tabs* (leases on Chrome page
targets), and drives the pages over CDP; an MCP facade in front of it translates
tool calls into broker requests. What can go wrong is ownership: two agents on
one page, a page closed under somebody's hands, a human's page closed at all, a
capture or an override that outlives its owner, two brokers on one Chrome. This
project models the parts of the program responsible for that, checks the models
with TLC and proves theorems about them with TLAPS.

Paths are relative to the repository; `leases.rs`, `broker.rs`, `cdp.rs`,
`heap.rs`, `artifacts.rs`, `semantic.rs` and `managed_chrome.rs` are in `src/src/`.
`PROJECT.json` maps every definition to the lines it models, lists the runs, the
mutants that break each property, the hazards at their lines and the theorems.

## 1. The system

| Component | State | Operations | What makes it correct | Model |
|---|---|---|---|---|
| **Lease registry** (`leases.rs`), one mutex | sessions, ambient identities, leases, active index, cleanup provenance, close reservations, tombstones | start, touch, bind, lease, claim and takeover, release, reserve and commit close, mark missing, expire, report a sweep close | one driver per target; the duty to close follows the driver; reservations exclude claims; nothing left in a dead session's name; exact, bounded tombstones | `LeaseRegistry`, `TabOwnership` |
| **Tab requests and expiry sweep** (`broker.rs`) | in-flight counts, the page lifecycle lock, requests between awaits | dispatch, `start_session`, `new_tab`, `claim_tab`, `release_tab`, `close_tab`, `list_tabs`, ownership check of every tool, `sweep_expired_sessions` | no request in flight loses its session; only one's own pages are closed; human and preserved pages stay; every request and reservation ends | `BrokerTabs` |
| **Broker tenancy** (`broker.rs`, `ipc.rs`) | start lock, pid file, socket, migration locks, old endpoints | `ensure_running`, `retire_legacy_broker`, `cleanup_stale_endpoint`, bind, tenancy tick, idle exit, drain, `RuntimeFileGuard` | one broker serves an endpoint; a conflicting one is left alone; a displaced one stops; every call returns | `BrokerTenancy` |
| **Managed pages and Chrome launch** (`broker.rs`, `managed_chrome.rs`, `chrome.rs`) | client cell, startup and synthetic pages, lifecycle and launch locks, profile files | list, create, claim, close, final close, find, adopt or launch Chrome | Chrome is closed only when nothing but disposable pages is left; one Chrome per profile; recorder pages stay hidden | `ManagedBrowser` |
| **Captures** (`broker.rs`, `artifacts.rs`) | traces per target, screencast jobs per tab, overrides, artifact records and files | start and stop trace, screencast, emulate, audit, heap capture, delete, and the resets of takeover, release, close, expiry, shutdown | a capture, an artifact or an override never outlives its owner or reaches the next one | `TabCaptures` |
| **Screencast pipeline** (`cdp.rs`) | frame queue and worker, hidden recorder page and its connection, event queue, chunk writer, focus override | start, record, control, finalize, activate | what becomes an artifact is whole; a focus override is taken back; everything ends | `Screencast` |
| **Page tools, element references** (`broker.rs`, `semantic.rs`, `cdp.rs`) | references by tab and document revision, one diagnostics monitor per target | snapshot, interact, fill, press, evaluate, wait, navigate, console | an action stays in the document of its reference; a recorded monitor hears its page; messages of one lease are not shown to the next | `PageTools` |
| **Diagnostics buffers** (`broker.rs`, `cdp.rs`) | the last 200 events of console and network | record, evict, list, get, clear, reset, read by a click | an id keeps its meaning; an answered submission is not sent again | `DiagnosticsLog` |
| **CDP sessions** (`cdp.rs`) | connection generations, stale-context reports, action locks, removed `beforeunload` handlers | evaluate, navigate by URL, reload, history | handlers come back; reports of stale contexts are not lost; operations end | `PageSessions` |
| **Heap snapshots** (`heap.rs`, `broker.rs`) | none between calls | parse, dominators, retained sizes, listings, retaining paths, pages of an answer | answers are exact | `HeapGraph` |
| **Conversation identity** (`conversation_identity.rs`) | none | derive a key | equal callers get equal keys | none |
| **MCP facade, protocol, CLI** (`mcp.rs`, `protocol.rs`, `surface*.rs`) | none | translate | stateless | none |
| **Contract, evaluation, xtask, extension, spikes** | none of the program's | - | tooling | none |

**Interaction.** A connection is a tokio task that reads one request, dispatches
it, and answers. No mutex of the registries is held across an await: a request is
a chain of short sections with browser calls in between. The expiry sweep runs in
the serve loop beside the tasks; monitors, screencasts and CDP connections are
tasks of their own. A human uses the same Chrome. Hence what is hard: state read
before an await and used after it (inventories, leases, the in-flight set, a
page's document), closes and handovers that take several steps, creations that
fail half way, provenance that changes hands, two kinds of closers with one
reservation map, processes that start and die around shared files. The hazards in
`PROJECT.json` name each of these at its line.

## 2. Modules

| Module | What it is |
|---|---|
| `TabOwnership` | the abstract promise: who drives a target, who must clean it up, who is closing it. No tab ids, lease states or indexes |
| `LeaseRegistry` | `leases.rs`, one action per public method that changes state; the broker is the environment and calls anything with any arguments. Implements `TabOwnership` |
| `BrokerTabs` | EXTENDS `LeaseRegistry` with the handlers and the sweep of `broker.rs`, one action per registry section or browser call, and with Chrome and the human |
| `TabCaptures`, `PageTools` | EXTEND `LeaseRegistry` likewise with what the broker attaches to a tab: captures, jobs, overrides, artifacts; monitors, buffers, references and the tools that use them |
| `BrokerTenancy`, `ManagedBrowser`, `Screencast`, `PageSessions`, `DiagnosticsLog`, `HeapGraph` | components with state of their own |
| `MC...` | the profiles, symmetry sets and small inputs of the runs |
| `...Proofs` | theorems and proofs, section 5 |

Common conventions. Variables have the names of the fields; maps are total
functions with `None` for a missing key. A request is a record with a `pc` that
names the await it is at; a lock is the call that holds it. `profile` (or `faults`,
`scenario`)
is chosen at the start and never changes: it says which requests and which
failures may happen together in one behaviour, so that one run covers several
combinations; a specification without it would only have more behaviours, and the
theorems hold for every set of profiles unless they say otherwise. History
variables (`origin`, `preserved`, `sweep_closes`, `told`, `given`, `issued`, ...)
record what a property has to know and no action reads them. An operator preceded
by a variant with a slip (`ActiveKept`, `TryLockShared`, `WaitsForever`, ...) is
paired in `PROJECT.json` with the property that fails when the variant replaces
it; no action uses the variant.

**LeaseRegistry.** Ids have an "unissued" status because the code draws fresh
UUIDs. An error return changes nothing and is no step. `expire_sessions` takes a
time and an in-flight set that may both be old; `sweep_closes` is the list it
returns and the sweep still owes a report for. Titles, URLs and labels are left
out, and with them `update_tab_snapshot`.

**BrokerTabs.** `req[r]` is the request a connection task runs: `register` ->
`handle` -> steps of the method -> `finish` -> `drop`. `page` is what became of each
target: `open`, `closed` (by the broker, which knows), `lost` (by the broker, whose
command was reported as failed) or `left` (by the human). A managed Chrome has the
lifecycle lock, an external one has not. `act_on_tab` stands for every tool that
starts with `active_owned_target`.

**BrokerTenancy.** Clients run `ensure_running` step by step; brokers bind, write
their pid file, serve, tick and leave. Durations are left out: a deadline may come
at any time. Process ids are recycled. What an earlier installation left is
chosen at the start: `Telltale` says that an old broker which runs can be told
from its endpoint or pid file, which is all the code looks at. Whether unlinking
another's name is possible (`ReclaimsName`) is the platform's choice. One fault per
behaviour in the run, any number in the proofs. Relaunches by old clients are left
out, and sessions exist only where idle exit is in play.

**TabCaptures.** `rest` stands for the six overrides beside metrics and touch. A
reset of several overrides by a close or the sweep is one step with any prefix on
failure. `reset` is the public operation. Artifacts' files, reservations and
temporaries are modelled, reading them is not; removal of a file succeeds. The
final touch and the managed lifecycle lock are in `BrokerTabs` and
`ManagedBrowser`.

**Screencast.** One cast per source page, no clock; Chrome reports visibility when
asked, a cast's controller is never dropped, the event queue of the run holds two
of eight.

**PageTools.** Pages stay open; a document has one node of interest, so that a
reference is the document it was issued for; the three protocol domains of a
monitor are one; both ends of a drag, and all fields of a form, are named by one
reference. A click sends a request that is a GET or not, perhaps redirected to one.
URLs are not kept: where a page may move by itself or commands fail, a comparison
of URLs may come out either way (`UrlsSeen`), elsewhere the URL is the same until
the document is replaced. Requests are followed to the end of the wait for an
effect.

**ManagedBrowser.** A browser's endpoint is the process that wrote the port file;
a process owns the profile through `SingletonLock`, may hang, be quit, or be
started by the human without a port. Pages opened before a fresh Chrome was first
listed count as Chrome's. A launched Chrome takes its lock before its start
timeout, a failing creation of a recorder page has created nothing. Linux only.

**PageSessions.** Two calls share a target, its connection (with generations that
are given up after timeouts), its context reports and its action lock; documents,
generations and reports are bounded. A command may also fail on a connection that
lives; whenever one fails on the page's handlers it may have taken effect, and if
so before its caller goes on. Restoring is tried again once.

**DiagnosticsLog.** One target; a buffer is a set of events with sequence numbers;
the two console streams are one; a client remembers one id; a request is
redirected at most once.

**HeapGraph.** The graph is parsed once for all pages of an answer; nodes are
indexes and names are left out; sizes saturate at `MaxSize`; one limit serves all
pages.

**Faulty variants.** An operator preceded by a variant with a plausible slip
(`ActiveKept`, `TryLockShared`, `NeedsLifecycleUnlocked`, ...) is paired with it in
`PROJECT.json`: the property named there fails when the variant replaces it, so the
property depends on that line of code.

## 3. Runs

| Run | Checks | Instance and why it is enough |
|---|---|---|
| `registry` | `TargetMapsAgree`, `CleanupFollowsOwner`, `SweptTargetsStayOut`, `TombstonesExact`, `AmbientMapsAgree`, `TabsNeverRevive`, refinement of `TabOwnership` | 2 sessions, 3 tabs, 2 targets, 1 identity and workspace, TTL 0, cap 1: a takeover, a second lease of a target and a batch expiry of two owners that evicts a tombstone fit in |
| `broker_ownership` | `SweepSparesPages`, `ClosesOnlyOwnPages`, `ClaimsFindLivePages`, `InFlightNeverExpires` | 2 requests, 2 sessions, 2 tabs, 1 target: any two requests, or a request and the sweep, on one page. Three profiles: every request of managed Chrome; the sweep beside an external one; the sweep beside releases and closes |
| `broker_progress` | `RequestsFinish`, `ReservationsDrain` | fair, 1 session, 2 requests, failing commands, sweep |
| `tenancy` | `OneRegistryUndisturbed`, `ConflictsArePreserved`, `EarlierBrokersNeverBeside`, `OrphansExit`, `CallsReturn` | 2 clients, 2 brokers, one fault of a kind: two brokers at once is what is to be excluded; every state an old broker or a previous location can be in |
| `captures` | `ArtifactsFollowSessions`, `RecordersAreAnsweredFor`, `TracesCanBeEnded`, `HandoversAreClean` | 2 calls, 2 sessions, 2 tabs, 2 jobs, 1 target; sixteen profiles pair each capture with each way to lose the tab |
| `screencast` | `FinalizedAsRecorded`, `LiesAreTakenBack`, `CastsEnd` | fair; 3 chunks, event queue of 2, up to 3 frames and 4 hides: queue, chunk order and a re-hide during an activation |
| `tools` | `MonitorsListen`, `OwnMessagesOnly`, `ReferencesActInTheirDocument`, `AnsweredSubmitsAreNotRepeated` | 2 calls, 2 sessions, 2 documents, 3 monitors; fourteen profiles, with clicks whose request is a GET, a POST or a POST redirected |
| `managed_browser` | `FinalCloseSparesPages`, `RecordersStayPrivate`, `LaunchesFindAFreeProfile` | 2 Chromes, 3 pages, 2 calls: a dying Chrome beside its successor, two pages beside the one being closed; a human quits Chrome in a profile of `new_tab` and `close_tab` and in one of `new_tab` and `list_tabs`, not with all three (section 5) |
| `page_sessions` | `LoneHandlersComeBack`, `ReportsLastUntilRefreshed`, `OperationsEnd` | fair; 2 operations on one target, 2 generations, 3 reports; clearing and restoring that fail with and without effect, alone and beside another call |
| `diagnostics_log` | `IdsKeepTheirMeaning`, `ListedRequestsCanBeGot`, `AnsweredClicksDoNotFallBack` | 2 requests, 1 message, buffer of 3, evidence of 1: eviction in mid-request, and more evidence than fits |
| `heap` | `RetainedSizesExact`, `AnswersAreExact` | every graph of four nodes, then doubled, dangling and truncated edges and self loops; `MaxSize` saturates the largest sums |
| `find_stale_inventory` | `MissingMeansGone`, violated | smallest instance with the behaviour |

**Bounds.** Ids run out (`Tabs`, `Sessions`, `Requests`, ...), `MaxClock` stops the
clock, `MaxDocument`, `MaxGeneration` and `MaxRevision` end navigations, connections
and reports, `MaxFaults` the faults of a behaviour, `pending` and `events` of a
`DiagnosticsLog` profile what waits and what is recorded. Races of two requests, or of a request and a
background task, are explored fully; races of three are not. Deadlock is not
checked: with every id used and every request answered a bounded system really
stops, and the liveness properties say that nothing stops half way. Symmetry is
used in safety runs only; the ids are compared, never ordered.

Profiles that differ by browser do so on purpose. In an external Chrome
`ClaimsFindLivePages` fails for a takeover that races the owner's close (section
4), so the profile with the sweep of an external Chrome has no `close_tab`; against
the *sweep* `expired_closed_targets` keeps the promise without a lock.

**Fairness.** Clients, the human, Chrome and the clock owe nothing.
`FairBrokerSpec`: strong fairness of each request's and the sweep's steps, since
every browser command has a timeout, tokio polls every ready task, and its mutex
is first come, first served; weak fairness would let a request be passed over for
ever. `BrokerTenancy`: a call's steps, accepts and a broker's own steps weakly; its
deadlines strongly, because a timer set again each time round still ends the loop
it bounds. `PageSessions`: an operation's steps weakly (each await has a timeout),
the action lock strongly. `Screencast`: each task weakly, every wait having a
timeout or `max_duration_ms`; of Chrome only that a hidden page goes with the
connection that made it.

## 4. Findings

`find_stale_inventory` is checked: **a stale inventory gives up live tabs.**
`reconcile_missing_targets` applies an inventory read before an await to all
leases. A tab created in between becomes `missing` although its page is open,
loses its cleanup provenance and is never closed by the broker.

The following was met while modelling or proving. Where the models can show it,
a profile, a hypothesis of a theorem or an exception in a property names it.

*Ownership.*
- `start_session` with a URL is not in flight while it creates its first tab
  (comment on `in_flight_sessions`); its session can expire in between.
- A page whose activation or inspection fails after `Target.createTarget` stays
  open with nobody responsible for it.
- A page claimed and preserved between `create_page` and `lease_tab` gets its
  provenance afterwards, and the sweep will close it (`CreatorsLeaseFirst`).
- In an external Chrome a takeover may claim the page its owner has just closed.
- A missing tab's close reservation can be overwritten by a sweep that expires
  another session's lease of the same target; a `preserve_tab` whose lease went
  missing between validation and release counts as preserved although another
  lease may hold the duty.
- A refused takeover has already disturbed the owner's captures (RFC 00001:337, 499).
- The comment on `sweep_expired_sessions` (`broker.rs:3180-3182`) describes the
  rules before RFC 00012.

*Processes and Chrome.*
- An exiting broker removes its successor's pid file and socket; the re-check of
  connections at shutdown that RFC 00007 describes is not in the code.
- A new broker's `ArtifactRegistry::new` deletes the artifact generations of any
  other broker on the same state directory.
- A stale endpoint of a Chrome that released its profile but still answers can
  have a leased startup page classified as disposable again, which a later close of
  another page then takes down with Chrome (section 5); a second client for such a
  Chrome starts with an empty `PrivateTargetInventory` and lists its recorder pages
  (so `RecordersStayPrivate` speaks of a Chrome that is up); and a closer whose
  Chrome crashed terminates whatever process owns the profile by then.
- After a relaunch, a late `forget` of the closer leaves the new Chrome unknown to
  the final close.

*Captures.*
- A trace left by an expiry, or by overlapping starts whose page closes, blocks
  `start_trace` on that target until the broker restarts; a failing `stop_trace`
  loses the capture.
- The trace collector's `select!` may take `TracingComplete` before the last chunks.
- After an expiry has dropped a cancelled job, the next owner's recording can meet
  the old task's `stopScreencast`; recorder errors leave the chunk writer running
  until the raw task is aborted.
- An activation that overlaps a re-hide leaves a focus override recorded but off
  (`cdp.rs:331-336`, RFC 00010:37, 49).
- A touch command that fails after the metrics leaves the metrics unrecorded; a
  failed `atomic_write` leaves its temporary file until the next start.

*Page tools.*
- A diagnostics monitor can be recorded and silent (comment near `broker.rs:4122`).
- A click takes only a changed URL or an answered request that is no GET for a
  submission (`broker.rs:4869-4906`): one by GET that leaves the URL alone, or by
  POST redirected to a GET of the same URL, is submitted again although it was
  answered, as is one whose record is hidden - beyond the first 20, cleared or
  evicted - or unanswered within the wait (`docs/rfcs/evidence/00005`).
- `beforeunload` handlers of a page are lost when two accepting navigations
  overlap; when the command that takes them off has its effect and fails, as by a
  lost answer, since the `?` after it (`cdp.rs:414-420`, 902-903, 1033-1034) returns
  without restoring; and when restoring them fails, on a connection that is gone or
  on one that lives (refresh timeout, a refused command). `LoneHandlersComeBack`
  exempts these three, by `spoiled`, until the page has a new document.
- An emulation that validated its owner before a handover and lands after it leaves
  its override on the new owner's page; `HandoversAreClean` exempts it.
- `network_is_idle` forgets outstanding requests that were cleared or evicted and
  is never true on a target without events; `next_since` of a truncated list skips
  records; a list with `since` can show an id that `get` does not know.
- `wait_for` of `detached` can fail with `element_stale`; CSS waits ignore
  `frame_ref`; `press` with an unknown key has already moved the focus; a drag,
  click or key press that fails half way leaves input half done.

*Heap.* `retaining_paths` is cut at `limit` before it is paged, so page one says it
is complete; class sizes count nested instances twice; parallel edges give a path
twice; the summary's total does not saturate.

## 5. Proofs

TLC's instances are small. The theorems below hold for every value of the
constants under the modules' named assumptions, which say no more than: `None` is no
id and no record, the bounds are natural numbers, `Sessions`, `Tabs` and
`Requests` of the registry are finite (a tombstone counts leases, an in-flight
count requests), profiles have the right type. TLC evaluates them in the runs.

| Module | Theorem | Says |
|---|---|---|
| `LeaseRegistryProofs` | `TypeCorrect` | `TypeOK` |
| | `OwnersAreExact` | `TargetMapsAgree`: one owner per target, no usable lease outlives its session |
| | `DutyFollowsLease` | `CleanupFollowsOwner` |
| | `SweptTargetsOutOfReach` | `SweptTargetsStayOut` |
| | `AmbientMapsExact`, `TombstonesAreExact` | `AmbientMapsAgree`, `TombstonesExact` |
| | `TabsStayWithdrawn` | `TabsNeverRevive`, an action property |
| | `RegistryImplementsOwnership` | `ImplementsTabOwnership`: the registry refines the protocol |
| | `ClosingExclusive`, `DutyFollowsDriver` | the two promises of the protocol `TabOwnership`, of its own behaviours |
| | `RegistryKeepsTheProtocol` | both promises of the registry, by the refinement |
| `BrokerTabsProofs` | `BrokerTypeCorrect`, `BrokerRunsTheRegistry` | types; the broker's behaviours are the registry's, so all of the above holds of the running broker |
| | `RequestsOutliveTheSweep` | `InFlightNeverExpires` |
| | `ClosesAreTheOwners` | `ClosesOnlyOwnPages` |
| | `SweepClosesOwnPages` | the sweep closes only pages the broker opened |
| | `PreservedPagesAreSpared` | `SweepSparesPages` in every behaviour with `CreatorsLeaseFirst` |
| | `WithoutClaimsPagesAreSpared` | `SweepSparesPages` for requests that claim no existing page |
| | `ClaimsAreOfLivePages` | `ClaimsFindLivePages` for managed Chrome, or without `close_tab` |
| `TabCapturesProofs` | `CaptureTypes`, `CapturesRunTheRegistry` | types; the captures' behaviours, too, are the registry's |
| | `ArtifactsEndWithSessions`, `RecordersAreFew`, `TracesEnd` | `ArtifactsFollowSessions`, `RecordersAreAnsweredFor`, `TracesCanBeEnded` |
| | `ClaimsFindCleanTargets` | `HandoversAreClean`, an action property |
| `PageToolsProofs` | `ToolTypesCorrect`, `ToolsRunTheRegistry` | types; the page tools' behaviours, too, are the registry's |
| | `MonitorsAreHeard`, `MessagesAreTheOwners` | `MonitorsListen`, `OwnMessagesOnly` |
| | `ReferencesAreForTheirDocument`, `SubmitsAreNotRepeated` | `ReferencesActInTheirDocument`, `AnsweredSubmitsAreNotRepeated`, action properties |
| `BrokerTenancyProofs` | `TypeCorrect`, `OneRegistryProved`, `ConflictsPreserved`, `EarlierBrokersGone` | types and the three safety properties of the run |
| `CdpProofs` | `TypeCorrect`, `HandlersComeBack`, `ReportsLast` | types of `PageSessions`, `LoneHandlersComeBack`, `ReportsLastUntilRefreshed` |
| | `CastTypes`, `RecordingsAreWhole`, `LiesEnd` | types of `Screencast`, `FinalizedAsRecorded`, `LiesAreTakenBack` |
| `InspectionProofs` | `TypeCorrect`, `IdsKeepMeaning`, `ListedCanBeGot`, `AnsweredStaysAnswered` | types and the three properties of `DiagnosticsLog`'s run |
| | `RetainingPathsAreSound` | every path `HeapGraph` finds is a simple path of the graph, of the right ends and length |
| `ManagedBrowserProofs` | `TypeCorrect`, `LaunchesAreAlone` | types, `LaunchesFindAFreeProfile` |
| | `ClosesArePolite`, `RecordersAreHidden` | `FinalCloseSparesPages` and `RecordersStayPrivate`, where no human quits Chrome and the broker does not restart (`Calm`) |

**The registry.** None of its invariants is inductive alone; `RegistryInv`, the
conjunction of `TypeOK` and `TargetInv`, is:

- Withdrawing a tab removes only the index entry of *its* target, so the index
  stays exact only if the entry that names the tab is that one: `ActiveIndexExact`
  is needed in its own step, `LeasesComplete` to know there is a target.
- `expire_sessions` reserves one tab per target. That two leases it closes never
  share a target follows from `CleanupFollowsOwner`: both would be the one tab the
  cleanup map names.
- The reservation of a pending sweep close survives an owner's calls because its
  lease is closed and its owner gone (`SweepHoldsReservation`), and a second expiry
  because nobody has the duty for its target any more.
- A failed close hands the duty back. `CleanupFollowsOwner` holds again because
  nobody was able to lease the target meanwhile.
- A tombstone's count is exact because a reported close was counted: the sweep's
  reservation stands until the report, so no close is reported twice.

The steps that end leases are one lemma, `WithdrawalInv`: which tabs end, which
lose the duty, and in what state. `expire_sessions` is proved for any time and any
in-flight set, not only those the broker reads.

**The refinement.** The mapping reads driver and duty off the two target maps and
forgets tab ids and lease states. Session, lease and claim steps are `Begin`,
`Create` and `Adopt`; release, disappearance and reconciliation are `GiveUp` of the
targets whose index entry goes; a commit is `Retire`, or, when the tab had already
lost its target, the end of a reservation or a `GiveUp` of nothing. A batch expiry
is *one* `Expire` because the targets it closes are exactly those the ended
sessions have the duty for (`DueIsToClose`), and a report is one `Swept`. The
mapping chooses one pending close per target; `SweepingIsExact` shows there is
only one.

**The broker over the registry.** `BrokerInv` adds to `RegistryInv` what a request
carries by where it is (`ShapeInv`); that a session's count is the number of its
registered requests, each of them touched within a TTL, and that the sweep's list
covers them (`InFlightInv`); that a close under way is its owner's, with its target
barred to everybody else (`CloseInv`); that the duty and the sweep's closes go
back to pages the broker opened (`OriginInv`); that leases and claims are of pages
that exist (`LeasedInv`). A page given up has no duty, no sweep close and no
creator still to lease it (`SpareInv`) - inductive only where creators lease first,
because in the create-to-lease window the code does break it. `ClaimInv` holds the
claimed page by the lifecycle lock, or, without owner closes, by
`expired_closed_targets`.

**Captures.** `CaptureInv` adds to `RegistryInv`, for each place in the handlers,
what a request carries there (`ShapeInv`); every step of a request is one of the
moves its place allows (`Paths`), and what a step does to leases, jobs, the map of
jobs and other requests is stated once each (`LeaseFates`, `JobFates`, `MapFates`,
`CallFates`). The registry may forget a lease, but whoever remembers a tab
remembers one target for it (`AimInv`). Then:

- A job nobody has cancelled is in the map under its tab, and while a start awaits
  the browser its lock keeps the map as it read it (`CastInv`). So two recorders of
  a target would be one entry, and the shutdown, which goes through the map under
  that lock and closes it to starts, misses none.
- A reservation is held by one start, then by its job, and the partial file lies
  under its holder's session (`ReserveInv`): the sweep, which removes by session,
  and a finalizer, which publishes by reservation, cannot disagree about a file.
- Releases and closes act after they saw no trace (`TraceInv`), and only an owner
  starts one, so that a trace keeps an owner, a close under way, or a validation
  that has yet to note the withdrawn tab.
- A page that is not clean is held, reserved by the sweep, or marked in the
  history; a handover's commands only reset, and those it has sent hold unless an
  emulation came late, which the history notes (`EmulationInv`). A page that closes
  takes its overrides along, and a tab becomes missing only when its page is gone
  (`PageInv`) - which the reconciliation here reads at once; with a stale inventory
  it fails, as section 4 describes.

**Page tools.** `ToolInv` adds to `RegistryInv` what a call carries at each step
(`Shape`): a call keeps the target it validated, and its lease, while it is on
record, is of that target. The thirty-odd steps that move one call and nothing else
are one lemma, `PlainSteps`: each is one of the fates in `PlainFate`. Then:

- While two calls have not met at a target, one call at most works on its monitor,
  no monitor of the target runs but the one on record or the one a reset waits for,
  and whoever has enabled the domains, or listens on record, finds them enabled
  (`Orderly`): an old monitor's cleanup, which disables them, is over before the
  next monitor is set up. Targets where two calls did meet are excluded by the
  history `overlapped` until their monitors have ended; there the code does go
  wrong, as section 4 describes.
- Only a claim gives a target to another tab, and it is then at its reset; whatever
  a page logs goes under the owner of that moment (`OwnersBuffer`).
- A resolved reference was in the tab's record, all of which snapshots have
  returned; that it is of the document at hand follows while the call has not been
  told of a navigation (`ReferenceInv`), as whoever has a revision is told.
- A submit that has not lost anything has a monitor that listens, so that its page's
  request and the answer are recorded as they happen (`SubmitInv`, which needs
  `Orderly` for the domains); unless it is a GET, the answer on record is a signal
  whatever the URL.

**Tenancy.** The invariant says what the holder of the start lock knows at each of
its steps about the brokers that are alive: that after a refused probe nobody
listens, after a claim was terminated it is dead, that the one it launched is the
only one. `EarlierBrokersGone` needs `Telltale`, which is part of the assumption on
profiles: an old broker that left neither endpoint nor pid file cannot be found
by anybody.

**Page sessions.** A call follows the route of its method; a refresh under way
knows how many reports it has seen; handlers that are off a page are in the stash
of a call still to restore them, and only an accepting navigation removes them; the
exits that leave them off note it in `spoiled` (section 4).

**Diagnostics.** Events are numbered once, below the next number; every part of a
buffer has a last event; the monitor records a request after the page sent it, and
asks once unless redirected; a click's own requests come after its baseline. That
more than `EvidenceLimit` records have to come before a submission to hide it is
shown by an injection of those records into the other requests' names.

**Screencasts.** File, channel and wire together hold the recorder's messages one
after the other from the first on (`ChunkInv`), so a file that ends with `done` has
them all. The recorder is told to finish only after the frame worker has ended,
and a worker that ends well has encoded every accepted frame (`FrameInv`); a
result says which of the tasks ended how (`ResultInv`). For the focus override:
what is on without being in the override's record was left there by somebody
about to turn it off, or who failed to (`FocusInv`).

**Managed Chrome.** The users of a profile own its lock; a process on its way to
the profile is the only one, and its launcher waits under the launch lock; a
launcher about to start one has seen the profile free, and nobody else can take it
meanwhile except a human's Chrome.

The page properties rest on `PageInv`. A request that creates, claims or closes a
page holds `page_lifecycle` from its first look at Chrome, so that all that is used
on a Chrome that is up is on that request's Chrome, whose client is in the cell
(`UsedIsCurrent`, `ClientCurrent`); a Chrome that is going down has a close that
waits for it (`ShuttersWait`) and nothing anyone keeps (`KeptIsUp`); a leased page
with a disposable mark has a claim about to clear it (`LeasedUnmarked`). The
decision to quit then sees every page that is kept, and finds none disposable. A
recorder page of a Chrome that is up is veiled from the moment it exists: by the
inventory lock, then by its marker (`RecordersVeiled`).

`Calm` is not an artefact of the proof. A Chrome the *human* quits leaves the
profile with nobody waiting for it and still answers; a `list_tabs` that found it
just before takes the client cell back to it, and the next request classifies the
running Chrome anew, putting a leased startup page back among the disposable ones,
so that closing another page quits Chrome with the leased page on it. TLC finds
this in 48 steps when a profile allows all methods and `quit`; the profiles of the
run that quit or restart have two methods each, among them one of `new_tab` and
`close_tab` in which the human quits. A restart, too, leaves a Chrome going
down that nobody waits for.

**Only model-checked.** Liveness (`RequestsFinish`, `ReservationsDrain`,
`OrphansExit`, `CallsReturn`, `CastsEnd`, `OperationsEnd`): the provers have no rules
for fairness and `ENABLED`. `RetainedSizesExact` and `AnswersAreExact`: what a
recursive function computes on every input needs induction over data. The
page properties of `ManagedBrowser` with a human who quits, or a restart, are
checked in its profiles. Type
invariants are in no `.cfg`; they are proved, or (for the modules not proved about)
hold in TLC's runs of them.

## 6. Not modelled

Chrome is external: a page is opened once, a command reported as failed may have
taken effect, a process id is reused only when nothing refers to it. The clock
does not step back. Dispatch touches and registers a session in two adjacent
statements; the model assumes that the clock does not run a whole TTL in between
(`TimePasses`). A preserving release against a close of the same tab by the same
session is left out of `BrokerTabs`. Broker restart loses registry state by
design. Conversation identity, the MCP facade, protocol and CLI keep no state;
contract, evaluation, xtask, extension and spikes are tooling. macOS and Windows
variants of launch, a broker that is stopped and leaves a ping unanswered (in
`BrokerTenancy` a ping of a live broker ends), liveness of processes, screenshots,
accessibility data and Lighthouse scores are left out.

## 7. Plan

1. `PageTools`: one action per operation of `interact`, CSS targets, framed CSS.
2. `BrokerTenancy`: "opening" connections and generations of state directories;
   `PageSessions`: init scripts; `DiagnosticsLog`: two console streams.
