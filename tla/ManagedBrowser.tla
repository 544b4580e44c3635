--------------------------- MODULE ManagedBrowser ---------------------------
(***************************************************************************)
(* The Chrome the broker manages: how a request finds, adopts or launches  *)
(* it (src/src/managed_chrome.rs), the shared client cell and the sets of  *)
(* disposable pages (ManagedBrowserBackend in src/src/broker.rs), the      *)
(* inventory that hides screencast recorders (src/src/cdp.rs), and the     *)
(* final close, which takes Chrome down once only disposable pages remain. *)
(*                                                                         *)
(* A step is a lock section, a file operation or a command to Chrome.      *)
(* Chrome is external: a process owns the profile through SingletonLock,   *)
(* writes DevToolsActivePort once it answers, and may outlive the release  *)
(* of its profile.  An endpoint is the browser that wrote it; the ids of   *)
(* browsers and pages are recycled once nothing refers to them.            *)
(***************************************************************************)
EXTENDS Naturals, FiniteSets

CONSTANTS
    Browsers,      \* Chrome processes
    Targets,       \* pages
    Calls,         \* requests being served
    None,
    Profiles       \* bound: what may happen together in one behaviour

Methods == {"list", "create", "claim", "close"}
Events  == {"crash", "quit", "mute", "open", "navigate", "fail", "record", "restart"}
Kinds   == {"startup", "blank", "site", "hidden"}

ASSUME BrowserProfilesAssumption == Profiles \subseteq [methods : SUBSET Methods, events : SUBSET Events]

ASSUME BrowserNoneAssumption == None \notin Browsers \cup Targets \cup Calls

VARIABLES
    profile,         \* chosen at the start
    chrome,          \* Chrome processes
    page,            \* their pages
    singleton_lock,  \* SingletonLock, naming the process that made it
    active_port,     \* DevToolsActivePort, naming the process that wrote it
    pid_file,        \* managed-chrome.pid
    launch_lock,     \* holder of the launch lock
    client,          \* ManagedBrowserBackend.client: the endpoint in the cell
    client_lock,     \* the call that holds the cell across its inventory
    synthetic,       \* synthetic_replacement_targets
    startup,         \* startup_targets
    page_lifecycle,  \* holder of the page_lifecycle lock
    leased,          \* targets with a lease
    private,         \* PrivateTargetInventory.target_ids
    retiring,        \* PrivateTargetInventory.closing_target_ids
    recorder,        \* a screencast's hidden recorder page
    call,            \* the requests
    told             \* history: for a process the broker told to exit, the
                     \* inventory it decided on

fileVars   == <<singleton_lock, active_port, pid_file>>
clientVars == <<client, client_lock, synthetic, startup>>
hiddenVars == <<private, retiring, recorder>>
browserVars == <<profile, chrome, page, fileVars, launch_lock, clientVars, page_lifecycle,
                 leased, hiddenVars, call, told>>

Maybe(S) == S \cup {None}
NoPage == [st |-> "none", on |-> None, kind |-> "site", origin |-> "chrome"]
NoCall == [pc |-> "idle", method |-> "list", target |-> None, endpoint |-> None,
           reused |-> FALSE, seen |-> {}, pid |-> None]

ChromeStates == {"none", "spawned", "starting", "mute", "up", "closing", "released"}
PageRecord == [st : {"none", "open", "going"}, on : Maybe(Browsers), kind : Kinds,
               origin : {"chrome", "human", "vbl"}]
Pcs == {"idle", "reserve", "ensure", "probe", "owned", "held", "launch", "boot", "client",
        "classify", "op", "listed", "claim", "mark", "created", "lease", "inventory",
        "decide", "quit", "await", "kill", "forget", "clear"}
CallRecord == [pc : Pcs, method : Methods, target : Maybe(Targets), endpoint : Maybe(Browsers),
               reused : BOOLEAN, seen : SUBSET (Targets \X Kinds), pid : Maybe(Browsers)]

BrowserTypeOK ==
    /\ profile \in Profiles
    /\ chrome \in [Browsers -> ChromeStates]
    /\ page \in [Targets -> PageRecord]
    /\ {singleton_lock, active_port, pid_file, client} \subseteq Maybe(Browsers)
    /\ {launch_lock, client_lock, page_lifecycle} \subseteq Maybe(Calls)
    /\ synthetic \subseteq Targets /\ startup \subseteq Targets /\ leased \subseteq Targets
    /\ retiring \subseteq private /\ private \subseteq Targets
    /\ recorder \in [pc : {"none", "creating", "recording", "closing"}, target : Maybe(Targets)]
    /\ told \in [Browsers -> Maybe(SUBSET (Targets \X Kinds))]
    /\ call \in [Calls -> CallRecord]

BrowserInit ==
    /\ profile \in Profiles
    /\ chrome = [b \in Browsers |-> "none"]
    /\ page = [t \in Targets |-> NoPage]
    /\ singleton_lock = None /\ active_port = None /\ pid_file = None
    /\ launch_lock = None /\ client = None /\ client_lock = None /\ page_lifecycle = None
    /\ synthetic = {} /\ startup = {} /\ leased = {} /\ private = {} /\ retiring = {}
    /\ recorder = [pc |-> "none", target |-> None]
    /\ call = [x \in Calls |-> NoCall]
    /\ told = [b \in Browsers |-> None]

(***************************************************************************)
(* Helpers.                                                                *)
(***************************************************************************)
At(x, pc)   == call[x].pc = pc
Doing(x, m) == At(x, "op") /\ call[x].method = m
Goto(x, pc) == call' = [call EXCEPT ![x].pc = pc]
May(e)      == e \in profile.events

\* A request ends, and with it the locks it holds.
End(x) ==
    /\ call' = [call EXCEPT ![x] = NoCall]
    /\ page_lifecycle' = IF page_lifecycle = x THEN None ELSE page_lifecycle

Ids(seen)  == {p[1] : p \in seen}
Alive(b)   == b # None /\ chrome[b] # "none"
Answers(b) == chrome[b] \in {"up", "closing", "released"}
Closing(t) == \E x \in Calls : call[x].method = "close" /\ call[x].target = t

FreshBrowsers ==
    {b \in Browsers : /\ chrome[b] = "none"
                      /\ b \notin {singleton_lock, active_port, pid_file, client}
                      /\ \A x \in Calls : b \notin {call[x].endpoint, call[x].pid}}
FreshTargets ==
    {t \in Targets : /\ page[t] = NoPage
                     /\ t \notin leased \cup synthetic \cup startup \cup private
                     /\ \A b \in Browsers : told[b] # None => t \notin Ids(told[b])
                     /\ recorder.target # t
                     /\ \A x \in Calls : call[x].target # t /\ t \notin Ids(call[x].seen)}

Born(t, b, kind, origin) == [page EXCEPT ![t] = [st |-> "open", on |-> b, kind |-> kind,
                                                 origin |-> origin]]
WithoutPagesOf(b) == [t \in Targets |-> IF page[t].on = b THEN NoPage ELSE page[t]]
PagesOf(b) == {t \in Targets : page[t].on = b}

(***************************************************************************)
(* Inventories.  A listing holds the target_inventory lock, which recorder *)
(* creation and cleanup hold too; it drops the markers of recorders that   *)
(* are gone.                                                               *)
(***************************************************************************)
InventoryUnlocked == TRUE
InventoryFree == recorder.pc \notin {"creating", "closing"}

Marked == private \ {t \in retiring : page[t].on = None}
Listed(b) == {<<t, page[t].kind>> : t \in PagesOf(b) \ Marked}
StillClosing == {t \in retiring : page[t].on # None}
Listing(b) ==
    /\ Answers(b) /\ InventoryFree
    /\ private' = Marked
    /\ retiring' = StillClosing
    /\ UNCHANGED recorder

Unanswered(b) == chrome[b] # "up" \/ May("fail")

(***************************************************************************)
(* Chrome.  A process that finds the profile owned hands over and exits.   *)
(***************************************************************************)
ChromeUnchanged == UNCHANGED <<profile, pid_file, launch_lock, clientVars, page_lifecycle,
                               leased, hiddenVars, call>>

\* The process is gone, with its pages.
Dies(b) ==
    /\ chrome' = [chrome EXCEPT ![b] = "none"]
    /\ page' = WithoutPagesOf(b)
    /\ told' = [told EXCEPT ![b] = None]

TakesProfile(b) ==
    /\ chrome[b] = "spawned"
    /\ IF Alive(singleton_lock)
         THEN /\ chrome' = [chrome EXCEPT ![b] = "none"]
              /\ UNCHANGED singleton_lock
         ELSE /\ chrome' = [chrome EXCEPT ![b] = "starting"]
              /\ singleton_lock' = b
    /\ UNCHANGED <<page, active_port, told>> /\ ChromeUnchanged

\* The startup page is an argument of the launch; a placeholder may come
\* instead or as well.
ComesUp(b) ==
    /\ chrome[b] = "starting"
    /\ chrome' = [chrome EXCEPT ![b] = "up"]
    /\ active_port' = b
    /\ \E t \in FreshTargets, kind \in {"startup", "blank"} : page' = Born(t, b, kind, "chrome")
    /\ UNCHANGED <<singleton_lock, told>> /\ ChromeUnchanged

Crashes(b) ==
    /\ May("crash") /\ chrome[b] \in {"starting", "up"}
    /\ Dies(b)
    /\ UNCHANGED <<singleton_lock, active_port>> /\ ChromeUnchanged

HumanQuits(b) ==
    /\ May("quit") /\ chrome[b] = "up"
    /\ chrome' = [chrome EXCEPT ![b] = "closing"]
    /\ UNCHANGED <<page, singleton_lock, active_port, told>> /\ ChromeUnchanged

\* A human starts Chrome on the managed profile, without a debugging port,
\* and quits it.
HumanLaunches(b) ==
    /\ May("mute") /\ b \in FreshBrowsers /\ ~Alive(singleton_lock)
    /\ chrome' = [chrome EXCEPT ![b] = "mute"]
    /\ singleton_lock' = b
    /\ UNCHANGED <<page, active_port, told>> /\ ChromeUnchanged

MuteQuits(b) ==
    /\ chrome[b] = "mute"
    /\ Dies(b)
    /\ singleton_lock' = None
    /\ UNCHANGED active_port /\ ChromeUnchanged

ReleasesProfile(b) ==
    /\ chrome[b] = "closing"
    /\ chrome' = [chrome EXCEPT ![b] = "released"]
    /\ singleton_lock' = IF singleton_lock = b THEN None ELSE singleton_lock
    /\ UNCHANGED <<page, active_port, told>> /\ ChromeUnchanged

Exits(b) ==
    /\ chrome[b] = "released"
    /\ Dies(b)
    /\ UNCHANGED <<singleton_lock, active_port>> /\ ChromeUnchanged

(***************************************************************************)
(* Pages change by themselves, by the human or by a session's page tools.  *)
(***************************************************************************)
PagesUnchanged == UNCHANGED <<profile, chrome, fileVars, launch_lock, clientVars, page_lifecycle,
                              hiddenVars, call, told>>

\* Until a fresh Chrome has been listed, its pages cannot be told apart.
JustLaunched(b) ==
    \E x \in Calls : \/ At(x, "boot") /\ client # b
                     \/ call[x].pc \in {"client", "classify"} /\ call[x].endpoint = b /\ ~call[x].reused

HumanOpens(t, b, kind) ==
    /\ May("open") /\ chrome[b] = "up" /\ t \in FreshTargets
    /\ page' = Born(t, b, kind, IF JustLaunched(b) THEN "chrome" ELSE "human")
    /\ UNCHANGED leased /\ PagesUnchanged

Navigates(t, kind) ==
    /\ May("navigate") /\ page[t].st = "open" /\ page[t].kind \notin {"hidden", kind}
    /\ page' = [page EXCEPT ![t].kind = kind]
    /\ UNCHANGED leased /\ PagesUnchanged

HumanCloses(t) ==
    /\ May("open") /\ page[t].st = "open" /\ page[t].kind # "hidden"
    /\ page' = [page EXCEPT ![t] = NoPage]
    /\ UNCHANGED leased /\ PagesUnchanged

Disappears(t) ==
    /\ page[t].st = "going"
    /\ page' = [page EXCEPT ![t] = NoPage]
    /\ UNCHANGED leased /\ PagesUnchanged

\* Released with its page left open, expired, or found missing.
LeaseEnds(t) ==
    /\ t \in leased /\ ~Closing(t)
    /\ leased' = leased \ {t}
    /\ UNCHANGED page /\ PagesUnchanged

(***************************************************************************)
(* A screencast's hidden recorder page.  The target_inventory lock is held *)
(* between the two steps of its creation and of its cleanup.               *)
(***************************************************************************)
RecorderUnchanged == UNCHANGED <<profile, chrome, fileVars, launch_lock, clientVars, page_lifecycle,
                                 leased, call, told>>

CreateHiddenTarget(t) ==
    /\ May("record") /\ recorder.pc = "none" /\ client # None /\ chrome[client] = "up"
    /\ \E u \in leased : page[u].on = client
    /\ t \in FreshTargets
    /\ page' = Born(t, client, "hidden", "chrome")
    /\ recorder' = [pc |-> "creating", target |-> t]
    /\ UNCHANGED <<private, retiring>> /\ RecorderUnchanged

MarkPrivate ==
    /\ recorder.pc = "creating"
    /\ private' = private \cup {recorder.target}
    /\ retiring' = retiring \ {recorder.target}
    /\ recorder' = [recorder EXCEPT !.pc = "recording"]
    /\ UNCHANGED page /\ RecorderUnchanged

CloseHiddenTarget ==
    /\ recorder.pc = "recording"
    /\ \/ page' = [page EXCEPT ![recorder.target].st = IF @ = "open" THEN "going" ELSE @]
       \/ May("fail") /\ UNCHANGED page
    /\ recorder' = [recorder EXCEPT !.pc = "closing"]
    /\ UNCHANGED <<private, retiring>> /\ RecorderUnchanged

MarkClosing ==
    /\ recorder.pc = "closing"
    /\ retiring' = retiring \cup ({recorder.target} \cap private)
    /\ recorder' = [pc |-> "none", target |-> None]
    /\ UNCHANGED <<page, private>> /\ RecorderUnchanged

(***************************************************************************)
(* A request.  Create, claim and close hold the page_lifecycle lock for    *)
(* all of it; a close has reserved the tab in the registry before.         *)
(***************************************************************************)
OnlyCalls == UNCHANGED <<profile, chrome, page, fileVars, launch_lock, clientVars, leased,
                         hiddenVars, told>>
OnlyClient == UNCHANGED <<profile, chrome, page, fileVars, launch_lock, page_lifecycle, leased,
                          told>>

NeedsLifecycleUnlocked(m) == m = "close"
NeedsLifecycle(m) == m # "list"

Begin(x, m, t) ==
    /\ At(x, "idle") /\ m \in profile.methods
    /\ CASE m = "claim" -> t # None /\ page[t].st # "none"
         [] m = "close" -> t \in leased /\ ~Closing(t)
         [] OTHER       -> t = None
    /\ call' = [call EXCEPT ![x] = [NoCall EXCEPT !.method = m, !.target = t,
                                      !.pc = IF NeedsLifecycle(m) THEN "reserve" ELSE "ensure"]]
    /\ UNCHANGED page_lifecycle /\ OnlyCalls

ReserveLifecycle(x) ==
    /\ At(x, "reserve") /\ page_lifecycle = None
    /\ page_lifecycle' = x
    /\ Goto(x, "ensure") /\ OnlyCalls

(***************************************************************************)
(* ensure_managed_chrome, under the launch lock: adopt the browser that    *)
(* answers while it owns the profile, wait while the profile is owned, and *)
(* launch one when it is free.                                             *)
(***************************************************************************)
LaunchUnchanged == UNCHANGED <<profile, page, clientVars, leased, hiddenVars, told>>

\* acquire_launch_lock, and its timeout.
LaunchUnlocked == TRUE
LaunchFree == launch_lock = None

AcquireLaunchLock(x) ==
    /\ At(x, "ensure")
    /\ \/ /\ LaunchFree
          /\ launch_lock' = x
          /\ Goto(x, "probe") /\ UNCHANGED page_lifecycle
       \/ /\ launch_lock # None
          /\ UNCHANGED launch_lock
          /\ End(x)
    /\ UNCHANGED <<chrome, singleton_lock, active_port, pid_file>> /\ LaunchUnchanged

\* validate_endpoint: the port answers, and with the WebSocket path recorded
\* beside it, so that it is the browser that wrote the file.
ValidEndpoint(b) == b # None /\ Answers(b)

\* healthy_active_endpoint finds an endpoint or not.
HealthyActiveEndpoint(x) ==
    /\ At(x, "probe")
    /\ IF ValidEndpoint(active_port)
         THEN \/ call' = [call EXCEPT ![x].pc = "owned", ![x].endpoint = active_port]
              \/ chrome[active_port] # "up" /\ Goto(x, "held")
         ELSE Goto(x, "held")
    /\ UNCHANGED <<chrome, singleton_lock, active_port, pid_file, launch_lock, page_lifecycle>>
    /\ LaunchUnchanged

\* profile_is_available: no SingletonLock, or one whose process is dead,
\* which is removed.
ProfileIsAvailable == ~Alive(singleton_lock)
RemoveStaleLock == singleton_lock' = IF ProfileIsAvailable THEN None ELSE singleton_lock

Adopts(x, b, reused) ==
    /\ call' = [call EXCEPT ![x].pc = "client", ![x].reused = reused, ![x].endpoint = b]
    /\ launch_lock' = None

\* healthy_owned_active_endpoint: only a browser that still owns the profile.
OwnedActiveEndpoint(x) ==
    /\ At(x, "owned")
    /\ RemoveStaleLock
    /\ IF ProfileIsAvailable
         THEN call' = [call EXCEPT ![x].pc = "held", ![x].endpoint = None] /\ UNCHANGED launch_lock
         ELSE Adopts(x, call[x].endpoint, TRUE)
    /\ UNCHANGED <<chrome, active_port, pid_file, page_lifecycle>> /\ LaunchUnchanged

\* wait_for_active_endpoint_or_profile_release, and its timeout.
WaitForRelease(x) ==
    /\ At(x, "held")
    /\ RemoveStaleLock
    /\ IF ProfileIsAvailable
         THEN Goto(x, "launch") /\ UNCHANGED <<launch_lock, page_lifecycle>>
         ELSE \/ Goto(x, "probe") /\ UNCHANGED <<launch_lock, page_lifecycle>>
              \/ End(x) /\ launch_lock' = None
    /\ UNCHANGED <<chrome, active_port, pid_file>> /\ LaunchUnchanged

LaunchChrome(x, b) ==
    /\ At(x, "launch") /\ b \in FreshBrowsers
    /\ active_port' = None
    /\ chrome' = [chrome EXCEPT ![b] = "spawned"]
    /\ pid_file' = b
    /\ Goto(x, "boot")
    /\ UNCHANGED <<singleton_lock, launch_lock, page_lifecycle>> /\ LaunchUnchanged

\* The launched process has CHROME_START_TIMEOUT, long enough to take its
\* profile.
BootChrome(x) ==
    /\ At(x, "boot")
    /\ \/ /\ ValidEndpoint(active_port)
          /\ Adopts(x, active_port, FALSE) /\ UNCHANGED page_lifecycle
       \/ /\ \A b \in Browsers : chrome[b] # "spawned"
          /\ End(x) /\ launch_lock' = None
    /\ UNCHANGED <<chrome, singleton_lock, active_port, pid_file>> /\ LaunchUnchanged

(***************************************************************************)
(* ManagedBrowserBackend::client: the cell's client if it is for that      *)
(* endpoint, else a new one, with the browser's pages classified while the *)
(* cell is locked.                                                         *)
(***************************************************************************)
LockClient(x) ==
    /\ At(x, "client") /\ client_lock = None
    /\ IF client = call[x].endpoint
         THEN Goto(x, "op") /\ UNCHANGED client_lock
         ELSE Goto(x, "classify") /\ client_lock' = x
    /\ UNCHANGED <<client, synthetic, startup, hiddenVars>> /\ OnlyClient

OfKind(seen, kind) == {p[1] : p \in {q \in seen : q[2] = kind}}

\* classify_managed_launch_targets
ReplacementTargets(seen, reused) == IF reused THEN {} ELSE OfKind(seen, "blank")

ClassifyTargets(x) ==
    LET b == call[x].endpoint
        seen == {<<t, page[t].kind>> : t \in PagesOf(b)}
    IN /\ At(x, "classify")
       /\ client_lock' = None
       /\ \/ /\ Answers(b)
             /\ synthetic' = ReplacementTargets(seen, call[x].reused)
             /\ startup' = OfKind(seen, "startup")
             /\ client' = b
             /\ private' = {t \in private : page[t].on \notin {b, None}}
             /\ retiring' = retiring \cap private'
             /\ Goto(x, "op") /\ UNCHANGED <<page_lifecycle, recorder>>
          \/ /\ Unanswered(b)
             /\ End(x)
             /\ UNCHANGED <<client, synthetic, startup, hiddenVars>>
       /\ UNCHANGED <<profile, chrome, page, fileVars, launch_lock, leased, told>>

(***************************************************************************)
(* What a request does with its client.                                    *)
(***************************************************************************)
Endpoint(x) == call[x].endpoint
ChromeWork == UNCHANGED <<profile, chrome, fileVars, launch_lock, client, client_lock, told>>

\* list_tabs, and the inventory of the tab tools.
ListTargets(x) ==
    /\ Doing(x, "list")
    /\ \/ /\ Listing(Endpoint(x))
          /\ call' = [call EXCEPT ![x].pc = "listed", ![x].seen = Listed(Endpoint(x))]
          /\ UNCHANGED page_lifecycle
       \/ Unanswered(Endpoint(x)) /\ End(x) /\ UNCHANGED hiddenVars
    /\ UNCHANGED <<page, synthetic, startup, leased>> /\ ChromeWork

Return(x) ==
    /\ At(x, "listed")
    /\ End(x)
    /\ UNCHANGED <<page, synthetic, startup, leased, hiddenVars>> /\ ChromeWork

\* create_page: the command (which the bound on Targets fails too), the page's
\* listing, the disposable mark.
CreateTarget(x, t) ==
    /\ Doing(x, "create")
    /\ \/ /\ chrome[Endpoint(x)] = "up" /\ t \in FreshTargets
          /\ page' = Born(t, Endpoint(x), "site", "vbl")
          /\ call' = [call EXCEPT ![x].pc = "created", ![x].target = t]
          /\ UNCHANGED page_lifecycle
       \/ (Unanswered(Endpoint(x)) \/ FreshTargets = {}) /\ End(x) /\ UNCHANGED page
    /\ UNCHANGED <<synthetic, startup, leased, hiddenVars>> /\ ChromeWork

PageTarget(x) ==
    /\ At(x, "created")
    /\ \/ /\ Listing(Endpoint(x)) /\ call[x].target \in Ids(Listed(Endpoint(x)))
          /\ synthetic' = synthetic \ {call[x].target}
          /\ Goto(x, "lease") /\ page_lifecycle' = None
       \/ /\ Listing(Endpoint(x)) /\ call[x].target \notin Ids(Listed(Endpoint(x)))
          /\ End(x) /\ UNCHANGED synthetic
       \/ Unanswered(Endpoint(x)) /\ End(x) /\ UNCHANGED <<synthetic, hiddenVars>>
    /\ UNCHANGED <<page, startup, leased>> /\ ChromeWork

\* The registry leases the page after create_page has returned.
LeaseCreated(x) ==
    /\ At(x, "lease")
    /\ leased' = leased \cup {call[x].target}
    /\ End(x)
    /\ UNCHANGED <<page, synthetic, startup, hiddenVars>> /\ ChromeWork

\* broker_claim_tab: the target's listing, the registry claim, the marks.
TargetById(x) ==
    /\ Doing(x, "claim")
    /\ \/ /\ Listing(Endpoint(x)) /\ call[x].target \in Ids(Listed(Endpoint(x)))
          /\ Goto(x, "claim") /\ UNCHANGED page_lifecycle
       \/ /\ Listing(Endpoint(x)) /\ call[x].target \notin Ids(Listed(Endpoint(x)))
          /\ End(x)
       \/ Unanswered(Endpoint(x)) /\ End(x) /\ UNCHANGED hiddenVars
    /\ UNCHANGED <<page, synthetic, startup, leased>> /\ ChromeWork

\* Refused for a tab being closed and, without takeover, for one leased.
ClaimTab(x) ==
    /\ At(x, "claim")
    /\ \/ /\ ~Closing(call[x].target)
          /\ leased' = leased \cup {call[x].target}
          /\ Goto(x, "mark") /\ UNCHANGED page_lifecycle
       \/ /\ call[x].target \in leased
          /\ End(x) /\ UNCHANGED leased
    /\ UNCHANGED <<page, synthetic, startup, hiddenVars>> /\ ChromeWork

\* mark_managed_target_claimed
ClearsMarks(x) ==
    /\ synthetic' = synthetic \ {call[x].target}
    /\ startup' = startup \ {call[x].target}

MarkTargetClaimed(x) ==
    /\ At(x, "mark")
    /\ ClearsMarks(x)
    /\ End(x)
    /\ UNCHANGED <<page, leased, hiddenVars>> /\ ChromeWork

(***************************************************************************)
(* close_target, and the final close: list what is left; if only pages     *)
(* Chrome itself opened, Browser.close, wait for its process, terminate it *)
(* if it stays, and forget the client.                                     *)
(***************************************************************************)
CloseTarget(x) ==
    LET t == call[x].target
    IN /\ Doing(x, "close")
       /\ \/ /\ chrome[Endpoint(x)] = "up" /\ page[t].st = "open" /\ page[t].on = Endpoint(x)
             /\ page' = [page EXCEPT ![t].st = "going"]
             /\ Goto(x, "inventory") /\ UNCHANGED page_lifecycle
          \/ /\ Unanswered(Endpoint(x)) \/ page[t].st # "open" \/ page[t].on # Endpoint(x)
             /\ End(x) /\ UNCHANGED page
       /\ UNCHANGED <<synthetic, startup, leased, hiddenVars>> /\ ChromeWork

\* The close succeeds, and the registry commits it.
EndClosed(x) == End(x) /\ leased' = leased \ {call[x].target}

\* The inventory that no longer shows the page, or the one at the deadline.
InventoryAfterClose(x) ==
    /\ At(x, "inventory")
    /\ \/ /\ Listing(Endpoint(x))
          /\ call' = [call EXCEPT ![x].pc = "decide", ![x].seen = Listed(Endpoint(x))]
          /\ UNCHANGED <<page_lifecycle, leased>>
       \/ Unanswered(Endpoint(x)) /\ EndClosed(x) /\ UNCHANGED hiddenVars
    /\ UNCHANGED <<page, synthetic, startup>> /\ ChromeWork

\* managed_targets_are_disposable
Disposable(seen, syn, start) ==
    \A p \in seen : \/ p[2] = "startup" /\ p[1] \in start
                    \/ p[2] = "blank" /\ p[1] \in syn

\* managed_chrome_pid
ManagedPid == IF singleton_lock # None THEN singleton_lock ELSE pid_file

Decide(x) ==
    LET syn   == (synthetic \ {call[x].target}) \cap Ids(call[x].seen)
        start == startup \cap Ids(call[x].seen)
    IN /\ At(x, "decide")
       /\ synthetic' = syn /\ startup' = start
       /\ IF Disposable(call[x].seen, syn, start)
            THEN /\ call' = [call EXCEPT ![x].pc = "quit", ![x].pid = ManagedPid]
                 /\ UNCHANGED <<page_lifecycle, leased>>
            ELSE EndClosed(x)
       /\ UNCHANGED <<page, hiddenVars>> /\ ChromeWork

QuitUnchanged == UNCHANGED <<profile, fileVars, launch_lock, clientVars, page_lifecycle, leased,
                             hiddenVars>>
\* The broker tells a process to exit: one that has not taken the profile yet
\* never does.
Tell(x, b) ==
    /\ chrome' = [chrome EXCEPT ![b] = CASE @ = "spawned"           -> "released"
                                         [] @ \in {"starting", "up"} -> "closing"
                                         [] OTHER                    -> @]
    /\ told' = [told EXCEPT ![b] = call[x].seen]

CloseBrowser(x) ==
    /\ At(x, "quit")
    /\ \/ /\ chrome[Endpoint(x)] = "up"
          /\ Tell(x, Endpoint(x))
       \/ Unanswered(Endpoint(x)) /\ UNCHANGED <<chrome, told>>
    /\ Goto(x, "await")
    /\ UNCHANGED page /\ QuitUnchanged

\* wait_for_process_exit has seen the process gone, or no pid is known.
Exited(x) == ~Alive(call[x].pid)

AwaitExit(x) ==
    /\ call[x].pc \in {"await", "kill"} /\ Exited(x)
    /\ Goto(x, "forget")
    /\ UNCHANGED <<chrome, page, told>> /\ QuitUnchanged

\* terminate_process: SIGTERM, and SIGKILL for a process that stays.
Terminate(x) ==
    /\ At(x, "await") /\ Alive(call[x].pid)
    /\ Tell(x, call[x].pid)
    /\ Goto(x, "kill")
    /\ UNCHANGED page /\ QuitUnchanged

Kill(x) ==
    /\ At(x, "kill") /\ Alive(call[x].pid)
    /\ Dies(call[x].pid)
    /\ Goto(x, "forget") /\ QuitUnchanged

ForgetUnchanged == UNCHANGED <<profile, chrome, page, fileVars, launch_lock, client_lock,
                               hiddenVars, told>>
ForgetClient(x) ==
    /\ At(x, "forget") /\ client_lock = None
    /\ client' = None
    /\ Goto(x, "clear")
    /\ UNCHANGED <<synthetic, startup, page_lifecycle, leased>> /\ ForgetUnchanged

ClearSets(x) ==
    /\ At(x, "clear")
    /\ synthetic' = {} /\ startup' = {}
    /\ EndClosed(x)
    /\ UNCHANGED client /\ ForgetUnchanged

\* The broker dies, and with it its requests, locks and memory; a hidden page
\* lives as long as the connection that created it.  The next broker takes
\* longer to come than a launched Chrome to take its profile.
BrokerRestarts ==
    /\ May("restart") /\ \A b \in Browsers : chrome[b] # "spawned"
    /\ page' = [t \in Targets |-> IF page[t].kind = "hidden" THEN NoPage ELSE page[t]]
    /\ launch_lock' = None /\ client' = None /\ client_lock' = None /\ page_lifecycle' = None
    /\ synthetic' = {} /\ startup' = {} /\ leased' = {} /\ private' = {} /\ retiring' = {}
    /\ recorder' = [pc |-> "none", target |-> None]
    /\ call' = [x \in Calls |-> NoCall]
    /\ told' = [b \in Browsers |-> None]
    /\ UNCHANGED <<profile, chrome, fileVars>>

BrowserNext ==
    \/ \E b \in Browsers :
         \/ TakesProfile(b) \/ ComesUp(b) \/ Crashes(b) \/ HumanQuits(b) \/ HumanLaunches(b)
         \/ MuteQuits(b) \/ ReleasesProfile(b) \/ Exits(b)
         \/ \E t \in Targets, kind \in {"blank", "site"} : HumanOpens(t, b, kind)
    \/ \E t \in Targets : \/ \E kind \in {"blank", "site"} : Navigates(t, kind)
                          \/ HumanCloses(t) \/ Disappears(t) \/ LeaseEnds(t)
                          \/ CreateHiddenTarget(t)
    \/ BrokerRestarts \/ MarkPrivate \/ CloseHiddenTarget \/ MarkClosing
    \/ \E x \in Calls :
         \/ \E m \in Methods, t \in Maybe(Targets) : Begin(x, m, t)
         \/ ReserveLifecycle(x) \/ AcquireLaunchLock(x) \/ HealthyActiveEndpoint(x)
         \/ OwnedActiveEndpoint(x) \/ WaitForRelease(x) \/ BootChrome(x)
         \/ \E b \in Browsers : LaunchChrome(x, b)
         \/ LockClient(x) \/ ClassifyTargets(x)
         \/ ListTargets(x) \/ Return(x)
         \/ \E t \in Targets : CreateTarget(x, t)
         \/ PageTarget(x) \/ LeaseCreated(x)
         \/ TargetById(x) \/ ClaimTab(x) \/ MarkTargetClaimed(x)
         \/ CloseTarget(x) \/ InventoryAfterClose(x) \/ Decide(x) \/ CloseBrowser(x)
         \/ AwaitExit(x) \/ Terminate(x) \/ Kill(x) \/ ForgetClient(x) \/ ClearSets(x)

BrowserSpec == BrowserInit /\ [][BrowserNext]_browserVars

(***************************************************************************)
(* Properties.                                                             *)
(***************************************************************************)
\* The final close takes down no page that matters: while a Chrome the
\* broker told to exit is still there, none of its pages is leased, or was
\* created by a request, or was shown to the decision as a site or as the
\* human's.  (Comment of broker_claim_tab: "Otherwise a claim can succeed
\* after final-target disposal has decided to close the browser.")
FinalCloseSparesPages ==
    \A t \in Targets :
      (page[t].st = "open" /\ told[page[t].on] # None) =>
        /\ t \notin leased
        /\ page[t].origin # "vbl"
        /\ <<t, "site">> \notin told[page[t].on]
        /\ page[t].origin = "human" => t \notin Ids(told[page[t].on])

\* Chrome is launched only onto a free profile: no process launched before
\* is alive on it, still starting, answering or shutting down.
LaunchesFindAFreeProfile ==
    [][\A b \in Browsers :
         (chrome[b] = "none" /\ chrome'[b] = "spawned") =>
            \A c \in Browsers : chrome[c] \in {"none", "mute", "released"}]_browserVars

\* While Chrome is up, no inventory a request has of it shows a screencast's
\* recorder page, which would keep the final close from happening, and no
\* request is about to lease one.  (PrivateTargetInventory; what an old Chrome
\* that is shutting down still lists is not hidden from a second client.)
RecordersStayPrivate ==
    \A x \in Calls : (Endpoint(x) # None /\ chrome[Endpoint(x)] = "up") =>
        /\ \A p \in call[x].seen : p[2] # "hidden"
        /\ At(x, "claim") => page[call[x].target].kind # "hidden"
=============================================================================
