------------------------ MODULE ManagedBrowserProofs ------------------------
(***************************************************************************)
(* Proofs about ManagedBrowser, for any number of Chrome processes, pages  *)
(* and requests and any profiles: its types; that Chrome is launched only  *)
(* onto a free profile; and, where no human quits Chrome and the broker    *)
(* does not restart, that the final close takes down no page that matters  *)
(* and that recorders stay hidden from the inventories.                    *)
(***************************************************************************)
EXTENDS ManagedBrowser, TLAPS

(***************************************************************************)
(* Types.  A recorder that exists has a page, and a request that claims,   *)
(* closes or has created a page names it.                                  *)
(***************************************************************************)
RecorderHasPage == recorder.pc # "none" => recorder.target \in Targets

NamesPage(c) == c.method \in {"claim", "close"} \/ c.pc \in {"created", "lease", "claim"}

CallsHavePages == \A x \in Calls : NamesPage(call[x]) => call[x].target \in Targets

TypeInv == BrowserTypeOK /\ RecorderHasPage /\ CallsHavePages

LEMMA BornType ==
    ASSUME page \in [Targets -> PageRecord], NEW t \in Targets, NEW b \in Browsers,
           NEW kind \in Kinds, NEW origin \in {"chrome", "human", "vbl"}
    PROVE  Born(t, b, kind, origin) \in [Targets -> PageRecord]
<1>1. [st |-> "open", on |-> b, kind |-> kind, origin |-> origin] \in PageRecord
  BY DEF PageRecord, Maybe
<1> QED BY <1>1 DEF Born

LEMMA NoPageType == NoPage \in PageRecord
BY DEF NoPage, PageRecord, Maybe, Kinds

LEMMA GoneType ==
    ASSUME page \in [Targets -> PageRecord], NEW b
    PROVE  WithoutPagesOf(b) \in [Targets -> PageRecord]
BY NoPageType DEF WithoutPagesOf

\* A page that changes its state or its kind.
LEMMA PageChangeType ==
    ASSUME page \in [Targets -> PageRecord], NEW t,
           NEW st \in {"none", "open", "going"}, NEW kind \in Kinds
    PROVE  /\ [page EXCEPT ![t].st = st] \in [Targets -> PageRecord]
           /\ [page EXCEPT ![t].kind = kind] \in [Targets -> PageRecord]
<1>1. \A p \in PageRecord : /\ [p EXCEPT !.st = st] \in PageRecord
                            /\ [p EXCEPT !.kind = kind] \in PageRecord
  BY DEF PageRecord
<1> QED BY <1>1

LEMMA SeenType ==
    ASSUME page \in [Targets -> PageRecord], NEW b
    PROVE  Listed(b) \in SUBSET (Targets \X Kinds)
<1>1. \A t \in Targets : page[t].kind \in Kinds
  BY DEF PageRecord
<1> QED BY <1>1 DEF Listed, PagesOf

(***************************************************************************)
(* The steps of a request.                                                 *)
(***************************************************************************)
\* x becomes the record c, and the other requests stay.
Becomes(x, c) == call' = [call EXCEPT ![x] = c]

\* The part of the type invariant about requests, after x became c.
LEMMA BecomesType ==
    ASSUME TypeInv, NEW x \in Calls, NEW c \in CallRecord, Becomes(x, c),
           NamesPage(c) => c.target \in Targets
    PROVE  /\ call' \in [Calls -> CallRecord] /\ CallsHavePages'
           /\ call'[x] = c /\ \A y \in Calls \ {x} : call'[y] = call[y]
<1>1. call \in [Calls -> CallRecord]
  BY DEF TypeInv, BrowserTypeOK
<1>2. /\ call' \in [Calls -> CallRecord]
      /\ call'[x] = c /\ \A y \in Calls \ {x} : call'[y] = call[y]
  BY <1>1 DEF Becomes
<1>3. CallsHavePages'
  BY <1>2 DEF CallsHavePages, TypeInv
<1> QED BY <1>2, <1>3

LEMMA NoCallType == NoCall \in CallRecord /\ ~NamesPage(NoCall)
BY DEF NoCall, CallRecord, Pcs, Methods, Maybe, NamesPage

LEMMA EndType ==
    ASSUME TypeInv, NEW x \in Calls, End(x)
    PROVE  /\ call' \in [Calls -> CallRecord] /\ CallsHavePages'
           /\ call'[x] = NoCall /\ \A y \in Calls \ {x} : call'[y] = call[y]
           /\ page_lifecycle' \in Maybe(Calls)
<1>1. Becomes(x, NoCall)
  BY DEF End, Becomes
<1>2. page_lifecycle' \in Maybe(Calls)
  BY DEF End, Maybe, TypeInv, BrowserTypeOK
<1> QED BY <1>1, <1>2, NoCallType, BecomesType

LEMMA GotoType ==
    ASSUME TypeInv, NEW x \in Calls, NEW pc \in Pcs, Goto(x, pc),
           pc \in {"created", "lease", "claim"} => call[x].target \in Targets
    PROVE  /\ call' \in [Calls -> CallRecord] /\ CallsHavePages'
           /\ call'[x].pc = pc /\ \A y \in Calls \ {x} : call'[y] = call[y]
<1> DEFINE c == [call[x] EXCEPT !.pc = pc]
<1>1. call[x] \in CallRecord /\ (NamesPage(call[x]) => call[x].target \in Targets)
  BY DEF TypeInv, BrowserTypeOK, CallsHavePages
<1>2. c \in CallRecord /\ c.pc = pc /\ c.method = call[x].method /\ c.target = call[x].target
  BY <1>1 DEF CallRecord
<1>3. NamesPage(c) => c.target \in Targets
  BY <1>1, <1>2 DEF NamesPage
<1>4. Becomes(x, c)
  BY DEF Goto, Becomes
<1> QED BY <1>2, <1>3, <1>4, BecomesType

(***************************************************************************)
(* Chrome's own steps, the pages', the recorder's.                         *)
(***************************************************************************)
Told == [Browsers -> Maybe(SUBSET (Targets \X Kinds))]

LEMMA DiesType ==
    ASSUME TypeInv, NEW b, Dies(b)
    PROVE  /\ chrome' \in [Browsers -> ChromeStates] /\ page' \in [Targets -> PageRecord]
           /\ told' \in Told
<1>1. page' \in [Targets -> PageRecord]
  BY GoneType DEF Dies, TypeInv, BrowserTypeOK
<1>2. chrome' \in [Browsers -> ChromeStates]
  BY DEF Dies, TypeInv, BrowserTypeOK, ChromeStates
<1>3. told' \in Told
  BY DEF Dies, TypeInv, BrowserTypeOK, Maybe, Told
<1> QED BY <1>1, <1>2, <1>3

\* The variables Chrome's processes do not touch keep their types.
LEMMA ChromeStepType ==
    ASSUME TypeInv, ChromeUnchanged, chrome' \in [Browsers -> ChromeStates],
           page' \in [Targets -> PageRecord], told' \in Told,
           {singleton_lock, active_port}' \subseteq Maybe(Browsers)
    PROVE  TypeInv'
BY DEF TypeInv, BrowserTypeOK, RecorderHasPage, CallsHavePages, ChromeUnchanged, clientVars,
       hiddenVars, Told

LEMMA ProcessesType ==
    ASSUME TypeInv, NEW b \in Browsers,
           \/ TakesProfile(b) \/ ComesUp(b) \/ Crashes(b) \/ HumanQuits(b) \/ HumanLaunches(b)
           \/ MuteQuits(b) \/ ReleasesProfile(b) \/ Exits(b)
    PROVE  TypeInv'
<1>t. /\ chrome \in [Browsers -> ChromeStates] /\ page \in [Targets -> PageRecord] /\ told \in Told
      /\ {singleton_lock, active_port} \subseteq Maybe(Browsers)
      /\ {b, None} \subseteq Maybe(Browsers)
  BY DEF TypeInv, BrowserTypeOK, Told, Maybe
<1>1. CASE Crashes(b) \/ MuteQuits(b) \/ Exits(b)
  BY <1>1, <1>t, DiesType, ChromeStepType DEF Crashes, MuteQuits, Exits
<1>2. CASE ComesUp(b)
  <2>1. PICK t \in Targets, kind \in {"startup", "blank"} : page' = Born(t, b, kind, "chrome")
    BY <1>2 DEF ComesUp, FreshTargets
  <2>2. page' \in [Targets -> PageRecord]
    BY <1>t, <2>1, BornType DEF Kinds
  <2>3. chrome' \in [Browsers -> ChromeStates] /\ told' \in Told
        /\ {singleton_lock, active_port}' \subseteq Maybe(Browsers)
    BY <1>2, <1>t DEF ComesUp, ChromeStates
  <2> QED BY <1>2, <2>2, <2>3, ChromeStepType DEF ComesUp
<1>3. CASE TakesProfile(b) \/ HumanQuits(b) \/ HumanLaunches(b) \/ ReleasesProfile(b)
  <2>1. chrome' \in [Browsers -> ChromeStates]
    BY <1>3, <1>t DEF TakesProfile, HumanQuits, HumanLaunches, ReleasesProfile, ChromeStates
  <2>2. page' = page /\ told' = told /\ {singleton_lock, active_port}' \subseteq Maybe(Browsers)
    BY <1>3, <1>t DEF TakesProfile, HumanQuits, HumanLaunches, ReleasesProfile
  <2> QED BY <1>3, <1>t, <2>1, <2>2, ChromeStepType
          DEF TakesProfile, HumanQuits, HumanLaunches, ReleasesProfile
<1> QED BY <1>1, <1>2, <1>3

PageStep ==
    \/ \E b \in Browsers, t \in Targets, kind \in {"blank", "site"} : HumanOpens(t, b, kind)
    \/ \E t \in Targets : \/ \E kind \in {"blank", "site"} : Navigates(t, kind)
                          \/ HumanCloses(t) \/ Disappears(t) \/ LeaseEnds(t)

LEMMA PagesType ==
    ASSUME TypeInv, PageStep
    PROVE  TypeInv'
<1>t. page \in [Targets -> PageRecord] /\ leased \subseteq Targets
  BY DEF TypeInv, BrowserTypeOK
<1>1. page' \in [Targets -> PageRecord] /\ leased' \subseteq Targets /\ PagesUnchanged
  <2>1. ASSUME NEW b \in Browsers, NEW t \in Targets, NEW kind \in {"blank", "site"},
               HumanOpens(t, b, kind)
        PROVE  page' \in [Targets -> PageRecord] /\ leased' \subseteq Targets /\ PagesUnchanged
    <3>1. PICK origin \in {"chrome", "human", "vbl"} : page' = Born(t, b, kind, origin)
      BY <2>1 DEF HumanOpens
    <3> QED BY <1>t, <2>1, <3>1, BornType DEF HumanOpens, Kinds
  <2>2. ASSUME NEW t \in Targets, NEW kind \in {"blank", "site"}, Navigates(t, kind)
        PROVE  page' \in [Targets -> PageRecord] /\ leased' \subseteq Targets /\ PagesUnchanged
    BY <1>t, <2>2, PageChangeType DEF Navigates, Kinds
  <2>3. ASSUME NEW t \in Targets, HumanCloses(t) \/ Disappears(t) \/ LeaseEnds(t)
        PROVE  page' \in [Targets -> PageRecord] /\ leased' \subseteq Targets /\ PagesUnchanged
    BY <1>t, <2>3, NoPageType DEF HumanCloses, Disappears, LeaseEnds
  <2> QED BY <2>1, <2>2, <2>3 DEF PageStep
<1> QED BY <1>1 DEF TypeInv, BrowserTypeOK, RecorderHasPage, CallsHavePages, PagesUnchanged,
                    fileVars, clientVars, hiddenVars

RecorderStep ==
    \/ \E t \in Targets : CreateHiddenTarget(t)
    \/ MarkPrivate \/ CloseHiddenTarget \/ MarkClosing

LEMMA RecorderType ==
    ASSUME TypeInv, RecorderStep
    PROVE  TypeInv'
<1>t. page \in [Targets -> PageRecord] /\ retiring \subseteq private /\ private \subseteq Targets
      /\ client \in Maybe(Browsers)
      /\ recorder \in [pc : {"none", "creating", "recording", "closing"}, target : Maybe(Targets)]
      /\ (recorder.pc # "none" => recorder.target \in Targets)
  BY DEF TypeInv, BrowserTypeOK, RecorderHasPage
<1>1. /\ page' \in [Targets -> PageRecord]
      /\ retiring' \subseteq private' /\ private' \subseteq Targets
      /\ recorder' \in [pc : {"none", "creating", "recording", "closing"}, target : Maybe(Targets)]
      /\ (recorder'.pc # "none" => recorder'.target \in Targets)
      /\ RecorderUnchanged
  <2>1. ASSUME NEW t \in Targets, CreateHiddenTarget(t)
        PROVE  page' \in [Targets -> PageRecord]
    BY <1>t, <2>1, BornType DEF CreateHiddenTarget, Maybe, Kinds
  <2>2. ASSUME NEW t \in Targets, CreateHiddenTarget(t)
        PROVE  /\ recorder' = [pc |-> "creating", target |-> t]
               /\ private' = private /\ retiring' = retiring /\ RecorderUnchanged
    BY <2>2 DEF CreateHiddenTarget
  <2>3. CASE MarkPrivate
    BY <1>t, <2>3 DEF MarkPrivate, RecorderUnchanged
  <2>4. CASE CloseHiddenTarget
    <3>1. page' = page \/ \E st \in {"none", "open", "going"} :
                            page' = [page EXCEPT ![recorder.target].st = st]
      BY <1>t, <2>4 DEF CloseHiddenTarget, PageRecord
    <3>2. page' \in [Targets -> PageRecord]
      <4>1. \A st \in {"none", "open", "going"} :
               [page EXCEPT ![recorder.target].st = st] \in [Targets -> PageRecord]
        BY <1>t, PageChangeType DEF Kinds
      <4> QED BY <1>t, <3>1, <4>1
    <3> QED BY <1>t, <2>4, <3>2 DEF CloseHiddenTarget
  <2>5. CASE MarkClosing
    BY <1>t, <2>5 DEF MarkClosing, Maybe
  <2> QED BY <1>t, <2>1, <2>2, <2>3, <2>4, <2>5 DEF RecorderStep, Maybe
<1> QED BY <1>1 DEF TypeInv, BrowserTypeOK, RecorderHasPage, CallsHavePages, RecorderUnchanged,
                    fileVars, clientVars

(***************************************************************************)
(* The steps of a request outside the launch section: where the request    *)
(* goes, and the types.                                                    *)
(***************************************************************************)
LaunchPcs == {"probe", "owned", "held", "launch", "boot"}

\* What x's step does to the requests.
CallPart(x) ==
    /\ call' \in [Calls -> CallRecord] /\ CallsHavePages'
    /\ call'[x].pc \notin LaunchPcs
    /\ \A y \in Calls \ {x} : call'[y] = call[y]
    /\ page_lifecycle' \in Maybe(Calls)

\* The types of the other variables a request may change.
DataPart ==
    /\ chrome' \in [Browsers -> ChromeStates] /\ told' \in Told
    /\ page' \in [Targets -> PageRecord]
    /\ client' \in Maybe(Browsers) /\ client_lock' \in Maybe(Calls)
    /\ synthetic' \subseteq Targets /\ startup' \subseteq Targets /\ leased' \subseteq Targets
    /\ private' \subseteq Targets /\ retiring' \subseteq private'
    /\ UNCHANGED <<profile, fileVars, launch_lock, recorder>>

LEMMA PartsType ==
    ASSUME TypeInv, NEW x \in Calls, CallPart(x), DataPart
    PROVE  TypeInv'
BY DEF TypeInv, BrowserTypeOK, RecorderHasPage, CallPart, DataPart, fileVars, Told

LEMMA Ends ==
    ASSUME TypeInv, NEW x \in Calls, End(x)
    PROVE  CallPart(x)
BY EndType DEF CallPart, NoCall, LaunchPcs

LEMMA GoesOn ==
    ASSUME TypeInv, NEW x \in Calls, NEW pc \in Pcs \ LaunchPcs, Goto(x, pc),
           pc \in {"created", "lease", "claim"} => call[x].target \in Targets,
           page_lifecycle' \in {page_lifecycle, None, x}
    PROVE  CallPart(x)
<1>1. page_lifecycle' \in Maybe(Calls)
  BY DEF TypeInv, BrowserTypeOK, Maybe
<1> QED BY <1>1, GotoType DEF CallPart

\* The other records a request becomes.
LEMMA Turns ==
    ASSUME TypeInv, NEW x \in Calls, NEW c \in CallRecord, Becomes(x, c),
           c.pc \notin LaunchPcs, NamesPage(c) => c.target \in Targets,
           page_lifecycle' = page_lifecycle
    PROVE  CallPart(x)
BY BecomesType DEF CallPart, TypeInv, BrowserTypeOK

LEMMA ListingType ==
    ASSUME TypeInv, NEW b, Listing(b)
    PROVE  private' \subseteq Targets /\ retiring' \subseteq private' /\ recorder' = recorder
<1>1. private \subseteq Targets /\ retiring \subseteq private
  BY DEF TypeInv, BrowserTypeOK
<1> QED BY <1>1 DEF Listing, Marked, StillClosing

\* The types of the data before the step.
LEMMA DataBefore ==
    ASSUME TypeInv
    PROVE  /\ chrome \in [Browsers -> ChromeStates] /\ told \in Told
           /\ page \in [Targets -> PageRecord]
           /\ client \in Maybe(Browsers) /\ client_lock \in Maybe(Calls)
           /\ page_lifecycle \in Maybe(Calls)
           /\ synthetic \subseteq Targets /\ startup \subseteq Targets /\ leased \subseteq Targets
           /\ private \subseteq Targets /\ retiring \subseteq private
BY DEF TypeInv, BrowserTypeOK, Told

LEMMA CallBefore ==
    ASSUME TypeInv, NEW x \in Calls
    PROVE  /\ call[x] \in CallRecord
           /\ NamesPage(call[x]) => call[x].target \in Targets
BY DEF TypeInv, BrowserTypeOK, CallsHavePages

\* x's step, outside the launch section.
Quiet(x) == call[x].pc \notin LaunchPcs /\ CallPart(x) /\ DataPart

LEMMA StartType ==
    ASSUME TypeInv, NEW x \in Calls,
           (\E m \in Methods, t \in Maybe(Targets) : Begin(x, m, t)) \/ ReserveLifecycle(x)
    PROVE  Quiet(x) /\ chrome' = chrome
<1>1. DataPart /\ chrome' = chrome
  BY DataBefore DEF Begin, ReserveLifecycle, OnlyCalls, DataPart, clientVars, hiddenVars
<1>2. ASSUME NEW m \in Methods, NEW t \in Maybe(Targets), Begin(x, m, t)
      PROVE  call[x].pc \notin LaunchPcs /\ CallPart(x)
  <2>1. PICK c \in CallRecord : /\ Becomes(x, c) /\ c.pc \in {"reserve", "ensure"}
                                /\ c.method = m /\ c.target = t
    <3> DEFINE c == [NoCall EXCEPT !.method = m, !.target = t,
                                   !.pc = IF NeedsLifecycle(m) THEN "reserve" ELSE "ensure"]
    <3>1. c \in CallRecord /\ c.pc \in {"reserve", "ensure"} /\ c.method = m /\ c.target = t
      BY NoCallType DEF CallRecord, Pcs, NoCall
    <3>2. Becomes(x, c)
      BY <1>2 DEF Begin, Becomes
    <3> QED BY <3>1, <3>2
  <2>2. m \in {"claim", "close"} => t \in Targets
    BY <1>2, DataBefore DEF Begin, Maybe
  <2>3. page_lifecycle' = page_lifecycle /\ call[x].pc \notin LaunchPcs
    BY <1>2 DEF Begin, At, LaunchPcs
  <2>4. NamesPage(c) => c.target \in Targets
    BY <2>1, <2>2 DEF NamesPage
  <2>5. c.pc \notin LaunchPcs
    BY <2>1 DEF LaunchPcs
  <2> QED BY <2>1, <2>3, <2>4, <2>5, Turns
<1>3. CASE ReserveLifecycle(x)
  <2>1. Goto(x, "ensure") /\ page_lifecycle' = x /\ call[x].pc = "reserve"
    BY <1>3 DEF ReserveLifecycle, At
  <2> QED BY <1>1, <2>1, GoesOn DEF LaunchPcs, Pcs, Quiet
<1> QED BY <1>1, <1>2, <1>3 DEF Quiet

LEMMA ClientType ==
    ASSUME TypeInv, NEW x \in Calls, LockClient(x) \/ ClassifyTargets(x)
    PROVE  Quiet(x) /\ chrome' = chrome
<1>1. CASE LockClient(x)
  <2>1. \/ Goto(x, "op") /\ client_lock' = client_lock
        \/ Goto(x, "classify") /\ client_lock' = x
    BY <1>1 DEF LockClient
  <2>2. call[x].pc \notin LaunchPcs /\ CallPart(x)
    BY <1>1, <2>1, GoesOn DEF LockClient, OnlyClient, At, LaunchPcs, Pcs
  <2>3. DataPart /\ chrome' = chrome
    BY <1>1, <2>1, DataBefore DEF LockClient, OnlyClient, DataPart, hiddenVars, Maybe
  <2> QED BY <2>2, <2>3 DEF Quiet
<1>2. CASE ClassifyTargets(x)
  <2>1. (Goto(x, "op") /\ page_lifecycle' = page_lifecycle) \/ End(x)
    BY <1>2 DEF ClassifyTargets
  <2>2. call[x].pc \notin LaunchPcs /\ CallPart(x)
    BY <1>2, <2>1, GoesOn, Ends DEF ClassifyTargets, At, LaunchPcs, Pcs
  <2>3. Endpoint(x) \in Maybe(Browsers)
    BY CallBefore DEF CallRecord, Endpoint
  <2> DEFINE seen == {<<t, page[t].kind>> : t \in PagesOf(Endpoint(x))}
  <2>4. \A kind : OfKind(seen, kind) \subseteq Targets
    BY DEF OfKind, PagesOf
  <2>5. ReplacementTargets(seen, call[x].reused) \subseteq Targets
    BY <2>4 DEF ReplacementTargets
  <2>6. /\ synthetic' \subseteq Targets /\ startup' \subseteq Targets
        /\ client' \in Maybe(Browsers) /\ client_lock' \in Maybe(Calls)
        /\ private' \subseteq Targets /\ retiring' \subseteq private' /\ recorder' = recorder
    BY <1>2, <2>3, <2>4, <2>5, DataBefore DEF ClassifyTargets, Endpoint, hiddenVars, Maybe
  <2>7. UNCHANGED <<profile, chrome, page, fileVars, launch_lock, leased, told>>
    BY <1>2 DEF ClassifyTargets
  <2>8. DataPart /\ chrome' = chrome
    BY <2>6, <2>7, DataBefore DEF DataPart
  <2> QED BY <2>2, <2>8 DEF Quiet
<1> QED BY <1>1, <1>2

LEMMA InventoryType ==
    ASSUME TypeInv, NEW x \in Calls,
           \/ ListTargets(x) \/ Return(x) \/ PageTarget(x) \/ LeaseCreated(x)
           \/ TargetById(x) \/ ClaimTab(x) \/ MarkTargetClaimed(x)
           \/ \E t \in Targets : CreateTarget(x, t)
    PROVE  Quiet(x) /\ chrome' = chrome
<1>0. call[x] \in CallRecord /\ (NamesPage(call[x]) => call[x].target \in Targets)
  BY CallBefore
<1>1. CASE ListTargets(x)
  <2> DEFINE c == [call[x] EXCEPT !.pc = "listed", !.seen = Listed(Endpoint(x))]
  <2>1. \/ /\ Listing(Endpoint(x)) /\ Becomes(x, c) /\ page_lifecycle' = page_lifecycle
        \/ End(x) /\ UNCHANGED hiddenVars
    BY <1>1 DEF ListTargets, Becomes
  <2>2. c \in CallRecord /\ c.pc = "listed" /\ (NamesPage(c) => c.target \in Targets)
    BY <1>0, SeenType, DataBefore DEF CallRecord, Pcs, NamesPage
  <2>3. CallPart(x)
    <3>1. c.pc \notin LaunchPcs
      BY <2>2 DEF LaunchPcs
    <3> HIDE DEF c
    <3> QED BY <2>1, <2>2, <3>1, Turns, Ends
  <2>4. call[x].pc \notin LaunchPcs
    BY <1>1 DEF ListTargets, Doing, At, LaunchPcs
  <2>5. private' \subseteq Targets /\ retiring' \subseteq private' /\ recorder' = recorder
    BY <2>1, ListingType, DataBefore DEF hiddenVars
  <2> QED BY <1>1, <2>3, <2>4, <2>5, DataBefore DEF ListTargets, ChromeWork, DataPart, Quiet
<1>2. CASE Return(x)
  BY <1>2, Ends, DataBefore DEF Return, ChromeWork, hiddenVars, DataPart, Quiet, At, LaunchPcs
<1>3. ASSUME NEW t \in Targets, CreateTarget(x, t)
      PROVE  Quiet(x) /\ chrome' = chrome
  <2> DEFINE c == [call[x] EXCEPT !.pc = "created", !.target = t]
  <2>1. \/ /\ chrome[Endpoint(x)] = "up" /\ page' = Born(t, Endpoint(x), "site", "vbl")
           /\ Becomes(x, c) /\ page_lifecycle' = page_lifecycle
        \/ End(x) /\ page' = page
    BY <1>3 DEF CreateTarget, Becomes
  <2>2. c \in CallRecord /\ c.pc = "created" /\ c.target \in Targets
    BY <1>0 DEF CallRecord, Pcs, Maybe
  <2>3. CallPart(x)
    <3>1. c.pc \notin LaunchPcs
      BY <2>2 DEF LaunchPcs
    <3> HIDE DEF c
    <3> QED BY <2>1, <2>2, <3>1, Turns, Ends
  <2>4. call[x].pc \notin LaunchPcs
    BY <1>3 DEF CreateTarget, Doing, At, LaunchPcs
  <2>5. page' \in [Targets -> PageRecord]
    <3>1. CASE page' = Born(t, Endpoint(x), "site", "vbl") /\ Endpoint(x) \in Browsers
      BY <3>1, BornType, DataBefore DEF Kinds
    <3>2. CASE page' = Born(t, Endpoint(x), "site", "vbl") /\ Endpoint(x) = None
      <4>1. [st |-> "open", on |-> None, kind |-> "site", origin |-> "vbl"] \in PageRecord
        BY DEF PageRecord, Maybe, Kinds
      <4> QED BY <3>2, <4>1, DataBefore DEF Born
    <3>3. Endpoint(x) \in Maybe(Browsers)
      BY <1>0 DEF CallRecord, Endpoint
    <3> QED BY <2>1, <3>1, <3>2, <3>3, DataBefore DEF Maybe
  <2> QED BY <1>3, <2>3, <2>4, <2>5, DataBefore
          DEF CreateTarget, ChromeWork, DataPart, Quiet, hiddenVars
<1>4. CASE PageTarget(x)
  <2>1. \/ /\ Listing(Endpoint(x)) /\ Goto(x, "lease") /\ page_lifecycle' = None
           /\ synthetic' \subseteq synthetic
        \/ Listing(Endpoint(x)) /\ End(x) /\ synthetic' = synthetic
        \/ End(x) /\ UNCHANGED <<synthetic, hiddenVars>>
    BY <1>4 DEF PageTarget
  <2>2. call[x].pc = "created" /\ call[x].target \in Targets
    BY <1>0, <1>4 DEF PageTarget, At, NamesPage
  <2>3. CallPart(x) /\ call[x].pc \notin LaunchPcs
    BY <2>1, <2>2, GoesOn, Ends DEF LaunchPcs, Pcs
  <2>4. private' \subseteq Targets /\ retiring' \subseteq private' /\ recorder' = recorder
        /\ synthetic' \subseteq Targets
    BY <2>1, ListingType, DataBefore DEF hiddenVars
  <2> QED BY <1>4, <2>3, <2>4, DataBefore DEF PageTarget, ChromeWork, DataPart, Quiet
<1>5. CASE LeaseCreated(x)
  <2>1. call[x].pc = "lease" /\ call[x].target \in Targets
    BY <1>0, <1>5 DEF LeaseCreated, At, NamesPage
  <2>2. CallPart(x) /\ call[x].pc \notin LaunchPcs
    BY <1>5, <2>1, Ends DEF LeaseCreated, LaunchPcs
  <2> QED BY <1>5, <2>1, <2>2, DataBefore DEF LeaseCreated, ChromeWork, DataPart, Quiet, hiddenVars
<1>6. CASE TargetById(x)
  <2>1. \/ Listing(Endpoint(x)) /\ Goto(x, "claim") /\ page_lifecycle' = page_lifecycle
        \/ Listing(Endpoint(x)) /\ End(x)
        \/ End(x) /\ UNCHANGED hiddenVars
    BY <1>6 DEF TargetById
  <2>2. call[x].target \in Targets /\ call[x].pc \notin LaunchPcs
    BY <1>0, <1>6 DEF TargetById, Doing, At, NamesPage, LaunchPcs
  <2>4. CallPart(x)
    BY <2>1, <2>2, GoesOn, Ends DEF LaunchPcs, Pcs
  <2>3. private' \subseteq Targets /\ retiring' \subseteq private' /\ recorder' = recorder
    BY <2>1, ListingType, DataBefore DEF hiddenVars
  <2> QED BY <1>6, <2>2, <2>3, <2>4, DataBefore DEF TargetById, ChromeWork, DataPart, Quiet
<1>7. CASE ClaimTab(x)
  <2>1. \/ /\ leased' = leased \cup {call[x].target} /\ ~Closing(call[x].target)
           /\ Goto(x, "mark") /\ page_lifecycle' = page_lifecycle
        \/ End(x) /\ leased' = leased
    BY <1>7 DEF ClaimTab
  <2>2. CallPart(x) /\ call[x].pc \notin LaunchPcs
    BY <1>7, <2>1, GoesOn, Ends DEF LaunchPcs, Pcs, ClaimTab, At
  <2>3. leased' \subseteq Targets
    BY <1>7, <1>0, <2>1, DataBefore DEF ClaimTab, At, NamesPage
  <2> QED BY <1>7, <2>2, <2>3, DataBefore DEF ClaimTab, ChromeWork, DataPart, Quiet, hiddenVars
<1>8. CASE MarkTargetClaimed(x)
  <2>1. synthetic' \subseteq synthetic /\ startup' \subseteq startup /\ End(x)
        /\ call[x].pc \notin LaunchPcs
    BY <1>8 DEF MarkTargetClaimed, ClearsMarks, At, LaunchPcs
  <2> QED BY <1>8, <2>1, Ends, DataBefore
          DEF MarkTargetClaimed, ChromeWork, DataPart, Quiet, hiddenVars
<1> QED BY <1>1, <1>2, <1>3, <1>4, <1>5, <1>6, <1>7, <1>8

\* close_target and the final close, up to the command to Chrome.
LEMMA CloseType ==
    ASSUME TypeInv, NEW x \in Calls,
           \/ CloseTarget(x) \/ InventoryAfterClose(x) \/ Decide(x)
           \/ AwaitExit(x) \/ ForgetClient(x) \/ ClearSets(x)
    PROVE  Quiet(x) /\ chrome' = chrome
<1>0. call[x] \in CallRecord /\ (NamesPage(call[x]) => call[x].target \in Targets)
  BY CallBefore
<1>1. CASE CloseTarget(x)
  <2>1. \/ Goto(x, "inventory") /\ page_lifecycle' = page_lifecycle
           /\ page' = [page EXCEPT ![call[x].target].st = "going"]
        \/ End(x) /\ page' = page
    BY <1>1 DEF CloseTarget
  <2>2. CallPart(x) /\ call[x].pc \notin LaunchPcs
    BY <1>1, <2>1, GoesOn, Ends DEF LaunchPcs, Pcs, CloseTarget, Doing, At
  <2>3. page' \in [Targets -> PageRecord]
    <3>1. [page EXCEPT ![call[x].target].st = "going"] \in [Targets -> PageRecord]
      BY PageChangeType, DataBefore DEF Kinds
    <3> QED BY <2>1, <3>1, DataBefore
  <2> QED BY <1>1, <2>2, <2>3, DataBefore DEF CloseTarget, ChromeWork, DataPart, Quiet, hiddenVars
<1>2. CASE InventoryAfterClose(x)
  <2> DEFINE c == [call[x] EXCEPT !.pc = "decide", !.seen = Listed(Endpoint(x))]
  <2>1. \/ /\ Listing(Endpoint(x)) /\ Becomes(x, c)
           /\ page_lifecycle' = page_lifecycle /\ leased' = leased
        \/ End(x) /\ leased' \subseteq leased /\ UNCHANGED hiddenVars
    BY <1>2 DEF InventoryAfterClose, Becomes, EndClosed
  <2>2. c \in CallRecord /\ c.pc = "decide" /\ (NamesPage(c) => c.target \in Targets)
    BY <1>0, SeenType, DataBefore DEF CallRecord, Pcs, NamesPage
  <2>3. CallPart(x)
    <3>1. c.pc \notin LaunchPcs
      BY <2>2 DEF LaunchPcs
    <3> HIDE DEF c
    <3> QED BY <2>1, <2>2, <3>1, Turns, Ends
  <2>4. call[x].pc \notin LaunchPcs
    BY <1>2 DEF InventoryAfterClose, At, LaunchPcs
  <2>5. private' \subseteq Targets /\ retiring' \subseteq private' /\ recorder' = recorder
        /\ leased' \subseteq Targets
    BY <2>1, ListingType, DataBefore DEF hiddenVars
  <2> QED BY <1>2, <2>3, <2>4, <2>5, DataBefore DEF InventoryAfterClose, ChromeWork, DataPart, Quiet
<1>3. CASE Decide(x)
  <2> DEFINE c == [call[x] EXCEPT !.pc = "quit", !.pid = ManagedPid]
  <2>1. \/ Becomes(x, c) /\ UNCHANGED <<page_lifecycle, leased>>
        \/ End(x) /\ leased' \subseteq leased
    BY <1>3 DEF Decide, Becomes, EndClosed
  <2>2. c \in CallRecord /\ c.pc = "quit" /\ (NamesPage(c) => c.target \in Targets)
    <3>1. ManagedPid \in Maybe(Browsers)
      BY DEF ManagedPid, TypeInv, BrowserTypeOK
    <3> QED BY <1>0, <3>1 DEF CallRecord, Pcs, NamesPage
  <2>3. CallPart(x)
    <3>1. c.pc \notin LaunchPcs
      BY <2>2 DEF LaunchPcs
    <3> HIDE DEF c
    <3> QED BY <2>1, <2>2, <3>1, Turns, Ends
  <2>4. call[x].pc \notin LaunchPcs
    BY <1>3 DEF Decide, At, LaunchPcs
  <2>5. synthetic' \subseteq synthetic /\ startup' \subseteq startup
    BY <1>3 DEF Decide
  <2>6. leased' \subseteq Targets
    BY <2>1, DataBefore
  <2> QED BY <1>3, <2>3, <2>4, <2>5, <2>6, DataBefore DEF Decide, ChromeWork, DataPart, Quiet, hiddenVars
<1>4. CASE AwaitExit(x)
  <2>1. CallPart(x) /\ call[x].pc \notin LaunchPcs
    BY <1>4, GoesOn DEF AwaitExit, QuitUnchanged, LaunchPcs, Pcs
  <2> QED BY <1>4, <2>1, DataBefore DEF AwaitExit, QuitUnchanged, clientVars, hiddenVars, DataPart, Quiet
<1>5. CASE ForgetClient(x)
  <2>1. CallPart(x) /\ call[x].pc \notin LaunchPcs
    BY <1>5, GoesOn DEF ForgetClient, At, LaunchPcs, Pcs
  <2>2. client' \in Maybe(Browsers)
    BY <1>5 DEF ForgetClient, Maybe
  <2> QED BY <1>5, <2>1, <2>2, DataBefore DEF ForgetClient, ForgetUnchanged, hiddenVars, DataPart, Quiet
<1>6. CASE ClearSets(x)
  <2>1. CallPart(x) /\ call[x].pc \notin LaunchPcs /\ leased' \subseteq leased
    BY <1>6, Ends DEF ClearSets, EndClosed, At, LaunchPcs
  <2> QED BY <1>6, <2>1, DataBefore DEF ClearSets, ForgetUnchanged, hiddenVars, DataPart, Quiet
<1> QED BY <1>1, <1>2, <1>3, <1>4, <1>5, <1>6

\* The processes the broker tells to exit, or kills.
LEMMA QuitType ==
    ASSUME TypeInv, NEW x \in Calls, CloseBrowser(x) \/ Terminate(x) \/ Kill(x)
    PROVE  Quiet(x)
<1>1. /\ chrome' \in [Browsers -> ChromeStates] /\ page' \in [Targets -> PageRecord]
      /\ told' \in Told
  <2>1. CASE Kill(x)
    BY <2>1, DiesType DEF Kill
  <2>2. ASSUME NEW b, Tell(x, b)
        PROVE  chrome' \in [Browsers -> ChromeStates] /\ told' \in Told
    <3>1. call[x].seen \in SUBSET (Targets \X Kinds)
      BY CallBefore DEF CallRecord
    <3>2. told' \in Told
      BY <2>2, <3>1, DataBefore DEF Tell, Told, Maybe
    <3>3. chrome' \in [Browsers -> ChromeStates]
      BY <2>2, DataBefore DEF Tell, ChromeStates
    <3> QED BY <3>2, <3>3
  <2>3. CASE CloseBrowser(x) \/ Terminate(x)
    BY <2>2, <2>3, DataBefore DEF CloseBrowser, Terminate
  <2> QED BY <2>1, <2>3
<1>2. QuitUnchanged /\ call[x].pc \notin LaunchPcs
      /\ \E pc \in {"await", "kill", "forget"} : Goto(x, pc)
  BY DEF CloseBrowser, Terminate, Kill, At, LaunchPcs
<1>3. CallPart(x)
  BY <1>2, GoesOn DEF QuitUnchanged, LaunchPcs, Pcs
<1> QED BY <1>1, <1>2, <1>3, DataBefore DEF QuitUnchanged, clientVars, hiddenVars, DataPart, Quiet

(***************************************************************************)
(* The launch section: where a request goes in it, and the types.          *)
(***************************************************************************)
\* The types of what the launch section may change, besides Chrome.
LaunchPart ==
    /\ call' \in [Calls -> CallRecord] /\ CallsHavePages'
    /\ page_lifecycle' \in Maybe(Calls) /\ launch_lock' \in Maybe(Calls)
    /\ {singleton_lock, active_port, pid_file}' \subseteq Maybe(Browsers)
    /\ LaunchUnchanged

OthersStay(x) == \A y \in Calls \ {x} : call'[y] = call[y]

LEMMA LaunchPartType ==
    ASSUME TypeInv, LaunchPart, chrome' \in [Browsers -> ChromeStates]
    PROVE  TypeInv'
BY DEF TypeInv, BrowserTypeOK, RecorderHasPage, LaunchPart, LaunchUnchanged, clientVars, hiddenVars

LEMMA FilesBefore ==
    ASSUME TypeInv
    PROVE  /\ {singleton_lock, active_port, pid_file} \subseteq Maybe(Browsers)
           /\ launch_lock \in Maybe(Calls) /\ page_lifecycle \in Maybe(Calls)
BY DEF TypeInv, BrowserTypeOK

LEMMA AcquireEffects ==
    ASSUME TypeInv, NEW x \in Calls, AcquireLaunchLock(x)
    PROVE  /\ LaunchPart /\ OthersStay(x) /\ UNCHANGED <<chrome, singleton_lock, active_port>>
           /\ call[x].pc = "ensure"
           /\ \/ launch_lock = None /\ launch_lock' = x /\ call'[x].pc = "probe"
              \/ launch_lock' = launch_lock /\ call'[x].pc = "idle"
<1>1. \/ launch_lock = None /\ launch_lock' = x /\ Goto(x, "probe") /\ UNCHANGED page_lifecycle
      \/ launch_lock' = launch_lock /\ End(x)
  BY DEF AcquireLaunchLock, LaunchFree
<1>2. /\ UNCHANGED <<chrome, singleton_lock, active_port, pid_file>> /\ LaunchUnchanged
      /\ call[x].pc = "ensure"
  BY DEF AcquireLaunchLock, At
<1>3. CASE launch_lock = None /\ launch_lock' = x /\ Goto(x, "probe") /\ UNCHANGED page_lifecycle
  BY <1>2, <1>3, GotoType, FilesBefore DEF LaunchPart, OthersStay, Pcs, Maybe
<1>4. CASE launch_lock' = launch_lock /\ End(x)
  BY <1>2, <1>4, EndType, FilesBefore DEF LaunchPart, OthersStay, NoCall
<1> QED BY <1>1, <1>3, <1>4, <1>2

LEMMA AdoptsType ==
    ASSUME TypeInv, NEW x \in Calls, NEW b \in Maybe(Browsers), NEW reused \in BOOLEAN,
           Adopts(x, b, reused)
    PROVE  /\ call' \in [Calls -> CallRecord] /\ CallsHavePages' /\ OthersStay(x)
           /\ call'[x].pc = "client" /\ launch_lock' = None
<1> DEFINE c == [call[x] EXCEPT !.pc = "client", !.reused = reused, !.endpoint = b]
<1>1. c \in CallRecord /\ c.pc = "client" /\ (NamesPage(c) => c.target \in Targets)
  BY CallBefore DEF CallRecord, Pcs, NamesPage
<1>2. Becomes(x, c) /\ launch_lock' = None
  BY DEF Adopts, Becomes
<1> HIDE DEF c
<1> QED BY <1>1, <1>2, BecomesType DEF OthersStay

\* The request adopts an answering browser, and its endpoint is in its record.
LEMMA ProbeEffects ==
    ASSUME TypeInv, NEW x \in Calls, HealthyActiveEndpoint(x)
    PROVE  /\ LaunchPart /\ OthersStay(x)
           /\ UNCHANGED <<chrome, singleton_lock, active_port, launch_lock>>
           /\ call[x].pc = "probe" /\ call'[x].pc \in {"owned", "held"}
<1> DEFINE c == [call[x] EXCEPT !.pc = "owned", !.endpoint = active_port]
<1>1. Becomes(x, c) \/ Goto(x, "held")
  BY DEF HealthyActiveEndpoint, Becomes
<1>2. /\ UNCHANGED <<chrome, singleton_lock, active_port, pid_file, launch_lock, page_lifecycle>>
      /\ LaunchUnchanged /\ call[x].pc = "probe"
  BY DEF HealthyActiveEndpoint, At
<1>3. c \in CallRecord /\ c.pc = "owned" /\ (NamesPage(c) => c.target \in Targets)
  BY CallBefore, FilesBefore DEF CallRecord, Pcs, NamesPage
<1> HIDE DEF c
<1>4. CASE Becomes(x, c)
  BY <1>2, <1>3, <1>4, BecomesType, FilesBefore DEF LaunchPart, OthersStay
<1>5. CASE Goto(x, "held")
  BY <1>2, <1>5, GotoType, FilesBefore DEF LaunchPart, OthersStay, Pcs
<1> QED BY <1>1, <1>4, <1>5

LEMMA OwnedEffects ==
    ASSUME TypeInv, NEW x \in Calls, OwnedActiveEndpoint(x)
    PROVE  /\ LaunchPart /\ OthersStay(x) /\ UNCHANGED <<chrome, active_port>> /\ RemoveStaleLock
           /\ call[x].pc = "owned"
           /\ \/ launch_lock' = launch_lock /\ call'[x].pc = "held"
              \/ launch_lock' = None /\ call'[x].pc = "client"
<1> DEFINE c == [call[x] EXCEPT !.pc = "held", !.endpoint = None]
<1>1. \/ Becomes(x, c) /\ launch_lock' = launch_lock
      \/ Adopts(x, call[x].endpoint, TRUE)
  BY DEF OwnedActiveEndpoint, Becomes
<1>2. /\ UNCHANGED <<chrome, active_port, pid_file, page_lifecycle>> /\ RemoveStaleLock
      /\ LaunchUnchanged /\ call[x].pc = "owned"
  BY DEF OwnedActiveEndpoint, At
<1>3. c \in CallRecord /\ c.pc = "held" /\ (NamesPage(c) => c.target \in Targets)
  BY CallBefore DEF CallRecord, Pcs, NamesPage, Maybe
<1> HIDE DEF c
<1>4. {singleton_lock, active_port, pid_file}' \subseteq Maybe(Browsers)
  BY <1>2, FilesBefore DEF RemoveStaleLock, Maybe
<1>5. CASE Becomes(x, c) /\ launch_lock' = launch_lock
  BY <1>2, <1>3, <1>4, <1>5, BecomesType, FilesBefore DEF LaunchPart, OthersStay
<1>6. CASE Adopts(x, call[x].endpoint, TRUE)
  <2>1. call[x].endpoint \in Maybe(Browsers)
    BY CallBefore DEF CallRecord
  <2> QED BY <1>2, <1>4, <1>6, <2>1, AdoptsType, FilesBefore DEF LaunchPart, Maybe
<1> QED BY <1>1, <1>5, <1>6

LEMMA HeldEffects ==
    ASSUME TypeInv, NEW x \in Calls, WaitForRelease(x)
    PROVE  /\ LaunchPart /\ OthersStay(x) /\ UNCHANGED <<chrome, active_port>> /\ RemoveStaleLock
           /\ call[x].pc = "held"
           /\ \/ launch_lock' = launch_lock /\ call'[x].pc = "launch" /\ ProfileIsAvailable
              \/ launch_lock' = launch_lock /\ call'[x].pc = "probe"
              \/ launch_lock' = None /\ call'[x].pc = "idle"
<1>1. \/ Goto(x, "launch") /\ UNCHANGED <<launch_lock, page_lifecycle>> /\ ProfileIsAvailable
      \/ Goto(x, "probe") /\ UNCHANGED <<launch_lock, page_lifecycle>>
      \/ End(x) /\ launch_lock' = None
  BY DEF WaitForRelease
<1>2. /\ UNCHANGED <<chrome, active_port, pid_file>> /\ RemoveStaleLock
      /\ LaunchUnchanged /\ call[x].pc = "held"
  BY DEF WaitForRelease, At
<1>3. {singleton_lock, active_port, pid_file}' \subseteq Maybe(Browsers)
  BY <1>2, FilesBefore DEF RemoveStaleLock, Maybe
<1>4. ASSUME NEW pc \in {"launch", "probe"}, Goto(x, pc), UNCHANGED <<launch_lock, page_lifecycle>>
      PROVE  LaunchPart /\ OthersStay(x) /\ call'[x].pc = pc
  BY <1>2, <1>3, <1>4, GotoType, FilesBefore DEF LaunchPart, OthersStay, Pcs
<1>5. CASE End(x) /\ launch_lock' = None
  BY <1>2, <1>3, <1>5, EndType, FilesBefore DEF LaunchPart, OthersStay, NoCall, Maybe
<1> QED BY <1>1, <1>2, <1>4, <1>5

LEMMA LaunchEffects ==
    ASSUME TypeInv, NEW x \in Calls, NEW b \in Browsers, LaunchChrome(x, b)
    PROVE  /\ LaunchPart /\ OthersStay(x) /\ UNCHANGED <<singleton_lock, launch_lock>>
           /\ call[x].pc = "launch" /\ call'[x].pc = "boot"
           /\ active_port' = None /\ chrome[b] = "none"
           /\ chrome' = [chrome EXCEPT ![b] = "spawned"]
<1>1. /\ Goto(x, "boot") /\ UNCHANGED <<singleton_lock, launch_lock, page_lifecycle>>
      /\ LaunchUnchanged /\ call[x].pc = "launch" /\ active_port' = None /\ pid_file' = b
      /\ chrome' = [chrome EXCEPT ![b] = "spawned"] /\ chrome[b] = "none"
  BY DEF LaunchChrome, At, FreshBrowsers
<1>2. {singleton_lock, active_port, pid_file}' \subseteq Maybe(Browsers)
  BY <1>1, FilesBefore DEF Maybe
<1> QED BY <1>1, <1>2, GotoType, FilesBefore DEF LaunchPart, OthersStay, Pcs

LEMMA BootEffects ==
    ASSUME TypeInv, NEW x \in Calls, BootChrome(x)
    PROVE  /\ LaunchPart /\ OthersStay(x) /\ UNCHANGED <<chrome, singleton_lock, active_port>>
           /\ call[x].pc = "boot" /\ call'[x].pc \in {"client", "idle"} /\ launch_lock' = None
           /\ active_port # None \/ \A b \in Browsers : chrome[b] # "spawned"
<1>1. \/ /\ active_port # None /\ Adopts(x, active_port, FALSE) /\ UNCHANGED page_lifecycle
      \/ /\ \A b \in Browsers : chrome[b] # "spawned"
         /\ End(x) /\ launch_lock' = None
  BY DEF BootChrome, ValidEndpoint
<1>2. /\ UNCHANGED <<chrome, singleton_lock, active_port, pid_file>> /\ LaunchUnchanged
      /\ call[x].pc = "boot"
  BY DEF BootChrome, At
<1>3. CASE active_port # None /\ Adopts(x, active_port, FALSE) /\ UNCHANGED page_lifecycle
  BY <1>2, <1>3, AdoptsType, FilesBefore DEF LaunchPart, Maybe
<1>4. CASE /\ \A b \in Browsers : chrome[b] # "spawned"
           /\ End(x) /\ launch_lock' = None
  BY <1>2, <1>4, EndType, FilesBefore DEF LaunchPart, OthersStay, NoCall, Maybe
<1> QED BY <1>1, <1>3, <1>4

(***************************************************************************)
(* The whole of the type invariant.                                        *)
(***************************************************************************)
QuietRequest(x) ==
    \/ \E m \in Methods, t \in Maybe(Targets) : Begin(x, m, t)
    \/ ReserveLifecycle(x) \/ LockClient(x) \/ ClassifyTargets(x)
    \/ ListTargets(x) \/ Return(x) \/ (\E t \in Targets : CreateTarget(x, t))
    \/ PageTarget(x) \/ LeaseCreated(x)
    \/ TargetById(x) \/ ClaimTab(x) \/ MarkTargetClaimed(x)
    \/ CloseTarget(x) \/ InventoryAfterClose(x) \/ Decide(x)
    \/ AwaitExit(x) \/ ForgetClient(x) \/ ClearSets(x)

QuitRequest(x) == CloseBrowser(x) \/ Terminate(x) \/ Kill(x)

LaunchRequest(x) ==
    \/ AcquireLaunchLock(x) \/ HealthyActiveEndpoint(x) \/ OwnedActiveEndpoint(x)
    \/ WaitForRelease(x) \/ (\E b \in Browsers : LaunchChrome(x, b)) \/ BootChrome(x)

Process(b) ==
    \/ TakesProfile(b) \/ ComesUp(b) \/ Crashes(b) \/ HumanQuits(b) \/ HumanLaunches(b)
    \/ MuteQuits(b) \/ ReleasesProfile(b) \/ Exits(b)

LEMMA Steps ==
    ASSUME [BrowserNext]_browserVars
    PROVE  \/ \E b \in Browsers : Process(b)
           \/ PageStep \/ RecorderStep \/ BrokerRestarts
           \/ \E x \in Calls : QuietRequest(x) \/ QuitRequest(x) \/ LaunchRequest(x)
           \/ UNCHANGED browserVars
<1>1. CASE BrowserNext
  BY <1>1 DEF BrowserNext, Process, PageStep, RecorderStep, QuietRequest, QuitRequest,
              LaunchRequest
<1> QED BY <1>1

LEMMA QuietStep ==
    ASSUME TypeInv, NEW x \in Calls, QuietRequest(x)
    PROVE  Quiet(x) /\ chrome' = chrome
BY StartType, ClientType, InventoryType, CloseType DEF QuietRequest

LEMMA RestartType ==
    ASSUME TypeInv, BrokerRestarts
    PROVE  TypeInv' /\ launch_lock' = None /\ \A x \in Calls : call'[x].pc \notin LaunchPcs
<1>1. page' \in [Targets -> PageRecord]
  BY NoPageType, DataBefore DEF BrokerRestarts
<1>2. call' = [x \in Calls |-> NoCall] /\ call' \in [Calls -> CallRecord]
  BY NoCallType DEF BrokerRestarts
<1>3. CallsHavePages' /\ \A x \in Calls : call'[x].pc \notin LaunchPcs
  BY <1>2, NoCallType DEF CallsHavePages, NoCall, LaunchPcs
<1>4. told' \in Told
  BY DEF BrokerRestarts, Told, Maybe
<1>5. recorder' \in [pc : {"none", "creating", "recording", "closing"}, target : Maybe(Targets)]
      /\ recorder'.pc = "none"
  BY DEF BrokerRestarts, Maybe
<1> QED
  BY <1>1, <1>2, <1>3, <1>4, <1>5
  DEF BrokerRestarts, TypeInv, BrowserTypeOK, RecorderHasPage, fileVars, Told, Maybe

LEMMA LaunchStepType ==
    ASSUME TypeInv, NEW x \in Calls, LaunchRequest(x)
    PROVE  TypeInv'
<1>1. ASSUME NEW b \in Browsers, LaunchChrome(x, b) PROVE TypeInv'
  <2>1. chrome' \in [Browsers -> ChromeStates]
    BY <1>1, LaunchEffects, DataBefore DEF ChromeStates
  <2> QED BY <1>1, <2>1, LaunchEffects, LaunchPartType
<1>2. CASE AcquireLaunchLock(x) \/ HealthyActiveEndpoint(x) \/ OwnedActiveEndpoint(x)
           \/ WaitForRelease(x) \/ BootChrome(x)
  <2>1. LaunchPart /\ chrome' = chrome
    BY <1>2, AcquireEffects, ProbeEffects, OwnedEffects, HeldEffects, BootEffects
  <2> QED BY <2>1, LaunchPartType, DataBefore
<1> QED BY <1>1, <1>2 DEF LaunchRequest

LEMMA TypeStep == TypeInv /\ [BrowserNext]_browserVars => TypeInv'
<1> SUFFICES ASSUME TypeInv, [BrowserNext]_browserVars PROVE TypeInv'
  OBVIOUS
<1>1. ASSUME NEW b \in Browsers, Process(b) PROVE TypeInv'
  BY <1>1, ProcessesType DEF Process
<1>2. ASSUME NEW x \in Calls, QuietRequest(x) \/ QuitRequest(x) PROVE TypeInv'
  <2>1. CallPart(x) /\ DataPart
    BY <1>2, QuietStep, QuitType DEF Quiet, QuitRequest
  <2> QED BY <2>1, PartsType
<1>3. CASE UNCHANGED browserVars
  BY <1>3 DEF browserVars, fileVars, clientVars, hiddenVars, TypeInv, BrowserTypeOK,
              RecorderHasPage, CallsHavePages
<1> QED BY <1>1, <1>2, <1>3, PagesType, RecorderType, RestartType, LaunchStepType, Steps

LEMMA TypeInit == BrowserInit => TypeInv
<1> SUFFICES ASSUME BrowserInit PROVE TypeInv
  OBVIOUS
<1>1. page \in [Targets -> PageRecord] /\ call \in [Calls -> CallRecord] /\ CallsHavePages
  BY NoPageType, NoCallType DEF BrowserInit, CallsHavePages
<1>2. told \in Told /\ chrome \in [Browsers -> ChromeStates]
  BY DEF BrowserInit, Told, Maybe, ChromeStates
<1> QED BY <1>1, <1>2 DEF BrowserInit, TypeInv, BrowserTypeOK, RecorderHasPage, Told, Maybe

\* Chrome, the profile's files, the pages and the broker's memory keep their
\* types, whatever Chrome, the human and the requests do.
THEOREM TypeCorrect == BrowserSpec => []BrowserTypeOK
<1>1. TypeInv => BrowserTypeOK
  BY DEF TypeInv
<1> QED BY TypeInit, TypeStep, <1>1, PTL DEF BrowserSpec

(***************************************************************************)
(* The launch.  A process that uses the profile owns its lock; a process   *)
(* on its way to the profile is the only one, and the request that         *)
(* launched it still waits for it under the launch lock; and a request     *)
(* that is about to launch one has seen a free profile, which only a       *)
(* human's Chrome, without a debugging port, can take before it.           *)
(***************************************************************************)
Away == {"none", "mute", "released"}

UsersOwnTheProfile ==
    \A b \in Browsers : chrome[b] \in {"mute", "starting", "up", "closing"} => singleton_lock = b

OneOnItsWay ==
    \A b \in Browsers : chrome[b] = "spawned" =>
        /\ active_port = None
        /\ \A c \in Browsers \ {b} : chrome[c] \in Away
        /\ \E x \in Calls : call[x].pc = "boot"

HoldersLaunch == \A x \in Calls : call[x].pc \in LaunchPcs <=> launch_lock = x

LaunchersSawItFree ==
    \A x \in Calls : call[x].pc = "launch" => \A b \in Browsers : chrome[b] \in Away

LaunchInv ==
    TypeInv /\ UsersOwnTheProfile /\ OneOnItsWay /\ HoldersLaunch /\ LaunchersSawItFree

\* A process keeps to the profile: it moves on among the states that own it,
\* or it leaves.
LEMMA ProcessStep ==
    ASSUME LaunchInv, NEW b \in Browsers, Process(b)
    PROVE  LaunchInv' /\ \A c \in Browsers : chrome'[c] = "spawned" => chrome[c] = "spawned"
<1>t. chrome \in [Browsers -> ChromeStates] /\ b # None /\ TypeInv'
  BY DataBefore, ProcessesType, BrowserNoneAssumption DEF LaunchInv, Process
<1>u. call' = call /\ launch_lock' = launch_lock
  BY DEF Process, TakesProfile, ComesUp, Crashes, HumanQuits, HumanLaunches, MuteQuits,
         ReleasesProfile, Exits, ChromeUnchanged
<1>1. CASE TakesProfile(b)
  <2>1. /\ chrome[b] = "spawned" /\ active_port' = active_port
        /\ \/ chrome' = [chrome EXCEPT ![b] = "none"] /\ singleton_lock' = singleton_lock
           \/ /\ chrome' = [chrome EXCEPT ![b] = "starting"] /\ singleton_lock' = b
              /\ ~Alive(singleton_lock)
    BY <1>1 DEF TakesProfile
  <2>2. /\ \A c \in Browsers \ {b} : chrome[c] \in Away /\ chrome'[c] = chrome[c]
        /\ chrome'[b] \in {"none", "starting"}
        /\ \A x \in Calls : call[x].pc # "launch"
    <3>1. \A c \in Browsers \ {b} : chrome[c] \in Away
      BY <2>1 DEF LaunchInv, OneOnItsWay
    <3>2. \A x \in Calls : call[x].pc # "launch"
      BY <2>1 DEF LaunchInv, LaunchersSawItFree, Away
    <3> QED BY <1>t, <2>1, <3>1, <3>2
  <2>3. UsersOwnTheProfile'
    <3>1. ASSUME NEW c \in Browsers \ {b}, chrome[c] = "mute" PROVE Alive(singleton_lock)
      BY <3>1, BrowserNoneAssumption DEF LaunchInv, UsersOwnTheProfile, Alive
    <3>2. ASSUME NEW c \in Browsers, chrome'[c] \in {"mute", "starting", "up", "closing"}
          PROVE  singleton_lock' = c
      BY <1>t, <2>1, <2>2, <3>1, <3>2 DEF Away, LaunchInv, UsersOwnTheProfile
    <3> QED BY <3>2 DEF UsersOwnTheProfile
  <2>4. \A c \in Browsers : chrome'[c] # "spawned"
    BY <2>2 DEF Away
  <2> QED BY <1>t, <1>u, <2>2, <2>3, <2>4
          DEF LaunchInv, OneOnItsWay, HoldersLaunch, LaunchersSawItFree
<1>2. ASSUME \A c \in Browsers \ {b} : chrome'[c] = chrome[c],
             chrome[b] # "spawned", chrome'[b] # "spawned",
             chrome'[b] \in Away \/ chrome[b] \notin Away,
             singleton_lock' = singleton_lock \/ \A c \in Browsers \ {b} :
                chrome[c] \notin {"mute", "starting", "up", "closing"},
             chrome'[b] \in {"mute", "starting", "up", "closing"} => singleton_lock' = b,
             chrome[b] \notin Away \/ active_port' = active_port
      PROVE  LaunchInv'
  <2>1. UsersOwnTheProfile'
    BY <1>2 DEF LaunchInv, UsersOwnTheProfile
  <2>2. OneOnItsWay'
    BY <1>u, <1>2 DEF LaunchInv, OneOnItsWay
  <2>3. LaunchersSawItFree'
    BY <1>u, <1>2 DEF LaunchInv, LaunchersSawItFree
  <2> QED BY <1>t, <1>u, <2>1, <2>2, <2>3 DEF LaunchInv, HoldersLaunch
<1>3. \A c \in Browsers \ {b} :
         chrome[b] \in {"mute", "starting", "up", "closing"} =>
            chrome[c] \notin {"mute", "starting", "up", "closing"}
  BY DEF LaunchInv, UsersOwnTheProfile
<1>4. CASE ComesUp(b) \/ Crashes(b) \/ HumanQuits(b) \/ MuteQuits(b) \/ Exits(b)
  <2>1. /\ \A c \in Browsers \ {b} : chrome'[c] = chrome[c]
        /\ chrome[b] # "spawned" /\ chrome'[b] # "spawned"
        /\ chrome'[b] \in Away \/ chrome[b] \notin Away
        /\ chrome[b] \in {"released", "mute"} \/ chrome[b] \notin Away
        /\ chrome[b] \notin Away \/ active_port' = active_port
        /\ singleton_lock' = singleton_lock \/ chrome[b] = "mute"
        /\ chrome'[b] \in {"mute", "starting", "up", "closing"} =>
              /\ chrome[b] \in {"mute", "starting", "up", "closing"}
              /\ singleton_lock' = singleton_lock
    BY <1>t, <1>4 DEF ComesUp, Crashes, HumanQuits, MuteQuits, Exits, Dies, Away
  <2>2. chrome'[b] \in {"mute", "starting", "up", "closing"} => singleton_lock' = b
    BY <2>1 DEF LaunchInv, UsersOwnTheProfile
  <2>3. LaunchInv'
    BY <1>2, <1>3, <2>1, <2>2
  <2> QED BY <2>1, <2>3
<1>5. CASE HumanLaunches(b)
  <2>1. /\ \A c \in Browsers \ {b} : chrome'[c] = chrome[c]
        /\ chrome[b] = "none" /\ chrome'[b] = "mute" /\ singleton_lock' = b
        /\ active_port' = active_port /\ ~Alive(singleton_lock)
    BY <1>t, <1>5 DEF HumanLaunches, FreshBrowsers
  <2>2. \A c \in Browsers \ {b} : chrome[c] \notin {"mute", "starting", "up", "closing"}
    BY <2>1, BrowserNoneAssumption DEF LaunchInv, UsersOwnTheProfile, Alive
  <2>3. LaunchInv'
    BY <1>2, <2>1, <2>2 DEF Away
  <2> QED BY <2>1, <2>3
<1>6. CASE ReleasesProfile(b)
  <2>1. /\ \A c \in Browsers \ {b} : chrome'[c] = chrome[c]
        /\ chrome[b] = "closing" /\ chrome'[b] = "released"
        /\ active_port' = active_port
    BY <1>t, <1>6 DEF ReleasesProfile
  <2>2. LaunchInv'
    BY <1>2, <1>3, <2>1 DEF Away
  <2> QED BY <2>1, <2>2
<1>7. CASE TakesProfile(b)
  <2>1. \A c \in Browsers : chrome'[c] = "spawned" => chrome[c] = "spawned"
    BY <1>t, <1>7 DEF TakesProfile
  <2> QED BY <1>1, <1>7, <2>1
<1> QED BY <1>4, <1>5, <1>6, <1>7 DEF Process

\* A step that starts no process, takes no profile and writes no endpoint.
LEMMA AsideStep ==
    ASSUME LaunchInv, TypeInv', UNCHANGED <<singleton_lock, active_port>>,
           \A b \in Browsers : \/ chrome'[b] = chrome[b]
                               \/ chrome'[b] \in {"none", "released"}
                               \/ chrome[b] \in {"starting", "up"} /\ chrome'[b] = "closing",
           \A x \in Calls : call'[x].pc \in LaunchPcs <=> launch_lock' = x,
           \A x \in Calls : call'[x].pc \in {"launch", "boot"} => call'[x].pc = call[x].pc,
           \A x \in Calls : call[x].pc = "boot" =>
              call'[x].pc = "boot" \/ \A b \in Browsers : chrome'[b] # "spawned"
    PROVE  LaunchInv' /\ \A b \in Browsers : chrome'[b] = "spawned" => chrome[b] = "spawned"
<1>1. \A b \in Browsers : chrome[b] \in Away => chrome'[b] \in Away
  BY DEF Away
<1>2. \A b \in Browsers : chrome'[b] = "spawned" => chrome[b] = "spawned"
  OBVIOUS
<1>3. UsersOwnTheProfile'
  BY DEF LaunchInv, UsersOwnTheProfile
<1>4. OneOnItsWay'
  BY <1>1, <1>2 DEF LaunchInv, OneOnItsWay
<1>5. LaunchersSawItFree'
  BY <1>1 DEF LaunchInv, LaunchersSawItFree
<1> QED BY <1>2, <1>3, <1>4, <1>5 DEF LaunchInv, HoldersLaunch

\* A request outside the launch section, also one that tells a process to exit.
LEMMA RequestAside ==
    ASSUME LaunchInv, NEW x \in Calls, QuietRequest(x) \/ QuitRequest(x)
    PROVE  LaunchInv' /\ \A b \in Browsers : chrome'[b] = "spawned" => chrome[b] = "spawned"
<1>1. Quiet(x) /\ TypeInv'
  BY QuietStep, QuitType, PartsType DEF LaunchInv, QuitRequest, Quiet
<1>2. /\ UNCHANGED <<singleton_lock, active_port, launch_lock>>
      /\ call[x].pc \notin LaunchPcs /\ call'[x].pc \notin LaunchPcs
      /\ \A y \in Calls \ {x} : call'[y] = call[y]
  BY <1>1 DEF Quiet, CallPart, DataPart, fileVars
<1>3. /\ \A y \in Calls : call'[y].pc \in LaunchPcs <=> launch_lock' = y
      /\ \A y \in Calls : call'[y].pc \in LaunchPcs => call'[y].pc = call[y].pc
      /\ \A y \in Calls : call[y].pc \in LaunchPcs => call'[y].pc = call[y].pc
  BY <1>2 DEF LaunchInv, HoldersLaunch
<1>4. \A b \in Browsers : \/ chrome'[b] = chrome[b]
                          \/ chrome'[b] \in {"none", "released"}
                          \/ chrome[b] \in {"starting", "up"} /\ chrome'[b] = "closing"
  <2>1. chrome \in [Browsers -> ChromeStates]
    BY DataBefore DEF LaunchInv
  <2>2. CASE QuietRequest(x)
    BY <2>2, QuietStep DEF LaunchInv
  <2>3. CASE CloseBrowser(x) \/ Terminate(x)
    <3>1. chrome' = chrome \/ \E b : Tell(x, b)
      BY <2>3 DEF CloseBrowser, Terminate
    <3> QED BY <2>1, <3>1 DEF Tell
  <2>4. CASE Kill(x)
    BY <2>1, <2>4 DEF Kill, Dies
  <2> QED BY <2>2, <2>3, <2>4 DEF QuitRequest
<1> QED BY <1>1, <1>2, <1>3, <1>4, AsideStep DEF LaunchPcs

\* A process is spawned only here.
LEMMA LaunchStep ==
    ASSUME LaunchInv, NEW x \in Calls, NEW b \in Browsers, LaunchChrome(x, b)
    PROVE  LaunchInv' /\ \A c \in Browsers : chrome[c] \in Away
<1>t. TypeInv' /\ chrome \in [Browsers -> ChromeStates]
  BY LaunchStepType, DataBefore DEF LaunchInv, LaunchRequest
<1>1. /\ OthersStay(x) /\ UNCHANGED <<singleton_lock, launch_lock>>
      /\ call[x].pc = "launch" /\ call'[x].pc = "boot"
      /\ active_port' = None /\ chrome' = [chrome EXCEPT ![b] = "spawned"]
  BY LaunchEffects DEF LaunchInv
<1>2. \A c \in Browsers : chrome[c] \in Away
  BY <1>1 DEF LaunchInv, LaunchersSawItFree
<1>3. UsersOwnTheProfile'
  BY <1>t, <1>1 DEF LaunchInv, UsersOwnTheProfile
<1>4. OneOnItsWay'
  BY <1>t, <1>1, <1>2 DEF OneOnItsWay, Away
<1>5. HoldersLaunch' /\ LaunchersSawItFree'
  BY <1>1 DEF LaunchInv, HoldersLaunch, LaunchersSawItFree, OthersStay, LaunchPcs
<1> QED BY <1>t, <1>2, <1>3, <1>4, <1>5 DEF LaunchInv

\* The other steps of the launch section start no process.
LEMMA SectionStep ==
    ASSUME LaunchInv, NEW x \in Calls,
           \/ AcquireLaunchLock(x) \/ HealthyActiveEndpoint(x) \/ OwnedActiveEndpoint(x)
           \/ WaitForRelease(x) \/ BootChrome(x)
    PROVE  LaunchInv' /\ chrome' = chrome
<1>t. TypeInv' /\ TypeInv /\ x # None
  BY LaunchStepType, BrowserNoneAssumption DEF LaunchInv, LaunchRequest
<1>h. \A y \in Calls : call[y].pc \in LaunchPcs <=> launch_lock = y
  BY DEF LaunchInv, HoldersLaunch
<1>1. CASE AcquireLaunchLock(x)
  <2>1. /\ OthersStay(x) /\ UNCHANGED <<chrome, singleton_lock, active_port>>
        /\ call[x].pc = "ensure"
        /\ \/ launch_lock = None /\ launch_lock' = x /\ call'[x].pc = "probe"
           \/ launch_lock' = launch_lock /\ call'[x].pc = "idle"
    BY <1>1, <1>t, AcquireEffects
  <2>2. \A y \in Calls : call'[y].pc \in LaunchPcs <=> launch_lock' = y
    BY <1>h, <1>t, <2>1, BrowserNoneAssumption DEF OthersStay, LaunchPcs
  <2> QED BY <1>t, <2>1, <2>2, AsideStep DEF OthersStay
<1>2. CASE HealthyActiveEndpoint(x)
  <2>1. /\ OthersStay(x) /\ UNCHANGED <<chrome, singleton_lock, active_port, launch_lock>>
        /\ call[x].pc = "probe" /\ call'[x].pc \in {"owned", "held"}
    BY <1>2, <1>t, ProbeEffects
  <2>2. \A y \in Calls : call'[y].pc \in LaunchPcs <=> launch_lock' = y
    BY <1>h, <2>1 DEF OthersStay, LaunchPcs
  <2> QED BY <1>t, <2>1, <2>2, AsideStep DEF OthersStay
<1>3. CASE BootChrome(x)
  <2>1. /\ OthersStay(x) /\ UNCHANGED <<chrome, singleton_lock, active_port>>
        /\ call[x].pc = "boot" /\ call'[x].pc \in {"client", "idle"} /\ launch_lock' = None
        /\ active_port # None \/ \A b \in Browsers : chrome[b] # "spawned"
    BY <1>3, <1>t, BootEffects
  <2>2. \A y \in Calls : call'[y].pc \in LaunchPcs <=> launch_lock' = y
    BY <1>h, <2>1, BrowserNoneAssumption DEF OthersStay, LaunchPcs
  <2>3. \A b \in Browsers : chrome[b] # "spawned"
    BY <2>1 DEF LaunchInv, OneOnItsWay
  <2> QED BY <1>t, <2>1, <2>2, <2>3, AsideStep DEF OthersStay
<1>4. CASE OwnedActiveEndpoint(x) \/ WaitForRelease(x)
  <2>1. /\ OthersStay(x) /\ UNCHANGED <<chrome, active_port>> /\ RemoveStaleLock
        /\ call[x].pc \in {"owned", "held"}
        /\ \/ launch_lock' = launch_lock /\ call'[x].pc \in {"held", "probe"}
           \/ launch_lock' = launch_lock /\ call'[x].pc = "launch" /\ ProfileIsAvailable
           \/ launch_lock' = None /\ call'[x].pc \in {"client", "idle"}
    BY <1>4, <1>t, OwnedEffects, HeldEffects
  <2>2. \A y \in Calls : call'[y].pc \in LaunchPcs <=> launch_lock' = y
    BY <1>h, <2>1, BrowserNoneAssumption DEF OthersStay, LaunchPcs
  <2>3. \A y \in Calls \ {x} : call[y].pc \notin LaunchPcs /\ call'[y] = call[y]
    BY <1>h, <2>1 DEF OthersStay, LaunchPcs
  <2>4. UsersOwnTheProfile'
    <3>1. ASSUME NEW b \in Browsers, chrome[b] \in {"mute", "starting", "up", "closing"}
          PROVE  singleton_lock = b /\ Alive(singleton_lock)
      BY <3>1, BrowserNoneAssumption DEF LaunchInv, UsersOwnTheProfile, Alive
    <3> QED BY <2>1, <3>1 DEF UsersOwnTheProfile, RemoveStaleLock, ProfileIsAvailable
  <2>5. \A b \in Browsers : chrome[b] # "spawned"
    <3>1. \A y \in Calls : call[y].pc # "boot"
      BY <2>1, <2>3 DEF LaunchPcs
    <3> QED BY <3>1 DEF LaunchInv, OneOnItsWay
  <2>6. LaunchersSawItFree'
    <3>1. ASSUME ProfileIsAvailable, NEW b \in Browsers PROVE chrome[b] \in Away
      <4>1. chrome[b] \in ChromeStates
        BY <1>t, DataBefore
      <4>2. chrome[b] \notin {"starting", "up", "closing"}
        BY <3>1, BrowserNoneAssumption DEF LaunchInv, UsersOwnTheProfile, Alive, ProfileIsAvailable
      <4> QED BY <2>5, <4>1, <4>2 DEF ChromeStates, Away
    <3>2. \A y \in Calls \ {x} : call'[y].pc # "launch"
      BY <2>3 DEF LaunchPcs
    <3> QED BY <2>1, <3>1, <3>2 DEF LaunchersSawItFree
  <2>7. OneOnItsWay'
    BY <2>1, <2>5 DEF OneOnItsWay
  <2> QED BY <1>t, <2>1, <2>2, <2>4, <2>6, <2>7 DEF LaunchInv, HoldersLaunch
<1> QED BY <1>1, <1>2, <1>3, <1>4

\* A process is new only where it was launched, onto a profile nobody uses.
LEMMA BrowserStep ==
    ASSUME LaunchInv, [BrowserNext]_browserVars
    PROVE  /\ LaunchInv'
           /\ \/ \A b \in Browsers : chrome'[b] = "spawned" => chrome[b] = "spawned"
              \/ \A c \in Browsers : chrome[c] \in Away
<1>t. TypeInv'
  BY TypeStep DEF LaunchInv
<1>1. CASE PageStep \/ RecorderStep \/ UNCHANGED browserVars
  <2>1. UNCHANGED <<chrome, singleton_lock, active_port, launch_lock, call>>
    BY <1>1 DEF PageStep, HumanOpens, Navigates, HumanCloses, Disappears, LeaseEnds,
                PagesUnchanged, RecorderStep, CreateHiddenTarget, MarkPrivate, CloseHiddenTarget,
                MarkClosing, RecorderUnchanged, browserVars, fileVars
  <2>2. \A x \in Calls : call'[x].pc \in LaunchPcs <=> launch_lock' = x
    BY <2>1 DEF LaunchInv, HoldersLaunch
  <2> QED BY <1>t, <2>1, <2>2, AsideStep
<1>2. CASE BrokerRestarts
  <2>1. /\ UNCHANGED <<chrome, singleton_lock, active_port>>
        /\ \A b \in Browsers : chrome[b] # "spawned"
        /\ launch_lock' = None /\ \A x \in Calls : call'[x].pc \notin LaunchPcs
    BY <1>2, RestartType DEF BrokerRestarts, fileVars, LaunchInv
  <2>2. \A x \in Calls : call'[x].pc \in LaunchPcs <=> launch_lock' = x
    BY <2>1, BrowserNoneAssumption
  <2> QED BY <1>t, <2>1, <2>2, AsideStep DEF LaunchPcs
<1>3. ASSUME NEW x \in Calls, LaunchRequest(x)
      PROVE  /\ LaunchInv'
             /\ \/ \A b \in Browsers : chrome'[b] = "spawned" => chrome[b] = "spawned"
                \/ \A c \in Browsers : chrome[c] \in Away
  BY <1>3, LaunchStep, SectionStep DEF LaunchRequest
<1> QED BY <1>1, <1>2, <1>3, ProcessStep, RequestAside, Steps

LEMMA LaunchInit == BrowserInit => LaunchInv
<1> SUFFICES ASSUME BrowserInit PROVE LaunchInv
  OBVIOUS
<1>1. (\A b \in Browsers : chrome[b] = "none") /\ \A x \in Calls : call[x].pc = "idle"
  BY DEF BrowserInit, NoCall
<1>2. launch_lock = None
  BY DEF BrowserInit
<1> QED BY <1>1, <1>2, TypeInit, BrowserNoneAssumption
        DEF LaunchInv, UsersOwnTheProfile, OneOnItsWay, HoldersLaunch, LaunchersSawItFree, LaunchPcs

\* Chrome is launched only when every process launched before is gone or has
\* left the profile, or is a human's without a debugging port: two requests,
\* a restarted broker, a crash, a human's Chrome or a final close never bring
\* two managed browsers onto one profile (ensure_managed_chrome under the launch
\* lock, profile_is_available).
THEOREM LaunchesAreAlone == BrowserSpec => LaunchesFindAFreeProfile
<1> DEFINE Alone ==
      \A b \in Browsers :
         (chrome[b] = "none" /\ chrome'[b] = "spawned") =>
            \A c \in Browsers : chrome[c] \in {"none", "mute", "released"}
<1>1. LaunchInv /\ [BrowserNext]_browserVars => LaunchInv' /\ [Alone]_browserVars
  <2> SUFFICES ASSUME LaunchInv, [BrowserNext]_browserVars PROVE LaunchInv' /\ Alone
    OBVIOUS
  <2>1. LaunchInv'
    BY BrowserStep
  <2>2. Alone
    BY BrowserStep DEF Away
  <2> QED BY <2>1, <2>2
<1> QED BY LaunchInit, <1>1, PTL DEF BrowserSpec, LaunchesFindAFreeProfile

(***************************************************************************)
(* The pages.  A request that creates, claims or closes a page holds the   *)
(* page_lifecycle lock while it works with Chrome, so that at most one     *)
(* does; what somebody relies on is then on that request's Chrome, whose   *)
(* client is in the cell, and a Chrome that is going down has a close that *)
(* waits for it and nothing anyone keeps.  A human who quits Chrome breaks *)
(* this: a Chrome that leaves the profile while it still answers has no    *)
(* close that waits for it, and a request with its endpoint can put its    *)
(* client back into the cell.  So does a restart, which leaves a Chrome    *)
(* going down with no close.                                               *)
(***************************************************************************)
Calm == profile.events \cap {"quit", "restart"} = {}

Early == {"spawned", "starting", "mute"}
Shutting(b) == chrome[b] \in {"closing", "released"}

\* A create, a claim or a close that holds the pages.
HoldsPages(x) == call[x].method # "list" /\ call[x].pc \notin {"idle", "reserve", "lease"}

\* A page of a Chrome that is up which somebody relies on.
Used(t) ==
    /\ page[t].on # None /\ chrome[page[t].on] = "up"
    /\ t \in leased \/ page[t].origin = "vbl" \/ page[t].kind = "hidden"

\* A page the final close must not take down.
Kept(t) == page[t].st = "open" /\ (t \in leased \/ page[t].origin = "vbl")

Veiled(t) == t \in private \/ (recorder.pc = "creating" /\ recorder.target = t)

\* An inventory of pages Chrome itself opened.
Harmless(seen) ==
    \A p \in seen : p[2] # "site" /\ (page[p[1]].st = "open" => page[p[1]].origin = "chrome")

Named(b) == b = client \/ \E x \in Calls : b = Endpoint(x)

(***************************************************************************)
(* What holds of every request.                                            *)
(***************************************************************************)
Connected == {"owned", "client", "classify", "op", "listed", "claim", "mark", "created",
              "inventory", "decide", "quit", "await", "kill"}
Quitting  == {"quit", "await", "kill"}

LifecycleHeld(x) == HoldsPages(x) => page_lifecycle = x

StagesFit(x) ==
    /\ call[x].pc \in {"claim", "mark"} => call[x].method = "claim"
    /\ call[x].pc \in {"created", "lease"} => call[x].method = "create"
    /\ call[x].pc = "listed" => call[x].method = "list"
    /\ call[x].pc \in {"inventory", "decide", "forget", "clear"} \cup Quitting => call[x].method = "close"
    /\ call[x].pc \in {"reserve", "ensure"} \cup LaunchPcs => call[x].seen = {}

EndpointAnswered(x) ==
    /\ Endpoint(x) # None => chrome[Endpoint(x)] \notin Early
    /\ call[x].pc \in Connected => Endpoint(x) # None

QuitsItsOwn(x) ==
    call[x].pc \in Quitting /\ chrome[Endpoint(x)] = "up" => call[x].pid = Endpoint(x)

SeesUsed(x) ==
    HoldsPages(x) =>
        /\ call[x].pc \in Connected => \A t \in Targets : Used(t) => page[t].on = Endpoint(x)
        /\ call[x].pc \in {"forget", "clear"} => \A t \in Targets : ~Used(t)
        /\ call[x].pc = "decide" => \A t \in Targets : Kept(t) => t \in Ids(call[x].seen)
        /\ call[x].pc \in {"forget", "clear"} \cup Quitting => \A t \in Targets : ~Kept(t)

TargetKnown(x) ==
    /\ call[x].pc \in {"created", "lease"} =>
          page[call[x].target].on = None \/ page[call[x].target].origin = "vbl"
    /\ call[x].pc = "claim" =>
          /\ page[call[x].target].on \in {None, Endpoint(x)}
          /\ chrome[Endpoint(x)] = "up" => page[call[x].target].kind # "hidden"
    /\ call[x].pc \in {"claim", "created", "lease"} => ~Veiled(call[x].target)

\* Its client is the one in the cell.
Relies(x) ==
    /\ HoldsPages(x) /\ call[x].pc \in {"op", "claim", "created", "inventory", "decide"}
    /\ chrome[Endpoint(x)] = "up"

ClientCurrent(x) ==
    /\ Relies(x) => client = Endpoint(x)
    /\ call[x].pc = "classify" => client_lock = x /\ client # Endpoint(x)

FreshUnseen(x) ==
    /\ call[x].pc \in {"client", "classify"} /\ ~call[x].reused =>
          \A t \in Targets : page[t].on = Endpoint(x) => page[t].origin # "human"
    /\ call[x].pc = "boot" /\ active_port # None =>
          /\ ~Named(active_port)
          /\ \A t \in Targets : page[t].on = active_port => page[t].origin # "human"

SeenHarmless(x) ==
    /\ call[x].pc \in Quitting => Harmless(call[x].seen)
    /\ Endpoint(x) # None /\ chrome[Endpoint(x)] = "up" => \A p \in call[x].seen : p[2] # "hidden"

CallOK(x) ==
    /\ LifecycleHeld(x) /\ StagesFit(x) /\ EndpointAnswered(x) /\ QuitsItsOwn(x) /\ SeesUsed(x)
    /\ TargetKnown(x) /\ ClientCurrent(x) /\ FreshUnseen(x) /\ SeenHarmless(x)

(***************************************************************************)
(* What holds of the pages, of Chrome and of the sets of pages.            *)
(***************************************************************************)
ShuttersWait ==
    \A b \in Browsers : Shutting(b) => \E x \in Calls : call[x].pc \in {"await", "kill"} /\ call[x].pid = b

NamesAnswered == \A b \in {client, active_port} : b # None => chrome[b] \notin Early

PagesHaveChrome ==
    \A t \in Targets : IF page[t].on = None THEN page[t] = NoPage
                       ELSE Answers(page[t].on) /\ page[t].st # "none"

UsedIsCurrent == \A t \in Targets : Used(t) => client = page[t].on
KeptIsUp == \A t \in Targets : Kept(t) => chrome[page[t].on] = "up"
UpIsActive == \A b \in Browsers : chrome[b] = "up" => active_port = b

MarksAreChromes ==
    \A t \in synthetic \cup startup : page[t].st = "open" => page[t].origin = "chrome"
StartupIsChromes == \A t \in Targets : page[t].kind = "startup" => page[t].origin = "chrome"

LeasedUnmarked ==
    \A t \in leased \cap (synthetic \cup startup) : page[t].st = "open" =>
        \E x \in Calls : At(x, "mark") /\ call[x].target = t

VeiledIsNobodys == \A t \in Targets : Veiled(t) => t \notin leased /\ page[t].origin # "vbl"

RecordersVeiled ==
    \A t \in Targets : page[t].kind = "hidden" /\ chrome[page[t].on] = "up" => Veiled(t)

ToldHarmless ==
    \A b \in Browsers : told[b] # None =>
        Harmless(told[b]) /\ chrome[b] \in {"closing", "released", "mute"}

DataOK ==
    /\ ShuttersWait /\ NamesAnswered /\ PagesHaveChrome /\ UsedIsCurrent /\ KeptIsUp /\ UpIsActive
    /\ MarksAreChromes /\ StartupIsChromes /\ LeasedUnmarked /\ VeiledIsNobodys
    /\ RecordersVeiled /\ ToldHarmless

PageInv == DataOK /\ \A x \in Calls : CallOK(x)

(***************************************************************************)
(* What most steps have in common.                                         *)
(***************************************************************************)
\* A page moves on without gaining anything.
Fades(t) ==
    \/ page'[t] = NoPage
    \/ /\ page'[t].on = page[t].on /\ page'[t].origin = page[t].origin
       /\ page'[t].kind \in {page[t].kind, "blank", "site"}
       /\ page'[t].st = "open" => page[t].st = "open"

PagesFade == \A t \in Targets : t \in FreshTargets \/ Fades(t)

ChromesMove ==
    \A b \in Browsers :
       /\ chrome'[b] = "up" => chrome[b] \in {"up", "starting"}
       /\ chrome'[b] \in Early => chrome[b] \in Early \/ b \in FreshBrowsers

\* A page comes to be used only beside one that is used.
UsedSpreads == \A t \in Targets : Used(t)' => \E u \in Targets : Used(u) /\ page[u].on = page'[t].on

KeptStays == \A t \in Targets : Kept(t)' => Kept(t)

VeilFalls == \A t \in Targets : Veiled(t)' => Veiled(t) \/ t \in FreshTargets

HumansKnown ==
    \A t \in Targets : page'[t].on # None /\ page'[t].origin = "human" =>
        \/ page[t].origin = "human" /\ page[t].on = page'[t].on
        \/ ~JustLaunched(page'[t].on)

NamesStay == \A b \in Browsers : Named(b)' => Named(b)

PortMoves == \/ active_port' \in {None, active_port}
             \/ active_port' \in Browsers /\ chrome[active_port'] = "starting"

\* A request that takes no step keeps what holds of it.
LEMMA CallKept ==
    ASSUME LaunchInv, PageInv, NEW y \in Calls, call'[y] = call[y],
           PagesFade, ChromesMove, HumansKnown, VeilFalls,
           page_lifecycle = y => page_lifecycle' = y,
           HoldsPages(y) => UsedSpreads /\ KeptStays,
           client' = client \/ ~Relies(y),
           At(y, "classify") => UNCHANGED <<client, client_lock>>,
           At(y, "boot") => NamesStay /\ PortMoves
    PROVE  CallOK(y)'
<1>t. /\ call[y] \in CallRecord /\ (NamesPage(call[y]) => call[y].target \in Targets)
      /\ TypeInv
  BY CallBefore DEF LaunchInv
<1>e. Endpoint(y) \in Maybe(Browsers) /\ Endpoint(y)' = Endpoint(y)
  BY <1>t DEF CallRecord, Endpoint
<1>f. Endpoint(y) # None => Endpoint(y) \notin FreshBrowsers
  BY DEF FreshBrowsers, Endpoint
<1>o. CallOK(y)
  BY DEF PageInv
<1>h. HoldsPages(y)' <=> HoldsPages(y)
  BY DEF HoldsPages
<1>1. LifecycleHeld(y)'
  BY <1>h, <1>o DEF CallOK, LifecycleHeld
<1>2. StagesFit(y)'
  BY <1>o DEF CallOK, StagesFit
<1>3. EndpointAnswered(y)'
  BY <1>e, <1>f, <1>o DEF CallOK, EndpointAnswered, ChromesMove, Maybe
<1>u. Endpoint(y) # None /\ chrome'[Endpoint(y)] = "up" => chrome[Endpoint(y)] = "up"
  BY <1>e, <1>o DEF CallOK, EndpointAnswered, ChromesMove, Maybe, Early
<1>n. call[y].pc \in Connected => Endpoint(y) # None
  BY <1>o DEF CallOK, EndpointAnswered
<1>4. QuitsItsOwn(y)'
  BY <1>e, <1>u, <1>n, <1>o DEF CallOK, QuitsItsOwn, Quitting, Connected
<1>5. SeesUsed(y)'
  <2> SUFFICES ASSUME HoldsPages(y) PROVE SeesUsed(y)'
    BY <1>h DEF SeesUsed
  <2>1. SeesUsed(y) /\ UsedSpreads /\ KeptStays
    BY <1>o DEF CallOK
  <2>2. call[y].pc \in Connected => \A t \in Targets : Used(t)' => page'[t].on = Endpoint(y)
    BY <2>1 DEF SeesUsed, UsedSpreads
  <2>3. call[y].pc \in {"forget", "clear"} => \A t \in Targets : ~Used(t)'
    BY <2>1 DEF SeesUsed, UsedSpreads
  <2>4. \A t \in Targets : Kept(t)' => Kept(t)
    BY <2>1 DEF KeptStays
  <2> QED BY <1>e, <2>1, <2>2, <2>3, <2>4 DEF SeesUsed
<1>6. TargetKnown(y)'
  <2> SUFFICES ASSUME call[y].pc \in {"claim", "created", "lease"} PROVE TargetKnown(y)'
    BY DEF TargetKnown
  <2> DEFINE t == call[y].target
  <2>1. t \in Targets /\ t \notin FreshTargets
    BY <1>t DEF NamesPage, FreshTargets
  <2>2. Fades(t) /\ TargetKnown(y) /\ (Veiled(t)' => Veiled(t))
    BY <1>o, <2>1 DEF CallOK, PagesFade, VeilFalls
  <2>3. \/ page'[t] = NoPage
        \/ /\ page'[t].on = page[t].on /\ page'[t].origin = page[t].origin
           /\ page'[t].kind \in {page[t].kind, "blank", "site"}
    BY <2>2 DEF Fades
  <2>4. NoPage.on = None /\ NoPage.kind = "site"
    BY DEF NoPage
  <2>5. ~Veiled(t) /\ ~Veiled(t)' /\ call'[y].target = t
    BY <2>2 DEF TargetKnown
  <2>6. ~Veiled(call[y].target)'
    BY <2>5 DEF Veiled
  <2>7. call[y].pc = "claim" => Endpoint(y) # None
    BY <1>n DEF Connected
  <2> QED BY <1>e, <1>u, <2>2, <2>3, <2>4, <2>6, <2>7 DEF TargetKnown
<1>7. ClientCurrent(y)'
  <2>1. call[y].pc \in {"op", "claim", "created", "inventory", "decide"} => Endpoint(y) # None
    BY <1>n DEF Connected
  <2> QED BY <1>e, <1>h, <1>u, <1>o, <2>1 DEF CallOK, ClientCurrent, Relies, At
<1>8. FreshUnseen(y)'
  <2>0. FreshUnseen(y) /\ (\A z \in Calls : CallOK(z)) /\ NamesAnswered /\ PagesHaveChrome
    BY <1>o DEF CallOK, PageInv, DataOK
  <2>1. ASSUME call[y].pc \in {"client", "classify"}, ~call[y].reused,
               NEW t \in Targets, page'[t].on = Endpoint(y), page'[t].origin = "human"
        PROVE  FALSE
    <3>1. Endpoint(y) # None /\ JustLaunched(Endpoint(y))
      BY <1>n, <2>1 DEF Connected, JustLaunched, Endpoint
    <3> QED BY <2>0, <2>1, <3>1 DEF FreshUnseen, HumansKnown
  <2>2. ASSUME call[y].pc = "boot", active_port' # None
        PROVE  ~Named(active_port)' /\ \A t \in Targets : page'[t].on = active_port' => page'[t].origin # "human"
    <3>1. NamesStay /\ PortMoves
      BY <2>2 DEF At
    <3>2. active_port' \in Browsers
      BY <2>2, <3>1, <1>t, FilesBefore DEF PortMoves, Maybe
    <3>3. CASE active_port' = active_port
      <4>1. ~Named(active_port) /\ client # active_port
        BY <2>0, <2>2, <3>3 DEF FreshUnseen, Named
      <4>2. JustLaunched(active_port)
        BY <2>2, <4>1 DEF JustLaunched, At
      <4>3. ~Named(active_port)'
        <5>1. \A b \in Browsers : Named(b)' => Named(b)
          BY <3>1 DEF NamesStay
        <5>2. Named(active_port)' <=> \E b \in Browsers : b = active_port' /\ Named(b)'
          BY <3>2 DEF Named
        <5> QED BY <3>3, <4>1, <5>1, <5>2
      <4> QED BY <2>0, <2>2, <3>3, <4>2, <4>3 DEF FreshUnseen, HumansKnown
    <3>4. CASE active_port' \in Browsers /\ chrome[active_port'] = "starting"
      <4>1. PICK b \in Browsers : b = active_port' /\ chrome[b] = "starting" /\ b # None
        BY <2>2, <3>4
      <4>2. ~Named(b)
        BY <2>0, <4>1 DEF Named, NamesAnswered, CallOK, EndpointAnswered, Early
      <4>3. ~Named(b)' /\ JustLaunched(b)
        BY <2>2, <3>1, <4>2 DEF NamesStay, JustLaunched, At, Named
      <4>4. ~Named(active_port)'
        BY <4>1, <4>3 DEF Named
      <4>5. \A t \in Targets : page[t].on # b
        BY <2>0, <4>1 DEF PagesHaveChrome, Answers
      <4> QED BY <4>1, <4>3, <4>4, <4>5 DEF HumansKnown
    <3> QED BY <2>2, <3>1, <3>3, <3>4 DEF PortMoves
  <2> QED BY <1>e, <2>1, <2>2 DEF FreshUnseen
<1>9. SeenHarmless(y)'
  <2>1. SeenHarmless(y)
    BY <1>o DEF CallOK
  <2>2. ASSUME NEW p \in call[y].seen PROVE p[1] \in Targets /\ Fades(p[1])
    <3>1. p[1] \in Targets
      BY <1>t DEF CallRecord
    <3>2. p[1] \notin FreshTargets
      BY DEF FreshTargets, Ids
    <3> QED BY <3>1, <3>2 DEF PagesFade
  <2>3. call[y].pc \in Quitting => Harmless(call[y].seen)'
    BY <2>1, <2>2 DEF SeenHarmless, Harmless, Fades, NoPage
  <2> QED BY <1>e, <1>u, <2>1, <2>3 DEF SeenHarmless
<1> QED BY <1>1, <1>2, <1>3, <1>4, <1>5, <1>6, <1>7, <1>8, <1>9 DEF CallOK

\* A new page nobody relies on yet.
BirthIdle(t) ==
    /\ t \in FreshTargets /\ t \notin leased'
    /\ page'[t].origin # "vbl" /\ page'[t].kind # "hidden"
    /\ page'[t].kind = "startup" => page'[t].origin = "chrome"

BirthsIdle == \A t \in Targets : Fades(t) \/ BirthIdle(t)

LeasesStay == \A t \in leased' : t \in leased \/ page'[t] = NoPage \/ page'[t].origin = "vbl"

LEMMA UsesSpread ==
    ASSUME TypeInv, PagesHaveChrome, ChromesMove, BirthsIdle, LeasesStay
    PROVE  UsedSpreads /\ KeptStays
<1> SUFFICES ASSUME NEW t \in Targets
             PROVE  /\ Used(t)' => Used(t) /\ page[t].on = page'[t].on
                    /\ Kept(t)' => Kept(t)
  BY DEF UsedSpreads, KeptStays
<1>0. NoPage.on = None /\ NoPage.st = "none" /\ page[t] \in PageRecord
  BY DataBefore DEF NoPage
<1>1. CASE Fades(t)
  <2> SUFFICES ASSUME page'[t] # NoPage
               PROVE  /\ Used(t)' => Used(t) /\ page[t].on = page'[t].on
                      /\ Kept(t)' => Kept(t)
    BY <1>0 DEF Used, Kept
  <2>1. /\ page'[t].on = page[t].on /\ page'[t].origin = page[t].origin
        /\ page'[t].kind = "hidden" => page[t].kind = "hidden"
        /\ page'[t].st = "open" => page[t].st = "open"
        /\ t \in leased' => t \in leased \/ page[t].origin = "vbl"
    BY <1>1 DEF Fades, LeasesStay
  <2>2. ASSUME page[t].on # None, chrome'[page[t].on] = "up" PROVE chrome[page[t].on] = "up"
    <3>1. page[t].on \in Browsers /\ Answers(page[t].on)
      BY <1>0, <2>2 DEF PagesHaveChrome, PageRecord, Maybe
    <3> QED BY <2>2, <3>1 DEF ChromesMove, Answers
  <2> QED BY <2>1, <2>2 DEF Used, Kept
<1>2. CASE BirthIdle(t)
  BY <1>2 DEF BirthIdle, Used, Kept
<1> QED BY <1>1, <1>2 DEF BirthsIdle

LEMMA ShuttersKept ==
    ASSUME TypeInv, ShuttersWait, \A b \in Browsers : Shutting(b)' => Shutting(b),
           \A x \in Calls : call[x].pc \in {"await", "kill"} =>
              \/ call'[x].pc \in {"await", "kill"} /\ call'[x].pid = call[x].pid
              \/ call[x].pid = None \/ chrome'[call[x].pid] = "none"
    PROVE  ShuttersWait'
<1> SUFFICES ASSUME NEW b \in Browsers, Shutting(b)'
             PROVE  \E x \in Calls : call'[x].pc \in {"await", "kill"} /\ call'[x].pid = b
  BY DEF ShuttersWait
<1>1. PICK x \in Calls : call[x].pc \in {"await", "kill"} /\ call[x].pid = b
  BY DEF ShuttersWait
<1> QED BY <1>1, BrowserNoneAssumption DEF Shutting

LEMMA NamesKept ==
    ASSUME TypeInv, NamesAnswered, ChromesMove,
           client' \in {client, None} \/ chrome'[client'] \notin Early,
           active_port' \in {active_port, None} \/ chrome'[active_port'] \notin Early
    PROVE  NamesAnswered'
<1>1. {client, active_port} \subseteq Maybe(Browsers)
  BY DEF TypeInv, BrowserTypeOK
<1>2. ASSUME NEW b \in {client, active_port}, b # None PROVE chrome'[b] \notin Early
  <2>1. b \in Browsers /\ b \notin FreshBrowsers
    BY <1>1, <1>2 DEF FreshBrowsers, Maybe
  <2> QED BY <1>2, <2>1 DEF NamesAnswered, ChromesMove
<1> QED BY <1>2 DEF NamesAnswered

LEMMA UsedKept ==
    ASSUME UsedIsCurrent, UsedSpreads, client' = client
    PROVE  UsedIsCurrent'
<1>1. \A t \in Targets : Used(t)' => client' = page'[t].on
  BY DEF UsedIsCurrent, UsedSpreads
<1> QED BY <1>1 DEF UsedIsCurrent

\* Pages somebody relies on stay where they are, while their Chrome is up.
LEMMA KeptKept ==
    ASSUME TypeInv, KeptIsUp, KeptStays, PagesFade,
           \A t \in Targets : Kept(t)' /\ chrome[page[t].on] = "up" => chrome'[page[t].on] = "up"
    PROVE  KeptIsUp'
<1>1. ASSUME NEW t \in Targets, Kept(t)' PROVE chrome'[page'[t].on] = "up"
  <2>1. Kept(t)
    BY <1>1 DEF KeptStays
  <2>2. t \notin FreshTargets /\ page'[t] # NoPage
    BY <1>1, <2>1 DEF FreshTargets, Kept, NoPage
  <2>3. page'[t].on = page[t].on
    BY <2>2 DEF PagesFade, Fades
  <2> QED BY <1>1, <2>1, <2>3 DEF KeptIsUp
<1> QED BY <1>1 DEF KeptIsUp

LEMMA MarksKept ==
    ASSUME TypeInv, MarksAreChromes, PagesFade, synthetic' \cup startup' \subseteq synthetic \cup startup
    PROVE  MarksAreChromes'
<1>1. ASSUME NEW t \in synthetic' \cup startup', page'[t].st = "open" PROVE page'[t].origin = "chrome"
  <2>1. t \in Targets /\ t \in synthetic \cup startup /\ t \notin FreshTargets
    BY DataBefore DEF FreshTargets
  <2>2. Fades(t)
    BY <2>1 DEF PagesFade
  <2> QED BY <1>1, <2>1, <2>2 DEF Fades, MarksAreChromes, NoPage
<1> QED BY <1>1 DEF MarksAreChromes

LEMMA StartupKept ==
    ASSUME StartupIsChromes,
           \A t \in Targets : Fades(t) \/ page'[t].kind # "startup" \/ page'[t].origin = "chrome"
    PROVE  StartupIsChromes'
<1>1. ASSUME NEW t \in Targets, page'[t].kind = "startup" PROVE page'[t].origin = "chrome"
  BY <1>1 DEF Fades, StartupIsChromes, NoPage
<1> QED BY <1>1 DEF StartupIsChromes

LEMMA LeasedKept ==
    ASSUME TypeInv, LeasedUnmarked, PagesFade, synthetic' \cup startup' \subseteq synthetic \cup startup,
           \A t \in leased' : t \in leased \/ t \notin synthetic' \cup startup' \/ page'[t].st # "open",
           \A x \in Calls : At(x, "mark") =>
              call'[x] = call[x] \/ call[x].target \notin synthetic' \cup startup'
    PROVE  LeasedUnmarked'
<1>1. ASSUME NEW t \in leased' \cap (synthetic' \cup startup'), page'[t].st = "open"
      PROVE  \E x \in Calls : At(x, "mark")' /\ call'[x].target = t
  <2>1. t \in Targets /\ t \in leased \cap (synthetic \cup startup) /\ t \notin FreshTargets
    BY <1>1, DataBefore DEF FreshTargets
  <2>2. Fades(t)
    BY <2>1 DEF PagesFade
  <2>3. page[t].st = "open"
    BY <1>1, <2>2 DEF Fades, NoPage
  <2>4. PICK x \in Calls : At(x, "mark") /\ call[x].target = t
    BY <2>1, <2>3 DEF LeasedUnmarked
  <2> QED BY <2>4 DEF At
<1> QED BY <1>1 DEF LeasedUnmarked

LEMMA VeilKept ==
    ASSUME TypeInv, VeiledIsNobodys, PagesFade,
           \A t \in Targets : Veiled(t)' => Veiled(t),
           \A t \in leased' : Veiled(t) => t \in leased
    PROVE  VeiledIsNobodys'
<1>1. ASSUME NEW t \in Targets, Veiled(t)' PROVE t \notin leased' /\ page'[t].origin # "vbl"
  <2>1. Veiled(t)
    BY <1>1
  <2>2. t \notin FreshTargets
    BY <2>1 DEF FreshTargets, Veiled
  <2>3. Fades(t)
    BY <2>2 DEF PagesFade
  <2> QED BY <2>1, <2>3 DEF Fades, VeiledIsNobodys, NoPage
<1> QED BY <1>1 DEF VeiledIsNobodys

LEMMA RecordersKept ==
    ASSUME TypeInv, RecordersVeiled, PagesHaveChrome, ChromesMove,
           \A t \in Targets : Fades(t) \/ page'[t].kind # "hidden",
           \A t \in Targets : Veiled(t) /\ page[t].on # None => Veiled(t)'
    PROVE  RecordersVeiled'
<1>1. ASSUME NEW t \in Targets, page'[t].kind = "hidden", chrome'[page'[t].on] = "up"
      PROVE  Veiled(t)'
  <2>1. page'[t].on = page[t].on /\ page[t].kind = "hidden"
    BY <1>1 DEF Fades, NoPage
  <2>2. page[t].on # None
    BY <2>1 DEF PagesHaveChrome, NoPage
  <2>3. page[t].on \in Browsers /\ Answers(page[t].on)
    BY <2>2, DataBefore DEF PagesHaveChrome, PageRecord, Maybe
  <2>4. chrome[page[t].on] = "up"
    BY <1>1, <2>1, <2>3 DEF ChromesMove, Answers
  <2> QED BY <2>1, <2>2, <2>4 DEF RecordersVeiled
<1> QED BY <1>1 DEF RecordersVeiled

LEMMA ToldKept ==
    ASSUME TypeInv, ToldHarmless, PagesFade,
           \A b \in Browsers : told'[b] # None =>
              told'[b] = told[b] /\ chrome'[b] \in {"closing", "released", "mute"}
    PROVE  ToldHarmless'
<1>1. ASSUME NEW b \in Browsers, told'[b] # None
      PROVE  Harmless(told[b])'
  <2>1. told'[b] = told[b] /\ Harmless(told[b])
    BY <1>1 DEF ToldHarmless
  <2>2. ASSUME NEW p \in told[b] PROVE Fades(p[1])
    <3>1. p[1] \in Targets
      <4>1. told[b] \in SUBSET (Targets \X Kinds)
        BY <1>1, <2>1, DataBefore DEF Told, Maybe
      <4> QED BY <4>1
    <3>2. p[1] \notin FreshTargets
      BY <1>1, <2>1 DEF FreshTargets, Ids
    <3> QED BY <3>1, <3>2 DEF PagesFade
  <2> QED BY <2>1, <2>2 DEF Harmless, Fades, NoPage
<1> QED BY <1>1 DEF ToldHarmless

(***************************************************************************)
(* The steps of Chrome, of its pages and of the human.                     *)
(***************************************************************************)
\* Nobody's Chrome that keeps a page it must keep goes down, and no new
\* inventory is told to one.
ChromeSpares ==
    /\ \A b \in Browsers : Shutting(b)' => Shutting(b)
    /\ \A t \in Targets : Kept(t)' /\ chrome[page[t].on] = "up" => chrome'[page[t].on] = "up"
    /\ \A b \in Browsers : told'[b] # None =>
          told'[b] = told[b] /\ chrome'[b] \in {"closing", "released", "mute"}

LEMMA WorldStep ==
    ASSUME LaunchInv, PageInv, call' = call,
           UNCHANGED <<client, client_lock, page_lifecycle, synthetic, startup>>,
           leased' \subseteq leased, BirthsIdle, ChromesMove, HumansKnown, PortMoves,
           \A t \in Targets : Veiled(t)' <=> Veiled(t),
           active_port' \in {active_port, None} \/ chrome'[active_port'] \notin Early,
           UpIsActive', PagesHaveChrome', ChromeSpares
    PROVE  PageInv'
<1>t. TypeInv /\ DataOK
  BY DEF LaunchInv, PageInv
<1>1. PagesFade
  BY DEF BirthsIdle, BirthIdle, PagesFade
<1>2. UsedSpreads /\ KeptStays
  BY <1>t, UsesSpread DEF DataOK, LeasesStay
<1>3. ASSUME NEW y \in Calls PROVE CallOK(y)'
  <2>1. VeilFalls
    BY DEF VeilFalls
  <2>2. NamesStay
    BY DEF NamesStay, Named, Endpoint
  <2> QED BY <1>1, <1>2, <2>1, <2>2, CallKept
<1>4. ShuttersWait' /\ NamesAnswered' /\ UsedIsCurrent' /\ KeptIsUp'
  BY <1>t, <1>1, <1>2, ShuttersKept, NamesKept, UsedKept, KeptKept DEF DataOK, ChromeSpares
<1>5. MarksAreChromes' /\ LeasedUnmarked' /\ VeiledIsNobodys'
  BY <1>t, <1>1, MarksKept, LeasedKept, VeilKept DEF DataOK
<1>6. StartupIsChromes' /\ RecordersVeiled'
  <2>1. \A t \in Targets : /\ Fades(t) \/ page'[t].kind # "startup" \/ page'[t].origin = "chrome"
                           /\ Fades(t) \/ page'[t].kind # "hidden"
    BY DEF BirthsIdle, BirthIdle
  <2> QED BY <1>t, <2>1, StartupKept, RecordersKept DEF DataOK
<1>7. ToldHarmless'
  BY <1>t, <1>1, ToldKept DEF DataOK, ChromeSpares
<1> QED BY <1>3, <1>4, <1>5, <1>6, <1>7 DEF PageInv, DataOK

\* Where the pages stay as they are.
LEMMA SamePages ==
    ASSUME page' = page
    PROVE  BirthsIdle /\ HumansKnown
BY DEF BirthsIdle, Fades, HumansKnown

LEMMA Death ==
    ASSUME TypeInv, DataOK, NEW b \in Browsers, Dies(b)
    PROVE  /\ BirthsIdle /\ HumansKnown /\ ChromesMove /\ PagesHaveChrome' /\ ChromeSpares
           /\ \A c \in Browsers \ {b} : chrome'[c] = chrome[c]
           /\ chrome'[b] = "none"
<1>1. /\ \A c \in Browsers \ {b} : chrome'[c] = chrome[c] /\ told'[c] = told[c]
      /\ chrome'[b] = "none" /\ told'[b] = None
      /\ \A t \in Targets : page'[t] = IF page[t].on = b THEN NoPage ELSE page[t]
  BY DataBefore DEF Dies, WithoutPagesOf, Told
<1>2. BirthsIdle /\ HumansKnown
  BY <1>1 DEF BirthsIdle, Fades, HumansKnown, NoPage
<1>3. ChromesMove
  BY <1>1 DEF ChromesMove, Early
<1>4. PagesHaveChrome'
  <2>1. ASSUME NEW t \in Targets, page'[t].on # None
        PROVE  page'[t] = page[t] /\ page[t].on \in Browsers \ {b}
    BY <1>1, <2>1, DataBefore DEF NoPage, PageRecord, Maybe
  <2>2. ASSUME NEW t \in Targets, page'[t].on # None
        PROVE  chrome'[page'[t].on] \in {"up", "closing", "released"} /\ page'[t].st # "none"
    BY <1>1, <2>1, <2>2 DEF DataOK, PagesHaveChrome, Answers
  <2>3. ASSUME NEW t \in Targets, page'[t].on = None PROVE page'[t] = NoPage
    BY <1>1, <2>3 DEF DataOK, PagesHaveChrome
  <2> QED BY <2>2, <2>3 DEF PagesHaveChrome, Answers
<1>5. ChromeSpares
  <2>1. ASSUME NEW t \in Targets, Kept(t)', chrome[page[t].on] = "up"
        PROVE  chrome'[page[t].on] = "up"
    <3>1. page'[t].st = "open"
      BY <2>1 DEF Kept
    <3>2. page[t].on # b /\ page[t].on # None /\ page[t] \in PageRecord
      BY <1>1, <3>1, DataBefore DEF NoPage, DataOK, PagesHaveChrome
    <3> QED BY <1>1, <2>1, <3>2 DEF PageRecord, Maybe
  <2>2. \A c \in Browsers : Shutting(c)' => Shutting(c)
    BY <1>1 DEF Shutting
  <2>3. \A c \in Browsers : told'[c] # None =>
           told'[c] = told[c] /\ chrome'[c] \in {"closing", "released", "mute"}
    BY <1>1 DEF DataOK, ToldHarmless
  <2> QED BY <2>1, <2>2, <2>3 DEF ChromeSpares
<1> QED BY <1>1, <1>2, <1>3, <1>4, <1>5

LEMMA PagesOfProcesses ==
    ASSUME LaunchInv, PageInv, Calm, NEW b \in Browsers, Process(b)
    PROVE  PageInv'
<1>t. /\ TypeInv /\ DataOK /\ chrome \in [Browsers -> ChromeStates] /\ b # None
      /\ told \in Told /\ page \in [Targets -> PageRecord]
  BY DataBefore, BrowserNoneAssumption DEF LaunchInv, PageInv
<1>u. /\ call' = call /\ leased' \subseteq leased
      /\ UNCHANGED <<client, client_lock, page_lifecycle, synthetic, startup>>
      /\ \A t \in Targets : Veiled(t)' <=> Veiled(t)
  BY DEF Process, TakesProfile, ComesUp, Crashes, HumanQuits, HumanLaunches, MuteQuits,
         ReleasesProfile, Exits, ChromeUnchanged, clientVars, hiddenVars, Veiled
<1>1. CASE Crashes(b) \/ MuteQuits(b) \/ Exits(b)
  <2>1. Dies(b) /\ active_port' = active_port
    BY <1>1 DEF Crashes, MuteQuits, Exits
  <2>2. UpIsActive'
    BY <1>t, <2>1, Death DEF DataOK, UpIsActive
  <2> QED BY <1>t, <1>u, <2>1, <2>2, Death, WorldStep DEF PortMoves
<1>2. CASE TakesProfile(b) \/ HumanLaunches(b) \/ ReleasesProfile(b)
  <2>1. /\ page' = page /\ told' = told /\ active_port' = active_port
        /\ \A c \in Browsers \ {b} : chrome'[c] = chrome[c]
        /\ \/ chrome[b] = "spawned" /\ chrome'[b] \in {"none", "starting"}
           \/ chrome[b] = "none" /\ b \in FreshBrowsers /\ chrome'[b] = "mute"
           \/ chrome[b] = "closing" /\ chrome'[b] = "released"
    BY <1>t, <1>2 DEF TakesProfile, HumanLaunches, ReleasesProfile, FreshBrowsers
  <2>2. ChromesMove
    BY <2>1 DEF ChromesMove, Early
  <2>3. UpIsActive'
    BY <1>t, <2>1 DEF DataOK, UpIsActive
  <2>4. PagesHaveChrome'
    <3>1. ASSUME NEW t \in Targets, page[t].on # None PROVE chrome'[page[t].on] \in {"up", "closing", "released"}
      <4>1. page[t].on \in Browsers /\ Answers(page[t].on)
        BY <1>t, <3>1 DEF DataOK, PagesHaveChrome, PageRecord, Maybe
      <4> QED BY <2>1, <4>1 DEF Answers
    <3> QED BY <1>t, <2>1, <3>1 DEF DataOK, PagesHaveChrome, Answers
  <2>5. ChromeSpares
    <3>1. ASSUME NEW t \in Targets, Kept(t)', chrome[page[t].on] = "up"
          PROVE  chrome'[page[t].on] = "up"
      <4>1. page[t].on \in Browsers
        BY <1>t, <2>1, <3>1 DEF Kept, DataOK, PagesHaveChrome, PageRecord, Maybe, NoPage
      <4> QED BY <2>1, <3>1, <4>1
    <3>2. \A c \in Browsers : Shutting(c)' => Shutting(c)
      BY <2>1 DEF Shutting
    <3>3. \A c \in Browsers : told[c] # None => chrome'[c] \in {"closing", "released", "mute"}
      BY <1>t, <2>1 DEF DataOK, ToldHarmless
    <3> QED BY <2>1, <3>1, <3>2, <3>3 DEF ChromeSpares
  <2> QED BY <1>u, <2>1, <2>2, <2>3, <2>4, <2>5, SamePages, WorldStep DEF PortMoves
<1>3. CASE ComesUp(b)
  <2>1. PICK t \in Targets, kind \in {"startup", "blank"} :
           t \in FreshTargets /\ page' = Born(t, b, kind, "chrome")
    BY <1>3 DEF ComesUp, FreshTargets
  <2>2. /\ told' = told /\ active_port' = b /\ chrome[b] = "starting" /\ chrome'[b] = "up"
        /\ \A c \in Browsers \ {b} : chrome'[c] = chrome[c]
        /\ page'[t] = [st |-> "open", on |-> b, kind |-> kind, origin |-> "chrome"]
        /\ \A u \in Targets \ {t} : page'[u] = page[u]
    BY <1>t, <1>3, <2>1 DEF ComesUp, Born
  <2>3. BirthsIdle
    <3>1. BirthIdle(t)
      BY <1>u, <2>1, <2>2 DEF BirthIdle, FreshTargets
    <3> QED BY <2>2, <3>1 DEF BirthsIdle, Fades
  <2>4. HumansKnown
    BY <2>2 DEF HumansKnown
  <2>5. ChromesMove /\ PortMoves /\ chrome'[active_port'] \notin Early
    BY <2>2 DEF ChromesMove, PortMoves, Early
  <2>6. UpIsActive'
    <3>1. ASSUME NEW c \in Browsers, chrome[c] = "up" PROVE c = b
      BY <2>2, <3>1 DEF LaunchInv, UsersOwnTheProfile
    <3> QED BY <2>2, <3>1 DEF UpIsActive
  <2>7. PagesHaveChrome'
    <3>1. ASSUME NEW u \in Targets \ {t}, page[u].on # None
          PROVE  Answers(page[u].on)'
      <4>1. page[u].on \in Browsers /\ Answers(page[u].on)
        BY <1>t, <3>1 DEF DataOK, PagesHaveChrome, PageRecord, Maybe
      <4> QED BY <2>2, <4>1 DEF Answers
    <3>2. Answers(b)'
      BY <2>2 DEF Answers
    <3> QED BY <1>t, <2>2, <3>1, <3>2 DEF DataOK, PagesHaveChrome
  <2>8. ChromeSpares
    <3>1. ASSUME NEW u \in Targets, Kept(u)', chrome[page[u].on] = "up"
          PROVE  chrome'[page[u].on] = "up"
      <4>1. Kept(u)
        <5>1. t \notin leased'
          BY <1>u, <2>1 DEF FreshTargets
        <5> QED BY <1>u, <2>2, <3>1, <5>1 DEF Kept
      <4>2. page[u].on \in Browsers
        BY <1>t, <4>1 DEF Kept, DataOK, PagesHaveChrome, PageRecord, Maybe, NoPage
      <4> QED BY <2>2, <3>1, <4>2
    <3>2. \A c \in Browsers : Shutting(c)' => Shutting(c)
      BY <2>2 DEF Shutting
    <3>3. \A c \in Browsers : told[c] # None => chrome'[c] \in {"closing", "released", "mute"}
      BY <1>t, <2>2 DEF DataOK, ToldHarmless
    <3> QED BY <2>2, <3>1, <3>2, <3>3 DEF ChromeSpares
  <2> QED BY <1>u, <2>3, <2>4, <2>5, <2>6, <2>7, <2>8, WorldStep
<1>4. ~HumanQuits(b)
  BY DEF HumanQuits, Calm, May
<1> QED BY <1>1, <1>2, <1>3, <1>4 DEF Process

\* Where Chrome's processes stay as they are.
LEMMA SameChrome ==
    ASSUME DataOK, UNCHANGED <<chrome, told, active_port>>
    PROVE  ChromesMove /\ PortMoves /\ UpIsActive' /\ ChromeSpares
<1>1. \A b \in Browsers : Shutting(b)' => Shutting(b)
  BY DEF Shutting
<1>2. \A b \in Browsers : told[b] # None => chrome[b] \in {"closing", "released", "mute"}
  BY DEF DataOK, ToldHarmless
<1> QED BY <1>1, <1>2 DEF ChromesMove, PortMoves, UpIsActive, ChromeSpares, DataOK

LEMMA PagesOfPages ==
    ASSUME LaunchInv, PageInv, PageStep
    PROVE  PageInv'
<1>t. TypeInv /\ DataOK /\ page \in [Targets -> PageRecord]
  BY DataBefore DEF LaunchInv, PageInv
<1>u. /\ call' = call /\ leased' \subseteq leased
      /\ UNCHANGED <<chrome, told, active_port, client, client_lock, page_lifecycle, synthetic, startup>>
      /\ \A t \in Targets : Veiled(t)' <=> Veiled(t)
  BY DEF PageStep, HumanOpens, Navigates, HumanCloses, Disappears, LeaseEnds, PagesUnchanged,
         fileVars, clientVars, hiddenVars, Veiled
<1>s. ASSUME BirthsIdle, HumansKnown,
             \A t \in Targets : \/ page'[t] \in {NoPage, page[t]}
                                \/ page'[t].on # None /\ Answers(page'[t].on) /\ page'[t].st # "none"
      PROVE  PageInv'
  <2>1. PagesHaveChrome'
    <3>1. \A t \in Targets : IF page'[t].on = None THEN page'[t] = NoPage
                             ELSE Answers(page'[t].on) /\ page'[t].st # "none"
      BY <1>t, <1>s DEF DataOK, PagesHaveChrome, NoPage
    <3> QED BY <1>u, <3>1 DEF PagesHaveChrome, Answers
  <2> QED BY <1>t, <1>u, <1>s, <2>1, SameChrome, WorldStep
<1>1. ASSUME NEW b \in Browsers, NEW t \in Targets, NEW kind \in {"blank", "site"},
             HumanOpens(t, b, kind)
      PROVE  PageInv'
  <2>1. PICK origin \in {"chrome", "human"} :
           /\ page' = Born(t, b, kind, origin) /\ (origin = "human" => ~JustLaunched(b))
    BY <1>1 DEF HumanOpens
  <2>2. /\ t \in FreshTargets /\ chrome[b] = "up" /\ b # None
        /\ page'[t] = [st |-> "open", on |-> b, kind |-> kind, origin |-> origin]
        /\ \A u \in Targets \ {t} : page'[u] = page[u]
    BY <1>t, <1>1, <2>1, BrowserNoneAssumption DEF HumanOpens, Born
  <2>3. BirthsIdle
    <3>1. BirthIdle(t)
      BY <1>u, <2>2 DEF BirthIdle, FreshTargets
    <3> QED BY <2>2, <3>1 DEF BirthsIdle, Fades
  <2>4. HumansKnown
    BY <2>1, <2>2 DEF HumansKnown
  <2> QED BY <1>s, <2>2, <2>3, <2>4 DEF Answers
<1>2. ASSUME NEW t \in Targets, NEW kind \in {"blank", "site"}, Navigates(t, kind)
      PROVE  PageInv'
  <2>1. /\ page'[t].on = page[t].on /\ page'[t].origin = page[t].origin
        /\ page'[t].st = page[t].st /\ page'[t].kind = kind /\ page[t].st = "open"
        /\ \A u \in Targets \ {t} : page'[u] = page[u]
    BY <1>t, <1>2 DEF Navigates, PageRecord
  <2>2. BirthsIdle /\ HumansKnown
    BY <2>1 DEF BirthsIdle, Fades, HumansKnown
  <2>3. page[t].on # None /\ Answers(page[t].on)
    BY <1>t, <2>1 DEF DataOK, PagesHaveChrome, NoPage
  <2> QED BY <1>s, <2>1, <2>2, <2>3
<1>3. ASSUME NEW t \in Targets, HumanCloses(t) \/ Disappears(t)
      PROVE  PageInv'
  <2>1. page'[t] = NoPage /\ \A u \in Targets \ {t} : page'[u] = page[u]
    BY <1>t, <1>3 DEF HumanCloses, Disappears
  <2>2. BirthsIdle /\ HumansKnown
    BY <2>1 DEF BirthsIdle, Fades, HumansKnown, NoPage
  <2> QED BY <1>s, <2>1, <2>2
<1>4. ASSUME NEW t \in Targets, LeaseEnds(t) PROVE PageInv'
  <2>1. page' = page
    BY <1>4 DEF LeaseEnds
  <2> QED BY <1>s, <2>1, SamePages
<1> QED BY <1>1, <1>2, <1>3, <1>4 DEF PageStep

(***************************************************************************)
(* The recorder's steps.                                                   *)
(***************************************************************************)
LEMMA PagesOfRecorder ==
    ASSUME LaunchInv, PageInv, RecorderStep
    PROVE  PageInv'
<1>t. TypeInv /\ DataOK /\ page \in [Targets -> PageRecord]
  BY DataBefore DEF LaunchInv, PageInv
<1>u. /\ UNCHANGED <<call, leased, chrome, told, active_port, client, client_lock, page_lifecycle,
                     synthetic, startup>>
  BY DEF RecorderStep, CreateHiddenTarget, MarkPrivate, CloseHiddenTarget, MarkClosing,
         RecorderUnchanged, fileVars, clientVars
<1>1. CASE MarkPrivate \/ CloseHiddenTarget \/ MarkClosing
  <2>1. \A t \in Targets : Veiled(t)' <=> Veiled(t)
    <3>1. \/ /\ recorder.pc = "creating" /\ recorder'.pc = "recording"
             /\ private' = private \cup {recorder.target}
          \/ recorder.pc # "creating" /\ recorder'.pc # "creating" /\ private' = private
      BY <1>1 DEF MarkPrivate, CloseHiddenTarget, MarkClosing, TypeInv, BrowserTypeOK, LaunchInv
    <3> QED BY <3>1 DEF Veiled
  <2>2. \A t \in Targets :
           \/ page'[t] = page[t]
           \/ /\ page'[t].on = page[t].on /\ page'[t].origin = page[t].origin
              /\ page'[t].kind = page[t].kind /\ page[t].st = "open" /\ page'[t].st = "going"
    <3>1. CASE page' = page
      BY <3>1
    <3>2. CASE page' = [page EXCEPT ![recorder.target].st = IF @ = "open" THEN "going" ELSE @]
      BY <1>t, <3>2 DEF PageRecord
    <3> QED BY <1>1, <3>1, <3>2 DEF MarkPrivate, CloseHiddenTarget, MarkClosing
  <2>3. BirthsIdle /\ HumansKnown
    BY <2>2 DEF BirthsIdle, Fades, HumansKnown
  <2>4. PagesHaveChrome'
    <3>1. \A t \in Targets : IF page'[t].on = None THEN page'[t] = NoPage
                             ELSE Answers(page'[t].on) /\ page'[t].st # "none"
      BY <1>t, <2>2 DEF DataOK, PagesHaveChrome, NoPage
    <3> QED BY <1>u, <3>1 DEF PagesHaveChrome, Answers
  <2> QED BY <1>t, <1>u, <2>1, <2>3, <2>4, SameChrome, WorldStep
<1>2. ASSUME NEW t \in Targets, CreateHiddenTarget(t) PROVE PageInv'
  <2>1. /\ t \in FreshTargets /\ client # None /\ chrome[client] = "up"
        /\ page'[t] = [st |-> "open", on |-> client, kind |-> "hidden", origin |-> "chrome"]
        /\ \A u \in Targets \ {t} : page'[u] = page[u]
        /\ \E u \in leased : page[u].on = client
        /\ private' = private /\ recorder.pc = "none"
        /\ recorder' = [pc |-> "creating", target |-> t]
    BY <1>t, <1>2 DEF CreateHiddenTarget, Born
  <2>2. /\ \A u \in Targets \ {t} : Veiled(u)' <=> Veiled(u)
        /\ Veiled(t)' /\ t \notin leased
    BY <2>1 DEF Veiled, FreshTargets
  <2>3. \A u \in Targets \ {t} : Fades(u) /\ (Used(u)' <=> Used(u)) /\ (Kept(u)' <=> Kept(u))
    BY <1>u, <2>1 DEF Fades, Used, Kept
  <2>4. PagesFade /\ HumansKnown /\ VeilFalls
    BY <2>1, <2>2, <2>3 DEF PagesFade, HumansKnown, VeilFalls
  <2>5. UsedSpreads /\ KeptStays
    <3>1. PICK u \in leased : page[u].on = client
      BY <2>1
    <3>2. u \in Targets /\ Used(u)
      BY <2>1, <3>1, <1>t, DataBefore DEF Used
    <3>3. page'[t].on = client /\ ~Kept(t)'
      BY <1>u, <2>1, <2>2 DEF Kept
    <3> QED BY <2>1, <2>3, <3>1, <3>2, <3>3 DEF UsedSpreads, KeptStays
  <2>6. ChromesMove /\ PortMoves /\ UpIsActive' /\ ChromeSpares
    BY <1>t, <1>u, SameChrome
  <2>7. ASSUME NEW y \in Calls PROVE CallOK(y)'
    <3>1. NamesStay
      BY <1>u DEF NamesStay, Named, Endpoint
    <3> QED BY <1>u, <2>4, <2>5, <2>6, <3>1, CallKept
  <2>8. PagesHaveChrome'
    <3>1. \A u \in Targets : IF page'[u].on = None THEN page'[u] = NoPage
                             ELSE Answers(page'[u].on) /\ page'[u].st # "none"
      BY <1>t, <2>1 DEF DataOK, PagesHaveChrome, Answers
    <3> QED BY <1>u, <3>1 DEF PagesHaveChrome, Answers
  <2>9. ShuttersWait' /\ NamesAnswered' /\ UsedIsCurrent' /\ KeptIsUp'
    BY <1>t, <1>u, <2>4, <2>5, <2>6, ShuttersKept, NamesKept, UsedKept, KeptKept DEF DataOK, ChromeSpares
  <2>10. MarksAreChromes' /\ LeasedUnmarked' /\ ToldHarmless'
    BY <1>t, <1>u, <2>4, <2>6, MarksKept, LeasedKept, ToldKept DEF DataOK, ChromeSpares
  <2>11. StartupIsChromes'
    BY <1>t, <2>1, <2>3, StartupKept DEF DataOK
  <2>12. VeiledIsNobodys' /\ RecordersVeiled'
    <3>1. VeiledIsNobodys /\ RecordersVeiled
      BY <1>t DEF DataOK
    <3>2. \A u \in Targets : Veiled(u)' => u \notin leased' /\ page'[u].origin # "vbl"
      BY <1>u, <2>1, <2>2, <3>1 DEF VeiledIsNobodys
    <3>3. \A u \in Targets : page'[u].kind = "hidden" /\ chrome'[page'[u].on] = "up" => Veiled(u)'
      BY <1>u, <2>1, <2>2, <3>1 DEF RecordersVeiled
    <3> QED BY <3>2, <3>3 DEF VeiledIsNobodys, RecordersVeiled
  <2> QED BY <2>6, <2>7, <2>8, <2>9, <2>10, <2>11, <2>12 DEF PageInv, DataOK
<1> QED BY <1>1, <1>2 DEF RecorderStep

(***************************************************************************)
(* The steps of a request.                                                 *)
(***************************************************************************)
\* The other requests do not notice who holds what.
LocksPass(x) ==
    /\ page_lifecycle \in {None, x} \/ page_lifecycle' = page_lifecycle
    /\ client_lock \in {None, x} \/ client_lock' = client_lock
    /\ call[x].pc \in LaunchPcs \/ Endpoint(x)' \in {None, Endpoint(x)}

LEMMA OthersKept ==
    ASSUME LaunchInv, PageInv, NEW x \in Calls, OthersStay(x), LocksPass(x), NEW y \in Calls \ {x},
           PagesFade, ChromesMove, HumansKnown, VeilFalls, PortMoves,
           HoldsPages(y) => UsedSpreads /\ KeptStays, client' = client
    PROVE  CallOK(y)'
<1>1. call'[y] = call[y] /\ y # None
  BY BrowserNoneAssumption DEF OthersStay
<1>2. CallOK(y)
  BY DEF PageInv
<1>3. page_lifecycle = y => page_lifecycle' = y
  BY <1>1 DEF LocksPass
<1>4. At(y, "classify") => UNCHANGED <<client, client_lock>>
  BY <1>1, <1>2 DEF LocksPass, CallOK, ClientCurrent, At
<1>5. ASSUME At(y, "boot") PROVE NamesStay
  <2>1. call[x].pc \notin LaunchPcs
    BY <1>5 DEF LaunchInv, HoldersLaunch, At, LaunchPcs
  <2>2. ASSUME NEW z \in Calls PROVE Endpoint(z)' \in {None, Endpoint(z)}
    BY <2>1 DEF LocksPass, OthersStay, Endpoint
  <2>3. None \notin Browsers
    BY BrowserNoneAssumption
  <2> QED BY <2>2, <2>3 DEF NamesStay, Named
<1> QED BY <1>1, <1>3, <1>4, <1>5, CallKept

\* A request's step that leaves Chrome alone and starts no page.
LEMMA RequestStep ==
    ASSUME LaunchInv, PageInv, NEW x \in Calls, OthersStay(x), LocksPass(x), CallOK(x)',
           UNCHANGED <<chrome, told, active_port, client>>,
           \A t \in Targets : Fades(t), PagesHaveChrome', LeasesStay,
           \A t \in Targets : Veiled(t)' => Veiled(t),
           \A t \in Targets : Veiled(t) /\ page[t].on # None => Veiled(t)',
           synthetic' \cup startup' \subseteq synthetic \cup startup,
           \A t \in leased' : \/ t \in leased
                            \/ /\ ~Veiled(t)
                               /\ t \notin synthetic' \cup startup' \/ page'[t].st # "open",
           At(x, "mark") => call[x].target \notin synthetic' \cup startup',
           call[x].pc \in {"await", "kill"} => call[x].pid = None \/ chrome[call[x].pid] = "none"
    PROVE  PageInv'
<1>t. TypeInv /\ DataOK
  BY DEF LaunchInv, PageInv
<1>1. PagesFade /\ BirthsIdle /\ HumansKnown /\ VeilFalls
  BY DEF PagesFade, BirthsIdle, HumansKnown, Fades, VeilFalls, NoPage
<1>2. ChromesMove /\ PortMoves /\ UpIsActive' /\ ChromeSpares
  BY <1>t, SameChrome
<1>3. UsedSpreads /\ KeptStays
  BY <1>t, <1>1, <1>2, UsesSpread DEF DataOK
<1>4. ASSUME NEW y \in Calls PROVE CallOK(y)'
  BY <1>1, <1>2, <1>3, OthersKept
<1>5. ShuttersWait'
  <2>1. \A y \in Calls \ {x} : call'[y] = call[y]
    BY DEF OthersStay
  <2> QED BY <1>t, <1>2, <2>1, ShuttersKept DEF DataOK, ChromeSpares
<1>6. NamesAnswered' /\ UsedIsCurrent' /\ KeptIsUp'
  BY <1>t, <1>1, <1>2, <1>3, NamesKept, UsedKept, KeptKept DEF DataOK, ChromeSpares
<1>7. MarksAreChromes' /\ ToldHarmless' /\ VeiledIsNobodys'
  BY <1>t, <1>1, <1>2, MarksKept, ToldKept, VeilKept DEF DataOK, ChromeSpares
<1>8. LeasedUnmarked'
  <2>1. \A y \in Calls : At(y, "mark") =>
           call'[y] = call[y] \/ call[y].target \notin synthetic' \cup startup'
    BY DEF OthersStay
  <2> QED BY <1>t, <1>1, <2>1, LeasedKept DEF DataOK
<1>9. StartupIsChromes' /\ RecordersVeiled'
  BY <1>t, <1>2, StartupKept, RecordersKept DEF DataOK
<1> QED BY <1>2, <1>4, <1>5, <1>6, <1>7, <1>8, <1>9 DEF PageInv, DataOK

\* A request that has no inventory, and no endpoint it may use yet.
LEMMA EarlyOK ==
    ASSUME NEW x \in Calls,
           call'[x].pc \in {"idle", "reserve", "ensure", "probe", "held", "launch", "boot"},
           call'[x].pc = "boot" => active_port' = None,
           HoldsPages(x)' => page_lifecycle' = x, call'[x].seen = {},
           Endpoint(x)' # None => chrome'[Endpoint(x)'] \notin Early
    PROVE  CallOK(x)'
<1>1. LifecycleHeld(x)' /\ StagesFit(x)' /\ EndpointAnswered(x)' /\ QuitsItsOwn(x)'
  BY DEF LifecycleHeld, StagesFit, EndpointAnswered, QuitsItsOwn, Connected, Quitting, LaunchPcs
<1>2. SeesUsed(x)' /\ TargetKnown(x)' /\ ClientCurrent(x)' /\ FreshUnseen(x)'
  BY DEF SeesUsed, TargetKnown, ClientCurrent, Relies, FreshUnseen, Connected, Quitting
<1>3. SeenHarmless(x)'
  BY DEF SeenHarmless, Quitting
<1> QED BY <1>1, <1>2, <1>3 DEF CallOK

LEMMA EndedOK ==
    ASSUME TypeInv, NEW x \in Calls, End(x)
    PROVE  /\ CallOK(x)' /\ OthersStay(x) /\ Endpoint(x)' = None
           /\ page_lifecycle \in {None, x} \/ page_lifecycle' = page_lifecycle
<1>1. call'[x] = NoCall /\ OthersStay(x)
  BY EndType DEF OthersStay
<1>2. /\ NoCall.pc = "idle" /\ NoCall.method = "list" /\ NoCall.seen = {} /\ NoCall.endpoint = None
  BY DEF NoCall
<1>3. CallOK(x)'
  BY <1>1, <1>2, EarlyOK DEF HoldsPages, Endpoint
<1> QED BY <1>1, <1>2, <1>3 DEF End, Endpoint

Keeps(x) ==
    /\ OthersStay(x)
    /\ call'[x].method = call[x].method /\ call'[x].target = call[x].target
    /\ call'[x].endpoint = call[x].endpoint /\ call'[x].reused = call[x].reused
    /\ call'[x].seen = call[x].seen /\ call'[x].pid = call[x].pid

LEMMA Goes ==
    ASSUME TypeInv, NEW x \in Calls, NEW pc, Goto(x, pc)
    PROVE  Keeps(x) /\ call'[x].pc = pc
<1>1. call \in [Calls -> CallRecord]
  BY DEF TypeInv, BrowserTypeOK
<1>2. call' = [call EXCEPT ![x].pc = pc]
  BY DEF Goto
<1> QED BY <1>1, <1>2 DEF Keeps, OthersStay, CallRecord

\* A step that only moves a request, and the lifecycle lock with it.
LEMMA CallStep ==
    ASSUME LaunchInv, PageInv, NEW x \in Calls, OthersStay(x), LocksPass(x), CallOK(x)',
           UNCHANGED <<chrome, page, told, active_port, client, synthetic, startup, leased,
                       private, recorder>>,
           ~At(x, "mark"),
           call[x].pc \in {"await", "kill"} => call[x].pid = None \/ chrome[call[x].pid] = "none"
    PROVE  PageInv'
<1>1. \A t \in Targets : Fades(t) /\ (Veiled(t)' <=> Veiled(t))
  BY DEF Fades, Veiled
<1>2. PagesHaveChrome' /\ LeasesStay
  BY DEF PageInv, DataOK, PagesHaveChrome, Answers, LeasesStay
<1> QED BY <1>1, <1>2, RequestStep

\* A request that has found its Chrome.
LEMMA ConnectOK ==
    ASSUME NEW x \in Calls, call'[x].pc \in {"owned", "client"},
           UNCHANGED <<chrome, page, leased>>,
           Endpoint(x)' # None, chrome[Endpoint(x)'] \notin Early, call'[x].seen = {},
           HoldsPages(x)' => page_lifecycle' = x,
           HoldsPages(x)' => \A t \in Targets : Used(t) => page[t].on = Endpoint(x)',
           call'[x].pc = "client" /\ ~call'[x].reused =>
              \A t \in Targets : page[t].on = Endpoint(x)' => page[t].origin # "human"
    PROVE  CallOK(x)'
<1>1. LifecycleHeld(x)' /\ StagesFit(x)' /\ EndpointAnswered(x)' /\ QuitsItsOwn(x)'
  BY DEF LifecycleHeld, StagesFit, EndpointAnswered, QuitsItsOwn, Connected, Quitting, LaunchPcs
<1>2. SeesUsed(x)'
  <2>1. \A t \in Targets : Used(t)' <=> Used(t)
    BY DEF Used
  <2> QED BY <2>1 DEF SeesUsed, Quitting
<1>3. TargetKnown(x)' /\ ClientCurrent(x)' /\ FreshUnseen(x)' /\ SeenHarmless(x)'
  BY DEF TargetKnown, ClientCurrent, Relies, FreshUnseen, SeenHarmless, Quitting
<1> QED BY <1>1, <1>2, <1>3 DEF CallOK

\* The Chrome that is up is the one whose port is written.
LEMMA UsedAtPort ==
    ASSUME TypeInv, UpIsActive, NEW t \in Targets, Used(t)
    PROVE  page[t].on = active_port
<1>1. page[t].on \in Browsers
  BY DataBefore DEF Used, PageRecord, Maybe
<1> QED BY <1>1 DEF Used, UpIsActive

LEMMA PagesOfStart ==
    ASSUME LaunchInv, PageInv, NEW x \in Calls,
           (\E m \in Methods, t \in Maybe(Targets) : Begin(x, m, t)) \/ ReserveLifecycle(x)
    PROVE  PageInv'
<1>t. TypeInv /\ CallOK(x) /\ call \in [Calls -> CallRecord]
  BY DEF LaunchInv, PageInv, TypeInv, BrowserTypeOK
<1>u. /\ UNCHANGED <<chrome, page, told, active_port, client, client_lock, synthetic, startup, leased,
                     private, recorder>>
      /\ call[x].pc \in {"idle", "reserve"}
  BY DEF Begin, ReserveLifecycle, OnlyCalls, fileVars, clientVars, hiddenVars, At
<1>1. ASSUME NEW m \in Methods, NEW t \in Maybe(Targets), Begin(x, m, t)
      PROVE  PageInv'
  <2>1. /\ OthersStay(x) /\ call'[x].endpoint = None /\ call'[x].seen = {} /\ call'[x].method = m
        /\ \/ m = "list" /\ call'[x].pc = "ensure"
           \/ call'[x].pc = "reserve"
        /\ page_lifecycle' = page_lifecycle
    BY <1>t, <1>1 DEF Begin, OthersStay, NoCall, NeedsLifecycle
  <2>2. CallOK(x)'
    BY <2>1, EarlyOK DEF HoldsPages, Endpoint
  <2> QED BY <1>u, <2>1, <2>2, CallStep DEF LocksPass, Endpoint, At
<1>2. CASE ReserveLifecycle(x)
  <2>1. Goto(x, "ensure") /\ page_lifecycle = None /\ page_lifecycle' = x /\ call[x].pc = "reserve"
    BY <1>2 DEF ReserveLifecycle, At
  <2>2. Keeps(x) /\ call'[x].pc = "ensure"
    BY <1>t, <2>1, Goes
  <2>3. call[x].seen = {} /\ (Endpoint(x) # None => chrome[Endpoint(x)] \notin Early)
    BY <1>t, <2>1 DEF CallOK, StagesFit, EndpointAnswered
  <2>4. CallOK(x)'
    BY <1>u, <2>1, <2>2, <2>3, EarlyOK DEF Keeps, Endpoint
  <2> QED BY <1>u, <2>1, <2>2, <2>4, CallStep DEF LocksPass, Keeps, Endpoint, At
<1> QED BY <1>1, <1>2

LEMMA PagesOfSection ==
    ASSUME LaunchInv, PageInv, NEW x \in Calls,
           \/ AcquireLaunchLock(x) \/ HealthyActiveEndpoint(x) \/ OwnedActiveEndpoint(x)
           \/ WaitForRelease(x) \/ BootChrome(x)
    PROVE  PageInv'
<1>t. TypeInv /\ CallOK(x) /\ DataOK /\ call \in [Calls -> CallRecord]
  BY DEF LaunchInv, PageInv, TypeInv, BrowserTypeOK
<1>u. /\ UNCHANGED <<chrome, page, told, active_port, client, client_lock, synthetic, startup, leased,
                     private, recorder>>
      /\ call[x].pc \in {"ensure"} \cup LaunchPcs
  BY DEF AcquireLaunchLock, HealthyActiveEndpoint, OwnedActiveEndpoint, WaitForRelease, BootChrome,
         LaunchUnchanged, clientVars, hiddenVars, At, LaunchPcs
<1>v. /\ call[x].seen = {} /\ (Endpoint(x) # None => chrome[Endpoint(x)] \notin Early)
      /\ HoldsPages(x) => page_lifecycle = x
  BY <1>t, <1>u DEF CallOK, StagesFit, EndpointAnswered, LifecycleHeld
<1>s. ASSUME CallOK(x)', OthersStay(x), page_lifecycle \in {None, x} \/ page_lifecycle' = page_lifecycle,
             call[x].pc \in LaunchPcs \/ Endpoint(x)' \in {None, Endpoint(x)}
      PROVE  PageInv'
  BY <1>u, <1>s, CallStep DEF LocksPass, At, LaunchPcs
<1>1. CASE End(x)
  BY <1>1, <1>t, <1>s, EndedOK
<1>2. ASSUME NEW pc \in {"probe", "held", "launch"}, Goto(x, pc), page_lifecycle' = page_lifecycle
      PROVE  PageInv'
  <2>1. Keeps(x) /\ call'[x].pc = pc
    BY <1>t, <1>2, Goes
  <2>2. HoldsPages(x)' => page_lifecycle' = x
    <3>1. call[x].pc \notin {"idle", "reserve", "lease"}
      BY <1>u DEF LaunchPcs
    <3> QED BY <1>v, <1>2, <2>1, <3>1 DEF Keeps, HoldsPages
  <2>3. CallOK(x)'
    BY <1>u, <1>v, <2>1, <2>2, EarlyOK DEF Keeps, Endpoint
  <2> QED BY <1>2, <1>s, <2>1, <2>3 DEF Keeps, Endpoint
<1>3. ASSUME NEW b \in {active_port, Endpoint(x)}, NEW reused \in BOOLEAN,
             NEW pc \in {"owned", "client"}, b # None, chrome[b] \notin Early,
             OthersStay(x), call'[x].pc = pc, call'[x].endpoint = b, call'[x].seen = {},
             call'[x].method = call[x].method, call'[x].reused = reused,
             page_lifecycle' = page_lifecycle, call[x].pc \in LaunchPcs,
             b = active_port \/ call[x].pc = "owned",
             pc = "client" => reused \/ (call[x].pc = "boot" /\ b = active_port)
      PROVE  PageInv'
  <2>1. HoldsPages(x)' <=> HoldsPages(x)
    BY <1>3 DEF HoldsPages, LaunchPcs
  <2>2. HoldsPages(x) => \A t \in Targets : Used(t) => page[t].on = b
    <3>1. CASE b = active_port
      BY <1>t, <3>1, UsedAtPort DEF DataOK
    <3>2. CASE call[x].pc = "owned" /\ b = Endpoint(x)
      BY <1>t, <3>2 DEF CallOK, SeesUsed, Connected
    <3> QED BY <1>3, <3>1, <3>2
  <2>3. pc = "client" /\ ~reused => \A t \in Targets : page[t].on = b => page[t].origin # "human"
    BY <1>t, <1>3, <2>1 DEF CallOK, FreshUnseen
  <2>4. CallOK(x)'
    BY <1>u, <1>v, <1>3, <2>1, <2>2, <2>3, ConnectOK DEF Endpoint
  <2> QED BY <1>3, <1>s, <2>4
<1>4. CASE AcquireLaunchLock(x)
  BY <1>1, <1>2, <1>4 DEF AcquireLaunchLock
<1>5. CASE HealthyActiveEndpoint(x)
  <2>1. call[x].pc = "probe" /\ page_lifecycle' = page_lifecycle
    BY <1>5 DEF HealthyActiveEndpoint, At
  <2>2. CASE /\ ValidEndpoint(active_port)
             /\ call' = [call EXCEPT ![x].pc = "owned", ![x].endpoint = active_port]
    <3>1. /\ OthersStay(x) /\ call'[x].pc = "owned" /\ call'[x].endpoint = active_port
          /\ call'[x].seen = {} /\ call'[x].method = call[x].method /\ call'[x].reused = call[x].reused
          /\ call[x].reused \in BOOLEAN
      BY <1>t, <1>v, <2>2 DEF OthersStay, CallRecord
    <3> QED BY <1>3, <2>1, <2>2, <3>1 DEF LaunchPcs, ValidEndpoint, Answers, Early
  <2> QED BY <1>2, <1>5, <2>1, <2>2 DEF HealthyActiveEndpoint
<1>6. CASE OwnedActiveEndpoint(x)
  <2>1. call[x].pc = "owned" /\ page_lifecycle' = page_lifecycle
    BY <1>6 DEF OwnedActiveEndpoint, At
  <2>2. CASE call' = [call EXCEPT ![x].pc = "held", ![x].endpoint = None]
    <3>1. /\ OthersStay(x) /\ call'[x].pc = "held" /\ call'[x].endpoint = None
          /\ call'[x].seen = {} /\ call'[x].method = call[x].method
      BY <1>t, <1>v, <2>2 DEF OthersStay, CallRecord
    <3>2. CallOK(x)'
      BY <1>v, <2>1, <3>1, EarlyOK DEF HoldsPages, Endpoint
    <3> QED BY <1>s, <2>1, <3>1, <3>2 DEF Endpoint
  <2>3. CASE Adopts(x, call[x].endpoint, TRUE)
    <3>1. /\ OthersStay(x) /\ call'[x].pc = "client" /\ call'[x].endpoint = call[x].endpoint
          /\ call'[x].seen = {} /\ call'[x].method = call[x].method /\ call'[x].reused = TRUE
      BY <1>t, <1>v, <2>3 DEF OthersStay, CallRecord, Adopts
    <3>2. Endpoint(x) # None /\ chrome[Endpoint(x)] \notin Early
      BY <1>t, <2>1 DEF CallOK, EndpointAnswered, Connected
    <3> QED BY <1>3, <2>1, <3>1, <3>2 DEF LaunchPcs, Endpoint
  <2> QED BY <1>6, <2>2, <2>3 DEF OwnedActiveEndpoint
<1>7. CASE WaitForRelease(x)
  BY <1>1, <1>2, <1>7 DEF WaitForRelease
<1>8. CASE BootChrome(x)
  <2>1. CASE ValidEndpoint(active_port) /\ Adopts(x, active_port, FALSE) /\ UNCHANGED page_lifecycle
    <3>1. /\ OthersStay(x) /\ call'[x].pc = "client" /\ call'[x].endpoint = active_port
          /\ call'[x].seen = {} /\ call'[x].method = call[x].method /\ call'[x].reused = FALSE
          /\ call[x].pc = "boot"
      BY <1>t, <1>v, <1>8, <2>1 DEF OthersStay, CallRecord, Adopts, BootChrome, At
    <3> QED BY <1>3, <2>1, <3>1 DEF LaunchPcs, ValidEndpoint, Answers, Early
  <2> QED BY <1>1, <1>8, <2>1 DEF BootChrome
<1> QED BY <1>4, <1>5, <1>6, <1>7, <1>8

LEMMA PagesOfLaunch ==
    ASSUME LaunchInv, PageInv, NEW x \in Calls, NEW b \in Browsers, LaunchChrome(x, b)
    PROVE  PageInv'
<1>t. TypeInv /\ CallOK(x) /\ DataOK /\ chrome \in [Browsers -> ChromeStates]
  BY DataBefore DEF LaunchInv, PageInv
<1>u. /\ UNCHANGED <<page, told, client, client_lock, page_lifecycle, synthetic, startup, leased,
                     private, recorder>>
      /\ active_port' = None /\ b \in FreshBrowsers /\ chrome[b] = "none" /\ chrome'[b] = "spawned"
      /\ \A c \in Browsers \ {b} : chrome'[c] = chrome[c]
      /\ call[x].pc = "launch" /\ Goto(x, "boot")
  BY <1>t DEF LaunchChrome, LaunchUnchanged, clientVars, hiddenVars, At, FreshBrowsers
<1>c. Keeps(x) /\ call'[x].pc = "boot"
  BY <1>t, <1>u, Goes
<1>1. PagesFade /\ BirthsIdle /\ HumansKnown /\ VeilFalls /\ LeasesStay
  BY <1>u DEF PagesFade, BirthsIdle, Fades, HumansKnown, VeilFalls, Veiled, LeasesStay
<1>2. ChromesMove /\ PortMoves
  BY <1>u DEF ChromesMove, PortMoves, Early
<1>3. UsedSpreads /\ KeptStays
  BY <1>t, <1>1, <1>2, UsesSpread DEF DataOK
<1>4. ASSUME NEW y \in Calls \ {x} PROVE CallOK(y)'
  <2>1. LocksPass(x) /\ OthersStay(x)
    BY <1>u, <1>c DEF LocksPass, Keeps, Endpoint
  <2> QED BY <1>u, <1>1, <1>2, <1>3, <2>1, OthersKept
<1>5. CallOK(x)'
  <2>1. call[x].seen = {} /\ (Endpoint(x) # None => chrome[Endpoint(x)] \notin Early)
        /\ (HoldsPages(x) => page_lifecycle = x)
    BY <1>t, <1>u DEF CallOK, StagesFit, EndpointAnswered, LifecycleHeld, LaunchPcs
  <2>2. Endpoint(x) # None => Endpoint(x) \in Browsers \ {b}
    BY <1>t, <1>u, CallBefore DEF CallRecord, Endpoint, FreshBrowsers, Maybe
  <2> QED BY <1>u, <1>c, <2>1, <2>2, EarlyOK DEF Keeps, Endpoint, HoldsPages
<1>6. UpIsActive'
  BY <1>u DEF UpIsActive, LaunchInv, LaunchersSawItFree, Away
<1>7. PagesHaveChrome'
  <2>1. ASSUME NEW t \in Targets, page[t].on # None
        PROVE  chrome'[page[t].on] \in {"up", "closing", "released"}
    <3>1. page[t].on \in Browsers /\ Answers(page[t].on)
      BY <1>t, <2>1, DataBefore DEF DataOK, PagesHaveChrome, PageRecord, Maybe
    <3> QED BY <1>u, <3>1 DEF Answers
  <2> QED BY <1>t, <1>u, <2>1 DEF DataOK, PagesHaveChrome, Answers
<1>8. ShuttersWait'
  <2>1. \A y \in Calls : call[y].pc \in {"await", "kill"} =>
           call'[y].pc \in {"await", "kill"} /\ call'[y].pid = call[y].pid
    BY <1>u, <1>c DEF Keeps, OthersStay
  <2>2. \A c \in Browsers : Shutting(c)' => Shutting(c)
    BY <1>u DEF Shutting
  <2> QED BY <1>t, <2>1, <2>2, ShuttersKept DEF DataOK
<1>9. NamesAnswered' /\ UsedIsCurrent' /\ KeptIsUp'
  <2>1. \A t \in Targets : Kept(t)' /\ chrome[page[t].on] = "up" => chrome'[page[t].on] = "up"
    <3> SUFFICES ASSUME NEW t \in Targets, Kept(t), chrome[page[t].on] = "up"
                 PROVE  chrome'[page[t].on] = "up"
      BY <1>3 DEF KeptStays
    <3>1. page[t].on \in Browsers
      BY <1>t, DataBefore DEF Kept, DataOK, PagesHaveChrome, PageRecord, Maybe, NoPage
    <3> QED BY <1>u, <3>1
  <2> QED BY <1>t, <1>u, <1>1, <1>2, <1>3, <2>1, NamesKept, UsedKept, KeptKept DEF DataOK
<1>10. MarksAreChromes' /\ LeasedUnmarked' /\ VeiledIsNobodys'
  <2>1. \A y \in Calls : At(y, "mark") => call'[y] = call[y]
    BY <1>u, <1>c DEF Keeps, OthersStay, At
  <2>2. \A t \in Targets : Veiled(t)' <=> Veiled(t)
    BY <1>u DEF Veiled
  <2> QED BY <1>t, <1>u, <1>1, <2>1, <2>2, MarksKept, LeasedKept, VeilKept DEF DataOK
<1>11. StartupIsChromes' /\ RecordersVeiled'
  <2>1. \A t \in Targets : Fades(t) /\ (Veiled(t)' <=> Veiled(t))
    BY <1>u DEF Veiled, Fades
  <2> QED BY <1>t, <1>2, <2>1, StartupKept, RecordersKept DEF DataOK
<1>12. ToldHarmless'
  <2>1. \A c \in Browsers : told[c] # None => chrome'[c] \in {"closing", "released", "mute"}
    BY <1>t, <1>u DEF DataOK, ToldHarmless
  <2> QED BY <1>t, <1>u, <1>1, <2>1, ToldKept DEF DataOK
<1> QED BY <1>4, <1>5, <1>6, <1>7, <1>8, <1>9, <1>10, <1>11, <1>12 DEF PageInv, DataOK

(***************************************************************************)
(* A request with its Chrome.                                              *)
(***************************************************************************)
\* A connected request moves on: what its stage asks for.
LEMMA OnwardOK ==
    ASSUME LaunchInv, PageInv, NEW x \in Calls, call[x].pc \in Connected,
           call'[x].pc \in {"classify", "op", "listed", "created", "claim", "mark", "inventory",
                            "decide"},
           call'[x].endpoint = call[x].endpoint, call'[x].method = call[x].method,
           chrome' = chrome, page_lifecycle' = page_lifecycle,
           HoldsPages(x) => \A t \in Targets : Used(t)' => page'[t].on = Endpoint(x),
           HoldsPages(x) /\ call'[x].pc = "decide" => \A t \in Targets : Kept(t)' => t \in Ids(call'[x].seen),
           call'[x].pc \in {"claim", "mark"} => call[x].method = "claim",
           call'[x].pc = "created" => call[x].method = "create",
           call'[x].pc = "listed" => call[x].method = "list",
           call'[x].pc \in {"inventory", "decide"} => call[x].method = "close",
           TargetKnown(x)', ClientCurrent(x)', FreshUnseen(x)',
           chrome[Endpoint(x)] = "up" => \A p \in call'[x].seen : p[2] # "hidden"
    PROVE  CallOK(x)'
<1>0. CallOK(x)
  BY DEF PageInv
<1>1. HoldsPages(x)' <=> HoldsPages(x)
  BY <1>0 DEF HoldsPages, Connected
<1>2. LifecycleHeld(x)'
  BY <1>0, <1>1 DEF CallOK, LifecycleHeld
<1>3. StagesFit(x)'
  BY DEF StagesFit, LaunchPcs, Quitting
<1>4. EndpointAnswered(x)' /\ QuitsItsOwn(x)'
  BY <1>0 DEF CallOK, EndpointAnswered, QuitsItsOwn, Quitting, Endpoint
<1>5. SeesUsed(x)'
  BY <1>1 DEF SeesUsed, Quitting, Endpoint
<1>6. SeenHarmless(x)'
  BY DEF SeenHarmless, Quitting, Endpoint
<1> QED BY <1>2, <1>3, <1>4, <1>5, <1>6 DEF CallOK

\* Where nothing but calls changes, what a connected request sees is as before.
LEMMA SameUse ==
    ASSUME PageInv, NEW x \in Calls, call[x].pc \in Connected, UNCHANGED <<chrome, page, leased>>
    PROVE  HoldsPages(x) => \A t \in Targets : Used(t)' => page'[t].on = Endpoint(x)
<1>1. \A t \in Targets : Used(t)' <=> Used(t)
  BY DEF Used
<1> QED BY <1>1 DEF PageInv, CallOK, SeesUsed

LEMMA PagesOfLock ==
    ASSUME LaunchInv, PageInv, NEW x \in Calls, LockClient(x)
    PROVE  PageInv'
<1>t. TypeInv /\ CallOK(x) /\ DataOK
  BY DEF LaunchInv, PageInv
<1>u. /\ UNCHANGED <<chrome, page, told, active_port, client, page_lifecycle, synthetic, startup,
                     leased, private, recorder>>
      /\ call[x].pc = "client" /\ client_lock = None
      /\ \/ client = Endpoint(x) /\ Goto(x, "op")
         \/ client # Endpoint(x) /\ Goto(x, "classify") /\ client_lock' = x
  BY DEF LockClient, OnlyClient, hiddenVars, fileVars, At, Endpoint
<1>1. PICK pc \in {"op", "classify"} :
         /\ Goto(x, pc)
         /\ pc = "op" => client = Endpoint(x)
         /\ pc = "classify" => client # Endpoint(x) /\ client_lock' = x
  BY <1>u
<1>2. Keeps(x) /\ call'[x].pc = pc
  BY <1>t, <1>1, Goes
<1>3. CallOK(x)'
  <2>1. TargetKnown(x)'
    BY <1>2 DEF TargetKnown
  <2>2. ClientCurrent(x)'
    BY <1>u, <1>1, <1>2 DEF ClientCurrent, Relies, Keeps, Endpoint
  <2>3. FreshUnseen(x)'
    BY <1>t, <1>u, <1>2 DEF CallOK, FreshUnseen, Keeps, Endpoint
  <2>4. chrome[Endpoint(x)] = "up" => \A p \in call'[x].seen : p[2] # "hidden"
    BY <1>t, <1>u, <1>2 DEF CallOK, SeenHarmless, EndpointAnswered, Keeps, Connected
  <2>5. call[x].pc \in Connected /\ pc \notin {"listed", "created", "claim", "mark", "inventory", "decide"}
    BY <1>u DEF Connected
  <2> QED BY <1>u, <1>2, <2>1, <2>2, <2>3, <2>4, <2>5, OnwardOK, SameUse DEF Keeps
<1> QED BY <1>u, <1>2, <1>3, CallStep DEF Keeps, LocksPass, Endpoint, At

LEMMA PagesOfClassify ==
    ASSUME LaunchInv, PageInv, NEW x \in Calls, ClassifyTargets(x)
    PROVE  PageInv'
<1> DEFINE b == Endpoint(x)
           seen == {<<t, page[t].kind>> : t \in PagesOf(b)}
<1>t. TypeInv /\ CallOK(x) /\ DataOK /\ page \in [Targets -> PageRecord]
  BY DataBefore DEF LaunchInv, PageInv
<1>u. /\ UNCHANGED <<chrome, page, told, active_port, leased, recorder>>
      /\ call[x].pc = "classify" /\ client_lock' = None
      /\ \/ /\ Answers(b) /\ Goto(x, "op") /\ client' = b /\ page_lifecycle' = page_lifecycle
            /\ synthetic' = ReplacementTargets(seen, call[x].reused) /\ startup' = OfKind(seen, "startup")
            /\ private' = {t \in private : page[t].on \notin {b, None}}
         \/ End(x) /\ UNCHANGED <<client, synthetic, startup, private>>
  BY DEF ClassifyTargets, At, Endpoint, hiddenVars, fileVars
<1>c. client_lock = x /\ client # b /\ b # None
  BY <1>t, <1>u DEF CallOK, ClientCurrent, EndpointAnswered, Connected
<1>1. CASE End(x) /\ UNCHANGED <<client, synthetic, startup, private>>
  <2>1. LocksPass(x)
    BY <1>t, <1>c, <1>1, EndedOK DEF LocksPass
  <2> QED BY <1>t, <1>u, <1>1, <2>1, EndedOK, CallStep DEF At
<1>2. CASE /\ Answers(b) /\ Goto(x, "op") /\ client' = b /\ page_lifecycle' = page_lifecycle
           /\ synthetic' = ReplacementTargets(seen, call[x].reused) /\ startup' = OfKind(seen, "startup")
           /\ private' = {t \in private : page[t].on \notin {b, None}}
  <2>0. b \in Browsers
    BY <1>t, <1>c, CallBefore DEF CallRecord, Endpoint, Maybe
  <2>1. Keeps(x) /\ call'[x].pc = "op"
    BY <1>t, <1>2, Goes
  <2>2. ASSUME chrome[client] = "up", client # None PROVE chrome[b] # "up" /\ Shutting(b)
    BY <1>t, <1>c, <1>2, <2>0, <2>2 DEF DataOK, UpIsActive, TypeInv, BrowserTypeOK, Maybe, Answers, Shutting
  <2>w. ASSUME chrome[b] # "up"
        PROVE  \E z \in Calls : call[z].pc \in {"await", "kill"} /\ call[z].pid = b /\ HoldsPages(z)
    <3>1. PICK z \in Calls : call[z].pc \in {"await", "kill"} /\ call[z].pid = b
      BY <1>t, <1>2, <2>0, <2>w DEF DataOK, ShuttersWait, Shutting, Answers
    <3>2. call[z].method = "close"
      BY <3>1 DEF PageInv, CallOK, StagesFit, Quitting
    <3> QED BY <3>1, <3>2 DEF HoldsPages
  \* Nothing is used: it would be on another Chrome that is up.
  <2>3. ASSUME NEW t \in Targets, Used(t) PROVE FALSE
    <3>1. client = page[t].on /\ chrome[client] = "up" /\ client # None
      BY <1>t, <2>3 DEF DataOK, UsedIsCurrent, Used
    <3>2. PICK z \in Calls : call[z].pc \in {"await", "kill"} /\ call[z].pid = b /\ HoldsPages(z)
      BY <2>2, <2>w, <3>1
    <3>3. Endpoint(z) = client
      BY <2>3, <3>1, <3>2 DEF PageInv, CallOK, SeesUsed, Connected
    <3>4. call[z].pid = client
      BY <3>1, <3>2, <3>3 DEF PageInv, CallOK, QuitsItsOwn, Quitting
    <3> QED BY <1>c, <3>2, <3>4
  <2>4. ASSUME NEW t \in Targets, Kept(t) PROVE FALSE
    BY <1>t, <2>3, <2>4 DEF DataOK, KeptIsUp, Kept, Used, PagesHaveChrome, NoPage
  <2>5. ASSUME NEW y \in Calls, Relies(y) PROVE FALSE
    <3>1. client = Endpoint(y) /\ chrome[client] = "up" /\ client # None /\ page_lifecycle = y
          /\ call[y].pc \notin {"await", "kill"}
      BY <2>5 DEF PageInv, CallOK, ClientCurrent, Relies, EndpointAnswered, Connected, LifecycleHeld
    <3>2. PICK z \in Calls : call[z].pc \in {"await", "kill"} /\ HoldsPages(z)
      BY <2>2, <2>w, <3>1
    <3> QED BY <3>1, <3>2 DEF PageInv, CallOK, LifecycleHeld
  <2>6. /\ \A t \in synthetic' : t \in Targets /\ page[t].on = b /\ ~call[x].reused
        /\ \A t \in startup' : t \in Targets /\ page[t].kind = "startup"
    BY <1>2 DEF ReplacementTargets, OfKind, PagesOf
  <2>7. PagesFade /\ BirthsIdle /\ HumansKnown /\ VeilFalls
    BY <1>u, <1>2 DEF PagesFade, BirthsIdle, HumansKnown, Fades, VeilFalls, Veiled
  <2>8. ChromesMove /\ PortMoves /\ UpIsActive' /\ ChromeSpares
    BY <1>t, <1>u, SameChrome
  <2>9. UsedSpreads /\ KeptStays /\ UsedIsCurrent'
    BY <1>u, <2>3 DEF UsedSpreads, KeptStays, UsedIsCurrent, Used, Kept
  <2>10. ASSUME NEW y \in Calls \ {x} PROVE CallOK(y)'
    <3>1. call'[y] = call[y] /\ page_lifecycle' = page_lifecycle
      BY <1>2, <2>1 DEF Keeps, OthersStay
    <3>2. ~At(y, "classify")
      BY <1>c DEF PageInv, CallOK, ClientCurrent, At
    <3>3. NamesStay
      BY <1>2, <2>1 DEF NamesStay, Named, Keeps, OthersStay, Endpoint
    <3> QED BY <2>5, <2>7, <2>8, <2>9, <3>1, <3>2, <3>3, CallKept
  <2>11. CallOK(x)'
    <3>1. TargetKnown(x)' /\ FreshUnseen(x)'
      BY <2>1 DEF TargetKnown, FreshUnseen
    <3>2. ClientCurrent(x)'
      BY <1>2, <2>1 DEF ClientCurrent, Keeps, Endpoint
    <3>3. chrome[Endpoint(x)] = "up" => \A p \in call'[x].seen : p[2] # "hidden"
      BY <1>t, <1>c, <2>1 DEF CallOK, SeenHarmless, Keeps
    <3>4. call[x].pc \in Connected
      BY <1>u DEF Connected
    <3> QED BY <1>u, <1>2, <2>1, <3>1, <3>2, <3>3, <3>4, OnwardOK, SameUse DEF Keeps
  <2>12. ShuttersWait'
    <3>1. \A y \in Calls : call[y].pc \in {"await", "kill"} =>
             call'[y].pc \in {"await", "kill"} /\ call'[y].pid = call[y].pid
      BY <1>u, <2>1 DEF Keeps, OthersStay
    <3> QED BY <1>t, <2>8, <3>1, ShuttersKept DEF DataOK, ChromeSpares
  <2>13. NamesAnswered' /\ KeptIsUp' /\ PagesHaveChrome'
    <3>1. chrome'[client'] \notin Early
      BY <1>u, <1>2 DEF Answers, Early
    <3>2. KeptIsUp' /\ PagesHaveChrome'
      BY <1>t, <1>u, <2>4 DEF DataOK, KeptIsUp, Kept, PagesHaveChrome, Answers
    <3> QED BY <1>t, <1>u, <2>8, <3>1, <3>2, NamesKept DEF DataOK
  <2>14. MarksAreChromes'
    <3>1. ASSUME NEW t \in synthetic', page[t].st = "open" PROVE page[t].origin = "chrome"
      <4>1. page[t].origin # "human"
        BY <1>t, <1>u, <2>6, <3>1 DEF CallOK, FreshUnseen
      <4>2. page[t].origin # "vbl"
        BY <2>4, <2>6, <3>1 DEF Kept
      <4> QED BY <1>t, <2>6, <4>1, <4>2 DEF PageRecord
    <3>2. ASSUME NEW t \in startup' PROVE page[t].origin = "chrome"
      BY <1>t, <2>6, <3>2 DEF DataOK, StartupIsChromes
    <3> QED BY <1>u, <3>1, <3>2 DEF MarksAreChromes
  <2>15. LeasedUnmarked'
    <3>1. \A t \in leased : page[t].st # "open"
      BY <2>4, <1>t, DataBefore DEF Kept
    <3> QED BY <1>u, <3>1 DEF LeasedUnmarked
  <2>16. StartupIsChromes' /\ ToldHarmless'
    BY <1>t, <1>u, <2>7, <2>8, ToldKept DEF DataOK, StartupIsChromes, ChromeSpares
  <2>17. VeiledIsNobodys'
    <3>1. \A t \in Targets : Veiled(t)' => Veiled(t)
      BY <1>u, <1>2 DEF Veiled
    <3> QED BY <1>t, <1>u, <2>7, <3>1, VeilKept DEF DataOK
  <2>18. RecordersVeiled'
    <3>1. ASSUME NEW t \in Targets, page[t].kind = "hidden", chrome[page[t].on] = "up" PROVE FALSE
      BY <1>t, <2>3, <3>1 DEF DataOK, PagesHaveChrome, NoPage, Used
    <3> QED BY <1>u, <3>1 DEF RecordersVeiled
  <2> QED BY <2>8, <2>9, <2>10, <2>11, <2>12, <2>13, <2>14, <2>15, <2>16, <2>17, <2>18 DEF PageInv, DataOK
<1> QED BY <1>u, <1>1, <1>2

\* An inventory neither veils a page nor unveils one that is there.
VeilStays ==
    \A t \in Targets : (Veiled(t)' => Veiled(t)) /\ (Veiled(t) /\ page[t].on # None => Veiled(t)')

LEMMA SameVeil ==
    ASSUME UNCHANGED hiddenVars
    PROVE  VeilStays /\ \A t \in Targets : Veiled(t)' <=> Veiled(t)
BY DEF hiddenVars, VeilStays, Veiled

\* What an inventory shows.
LEMMA ListingFacts ==
    ASSUME LaunchInv, PageInv, NEW b \in Browsers, Listing(b)
    PROVE  /\ VeilStays
           /\ \A p \in Listed(b) :
                 /\ p[1] \in Targets /\ page[p[1]].on = b /\ ~Veiled(p[1])
                 /\ chrome[b] = "up" => p[2] # "hidden" /\ page[p[1]].kind # "hidden"
           /\ \A t \in PagesOf(b) : ~Veiled(t) => t \in Ids(Listed(b))
<1>t. TypeInv /\ RecordersVeiled /\ private \subseteq Targets /\ b # None
  BY DataBefore, BrowserNoneAssumption DEF LaunchInv, PageInv, DataOK
<1>1. /\ recorder' = recorder /\ recorder.pc # "creating"
      /\ private' = private \ {t \in retiring : page[t].on = None}
  BY DEF Listing, InventoryFree, Marked
<1>2. VeilStays
  BY <1>1 DEF VeilStays, Veiled
<1>3. ASSUME NEW p \in Listed(b)
      PROVE  /\ p[1] \in Targets /\ page[p[1]].on = b /\ ~Veiled(p[1])
             /\ chrome[b] = "up" => p[2] # "hidden" /\ page[p[1]].kind # "hidden"
  <2>1. PICK t \in PagesOf(b) \ Marked : p = <<t, page[t].kind>>
    BY DEF Listed
  <2>2. t \in Targets /\ page[t].on = b /\ t \notin private
    BY <1>t, <2>1 DEF PagesOf, Marked
  <2>3. ~Veiled(t)
    BY <1>1, <2>2 DEF Veiled
  <2>4. chrome[b] = "up" => page[t].kind # "hidden"
    BY <1>t, <2>2, <2>3 DEF RecordersVeiled
  <2> QED BY <2>1, <2>2, <2>3, <2>4
<1>4. ASSUME NEW t \in PagesOf(b), ~Veiled(t) PROVE t \in Ids(Listed(b))
  <2>1. t \in PagesOf(b) \ Marked
    BY <1>4 DEF Veiled, Marked
  <2>2. <<t, page[t].kind>> \in Listed(b)
    BY <2>1 DEF Listed
  <2> QED BY <2>2 DEF Ids
<1> QED BY <1>2, <1>3, <1>4

\* A step of a request that leaves the pages and the leases alone.
LEMMA StillStep ==
    ASSUME LaunchInv, PageInv, NEW x \in Calls, OthersStay(x), LocksPass(x), CallOK(x)',
           UNCHANGED <<chrome, page, told, active_port, client>>, VeilStays,
           leased' \subseteq leased, synthetic' \cup startup' \subseteq synthetic \cup startup,
           At(x, "mark") => call[x].target \notin synthetic' \cup startup',
           call[x].pc \in {"await", "kill"} => call[x].pid = None \/ chrome[call[x].pid] = "none"
    PROVE  PageInv'
<1>1. \A t \in Targets : Fades(t)
  BY DEF Fades
<1>2. PagesHaveChrome' /\ LeasesStay
  BY DEF PageInv, DataOK, PagesHaveChrome, Answers, LeasesStay
<1> QED BY <1>1, <1>2, RequestStep DEF VeilStays

LEMMA EndStep ==
    ASSUME LaunchInv, PageInv, NEW x \in Calls, End(x),
           UNCHANGED <<chrome, page, told, active_port, client, client_lock>>, VeilStays,
           leased' \subseteq leased, synthetic' \cup startup' \subseteq synthetic \cup startup,
           At(x, "mark") => call[x].target \notin synthetic' \cup startup',
           call[x].pc \notin {"await", "kill"}
    PROVE  PageInv'
BY EndedOK, StillStep DEF LaunchInv, LocksPass

\* An endpoint is a browser.
LEMMA EndpointKnown ==
    ASSUME LaunchInv, PageInv, NEW x \in Calls, call[x].pc \in Connected
    PROVE  Endpoint(x) \in Browsers /\ CallOK(x)
BY CallBefore DEF LaunchInv, PageInv, CallOK, EndpointAnswered, CallRecord, Endpoint, Maybe

LEMMA WorkLeaves ==
    ASSUME ChromeWork
    PROVE  UNCHANGED <<chrome, told, active_port, client, client_lock>>
BY DEF ChromeWork, fileVars

LEMMA PagesOfInventories ==
    ASSUME LaunchInv, PageInv, NEW x \in Calls, ListTargets(x) \/ Return(x)
    PROVE  PageInv'
<1>t. TypeInv /\ call \in [Calls -> CallRecord]
  BY DEF LaunchInv, TypeInv, BrowserTypeOK
<1>u. UNCHANGED <<chrome, page, told, active_port, client, client_lock, synthetic, startup, leased>>
      /\ call[x].pc \in {"op", "listed"}
  BY WorkLeaves DEF ListTargets, Return, Doing, At
<1>1. CASE End(x) /\ UNCHANGED hiddenVars
  BY <1>u, <1>1, EndStep, SameVeil DEF At
<1>2. CASE /\ Doing(x, "list") /\ Listing(Endpoint(x)) /\ page_lifecycle' = page_lifecycle
           /\ call' = [call EXCEPT ![x].pc = "listed", ![x].seen = Listed(Endpoint(x))]
  <2>1. /\ OthersStay(x) /\ call'[x].pc = "listed" /\ call'[x].seen = Listed(Endpoint(x))
        /\ call'[x].endpoint = call[x].endpoint /\ call'[x].method = call[x].method
        /\ call[x].method = "list" /\ call[x].pc = "op"
    BY <1>t, <1>2 DEF OthersStay, CallRecord, Doing, At
  <2>2. call[x].pc \in Connected /\ ~HoldsPages(x)
    BY <2>1 DEF Connected, HoldsPages
  <2>3. TargetKnown(x)' /\ ClientCurrent(x)' /\ FreshUnseen(x)'
    BY <2>1 DEF TargetKnown, ClientCurrent, Relies, FreshUnseen
  <2>4. VeilStays /\ (chrome[Endpoint(x)] = "up" => \A p \in call'[x].seen : p[2] # "hidden")
    BY <1>2, <2>1, <2>2, EndpointKnown, ListingFacts
  <2>5. CallOK(x)'
    BY <1>u, <1>2, <2>1, <2>2, <2>3, <2>4, OnwardOK
  <2> QED BY <1>u, <1>2, <2>1, <2>4, <2>5, StillStep DEF LocksPass, Endpoint, At
<1> QED BY <1>1, <1>2 DEF ListTargets, Return

LEMMA PagesOfCreated ==
    ASSUME LaunchInv, PageInv, NEW x \in Calls, PageTarget(x) \/ LeaseCreated(x)
    PROVE  PageInv'
<1>t. TypeInv /\ CallOK(x) /\ DataOK
  BY DEF LaunchInv, PageInv
<1>u. UNCHANGED <<chrome, page, told, active_port, client, client_lock, startup>>
      /\ call[x].pc \in {"created", "lease"} /\ call[x].target \in Targets
  BY <1>t, WorkLeaves, CallBefore DEF PageTarget, LeaseCreated, At, NamesPage
<1>1. CASE PageTarget(x)
  <2>1. call[x].pc = "created" /\ leased' = leased
        /\ synthetic' \subseteq synthetic
    BY <1>1 DEF PageTarget, At
  <2>2. Endpoint(x) \in Browsers
    BY <2>1, EndpointKnown DEF Connected
  <2>3. VeilStays
    BY <1>1, <2>2, ListingFacts, SameVeil DEF PageTarget
  <2>4. CASE End(x)
    BY <1>u, <2>1, <2>3, <2>4, EndStep DEF At
  <2>5. CASE Goto(x, "lease") /\ page_lifecycle' = None
    <3>1. Keeps(x) /\ call'[x].pc = "lease"
      BY <1>t, <2>5, Goes
    <3>2. page_lifecycle = x /\ call[x].method = "create"
      BY <1>t, <2>1 DEF CallOK, LifecycleHeld, StagesFit, HoldsPages
    <3>3. LifecycleHeld(x)' /\ SeesUsed(x)'
      BY <3>1 DEF LifecycleHeld, SeesUsed, HoldsPages
    <3>4. StagesFit(x)' /\ EndpointAnswered(x)' /\ QuitsItsOwn(x)'
      <4>1. EndpointAnswered(x)
        BY <1>t DEF CallOK
      <4> QED BY <1>u, <3>1, <3>2, <4>1
              DEF Keeps, StagesFit, LaunchPcs, Quitting, EndpointAnswered, QuitsItsOwn, Connected, Endpoint
    <3>5. TargetKnown(x)'
      <4>1. ~Veiled(call[x].target)'
        <5>1. ~Veiled(call[x].target)
          BY <1>t, <2>1 DEF CallOK, TargetKnown
        <5>2. PICK t \in Targets : t = call[x].target
          BY <1>u
        <5> QED BY <2>3, <3>1, <5>1, <5>2 DEF VeilStays, Keeps, Veiled
      <4> QED BY <1>t, <1>u, <2>1, <3>1, <4>1 DEF CallOK, TargetKnown, Keeps
    <3>6. ClientCurrent(x)' /\ FreshUnseen(x)' /\ SeenHarmless(x)'
      BY <1>t, <1>u, <3>1 DEF ClientCurrent, Relies, FreshUnseen, SeenHarmless, CallOK, Keeps, Endpoint, Quitting
    <3>7. CallOK(x)'
      BY <3>3, <3>4, <3>5, <3>6 DEF CallOK
    <3> QED BY <1>u, <2>1, <2>3, <2>5, <3>1, <3>2, <3>7, StillStep DEF LocksPass, Keeps, Endpoint, At
  <2> QED BY <1>1, <2>4, <2>5 DEF PageTarget
<1>2. CASE LeaseCreated(x)
  <2> DEFINE t == call[x].target
  <2>1. call[x].pc = "lease" /\ leased' = leased \cup {t} /\ End(x) /\ UNCHANGED <<synthetic, hiddenVars>>
    BY <1>2 DEF LeaseCreated, At
  <2>2. ~Veiled(t) /\ (page[t].on = None \/ page[t].origin = "vbl")
    BY <1>t, <2>1 DEF CallOK, TargetKnown
  <2>3. page[t] = NoPage \/ page[t].origin = "vbl"
    BY <1>t, <1>u, <2>2 DEF DataOK, PagesHaveChrome
  <2>4. t \notin synthetic \cup startup \/ page[t].st # "open"
    BY <1>t, <2>3 DEF DataOK, MarksAreChromes, NoPage
  <2>5. CallOK(x)' /\ OthersStay(x) /\ LocksPass(x)
    BY <1>t, <1>u, <2>1, EndedOK DEF LocksPass
  <2>6. PagesHaveChrome' /\ LeasesStay /\ \A u \in Targets : Fades(u)
    BY <1>t, <1>u, <2>1, <2>3 DEF DataOK, PagesHaveChrome, Answers, LeasesStay, Fades
  <2>7. VeilStays
    BY <2>1, SameVeil
  <2> QED BY <1>u, <2>1, <2>2, <2>4, <2>5, <2>6, <2>7, RequestStep DEF VeilStays, At
<1> QED BY <1>1, <1>2

\* A step of a request that holds the pages: no other one does.
LEMMA OnlyHolder ==
    ASSUME PageInv, NEW x \in Calls, HoldsPages(x), NEW y \in Calls, HoldsPages(y)
    PROVE  y = x
BY DEF PageInv, CallOK, LifecycleHeld

LEMMA HolderStep ==
    ASSUME LaunchInv, PageInv, NEW x \in Calls, HoldsPages(x), OthersStay(x), LocksPass(x), CallOK(x)',
           PagesFade, ChromesMove, HumansKnown, PortMoves, UpIsActive', PagesHaveChrome',
           \A t \in Targets : Veiled(t)' <=> Veiled(t),
           \A t \in Targets : Fades(t) \/ page'[t].kind \notin {"startup", "hidden"},
           client' = client \/ (client' = None /\ client_lock = None),
           UsedIsCurrent', KeptIsUp', LeasedUnmarked', ShuttersWait', ToldHarmless',
           synthetic' \cup startup' \subseteq synthetic \cup startup,
           \A t \in leased' : Veiled(t) => t \in leased,
           active_port' \in {active_port, None}
    PROVE  PageInv'
<1>t. TypeInv /\ DataOK
  BY DEF LaunchInv, PageInv
<1>1. VeilFalls
  BY DEF VeilFalls
<1>2. ASSUME NEW y \in Calls PROVE CallOK(y)'
  <2>1. CASE y = x
    BY <2>1
  <2>2. CASE y # x
    <3>1. ~HoldsPages(y) /\ call'[y] = call[y]
      BY <2>2, OnlyHolder DEF OthersStay
    <3>2. CASE client' = client
      BY <1>1, <2>2, <3>1, <3>2, OthersKept
    <3>3. CASE client' = None /\ client_lock = None
      <4>1. page_lifecycle = y => page_lifecycle' = y
        BY <2>2, BrowserNoneAssumption DEF LocksPass
      <4>2. ~At(y, "classify") /\ ~Relies(y)
        BY <3>1, <3>3, BrowserNoneAssumption DEF PageInv, CallOK, ClientCurrent, At, Relies
      <4>3. ASSUME At(y, "boot") PROVE NamesStay
        <5>1. call[x].pc \notin LaunchPcs
          BY <2>2, <4>3 DEF LaunchInv, HoldersLaunch, At, LaunchPcs
        <5>2. ASSUME NEW z \in Calls PROVE Endpoint(z)' \in {None, Endpoint(z)}
          BY <5>1 DEF LocksPass, OthersStay, Endpoint
        <5>3. None \notin Browsers
          BY BrowserNoneAssumption
        <5> QED BY <3>3, <5>2, <5>3 DEF NamesStay, Named
      <4> QED BY <1>1, <3>1, <4>1, <4>2, <4>3, CallKept
    <3> QED BY <3>2, <3>3
  <2> QED BY <2>1, <2>2
<1>3. NamesAnswered'
  BY <1>t, NamesKept DEF DataOK
<1>4. MarksAreChromes' /\ VeiledIsNobodys'
  BY <1>t, MarksKept, VeilKept DEF DataOK
<1>5. StartupIsChromes' /\ RecordersVeiled'
  BY <1>t, StartupKept, RecordersKept DEF DataOK
<1> QED BY <1>2, <1>3, <1>4, <1>5 DEF PageInv, DataOK

LEMMA PagesOfCreate ==
    ASSUME LaunchInv, PageInv, NEW x \in Calls, NEW t \in Targets, CreateTarget(x, t)
    PROVE  PageInv'
<1>t. TypeInv /\ CallOK(x) /\ DataOK /\ page \in [Targets -> PageRecord] /\ call \in [Calls -> CallRecord]
  BY DataBefore DEF LaunchInv, PageInv, TypeInv, BrowserTypeOK
<1>u. /\ UNCHANGED <<chrome, told, active_port, client, client_lock, synthetic, startup, leased>>
      /\ UNCHANGED hiddenVars
      /\ call[x].pc = "op" /\ call[x].method = "create"
  BY WorkLeaves DEF CreateTarget, Doing, At
<1>1. CASE End(x) /\ page' = page
  BY <1>u, <1>1, EndStep, SameVeil DEF At
<1>2. CASE /\ chrome[Endpoint(x)] = "up" /\ t \in FreshTargets
           /\ page' = Born(t, Endpoint(x), "site", "vbl")
           /\ call' = [call EXCEPT ![x].pc = "created", ![x].target = t]
           /\ page_lifecycle' = page_lifecycle
  <2>1. /\ OthersStay(x) /\ call'[x].pc = "created" /\ call'[x].target = t
        /\ call'[x].endpoint = call[x].endpoint /\ call'[x].method = call[x].method
        /\ call'[x].seen = call[x].seen
    BY <1>t, <1>2 DEF OthersStay, CallRecord
  <2>2. /\ page'[t] = [st |-> "open", on |-> Endpoint(x), kind |-> "site", origin |-> "vbl"]
        /\ \A u \in Targets \ {t} : page'[u] = page[u]
    BY <1>t, <1>2 DEF Born
  <2>3. HoldsPages(x) /\ Endpoint(x) \in Browsers /\ call[x].pc \in Connected
    BY <1>u, EndpointKnown DEF HoldsPages, Connected
  <2>4. Relies(x) /\ client = Endpoint(x) /\ client # None
    BY <1>t, <1>u, <1>2, <2>3, BrowserNoneAssumption DEF Relies, CallOK, ClientCurrent
  <2>5. \A u \in Targets \ {t} : Fades(u) /\ (Used(u)' <=> Used(u)) /\ (Kept(u)' <=> Kept(u))
    BY <1>u, <2>2 DEF Fades, Used, Kept
  <2>6. PagesFade /\ HumansKnown
    BY <1>2, <2>2, <2>5 DEF PagesFade, HumansKnown
  <2>7. ChromesMove /\ PortMoves /\ UpIsActive' /\ ChromeSpares
    BY <1>t, <1>u, SameChrome
  <2>8. \A u \in Targets : Used(u)' => page'[u].on = Endpoint(x)
    BY <1>t, <1>u, <2>2, <2>3, <2>5 DEF CallOK, SeesUsed
  <2>9. \A u \in Targets : Veiled(u)' <=> Veiled(u)
    BY <1>u, SameVeil
  <2>10. CallOK(x)'
    <3>1. TargetKnown(x)'
      <4>1. ~Veiled(t)
        BY <1>2 DEF FreshTargets, Veiled
      <4>2. ~Veiled(call[x].target)'
        BY <1>u, <2>1, <4>1 DEF Veiled, hiddenVars
      <4> QED BY <2>1, <2>2, <4>1, <1>u DEF TargetKnown, Veiled, hiddenVars
    <3>2. ClientCurrent(x)' /\ FreshUnseen(x)'
      BY <1>u, <2>1, <2>4 DEF ClientCurrent, Relies, FreshUnseen, Endpoint
    <3>3. chrome[Endpoint(x)] = "up" => \A p \in call'[x].seen : p[2] # "hidden"
      BY <1>t, <1>2, <2>1, <2>4 DEF CallOK, SeenHarmless
    <3> QED BY <1>u, <1>2, <2>1, <2>3, <2>8, <3>1, <3>2, <3>3, OnwardOK
  <2>11. PagesHaveChrome'
    <3>1. \A u \in Targets : IF page'[u].on = None THEN page'[u] = NoPage
                             ELSE Answers(page'[u].on) /\ page'[u].st # "none"
      BY <1>t, <1>2, <2>2, <2>4 DEF DataOK, PagesHaveChrome, Answers
    <3> QED BY <1>u, <3>1 DEF PagesHaveChrome, Answers
  <2>12. UsedIsCurrent' /\ KeptIsUp'
    <3>1. UsedIsCurrent'
      BY <1>u, <2>4, <2>8 DEF UsedIsCurrent
    <3>2. KeptIsUp'
      BY <1>t, <1>u, <1>2, <2>2, <2>5 DEF DataOK, KeptIsUp
    <3> QED BY <3>1, <3>2
  <2>13. ShuttersWait' /\ LeasedUnmarked' /\ ToldHarmless'
    <3>1. \A y \in Calls : call[y].pc \in {"await", "kill", "mark"} => call'[y] = call[y]
      BY <1>u, <2>1 DEF OthersStay
    <3>2. \A y \in Calls : At(y, "mark") => call'[y] = call[y]
      BY <3>1 DEF At
    <3> QED BY <1>t, <1>u, <2>6, <2>7, <3>1, <3>2, ShuttersKept, LeasedKept, ToldKept DEF DataOK, ChromeSpares
  <2>14. \A u \in Targets : Fades(u) \/ page'[u].kind \notin {"startup", "hidden"}
    BY <2>2, <2>5
  <2>15. LocksPass(x)
    BY <1>u, <1>2, <2>1 DEF LocksPass, Endpoint
  <2> QED BY <1>u, <2>1, <2>3, <2>6, <2>7, <2>9, <2>10, <2>11, <2>12, <2>13, <2>14, <2>15, HolderStep
<1> QED BY <1>1, <1>2 DEF CreateTarget

LEMMA PagesOfClaim ==
    ASSUME LaunchInv, PageInv, NEW x \in Calls,
           TargetById(x) \/ ClaimTab(x) \/ MarkTargetClaimed(x)
    PROVE  PageInv'
<1> DEFINE t == call[x].target
<1>t. TypeInv /\ CallOK(x) /\ DataOK /\ page \in [Targets -> PageRecord]
  BY DataBefore DEF LaunchInv, PageInv
<1>u. UNCHANGED <<chrome, page, told, active_port, client, client_lock>>
      /\ call[x].pc \in {"op", "claim", "mark"} /\ call[x].method = "claim"
  BY <1>t, WorkLeaves DEF TargetById, ClaimTab, MarkTargetClaimed, Doing, At, CallOK, StagesFit
<1>v. call[x].pc \in Connected /\ HoldsPages(x) /\ Endpoint(x) \in Browsers /\ t \in Targets
  BY <1>t, <1>u, EndpointKnown, CallBefore DEF Connected, HoldsPages, NamesPage
<1>1. CASE TargetById(x)
  <2>1. call[x].pc = "op" /\ UNCHANGED <<synthetic, startup, leased>>
    BY <1>1 DEF TargetById, Doing, At
  <2>2. VeilStays
    BY <1>1, <1>v, ListingFacts, SameVeil DEF TargetById
  <2>3. CASE End(x)
    BY <1>u, <2>1, <2>2, <2>3, EndStep DEF At
  <2>4. CASE Listing(Endpoint(x)) /\ t \in Ids(Listed(Endpoint(x))) /\ Goto(x, "claim") /\ UNCHANGED page_lifecycle
    <3>1. Keeps(x) /\ call'[x].pc = "claim"
      BY <1>t, <2>4, Goes
    <3>2. /\ page[t].on = Endpoint(x) /\ ~Veiled(t)
          /\ chrome[Endpoint(x)] = "up" => page[t].kind # "hidden"
      BY <1>v, <2>4, ListingFacts DEF Ids
    <3>3. TargetKnown(x)'
      <4>1. ~Veiled(call[x].target)'
        <5>1. PICK u \in Targets : u = call[x].target
          BY <1>v
        <5> QED BY <2>2, <3>1, <3>2, <5>1 DEF VeilStays, Keeps, Veiled
      <4> QED BY <1>u, <3>1, <3>2, <4>1 DEF TargetKnown, Keeps, Endpoint
    <3>4. ClientCurrent(x)' /\ FreshUnseen(x)'
      BY <1>t, <1>u, <2>1, <3>1, <1>v DEF CallOK, ClientCurrent, Relies, HoldsPages, FreshUnseen, Keeps, Endpoint
    <3>5. chrome[Endpoint(x)] = "up" => \A p \in call'[x].seen : p[2] # "hidden"
      BY <1>t, <1>v, <3>1, BrowserNoneAssumption DEF CallOK, SeenHarmless, Keeps
    <3>6. CallOK(x)'
      BY <1>u, <1>v, <2>1, <2>4, <3>1, <3>3, <3>4, <3>5, OnwardOK, SameUse DEF Keeps
    <3> QED BY <1>u, <2>1, <2>2, <2>4, <3>1, <3>6, StillStep DEF LocksPass, Keeps, Endpoint, At
  <2> QED BY <1>1, <2>3, <2>4 DEF TargetById
<1>2. CASE ClaimTab(x)
  <2>1. call[x].pc = "claim" /\ UNCHANGED <<synthetic, startup, hiddenVars>>
    BY <1>2 DEF ClaimTab, At
  <2>2. VeilStays /\ \A u \in Targets : Veiled(u)' <=> Veiled(u)
    BY <2>1, SameVeil
  <2>3. CASE End(x) /\ leased' = leased
    BY <1>u, <2>1, <2>2, <2>3, EndStep DEF At
  <2>4. CASE leased' = leased \cup {t} /\ Goto(x, "mark") /\ UNCHANGED page_lifecycle
    <3>1. Keeps(x) /\ call'[x].pc = "mark"
      BY <1>t, <2>4, Goes
    <3>2. page[t].on \in {None, Endpoint(x)} /\ ~Veiled(t)
      BY <1>t, <2>1 DEF CallOK, TargetKnown
    <3>3. \A u \in Targets : Fades(u)
      BY <1>u DEF Fades
    <3>4. PagesFade /\ HumansKnown
      BY <1>u, <3>3, SamePages DEF PagesFade
    <3>5. ChromesMove /\ PortMoves /\ UpIsActive' /\ ChromeSpares
      BY <1>t, <1>u, SameChrome
    <3>6. \A u \in Targets : Used(u)' => page'[u].on = Endpoint(x)
      <4>1. PICK w \in Targets : w = t
        BY <1>v
      <4>2. \A u \in Targets \ {w} : Used(u)' <=> Used(u)
        BY <1>u, <2>4, <4>1 DEF Used
      <4>3. Used(w)' => page'[w].on = Endpoint(x)
        BY <1>u, <3>2, <4>1 DEF Used
      <4>4. \A u \in Targets : Used(u) => page[u].on = Endpoint(x)
        BY <1>v, <1>t DEF CallOK, SeesUsed
      <4> QED BY <1>u, <4>2, <4>3, <4>4
    <3>7. CallOK(x)'
      <4>1. TargetKnown(x)' /\ ClientCurrent(x)' /\ FreshUnseen(x)'
        BY <3>1 DEF TargetKnown, ClientCurrent, Relies, FreshUnseen
      <4>2. chrome[Endpoint(x)] = "up" => \A p \in call'[x].seen : p[2] # "hidden"
        BY <1>t, <1>v, <3>1, BrowserNoneAssumption DEF CallOK, SeenHarmless, Keeps
      <4>3. /\ call'[x].endpoint = call[x].endpoint /\ call'[x].method = call[x].method
            /\ call'[x].pc = "mark" /\ chrome' = chrome /\ page_lifecycle' = page_lifecycle
        BY <1>u, <2>4, <3>1 DEF Keeps
      <4> HIDE DEF t
      <4> QED BY <1>u, <1>v, <3>6, <4>1, <4>2, <4>3, OnwardOK
    <3>8. PagesHaveChrome'
      <4>1. PagesHaveChrome
        BY <1>t DEF DataOK
      <4> QED BY <1>u, <4>1 DEF PagesHaveChrome, Answers
    <3>9. UsedIsCurrent'
      <4>1. ASSUME NEW u \in Targets, Used(u)' PROVE client' = page'[u].on
        <5>1. page'[u].on = Endpoint(x) /\ chrome[Endpoint(x)] = "up"
          BY <1>u, <3>6, <4>1 DEF Used
        <5>2. Relies(x)
          BY <1>v, <2>1, <5>1 DEF Relies
        <5> QED BY <1>t, <1>u, <5>1, <5>2 DEF CallOK, ClientCurrent
      <4> QED BY <4>1 DEF UsedIsCurrent
    <3>10. KeptIsUp'
      <4>1. ASSUME page[t].st = "open" PROVE chrome[page[t].on] = "up"
        <5>1. page[t].on = Endpoint(x) /\ Answers(Endpoint(x))
          BY <1>t, <1>v, <3>2, <4>1 DEF DataOK, PagesHaveChrome, NoPage
        <5>2. ~Shutting(Endpoint(x))
          <6> SUFFICES ASSUME Shutting(Endpoint(x)) PROVE FALSE
            OBVIOUS
          <6>1. PICK z \in Calls : call[z].pc \in {"await", "kill"}
            BY <1>t, <1>v DEF DataOK, ShuttersWait
          <6>2. call[z].method = "close"
            BY <6>1 DEF PageInv, CallOK, StagesFit, Quitting
          <6>3. z = x
            BY <1>v, <6>1, <6>2, OnlyHolder DEF HoldsPages
          <6> QED BY <2>1, <6>1, <6>3
        <5> QED BY <5>1, <5>2 DEF Answers, Shutting
      <4>2. \A u \in Targets : Kept(u)' => Kept(u) \/ (u = t /\ page[t].st = "open")
        BY <1>u, <2>4 DEF Kept
      <4> QED BY <1>t, <1>u, <4>1, <4>2 DEF DataOK, KeptIsUp
    <3>11. LeasedUnmarked'
      <4>1. ASSUME NEW u \in leased' \cap (synthetic' \cup startup'), page'[u].st = "open"
            PROVE  \E z \in Calls : At(z, "mark")' /\ call'[z].target = u
        <5>1. CASE u = t
          BY <3>1, <5>1 DEF At, Keeps
        <5>2. CASE u \in leased
          <6>1. PICK z \in Calls : At(z, "mark") /\ call[z].target = u
            BY <1>t, <1>u, <2>1, <4>1, <5>2 DEF DataOK, LeasedUnmarked
          <6>2. call'[z] = call[z]
            BY <2>1, <3>1, <6>1 DEF Keeps, OthersStay, At
          <6> QED BY <6>1, <6>2 DEF At
        <5> QED BY <2>4, <4>1, <5>1, <5>2
      <4> QED BY <4>1 DEF LeasedUnmarked
    <3>12. ShuttersWait' /\ ToldHarmless'
      <4>1. \A y \in Calls : call[y].pc \in {"await", "kill"} => call'[y] = call[y]
        BY <2>1, <3>1 DEF Keeps, OthersStay
      <4> QED BY <1>t, <3>4, <3>5, <4>1, ShuttersKept, ToldKept DEF DataOK, ChromeSpares
    <3>13. LocksPass(x) /\ OthersStay(x)
      BY <1>u, <2>4, <3>1 DEF LocksPass, Keeps, Endpoint
    <3> QED BY <1>u, <1>v, <2>1, <2>2, <2>4, <3>2, <3>3, <3>4, <3>5, <3>7, <3>8, <3>9, <3>10, <3>11, <3>12,
               <3>13, HolderStep
  <2> QED BY <1>2, <2>3, <2>4 DEF ClaimTab
<1>3. CASE MarkTargetClaimed(x)
  <2>1. End(x) /\ UNCHANGED <<leased, hiddenVars>> /\ call[x].pc = "mark"
        /\ synthetic' = synthetic \ {t} /\ startup' = startup \ {t}
    BY <1>3 DEF MarkTargetClaimed, ClearsMarks, At
  <2> QED BY <1>u, <2>1, EndStep, SameVeil
<1> QED BY <1>1, <1>2, <1>3

(***************************************************************************)
(* The close.                                                              *)
(***************************************************************************)
LEMMA PagesOfCloseTarget ==
    ASSUME LaunchInv, PageInv, NEW x \in Calls, CloseTarget(x)
    PROVE  PageInv'
<1>t. TypeInv /\ CallOK(x) /\ DataOK /\ page \in [Targets -> PageRecord]
  BY DataBefore DEF LaunchInv, PageInv
<1>u. UNCHANGED <<chrome, told, active_port, client, client_lock, synthetic, startup, leased>>
      /\ UNCHANGED hiddenVars /\ call[x].pc = "op" /\ call[x].method = "close"
  BY WorkLeaves DEF CloseTarget, Doing, At
<1>v. call[x].pc \in Connected /\ HoldsPages(x) /\ Endpoint(x) \in Browsers /\ call[x].target \in Targets
  BY <1>t, <1>u, EndpointKnown, CallBefore DEF Connected, HoldsPages, NamesPage
<1>1. CASE End(x) /\ page' = page
  BY <1>u, <1>1, EndStep, SameVeil DEF At
<1>2. CASE /\ page[call[x].target].st = "open"
           /\ page' = [page EXCEPT ![call[x].target].st = "going"]
           /\ Goto(x, "inventory") /\ UNCHANGED page_lifecycle
  <2>1. PICK t \in Targets : t = call[x].target
    BY <1>v
  <2>2. /\ page'[t].on = page[t].on /\ page'[t].kind = page[t].kind /\ page'[t].origin = page[t].origin
        /\ page[t].st = "open" /\ page'[t].st = "going" /\ page[t].on # None
        /\ \A u \in Targets \ {t} : page'[u] = page[u]
    BY <1>t, <1>2, <2>1 DEF PageRecord, DataOK, PagesHaveChrome, NoPage
  <2>3. Keeps(x) /\ call'[x].pc = "inventory"
    BY <1>t, <1>2, Goes
  <2>4. \A u \in Targets : Fades(u) /\ (Used(u)' => Used(u)) /\ page'[u].on = page[u].on
    BY <1>u, <2>2 DEF Fades, Used
  <2>5. PagesHaveChrome'
    <3>1. \A u \in Targets : IF page'[u].on = None THEN page'[u] = NoPage
                             ELSE Answers(page'[u].on) /\ page'[u].st # "none"
      BY <1>t, <2>2 DEF DataOK, PagesHaveChrome
    <3> QED BY <1>u, <3>1 DEF PagesHaveChrome, Answers
  <2>6. CallOK(x)'
    <3>1. TargetKnown(x)' /\ ClientCurrent(x)' /\ FreshUnseen(x)'
      BY <1>t, <1>u, <1>v, <2>3 DEF TargetKnown, CallOK, ClientCurrent, Relies, HoldsPages, FreshUnseen,
                                     Keeps, Endpoint
    <3>2. chrome[Endpoint(x)] = "up" => \A p \in call'[x].seen : p[2] # "hidden"
      BY <1>t, <1>v, <2>3, BrowserNoneAssumption DEF CallOK, SeenHarmless, Keeps
    <3>3. \A u \in Targets : Used(u)' => page'[u].on = Endpoint(x)
      BY <1>t, <1>v, <2>4 DEF CallOK, SeesUsed
    <3> QED BY <1>u, <1>v, <1>2, <2>3, <3>1, <3>2, <3>3, OnwardOK DEF Keeps
  <2>7. VeilStays /\ LeasesStay
    BY <1>u, SameVeil DEF LeasesStay
  <2> QED BY <1>u, <1>2, <2>3, <2>4, <2>5, <2>6, <2>7, RequestStep
          DEF LocksPass, Keeps, Endpoint, At, VeilStays
<1> QED BY <1>1, <1>2 DEF CloseTarget

\* A page somebody keeps is on the request's Chrome, and shows.
LEMMA KeptShows ==
    ASSUME LaunchInv, PageInv, NEW x \in Calls, HoldsPages(x), call[x].pc \in Connected,
           NEW t \in Targets, Kept(t)
    PROVE  t \in PagesOf(Endpoint(x)) /\ ~Veiled(t)
<1>1. chrome[page[t].on] = "up" /\ page[t].on # None
  BY DEF PageInv, DataOK, KeptIsUp, PagesHaveChrome, Kept, NoPage
<1>2. Used(t)
  BY <1>1 DEF Kept, Used
<1> QED BY <1>2 DEF PageInv, DataOK, CallOK, SeesUsed, PagesOf, VeiledIsNobodys, Kept

LEMMA PagesOfListingAfterClose ==
    ASSUME LaunchInv, PageInv, NEW x \in Calls, InventoryAfterClose(x)
    PROVE  PageInv'
<1>t. TypeInv /\ CallOK(x) /\ call \in [Calls -> CallRecord]
  BY DEF LaunchInv, PageInv, TypeInv, BrowserTypeOK
<1>u. UNCHANGED <<chrome, page, told, active_port, client, client_lock, synthetic, startup>>
      /\ call[x].pc = "inventory" /\ call[x].method = "close"
  BY <1>t, WorkLeaves DEF InventoryAfterClose, At, CallOK, StagesFit
<1>v. call[x].pc \in Connected /\ HoldsPages(x) /\ Endpoint(x) \in Browsers
  BY <1>t, <1>u, EndpointKnown DEF Connected, HoldsPages
<1>1. CASE EndClosed(x) /\ UNCHANGED hiddenVars
  BY <1>u, <1>1, EndStep, SameVeil DEF At, EndClosed
<1>2. CASE /\ Listing(Endpoint(x)) /\ UNCHANGED <<page_lifecycle, leased>>
           /\ call' = [call EXCEPT ![x].pc = "decide", ![x].seen = Listed(Endpoint(x))]
  <2>1. /\ OthersStay(x) /\ call'[x].pc = "decide" /\ call'[x].seen = Listed(Endpoint(x))
        /\ call'[x].endpoint = call[x].endpoint /\ call'[x].method = call[x].method
    BY <1>t, <1>2 DEF OthersStay, CallRecord
  <2>2. VeilStays /\ (chrome[Endpoint(x)] = "up" => \A p \in call'[x].seen : p[2] # "hidden")
        /\ \A t \in PagesOf(Endpoint(x)) : ~Veiled(t) => t \in Ids(call'[x].seen)
    BY <1>2, <1>v, <2>1, ListingFacts
  <2>3. \A t \in Targets : Kept(t)' => t \in Ids(call'[x].seen)
    <3>1. \A t \in Targets : Kept(t)' <=> Kept(t)
      BY <1>u, <1>2 DEF Kept
    <3> QED BY <1>v, <2>2, <3>1, KeptShows
  <2>4. TargetKnown(x)' /\ ClientCurrent(x)' /\ FreshUnseen(x)'
    BY <1>t, <1>u, <1>v, <2>1 DEF TargetKnown, CallOK, ClientCurrent, Relies, HoldsPages, FreshUnseen, Endpoint
  <2>5. CallOK(x)'
    BY <1>u, <1>2, <1>v, <2>1, <2>2, <2>3, <2>4, OnwardOK, SameUse
  <2> QED BY <1>u, <1>2, <2>1, <2>2, <2>5, StillStep DEF LocksPass, Endpoint, At
<1> QED BY <1>1, <1>2 DEF InventoryAfterClose

LEMMA PagesOfDecide ==
    ASSUME LaunchInv, PageInv, NEW x \in Calls, Decide(x)
    PROVE  PageInv'
<1> DEFINE syn == (synthetic \ {call[x].target}) \cap Ids(call[x].seen)
           start == startup \cap Ids(call[x].seen)
<1>t. TypeInv /\ CallOK(x) /\ DataOK /\ call \in [Calls -> CallRecord]
  BY DEF LaunchInv, PageInv, TypeInv, BrowserTypeOK
<1>u. UNCHANGED <<chrome, page, told, active_port, client, client_lock>> /\ UNCHANGED hiddenVars
      /\ call[x].pc = "decide" /\ call[x].method = "close"
      /\ synthetic' = syn /\ startup' = start
  BY <1>t, WorkLeaves DEF Decide, At, CallOK, StagesFit
<1>v. call[x].pc \in Connected /\ HoldsPages(x) /\ Endpoint(x) \in Browsers /\ Endpoint(x) # None
      /\ page_lifecycle = x
  BY <1>t, <1>u, EndpointKnown, BrowserNoneAssumption DEF Connected, HoldsPages, CallOK, LifecycleHeld
<1>1. CASE EndClosed(x)
  BY <1>u, <1>1, EndStep, SameVeil DEF At, EndClosed
<1>2. CASE /\ Disposable(call[x].seen, syn, start) /\ UNCHANGED <<page_lifecycle, leased>>
           /\ call' = [call EXCEPT ![x].pc = "quit", ![x].pid = ManagedPid]
  <2>1. /\ OthersStay(x) /\ call'[x].pc = "quit" /\ call'[x].pid = ManagedPid
        /\ call'[x].endpoint = call[x].endpoint /\ call'[x].method = call[x].method
        /\ call'[x].seen = call[x].seen
    BY <1>t, <1>2 DEF OthersStay, CallRecord
  <2>2. \A p \in call[x].seen : p[2] # "site" /\ p[1] \in synthetic \cup startup
    BY <1>2 DEF Disposable
  <2>3. Harmless(call[x].seen)
    BY <1>t, <2>2 DEF Harmless, DataOK, MarksAreChromes
  \* What somebody keeps would be among them.
  <2>4. ASSUME NEW t \in Targets, Kept(t) PROVE FALSE
    <3>1. t \in Ids(call[x].seen)
      BY <1>t, <1>u, <1>v, <2>4 DEF CallOK, SeesUsed
    <3>2. t \in synthetic \cup startup /\ page[t].st = "open"
      BY <2>2, <2>4, <3>1 DEF Ids, Kept
    <3>3. page[t].origin = "chrome"
      BY <1>t, <3>2 DEF DataOK, MarksAreChromes
    <3>4. t \in leased
      BY <2>4, <3>3 DEF Kept
    <3>5. PICK z \in Calls : call[z].pc = "mark"
      BY <1>t, <3>2, <3>4 DEF DataOK, LeasedUnmarked, At
    <3>6. HoldsPages(z)
      BY <3>5 DEF PageInv, CallOK, StagesFit, HoldsPages
    <3>7. z = x
      BY <1>v, <3>6, OnlyHolder
    <3> QED BY <1>u, <3>5, <3>7
  <2>5. LifecycleHeld(x)' /\ StagesFit(x)' /\ EndpointAnswered(x)'
    BY <1>t, <1>u, <1>v, <1>2, <2>1
       DEF LifecycleHeld, StagesFit, LaunchPcs, CallOK, EndpointAnswered, Connected, Endpoint
  <2>6. QuitsItsOwn(x)'
    <3>1. chrome[Endpoint(x)] = "up" => ManagedPid = Endpoint(x)
      BY <1>v DEF LaunchInv, UsersOwnTheProfile, ManagedPid
    <3> QED BY <1>u, <2>1, <3>1 DEF QuitsItsOwn, Endpoint
  <2>7. SeesUsed(x)'
    <3>1. \A t \in Targets : (Used(t)' <=> Used(t)) /\ (Kept(t)' <=> Kept(t))
      BY <1>u, <1>2 DEF Used, Kept
    <3>2. \A t \in Targets : Used(t) => page[t].on = Endpoint(x)
      BY <1>t, <1>v DEF CallOK, SeesUsed
    <3> QED BY <1>u, <2>1, <2>4, <3>1, <3>2 DEF SeesUsed, Endpoint
  <2>8. TargetKnown(x)' /\ ClientCurrent(x)' /\ FreshUnseen(x)'
    BY <2>1 DEF TargetKnown, ClientCurrent, Relies, FreshUnseen
  <2>9. SeenHarmless(x)'
    <3>1. Harmless(call[x].seen)'
      BY <1>u, <2>1, <2>3 DEF Harmless
    <3> QED BY <1>t, <1>u, <2>1, <3>1 DEF CallOK, SeenHarmless, Endpoint
  <2>10. CallOK(x)'
    BY <2>5, <2>6, <2>7, <2>8, <2>9 DEF CallOK
  <2>11. VeilStays
    BY <1>u, SameVeil
  <2> QED BY <1>u, <1>2, <2>1, <2>10, <2>11, StillStep DEF LocksPass, Endpoint, At
<1> QED BY <1>1, <1>2 DEF Decide

(***************************************************************************)
(* The final close.                                                        *)
(***************************************************************************)
\* Telling Chrome to exit, by command or by signal.
LEMMA PagesOfTell ==
    ASSUME LaunchInv, PageInv, NEW x \in Calls, NEW b \in Browsers, chrome[b] # "none",
           call[x].pc \in {"quit", "await"}, call[x].pid = b,
           Tell(x, b), NEW pc \in {"await", "kill"}, Goto(x, pc), UNCHANGED page, QuitUnchanged
    PROVE  PageInv'
<1>t. TypeInv /\ CallOK(x) /\ DataOK /\ chrome \in [Browsers -> ChromeStates] /\ told \in Told
  BY DataBefore DEF LaunchInv, PageInv
<1>u. UNCHANGED <<page, active_port, client, client_lock, synthetic, startup, page_lifecycle, leased>>
      /\ UNCHANGED hiddenVars
  BY DEF QuitUnchanged, fileVars, clientVars
<1>v. /\ call[x].pc \in Connected /\ HoldsPages(x) /\ Endpoint(x) \in Browsers /\ Endpoint(x) # None
      /\ call[x].method = "close"
  <2>1. call[x].method = "close" /\ call[x].pc \in Connected
    BY <1>t DEF CallOK, StagesFit, Quitting, Connected
  <2> QED BY <2>1, EndpointKnown, BrowserNoneAssumption DEF HoldsPages
<1>1. Keeps(x) /\ call'[x].pc = pc
  BY <1>t, Goes
<1>2. /\ \A c \in Browsers \ {b} : chrome'[c] = chrome[c] /\ told'[c] = told[c]
      /\ told'[b] = call[x].seen
      /\ chrome'[b] = CASE chrome[b] = "spawned"            -> "released"
                        [] chrome[b] \in {"starting", "up"} -> "closing"
                        [] OTHER                            -> chrome[b]
  BY <1>t DEF Tell, Told
<1>3. chrome'[b] \in {"closing", "released", "mute"}
      /\ (chrome[b] \in {"closing", "released"} => chrome'[b] = chrome[b])
      /\ (chrome[b] = "up" => chrome'[b] = "closing")
      /\ (chrome[b] = "mute" <=> chrome'[b] = "mute")
  BY <1>t, <1>2 DEF ChromeStates
<1> HIDE DEF Tell
<1>4. \A t \in Targets : Fades(t)
  BY <1>u DEF Fades
<1>5. PagesFade /\ HumansKnown
  BY <1>u, <1>4, SamePages DEF PagesFade
<1>6. ChromesMove /\ PortMoves
  BY <1>u, <1>2, <1>3 DEF ChromesMove, PortMoves, Early
<1>7. UpIsActive'
  BY <1>t, <1>u, <1>2, <1>3 DEF DataOK, UpIsActive
<1>8. PagesHaveChrome'
  <2>1. ASSUME NEW t \in Targets, page[t].on # None PROVE chrome'[page[t].on] \in {"up", "closing", "released"}
    <3>1. page[t].on \in Browsers /\ Answers(page[t].on)
      BY <1>t, <2>1, DataBefore DEF DataOK, PagesHaveChrome, PageRecord, Maybe
    <3> QED BY <1>2, <1>3, <3>1 DEF Answers
  <2> QED BY <1>t, <1>u, <2>1 DEF DataOK, PagesHaveChrome, Answers
<1>9. ASSUME NEW t \in Targets, Kept(t) PROVE FALSE
  BY <1>t, <1>v, <1>9 DEF CallOK, SeesUsed, Quitting
<1>10. \A t \in Targets : (Used(t)' => Used(t)) /\ ~Kept(t)'
  <2>1. \A t \in Targets : Kept(t)' <=> Kept(t)
    BY <1>u DEF Kept
  <2>2. ASSUME NEW t \in Targets, Used(t)' PROVE Used(t)
    <3>1. page[t].on # None /\ chrome'[page[t].on] = "up"
      BY <1>u, <2>2 DEF Used
    <3>2. page[t].on \in Browsers
      BY <1>t, <3>1, DataBefore DEF PageRecord, Maybe
    <3>3. chrome[page[t].on] = "up"
      BY <1>2, <1>3, <3>1, <3>2
    <3> QED BY <1>u, <2>2, <3>1, <3>3 DEF Used
  <2> QED BY <1>9, <2>1, <2>2
<1>11. UsedIsCurrent' /\ KeptIsUp'
  BY <1>t, <1>u, <1>10 DEF DataOK, UsedIsCurrent, KeptIsUp
<1>12. CallOK(x)'
  <2>1. LifecycleHeld(x)' /\ StagesFit(x)'
    BY <1>t, <1>u, <1>v, <1>1 DEF LifecycleHeld, StagesFit, LaunchPcs, CallOK, Keeps
  <2>2. chrome'[Endpoint(x)] \notin Early /\ (chrome'[Endpoint(x)] = "up" => chrome[Endpoint(x)] = "up")
        /\ Endpoint(x)' = Endpoint(x)
    BY <1>t, <1>v, <1>1, <1>2, <1>3 DEF CallOK, EndpointAnswered, Early, Keeps, Endpoint
  <2>3. EndpointAnswered(x)' /\ QuitsItsOwn(x)'
    BY <1>t, <1>v, <1>1, <2>2 DEF CallOK, EndpointAnswered, QuitsItsOwn, Quitting, Keeps
  <2>4. SeesUsed(x)'
    <3>1. \A t \in Targets : Used(t) => page[t].on = Endpoint(x)
      BY <1>t, <1>v DEF CallOK, SeesUsed
    <3> QED BY <1>u, <1>1, <1>10, <2>2, <3>1 DEF SeesUsed
  <2>5. TargetKnown(x)' /\ ClientCurrent(x)' /\ FreshUnseen(x)'
    BY <1>1 DEF TargetKnown, ClientCurrent, Relies, FreshUnseen
  <2>6. SeenHarmless(x)'
    <3>1. Harmless(call[x].seen)
      BY <1>t DEF CallOK, SeenHarmless, Quitting
    <3>2. Harmless(call[x].seen)'
      BY <1>u, <1>1, <3>1 DEF Harmless, Keeps
    <3> QED BY <1>t, <1>1, <2>2, <3>2 DEF CallOK, SeenHarmless, Keeps
  <2> QED BY <2>1, <2>3, <2>4, <2>5, <2>6 DEF CallOK
<1>13. ShuttersWait'
  <2>1. ASSUME NEW c \in Browsers, Shutting(c)'
        PROVE  \E z \in Calls : call'[z].pc \in {"await", "kill"} /\ call'[z].pid = c
    <3>1. CASE c = b
      BY <1>1, <3>1 DEF Keeps
    <3>2. CASE c # b
      <4>1. PICK z \in Calls : call[z].pc \in {"await", "kill"} /\ call[z].pid = c
        BY <1>t, <1>2, <2>1, <3>2 DEF DataOK, ShuttersWait, Shutting
      <4> QED BY <1>1, <3>2, <4>1 DEF Keeps, OthersStay
    <3> QED BY <3>1, <3>2
  <2> QED BY <2>1 DEF ShuttersWait
<1>14. ToldHarmless'
  <2>1. Harmless(call[x].seen)
    BY <1>t DEF CallOK, SeenHarmless, Quitting
  <2>2. ASSUME NEW c \in Browsers, told'[c] # None
        PROVE  Harmless(told'[c]) /\ chrome'[c] \in {"closing", "released", "mute"}
    BY <1>t, <1>2, <1>3, <2>1, <2>2 DEF DataOK, ToldHarmless
  <2> QED BY <1>u, <2>2 DEF ToldHarmless, Harmless
<1>15. LeasedUnmarked'
  <2>1. \A y \in Calls : At(y, "mark") => call'[y] = call[y]
    BY <1>1 DEF Keeps, OthersStay, At
  <2> QED BY <1>t, <1>u, <1>5, <2>1, LeasedKept DEF DataOK
<1>16. LocksPass(x) /\ OthersStay(x)
  BY <1>u, <1>1 DEF LocksPass, Keeps, Endpoint
<1>17. \A t \in Targets : Veiled(t)' <=> Veiled(t)
  BY <1>u, SameVeil
<1> QED BY <1>u, <1>v, <1>4, <1>5, <1>6, <1>7, <1>8, <1>11, <1>12, <1>13, <1>14, <1>15, <1>16, <1>17, HolderStep

\* A close that is quitting Chrome.
LEMMA Closer ==
    ASSUME LaunchInv, PageInv, NEW x \in Calls, call[x].pc \in Quitting \cup {"forget", "clear"}
    PROVE  /\ call[x].method = "close" /\ HoldsPages(x) /\ page_lifecycle = x
           /\ \A t \in Targets : ~Kept(t)
           /\ call[x].pc \in Quitting => call[x].pc \in Connected /\ Endpoint(x) \in Browsers
           /\ \A t \in Targets : call[x].pc \in Quitting /\ Used(t) => page[t].on = call[x].pid
<1>1. CallOK(x) /\ call[x].method = "close"
  BY DEF PageInv, CallOK, StagesFit
<1>2. HoldsPages(x)
  BY <1>1 DEF HoldsPages, Quitting
<1>3. call[x].pc \in Quitting => call[x].pc \in Connected /\ Endpoint(x) \in Browsers
  BY EndpointKnown DEF Quitting, Connected
<1>4. page_lifecycle = x /\ \A t \in Targets : ~Kept(t)
  BY <1>1, <1>2 DEF CallOK, LifecycleHeld, SeesUsed
<1>5. ASSUME NEW t \in Targets, call[x].pc \in Quitting, Used(t) PROVE page[t].on = call[x].pid
  <2>1. page[t].on = Endpoint(x)
    BY <1>1, <1>2, <1>3, <1>5 DEF CallOK, SeesUsed
  <2> QED BY <1>1, <1>5, <2>1 DEF CallOK, QuitsItsOwn, Used
<1> QED BY <1>1, <1>2, <1>3, <1>4, <1>5

\* The quitting close goes on: what it needs to be told apart from a new one.
LEMMA QuitOnOK ==
    ASSUME LaunchInv, PageInv, NEW x \in Calls, call[x].pc \in Quitting \cup {"forget"}, Keeps(x),
           call'[x].pc \in {"await", "forget", "clear"}, page_lifecycle' = page_lifecycle,
           \A t \in Targets : Kept(t)' => Kept(t),
           call'[x].pc = "await" => \A t \in Targets : Used(t)' => page'[t].on = Endpoint(x),
           call'[x].pc # "await" => \A t \in Targets : ~Used(t)',
           call'[x].pc = "await" => call[x].pc = "quit" /\ page' = page,
           Endpoint(x) # None =>
              chrome'[Endpoint(x)] \notin Early /\ (chrome'[Endpoint(x)] = "up" => chrome[Endpoint(x)] = "up")
    PROVE  CallOK(x)'
<1>1. CallOK(x) /\ call[x].method = "close" /\ page_lifecycle = x /\ \A t \in Targets : ~Kept(t)'
  BY Closer DEF PageInv
<1>e. Endpoint(x)' = Endpoint(x)
  BY DEF Keeps, Endpoint
<1>2. LifecycleHeld(x)' /\ StagesFit(x)'
  BY <1>1 DEF LifecycleHeld, StagesFit, LaunchPcs, Keeps
<1>3. EndpointAnswered(x)' /\ QuitsItsOwn(x)'
  <2>1. call'[x].pc = "await" => Endpoint(x) # None
    BY <1>1 DEF CallOK, EndpointAnswered, Connected
  <2> QED BY <1>1, <1>e, <2>1
          DEF CallOK, EndpointAnswered, QuitsItsOwn, Quitting, Connected, Keeps
<1>4. SeesUsed(x)'
  BY <1>1, <1>e DEF SeesUsed, Connected
<1>5. TargetKnown(x)' /\ ClientCurrent(x)' /\ FreshUnseen(x)'
  BY DEF TargetKnown, ClientCurrent, Relies, FreshUnseen
<1>6. SeenHarmless(x)'
  <2>1. call'[x].pc = "await" => Harmless(call[x].seen)'
    <3>1. call'[x].pc = "await" => Harmless(call[x].seen)
      BY <1>1 DEF CallOK, SeenHarmless, Quitting
    <3> QED BY <3>1 DEF Harmless, Keeps
  <2> QED BY <1>1, <1>e, <2>1 DEF CallOK, SeenHarmless, Quitting, Keeps
<1> QED BY <1>2, <1>3, <1>4, <1>5, <1>6 DEF CallOK

LEMMA PagesOfQuit ==
    ASSUME LaunchInv, PageInv, NEW x \in Calls,
           CloseBrowser(x) \/ Terminate(x) \/ AwaitExit(x)
    PROVE  PageInv'
<1>t. TypeInv /\ CallOK(x) /\ call[x].pid \in Maybe(Browsers)
  BY CallBefore DEF LaunchInv, PageInv, CallRecord
<1>u. call[x].pc \in Quitting /\ UNCHANGED page /\ QuitUnchanged
  BY DEF CloseBrowser, Terminate, AwaitExit, At, Quitting
<1>v. UNCHANGED <<active_port, client, client_lock, synthetic, startup, page_lifecycle, leased>>
      /\ UNCHANGED hiddenVars /\ Endpoint(x) \in Browsers /\ call[x].pc \in Connected
  BY <1>u, Closer DEF QuitUnchanged, fileVars, clientVars
<1>1. CASE CloseBrowser(x) /\ chrome[Endpoint(x)] = "up" /\ Tell(x, Endpoint(x))
  <2>1. call[x].pid = Endpoint(x) /\ call[x].pc = "quit"
    BY <1>t, <1>u, <1>1 DEF CallOK, QuitsItsOwn, CloseBrowser, At
  <2>2. Goto(x, "await")
    BY <1>1 DEF CloseBrowser
  <2> QED BY <1>u, <1>v, <1>1, <2>1, <2>2, PagesOfTell
<1>2. CASE Terminate(x)
  <2>1. /\ call[x].pc = "await" /\ Tell(x, call[x].pid) /\ Goto(x, "kill")
        /\ call[x].pid # None /\ chrome[call[x].pid] # "none"
    BY <1>2 DEF Terminate, At, Alive
  <2>2. PICK b \in Browsers : b = call[x].pid
    BY <1>t, <2>1 DEF Maybe
  <2> QED BY <1>u, <2>1, <2>2, PagesOfTell
<1>3. CASE (CloseBrowser(x) \/ AwaitExit(x)) /\ UNCHANGED <<chrome, told>>
  <2>1. PICK pc \in {"await", "forget"} :
           /\ Goto(x, pc)
           /\ pc = "await" => call[x].pc = "quit"
           /\ pc = "forget" => call[x].pc \in {"await", "kill"} /\ ~Alive(call[x].pid)
    BY <1>3 DEF CloseBrowser, AwaitExit, At, Exited
  <2>2. Keeps(x) /\ call'[x].pc = pc
    BY <1>t, <2>1, Goes
  <2>3. \A t \in Targets : (Used(t)' <=> Used(t)) /\ (Kept(t)' <=> Kept(t))
    BY <1>u, <1>v, <1>3 DEF Used, Kept
  <2>4. pc = "forget" => \A t \in Targets : ~Used(t)
    BY <1>u, <2>1, Closer DEF Used, Alive
  <2>5. \A t \in Targets : Used(t) => page[t].on = Endpoint(x)
    BY <1>t, <1>u, <1>v, Closer DEF CallOK, SeesUsed
  <2>6. chrome[Endpoint(x)] \notin Early
    BY <1>t, <1>v, BrowserNoneAssumption DEF CallOK, EndpointAnswered
  <2>7. CallOK(x)'
    BY <1>u, <1>v, <1>3, <2>1, <2>2, <2>3, <2>4, <2>5, <2>6, QuitOnOK
  <2>8. call[x].pc \in {"await", "kill"} /\ pc = "forget" => call[x].pid = None \/ chrome[call[x].pid] = "none"
    BY <2>1 DEF Alive
  <2>9. VeilStays /\ LocksPass(x) /\ OthersStay(x)
    BY <1>v, <2>2, SameVeil DEF LocksPass, Keeps, Endpoint
  <2>10. ~At(x, "mark") /\ (call[x].pc \in {"await", "kill"} => pc = "forget")
    BY <1>u, <2>1 DEF At, Quitting
  <2> QED BY <1>u, <1>v, <1>3, <2>7, <2>8, <2>9, <2>10, StillStep
<1> QED BY <1>1, <1>2, <1>3 DEF CloseBrowser, AwaitExit

LEMMA PagesOfKill ==
    ASSUME LaunchInv, PageInv, NEW x \in Calls, Kill(x)
    PROVE  PageInv'
<1>t. TypeInv /\ CallOK(x) /\ DataOK
  BY DEF LaunchInv, PageInv
<1>u. call[x].pc = "kill" /\ QuitUnchanged /\ Goto(x, "forget") /\ Dies(call[x].pid)
      /\ call[x].pid # None
  BY DEF Kill, At, Alive
<1>v. UNCHANGED <<active_port, client, client_lock, synthetic, startup, page_lifecycle, leased>>
      /\ UNCHANGED hiddenVars /\ Endpoint(x) \in Browsers /\ call[x].pc \in Connected /\ HoldsPages(x)
  BY <1>u, Closer DEF QuitUnchanged, fileVars, clientVars, Quitting
<1>1. PICK b \in Browsers : b = call[x].pid /\ Dies(b)
  BY <1>t, <1>u, CallBefore DEF CallRecord, Maybe
<1>2. Keeps(x) /\ call'[x].pc = "forget"
  BY <1>t, <1>u, Goes
<1>3. /\ BirthsIdle /\ HumansKnown /\ ChromesMove /\ PagesHaveChrome' /\ ChromeSpares
      /\ \A c \in Browsers \ {b} : chrome'[c] = chrome[c]
      /\ chrome'[b] = "none"
  BY <1>t, <1>1, Death
<1>4. \A t \in Targets : Fades(t)
  BY <1>1 DEF Dies, WithoutPagesOf, Fades
<1>5. PagesFade /\ LeasesStay /\ UsedSpreads /\ KeptStays
  <2>1. PagesFade /\ LeasesStay
    BY <1>v, <1>4 DEF PagesFade, LeasesStay
  <2> QED BY <1>t, <1>3, <2>1, UsesSpread DEF DataOK
<1>6. \A t \in Targets : ~Used(t)'
  <2>1. ASSUME NEW t \in Targets, Used(t)' PROVE FALSE
    <3>1. PICK u \in Targets : Used(u) /\ page[u].on = page'[t].on
      BY <1>5, <2>1 DEF UsedSpreads
    <3>2. page'[t].on = b
      BY <1>1, <1>u, <3>1, Closer DEF Quitting
    <3> QED BY <1>3, <2>1, <3>2 DEF Used
  <2> QED BY <2>1
<1>7. \A t \in Targets : ~Kept(t)'
  BY <1>5, <1>u, Closer DEF KeptStays, Quitting
<1>8. CallOK(x)'
  <2>1. chrome'[Endpoint(x)] \notin Early /\ (chrome'[Endpoint(x)] = "up" => chrome[Endpoint(x)] = "up")
    BY <1>t, <1>v, <1>3, BrowserNoneAssumption DEF CallOK, EndpointAnswered, Early
  <2>2. call[x].pc \in Quitting
    BY <1>u DEF Quitting
  <2> QED BY <1>v, <1>2, <1>6, <1>7, <2>1, <2>2, QuitOnOK
<1>9. UpIsActive' /\ PortMoves
  BY <1>t, <1>v, <1>3 DEF DataOK, UpIsActive, PortMoves
<1>10. UsedIsCurrent' /\ KeptIsUp'
  BY <1>6, <1>7 DEF UsedIsCurrent, KeptIsUp
<1>11. ShuttersWait'
  <2>1. \A y \in Calls : call[y].pc \in {"await", "kill"} =>
           call'[y] = call[y] \/ chrome'[call[y].pid] = "none"
    BY <1>1, <1>2, <1>3 DEF Keeps, OthersStay
  <2> QED BY <1>t, <1>3, <2>1, ShuttersKept DEF DataOK, ChromeSpares
<1>12. ToldHarmless'
  BY <1>t, <1>3, <1>5, ToldKept DEF DataOK, ChromeSpares
<1>13. LeasedUnmarked'
  <2>1. \A y \in Calls : At(y, "mark") => call'[y] = call[y]
    BY <1>u, <1>2 DEF Keeps, OthersStay, At
  <2> QED BY <1>t, <1>v, <1>5, <2>1, LeasedKept DEF DataOK
<1>14. LocksPass(x) /\ OthersStay(x)
  BY <1>v, <1>2 DEF LocksPass, Keeps, Endpoint
<1>15. \A t \in Targets : Veiled(t)' <=> Veiled(t)
  BY <1>v, SameVeil
<1> QED BY <1>v, <1>3, <1>4, <1>5, <1>8, <1>9, <1>10, <1>11, <1>12, <1>13, <1>14, <1>15, HolderStep

LEMMA PagesOfForget ==
    ASSUME LaunchInv, PageInv, NEW x \in Calls, ForgetClient(x) \/ ClearSets(x)
    PROVE  PageInv'
<1>t. TypeInv /\ CallOK(x) /\ DataOK
  BY DEF LaunchInv, PageInv
<1>u. UNCHANGED <<chrome, page, told, active_port, client_lock>> /\ UNCHANGED hiddenVars
  BY DEF ForgetClient, ClearSets, ForgetUnchanged, fileVars
<1>1. CASE ClearSets(x)
  <2>1. End(x) /\ leased' \subseteq leased /\ synthetic' = {} /\ startup' = {} /\ client' = client
        /\ call[x].pc = "clear"
    BY <1>1 DEF ClearSets, EndClosed, At
  <2> QED BY <1>u, <2>1, EndStep, SameVeil DEF At
<1>2. CASE ForgetClient(x)
  <2>1. /\ call[x].pc = "forget" /\ client_lock = None /\ client' = None /\ Goto(x, "clear")
        /\ UNCHANGED <<synthetic, startup, page_lifecycle, leased>>
    BY <1>2 DEF ForgetClient, At
  <2>2. Keeps(x) /\ call'[x].pc = "clear"
    BY <1>t, <2>1, Goes
  <2>3. HoldsPages(x)
    BY <2>1, Closer
  <2>4. \A t \in Targets : ~Used(t)' /\ ~Kept(t)'
    <3>1. \A t \in Targets : (Used(t)' <=> Used(t)) /\ (Kept(t)' <=> Kept(t))
      BY <1>u, <2>1 DEF Used, Kept
    <3> QED BY <1>t, <2>1, <2>3, <3>1, Closer DEF CallOK, SeesUsed
  <2>5. CallOK(x)'
    <3>1. Endpoint(x) # None => chrome[Endpoint(x)] \notin Early
      BY <1>t DEF CallOK, EndpointAnswered
    <3> QED BY <1>u, <2>1, <2>2, <2>4, <3>1, QuitOnOK
  <2>6. \A t \in Targets : Fades(t)
    BY <1>u DEF Fades
  <2>7. PagesFade /\ HumansKnown
    BY <1>u, <2>6, SamePages DEF PagesFade
  <2>8. ChromesMove /\ PortMoves /\ UpIsActive' /\ ChromeSpares
    BY <1>t, <1>u, SameChrome
  <2>9. PagesHaveChrome'
    <3>1. PagesHaveChrome
      BY <1>t DEF DataOK
    <3> QED BY <1>u, <3>1 DEF PagesHaveChrome, Answers
  <2>10. UsedIsCurrent' /\ KeptIsUp'
    BY <2>4 DEF UsedIsCurrent, KeptIsUp
  <2>11. ShuttersWait' /\ ToldHarmless' /\ LeasedUnmarked'
    <3>1. \A y \in Calls : call[y].pc \in {"await", "kill"} => call'[y] = call[y]
      BY <2>1, <2>2 DEF Keeps, OthersStay
    <3>2. \A y \in Calls : At(y, "mark") => call'[y] = call[y]
      BY <2>1, <2>2 DEF Keeps, OthersStay, At
    <3> QED BY <1>t, <1>u, <2>1, <2>7, <2>8, <3>1, <3>2, ShuttersKept, ToldKept, LeasedKept
            DEF DataOK, ChromeSpares
  <2>12. LocksPass(x) /\ OthersStay(x)
    BY <1>u, <2>1, <2>2 DEF LocksPass, Keeps, Endpoint
  <2>13. \A t \in Targets : Veiled(t)' <=> Veiled(t)
    BY <1>u, SameVeil
  <2> QED BY <1>u, <2>1, <2>3, <2>5, <2>6, <2>7, <2>8, <2>9, <2>10, <2>11, <2>12, <2>13, HolderStep
<1> QED BY <1>1, <1>2

(***************************************************************************)
(* Every step, and what holds of the pages.                                *)
(***************************************************************************)
LEMMA PageStepAll ==
    ASSUME LaunchInv, PageInv, Calm, [BrowserNext]_browserVars
    PROVE  PageInv'
<1>1. ASSUME NEW x \in Calls, QuietRequest(x) PROVE PageInv'
  BY <1>1, PagesOfStart, PagesOfLock, PagesOfClassify, PagesOfInventories, PagesOfCreate,
     PagesOfCreated, PagesOfClaim, PagesOfCloseTarget, PagesOfListingAfterClose, PagesOfDecide,
     PagesOfQuit, PagesOfForget
  DEF QuietRequest
<1>2. ASSUME NEW x \in Calls, QuitRequest(x) PROVE PageInv'
  BY <1>2, PagesOfQuit, PagesOfKill DEF QuitRequest
<1>3. ASSUME NEW x \in Calls, LaunchRequest(x) PROVE PageInv'
  BY <1>3, PagesOfSection, PagesOfLaunch DEF LaunchRequest
<1>4. ~BrokerRestarts
  BY DEF BrokerRestarts, Calm, May
<1>5. CASE UNCHANGED browserVars
  <2>1. UNCHANGED <<chrome, page, told, active_port, client, client_lock, page_lifecycle, synthetic,
                    startup, leased, private, recorder, call>>
    BY <1>5 DEF browserVars, fileVars, clientVars, hiddenVars
  <2>2. \A t \in Targets : Veiled(t)' <=> Veiled(t)
    BY <2>1 DEF Veiled
  <2>3. PagesHaveChrome' /\ DataOK
    BY <2>1 DEF PageInv, DataOK, PagesHaveChrome, Answers
  <2> QED BY <2>1, <2>2, <2>3, SamePages, SameChrome, WorldStep
<1> QED BY <1>1, <1>2, <1>3, <1>4, <1>5, PagesOfProcesses, PagesOfPages, PagesOfRecorder, Steps

LEMMA PageInit == BrowserInit => PageInv
<1> SUFFICES ASSUME BrowserInit PROVE PageInv
  OBVIOUS
<1>1. /\ \A b \in Browsers : chrome[b] = "none" /\ told[b] = None
      /\ \A t \in Targets : page[t] = NoPage
      /\ \A x \in Calls : call[x] = NoCall
      /\ active_port = None /\ client = None /\ synthetic = {} /\ startup = {} /\ leased = {}
      /\ private = {} /\ recorder.pc = "none"
  BY DEF BrowserInit
<1>2. \A t \in Targets : ~Used(t) /\ ~Kept(t) /\ ~Veiled(t)
  BY <1>1 DEF Used, Kept, Veiled, NoPage
<1>3. DataOK
  BY <1>1, <1>2 DEF DataOK, ShuttersWait, Shutting, NamesAnswered, PagesHaveChrome, NoPage, UsedIsCurrent,
     KeptIsUp, UpIsActive, MarksAreChromes, StartupIsChromes, LeasedUnmarked, VeiledIsNobodys,
     RecordersVeiled, ToldHarmless
<1>4. ASSUME NEW x \in Calls PROVE CallOK(x)
  <2>1. /\ call[x].pc = "idle" /\ call[x].seen = {} /\ Endpoint(x) = None /\ ~HoldsPages(x)
    BY <1>1 DEF NoCall, Endpoint, HoldsPages
  <2>2. LifecycleHeld(x) /\ StagesFit(x) /\ EndpointAnswered(x) /\ QuitsItsOwn(x) /\ SeesUsed(x)
    BY <2>1 DEF LifecycleHeld, StagesFit, EndpointAnswered, QuitsItsOwn, SeesUsed, LaunchPcs, Quitting,
       Connected
  <2>3. TargetKnown(x) /\ ClientCurrent(x) /\ FreshUnseen(x) /\ SeenHarmless(x)
    BY <2>1 DEF TargetKnown, ClientCurrent, Relies, FreshUnseen, SeenHarmless, Quitting
  <2> QED BY <2>2, <2>3 DEF CallOK
<1> QED BY <1>3, <1>4 DEF PageInv

\* What may happen is settled at the start.
LEMMA CalmStays == [BrowserNext]_browserVars => (Calm' <=> Calm)
<1> SUFFICES ASSUME [BrowserNext]_browserVars PROVE profile' = profile
  BY DEF Calm
<1>1. ASSUME NEW b \in Browsers, Process(b) PROVE profile' = profile
  BY <1>1 DEF Process, TakesProfile, ComesUp, Crashes, HumanQuits, HumanLaunches, MuteQuits,
              ReleasesProfile, Exits, ChromeUnchanged
<1>2. CASE PageStep \/ RecorderStep \/ BrokerRestarts \/ UNCHANGED browserVars
  BY <1>2 DEF PageStep, HumanOpens, Navigates, HumanCloses, Disappears, LeaseEnds, PagesUnchanged,
              RecorderStep, CreateHiddenTarget, MarkPrivate, CloseHiddenTarget, MarkClosing,
              RecorderUnchanged, BrokerRestarts, browserVars
<1>3. ASSUME NEW x \in Calls, QuietRequest(x) \/ QuitRequest(x) \/ LaunchRequest(x)
      PROVE  profile' = profile
  <2>1. CASE QuietRequest(x)
    BY <2>1 DEF QuietRequest, Begin, ReserveLifecycle, OnlyCalls, LockClient, OnlyClient, ClassifyTargets,
                ListTargets, Return, CreateTarget, PageTarget, LeaseCreated, TargetById, ClaimTab,
                MarkTargetClaimed, CloseTarget, InventoryAfterClose, Decide, ChromeWork, AwaitExit,
                QuitUnchanged, ForgetClient, ClearSets, ForgetUnchanged
  <2>2. CASE QuitRequest(x) \/ LaunchRequest(x)
    BY <2>2 DEF QuitRequest, CloseBrowser, Terminate, Kill, QuitUnchanged, LaunchRequest,
                AcquireLaunchLock, HealthyActiveEndpoint, OwnedActiveEndpoint, WaitForRelease,
                LaunchChrome, BootChrome, LaunchUnchanged
  <2> QED BY <1>3, <2>1, <2>2
<1> QED BY <1>1, <1>2, <1>3, Steps

\* What a final close decides on is true of the Chrome it takes down.
LEMMA ClosesSpare == LaunchInv /\ PageInv => FinalCloseSparesPages
<1> SUFFICES ASSUME LaunchInv, PageInv, NEW t \in Targets, page[t].st = "open", told[page[t].on] # None
             PROVE  /\ t \notin leased /\ page[t].origin # "vbl"
                    /\ <<t, "site">> \notin told[page[t].on]
                    /\ page[t].origin = "human" => t \notin Ids(told[page[t].on])
  BY DEF FinalCloseSparesPages
<1>1. page[t].on \in Browsers
  BY DataBefore DEF LaunchInv, PageInv, DataOK, PagesHaveChrome, NoPage, PageRecord, Maybe
<1>2. PICK b \in Browsers : b = page[t].on
  BY <1>1
<1>3. Harmless(told[b]) /\ chrome[b] # "up"
  BY <1>2 DEF PageInv, DataOK, ToldHarmless
<1>4. ~Kept(t)
  BY <1>2, <1>3 DEF PageInv, DataOK, KeptIsUp
<1> QED BY <1>2, <1>3, <1>4 DEF Kept, Harmless, Ids

LEMMA RecordersHidden == LaunchInv /\ PageInv => RecordersStayPrivate
BY DEF PageInv, CallOK, SeenHarmless, TargetKnown, At, RecordersStayPrivate

LEMMA CalmInv ==
    /\ BrowserInit => LaunchInv /\ (Calm => PageInv)
    /\ LaunchInv /\ (Calm => PageInv) /\ [BrowserNext]_browserVars => (LaunchInv /\ (Calm => PageInv))'
<1>1. BrowserInit => LaunchInv /\ (Calm => PageInv)
  BY LaunchInit, PageInit
<1>2. LaunchInv /\ (Calm => PageInv) /\ [BrowserNext]_browserVars => (LaunchInv /\ (Calm => PageInv))'
  BY BrowserStep, PageStepAll, CalmStays
<1> QED BY <1>1, <1>2

\* Where no human quits Chrome and the broker does not restart, the final
\* close takes down no page that matters: whatever requests, recorders,
\* crashes, timeouts and page changes interleave, a Chrome the broker told to
\* exit has no page that is leased or was created by a request, and none that
\* was shown to the decision as a site or as the human's (close_target,
\* managed_targets_are_disposable, broker_claim_tab under page_lifecycle).
THEOREM ClosesArePolite == BrowserSpec => [](Calm => FinalCloseSparesPages)
<1>1. LaunchInv /\ (Calm => PageInv) => (Calm => FinalCloseSparesPages)
  BY ClosesSpare
<1> QED BY CalmInv, <1>1, PTL DEF BrowserSpec

\* There too, no inventory a request has of a Chrome that is up shows a
\* screencast's recorder page, and none is about to be leased
\* (PrivateTargetInventory, and the target_inventory lock a listing and a
\* recorder's creation share).
THEOREM RecordersAreHidden == BrowserSpec => [](Calm => RecordersStayPrivate)
<1>1. LaunchInv /\ (Calm => PageInv) => (Calm => RecordersStayPrivate)
  BY RecordersHidden
<1> QED BY CalmInv, <1>1, PTL DEF BrowserSpec
=============================================================================
