---------------------------- MODULE PageSessions ----------------------------
(***************************************************************************)
(* The CDP client's runtime (src/src/cdp.rs): one connection shared by all *)
(* pages and replaced after a failure, the contexts reported stale and the *)
(* lock per target under which they are refreshed, and the operations that *)
(* work on them: evaluate, and navigating by URL, through the history and  *)
(* by reload, with the beforeunload handlers that an accepting navigation  *)
(* takes off the page and puts back.                                       *)
(*                                                                         *)
(* A step is a command to Chrome or a lock section.  Targets stay open.  A *)
(* page's main-world context is its document; every document has a         *)
(* beforeunload handler of its own.  Chromiumoxide and Chrome are          *)
(* external: a command fails when its connection is gone, or refused or    *)
(* unanswered on one that lives, and may have taken effect by then.        *)
(***************************************************************************)
EXTENDS Naturals

CONSTANTS
    Targets,
    Calls,           \* operations running at the same time
    None,
    MaxDocument,     \* bound: navigations of a target
    MaxGeneration,   \* bound: connections made
    MaxRevision,     \* bound: reports of a stale context
    Profiles         \* bound: what may happen together in one behaviour

Methods  == {"evaluate", "url", "history", "reload"}
Policies == {"accept", "dismiss", "none"}
Events   == {"moves", "drops", "fails", "timeout"}

ASSUME SessionProfilesAssumption ==
    /\ MaxDocument \in Nat /\ MaxGeneration \in Nat /\ MaxRevision \in Nat
    /\ Profiles \subseteq [methods : SUBSET Methods, policies : SUBSET Policies,
                            events : SUBSET Events, documents : 0..MaxDocument,
                            calls : SUBSET Calls]

VARIABLES
    profile,         \* chosen at the start
    page,            \* Chrome: document, its beforeunload handlers, the stash
    generation,      \* RuntimeState.generation
    connection,      \* RuntimeState.connection: the current generation, or 0
    live,            \* is the current connection's handler still running
    stale,           \* stale_page_contexts: the revision reported, or 0
    revision,        \* stale_page_context_revision
    action_lock,     \* holders of target_action_locks
    refreshed,       \* history: contexts refreshed since the last report
    spoiled,         \* history: targets whose handlers may not come back
    call             \* the operations

runtimeVars == <<generation, connection, live>>
contextVars == <<stale, revision, action_lock, refreshed>>
sessionVars == <<profile, page, runtimeVars, contextVars, spoiled, call>>

NoCall == [pc |-> "idle", method |-> "evaluate", policy |-> "none", target |-> None, generation |-> 0,
           next |-> "act", seen |-> 0, revision |-> 0, clean |-> FALSE, failed |-> FALSE,
           retried |-> FALSE, pending |-> FALSE]

At(x, pc) == call[x].pc = pc
Target(x) == call[x].target

PageState == [document : 0..MaxDocument, guarded : BOOLEAN, stash : {"none", "handlers", "nothing"}]
Pcs == {"idle", "connect", "attach", "lock", "check", "refresh", "context", "clear", "act", "run",
        "unguard", "navigate", "poll", "recover", "restore"}
Nexts == {"act", "run", "poll", "recover", "restore"}
\* A call, of the generations and revisions there have been.
CallState(generations, revisions) ==
    [pc : Pcs, method : Methods, policy : Policies, target : Targets \cup {None},
     generation : 0..generations, next : Nexts, seen : 0..MaxDocument, revision : 0..revisions,
     clean : BOOLEAN, failed : BOOLEAN, retried : BOOLEAN, pending : BOOLEAN]

SessionTypeOK ==
    /\ profile \in Profiles
    /\ page \in [Targets -> PageState]
    /\ generation \in 0..MaxGeneration
    /\ connection \in {0, generation} /\ live \in BOOLEAN
    /\ stale \in [Targets -> 0..revision] /\ revision \in 0..MaxRevision
    /\ action_lock \in [Targets -> Calls \cup {None}]
    /\ refreshed \in [Targets -> BOOLEAN]
    /\ spoiled \subseteq Targets
    /\ call \in [Calls -> CallState(generation, revision)]
    /\ \A x \in Calls : ~At(x, "idle") => Target(x) \in Targets

SessionInit ==
    /\ profile \in Profiles
    /\ page = [t \in Targets |-> [document |-> 0, guarded |-> TRUE, stash |-> "none"]]
    /\ generation = 0 /\ connection = 0 /\ live = FALSE
    /\ stale = [t \in Targets |-> 0] /\ revision = 0
    /\ action_lock = [t \in Targets |-> None]
    /\ refreshed = [t \in Targets |-> TRUE]
    /\ spoiled = {}
    /\ call = [x \in Calls |-> NoCall]

(***************************************************************************)
(* Helpers.                                                                *)
(***************************************************************************)
Goto(x, pc) == call' = [call EXCEPT ![x].pc = pc]
End(x)      == call' = [call EXCEPT ![x] = NoCall]
May(e)      == e \in profile.events

\* The operation's connection still works.
Connected(x) == connection = call[x].generation /\ live

\* self.page(target) once more, and what follows it.
Reattach(x, next) ==
    call' = [call EXCEPT ![x].pc = "connect", ![x].next = next]

FinishOnSuccess(x, failed) ==
    IF call[x].policy = "accept" /\ ~failed
    THEN call' = [call EXCEPT ![x].pc = "connect", ![x].next = "restore", ![x].failed = failed]
    ELSE End(x)
\* A navigation ends, well or with an error: one that accepts restores the
\* page's handlers on a fresh attachment, another is over.
Finish(x, failed) ==
    IF call[x].policy = "accept"
    THEN call' = [call EXCEPT ![x].pc = "connect", ![x].next = "restore", ![x].failed = failed]
    ELSE End(x)

\* An error of restore_beforeunload_handlers: tried again for a while (bound:
\* once), except for one that ran into its timeout.
RestoreFails(x) ==
    \/ /\ ~call[x].retried /\ UNCHANGED spoiled
       /\ call' = [call EXCEPT ![x].pc = "connect", ![x].next = "restore", ![x].retried = TRUE]
    \/ End(x) /\ spoiled' = spoiled \cup {Target(x)}

\* An error in self.page, for what it was wanted.
PageFails(x) ==
    CASE call[x].next \in {"act", "run"}     -> End(x) /\ UNCHANGED spoiled
      [] call[x].next \in {"poll", "recover"} -> Finish(x, TRUE) /\ UNCHANGED spoiled
      [] OTHER                             -> RestoreFails(x)

\* invalidate: only the connection that failed.
Invalidate(g) ==
    /\ connection' = IF connection = g THEN 0 ELSE connection
    /\ UNCHANGED <<generation, live>>

NewDocument(t) ==
    /\ page[t].document < profile.documents
    /\ page' = [page EXCEPT ![t] = [document |-> @.document + 1, guarded |-> TRUE, stash |-> "none"]]
    /\ spoiled' = spoiled \ {t}

\* mark_stale_page_context
MarkStale(t) ==
    /\ revision < MaxRevision
    /\ revision' = revision + 1
    /\ stale' = [stale EXCEPT ![t] = revision + 1]
    /\ refreshed' = [refreshed EXCEPT ![t] = FALSE]
\* A refresh another call has under way may have missed that context.
Reported(t, calls) ==
    [y \in Calls |-> IF calls[y].target = t THEN [calls[y] EXCEPT !.clean = FALSE] ELSE calls[y]]

UnlockAfterRun(x) ==
    action_lock' = IF At(x, "run") THEN [action_lock EXCEPT ![Target(x)] = None] ELSE action_lock
Unlock(x) == action_lock' = [action_lock EXCEPT ![Target(x)] = None]
KeepRuntime == UNCHANGED <<profile, page, runtimeVars>>
KeepContexts == UNCHANGED <<stale, revision, refreshed>>

(***************************************************************************)
(* Chrome moves a page or closes the connection by itself.                 *)
(***************************************************************************)
Moves(t) ==
    /\ May("moves") /\ NewDocument(t)
    /\ UNCHANGED <<profile, runtimeVars, contextVars, call>>

HistoryCommits(x) ==
    /\ call[x].pending
    /\ NewDocument(Target(x))
    /\ call' = [call EXCEPT ![x].pending = FALSE]
    /\ UNCHANGED <<profile, runtimeVars, contextVars>>

ConnectionDrops ==
    /\ May("drops") /\ live
    /\ live' = FALSE
    /\ UNCHANGED <<profile, page, generation, connection, contextVars, spoiled, call>>

(***************************************************************************)
(* self.page: the current connection or a new one, the target's session on *)
(* it, and no stale context left.                                          *)
(***************************************************************************)
Begin(x, m, p, t) ==
    /\ At(x, "idle") /\ x \in profile.calls /\ m \in profile.methods
    /\ p \in IF m = "evaluate" THEN {"none"} ELSE profile.policies
    /\ call' = [call EXCEPT ![x] = [NoCall EXCEPT !.pc = "connect", !.method = m, !.policy = p,
                                                   !.target = t]]
    /\ UNCHANGED <<profile, page, runtimeVars, contextVars, spoiled>>

\* CdpRuntime::connection; connecting fails, and so it does at the bound.
Connect(x) ==
    /\ At(x, "connect")
    /\ \/ /\ connection # 0 /\ live
          /\ call' = [call EXCEPT ![x].pc = "attach", ![x].generation = connection]
          /\ UNCHANGED <<runtimeVars, spoiled>>
       \/ /\ connection = 0 \/ ~live
          /\ \/ /\ generation < MaxGeneration
                /\ generation' = generation + 1 /\ connection' = generation + 1 /\ live' = TRUE
                /\ call' = [call EXCEPT ![x].pc = "attach", ![x].generation = generation + 1]
                /\ UNCHANGED spoiled
             \/ /\ generation = MaxGeneration \/ May("drops")
                /\ connection' = 0 /\ UNCHANGED <<generation, live>>
                /\ PageFails(x)
    /\ UNCHANGED <<profile, page, contextVars>>

\* A command fails on a connection that is gone, which page_error invalidates,
\* or Chrome refuses it, or its answer is overdue.
LosesConnection(x) == ~Connected(x) /\ Invalidate(call[x].generation)
CommandFails(x) == \/ LosesConnection(x)
                   \/ Connected(x) /\ May("fails") /\ UNCHANGED runtimeVars

Attach(x) ==
    /\ At(x, "attach")
    /\ \/ Connected(x) /\ Goto(x, "lock") /\ UNCHANGED <<runtimeVars, spoiled>>
       \/ CommandFails(x) /\ PageFails(x)
    /\ UNCHANGED <<profile, page, contextVars>>

ActionLockFree(t) == action_lock[t] = None
TakeActionLock(x) ==
    /\ At(x, "lock") /\ ActionLockFree(Target(x))
    /\ action_lock' = [action_lock EXCEPT ![Target(x)] = x]
    /\ Goto(x, IF call[x].next = "run" THEN "refresh" ELSE "check")
    /\ KeepRuntime /\ KeepContexts /\ UNCHANGED spoiled

\* wait_for_fresh_page_context
CheckContext(x) ==
    /\ At(x, "check")
    /\ IF stale[Target(x)] = 0
         THEN /\ call' = [call EXCEPT ![x].pc = call[x].next, ![x].seen = page[Target(x)].document]
              /\ Unlock(x)
         ELSE /\ call' = [call EXCEPT ![x].pc = "refresh", ![x].revision = stale[Target(x)]]
              /\ UNCHANGED action_lock
    /\ KeepRuntime /\ KeepContexts /\ UNCHANGED spoiled

\* refresh_main_world_context: disable and enable Runtime, then the event.
DisableRuntime(x) ==
    /\ At(x, "refresh")
    /\ \/ /\ Connected(x)
          /\ call' = [call EXCEPT ![x].pc = "context", ![x].clean = TRUE]
          /\ UNCHANGED <<runtimeVars, action_lock, spoiled>>
       \/ CommandFails(x) /\ PageFails(x) /\ Unlock(x)
    /\ KeepContexts /\ UNCHANGED <<profile, page>>

ContextCreated(x) ==
    /\ At(x, "context")
    /\ \/ /\ Connected(x)
          /\ call' = [call EXCEPT ![x].pc = IF call[x].next = "run" THEN "run" ELSE "clear",
                                  ![x].seen = page[Target(x)].document]
          /\ refreshed' = [refreshed EXCEPT ![Target(x)] = @ \/ call[x].clean]
          /\ UNCHANGED <<runtimeVars, action_lock, spoiled>>
       \/ CommandFails(x) /\ PageFails(x) /\ Unlock(x) /\ UNCHANGED refreshed
    /\ UNCHANGED <<profile, page, stale, revision>>

UnchangedSinceAlways(x) == TRUE
UnchangedSince(x) == stale[Target(x)] = call[x].revision

\* clear_stale_page_context_if_unchanged
ClearStale(x) ==
    /\ At(x, "clear")
    /\ IF UnchangedSince(x)
         THEN /\ stale' = [stale EXCEPT ![Target(x)] = 0]
              /\ Goto(x, call[x].next) /\ Unlock(x)
         ELSE Goto(x, "check") /\ UNCHANGED <<stale, action_lock>>
    /\ KeepRuntime /\ UNCHANGED <<revision, refreshed, spoiled>>

(***************************************************************************)
(* evaluate: in the context observed under the action lock, or not at all. *)
(***************************************************************************)
Act(x) ==
    /\ At(x, "act")
    /\ \/ /\ call[x].method = "evaluate"
          /\ call' = [call EXCEPT ![x].pc = "lock", ![x].next = "run"]
       \/ /\ call[x].method # "evaluate"
          /\ Goto(x, IF call[x].policy = "accept" THEN "unguard" ELSE "navigate")
    /\ KeepRuntime /\ UNCHANGED <<contextVars, spoiled>>

Run(x) ==
    /\ At(x, "run")
    /\ Unlock(x)
    /\ \/ /\ Connected(x) /\ call[x].seen = page[Target(x)].document
          /\ End(x) /\ KeepContexts /\ UNCHANGED runtimeVars
       \/ /\ Connected(x) /\ call[x].seen # page[Target(x)].document
          /\ MarkStale(Target(x))
          /\ call' = Reported(Target(x), [call EXCEPT ![x] = NoCall])
          /\ UNCHANGED runtimeVars
       \/ CommandFails(x) /\ End(x) /\ KeepContexts
    /\ UNCHANGED <<profile, page, spoiled>>

(***************************************************************************)
(* Navigation.  clear_beforeunload_handlers stashes the handlers on the    *)
(* page, over whatever stash is there, and takes them off.  When it fails  *)
(* the navigation is over, and nothing puts back what it may have removed. *)
(***************************************************************************)
Accepting(t) == {x \in Calls : call[x].target = t /\ call[x].policy = "accept"}

Unguarded(p) == [p EXCEPT !.guarded = FALSE, !.stash = IF p.guarded THEN "handlers" ELSE "nothing"]

ClearHandlers(x) ==
    LET t == Target(x)
    IN /\ At(x, "unguard")
       /\ \/ /\ Connected(x)
             /\ page' = [page EXCEPT ![t] = Unguarded(@)]
             /\ spoiled' = IF Accepting(t) = {x} THEN spoiled ELSE spoiled \cup {t}
             /\ Goto(x, "navigate") /\ UNCHANGED runtimeVars
          \/ /\ CommandFails(x) /\ End(x)
             /\ \/ UNCHANGED <<page, spoiled>>
                \/ /\ page' = [page EXCEPT ![t] = Unguarded(@)]
                   /\ spoiled' = spoiled \cup {t}
       /\ UNCHANGED <<profile, contextVars>>

\* The beforeunload dialog, which this policy does not accept.
Blocked(x) == page[Target(x)].guarded /\ call[x].policy # "accept"

\* A navigation that fails may have committed.
CommitsOrNot(x) ==
    \/ ~Blocked(x) /\ NewDocument(Target(x))
    \/ UNCHANGED <<page, spoiled>>

\* The command has succeeded: a history move is awaited, a URL navigation
\* restores on the page it has.
Navigated(x, pending) ==
    CASE call[x].method = "history" ->
           call' = [call EXCEPT ![x].pc = "connect", ![x].next = "poll", ![x].pending = pending]
      [] call[x].method = "url" /\ call[x].policy = "accept" -> Goto(x, "restore")
      [] OTHER -> Finish(x, FALSE)

Commits(x) ==
    /\ At(x, "navigate") /\ Connected(x) /\ ~Blocked(x)
    /\ NewDocument(Target(x))
    /\ Navigated(x, FALSE)
    /\ UNCHANGED <<profile, runtimeVars, contextVars>>

\* A fragment or a history move within the document, or a history move that
\* is still to commit.
StaysInDocument(x) ==
    /\ At(x, "navigate") /\ Connected(x) /\ ~Blocked(x)
    /\ \E pending \in {FALSE, call[x].method = "history"} : Navigated(x, pending)
    /\ UNCHANGED <<profile, page, runtimeVars, contextVars, spoiled>>

\* A reload whose event is lost in time, and an accepting URL navigation that
\* ran into a timeout, are looked at again on a fresh attachment.
Recovers(x) == call[x].method = "reload" \/ (call[x].method = "url" /\ call[x].policy = "accept")

Rejected(x) ==
    /\ At(x, "navigate") /\ Connected(x)
    /\ CommitsOrNot(x)
    /\ Finish(x, TRUE) \/ (Recovers(x) /\ Reattach(x, "recover"))
    /\ UNCHANGED <<profile, runtimeVars, contextVars>>

\* with_navigation_dialog_policy: the dismissed dialog cancels the navigation.
Dismissed(x) ==
    /\ At(x, "navigate") /\ Connected(x)
    /\ Blocked(x) /\ call[x].policy = "dismiss"
    /\ Invalidate(call[x].generation)
    /\ End(x)
    /\ UNCHANGED <<profile, page, contextVars, spoiled>>

\* with_navigation_timeout: the watchdog, with the navigation committed or
\* not; an accepting URL navigation may recover.
TimesOut(x) ==
    /\ At(x, "navigate") /\ Connected(x) /\ (May("timeout") \/ Blocked(x))
    /\ CommitsOrNot(x)
    /\ Invalidate(call[x].generation)
    /\ IF call[x].method = "url" /\ call[x].policy = "accept"
         THEN Reattach(x, "recover")
         ELSE Finish(x, TRUE)
    /\ UNCHANGED <<profile, contextVars>>

NavigationLost(x) ==
    /\ At(x, "navigate")
    /\ LosesConnection(x) /\ CommitsOrNot(x)
    /\ Finish(x, TRUE)
    /\ UNCHANGED <<profile, contextVars>>

\* wait_for_history_entry, one look: ready, past its deadline, or an error it
\* looks again after.
Poll(x) ==
    LET t == Target(x)
        again == [call EXCEPT ![x].pc = "connect"]
    IN /\ At(x, "poll")
       /\ \/ /\ Connected(x)
             /\ \E failed \in BOOLEAN : Finish(x, failed)
             /\ UNCHANGED <<runtimeVars, contextVars>>
          \/ /\ Connected(x) /\ call[x].seen # page[t].document
             /\ MarkStale(t)
             /\ call' = Reported(t, again)
             /\ UNCHANGED <<runtimeVars, action_lock>>
          \/ /\ LosesConnection(x)
             /\ call' = again \/ Finish(x, TRUE)
             /\ UNCHANGED contextVars
       /\ UNCHANGED <<profile, page, spoiled>>

\* recover_completed_navigation and recover_completed_reload: the verdict on
\* a fresh attachment.
Recover(x) ==
    /\ At(x, "recover")
    /\ \/ Connected(x) /\ UNCHANGED runtimeVars /\ \E failed \in BOOLEAN : Finish(x, failed)
       \/ LosesConnection(x) /\ Finish(x, TRUE)
    /\ UNCHANGED <<profile, page, contextVars, spoiled>>

Restored(p) == [p EXCEPT !.guarded = @ \/ p.stash = "handlers", !.stash = "none"]

\* restore_beforeunload_handlers_on_page, which is tried again only on the
\* fresh attachment of restore_beforeunload_handlers.
RestoreHandlers(x) ==
    LET t == Target(x)
    IN /\ At(x, "restore")
       /\ \/ /\ Connected(x)
             /\ page' = [page EXCEPT ![t] = Restored(@)]
             /\ End(x) /\ UNCHANGED <<runtimeVars, spoiled>>
          \/ /\ CommandFails(x)
             /\ IF call[x].next = "restore" THEN RestoreFails(x)
                                            ELSE End(x) /\ spoiled' = spoiled \cup {t}
             /\ page' \in {page, [page EXCEPT ![t] = Restored(@)]}
       /\ UNCHANGED <<profile, contextVars>>

Step(x) ==
    \/ Connect(x) \/ Attach(x) \/ CheckContext(x) \/ DisableRuntime(x) \/ ContextCreated(x)
    \/ ClearStale(x) \/ Act(x) \/ Run(x) \/ ClearHandlers(x) \/ Commits(x) \/ StaysInDocument(x)
    \/ Rejected(x) \/ Dismissed(x) \/ TimesOut(x) \/ NavigationLost(x) \/ Poll(x) \/ Recover(x)
    \/ RestoreHandlers(x)

SessionNext ==
    \/ \E t \in Targets : Moves(t)
    \/ ConnectionDrops
    \/ \E x \in Calls :
         \/ HistoryCommits(x) \/ TakeActionLock(x) \/ Step(x)
         \/ \E m \in Methods, p \in Policies, t \in Targets : Begin(x, m, p, t)

\* An operation's steps are taken, and the action lock is fair.
SessionFairness == \A x \in Calls : WF_sessionVars(Step(x)) /\ SF_sessionVars(TakeActionLock(x))

SessionSpec == SessionInit /\ [][SessionNext]_sessionVars /\ SessionFairness

(***************************************************************************)
(* Properties.                                                             *)
(***************************************************************************)
\* Once no accepting navigation works on a page, its document's beforeunload
\* handlers are back, however the navigation itself ended -- unless, on that
\* document, two accepting navigations overlapped, the command that takes them
\* off failed although it had taken effect (the code then restores nothing), or
\* restoring them failed.  (Comment of finish_beforeunload_navigation: "must
\* restore the guard that explicit acceptance temporarily removed.")
LoneHandlersComeBack ==
    \A t \in Targets : (Accepting(t) = {} /\ t \notin spoiled) => page[t].guarded

\* A target with no report of a stale context has had its context refreshed,
\* from start to end, since the last report: the next page operation does not
\* proceed in a context Chrome has discarded.
ReportsLastUntilRefreshed == \A t \in Targets : stale[t] = 0 => refreshed[t]

\* Every operation ends, whatever the others do to its connection and to the
\* target it waits for.
OperationsEnd == \A x \in Calls : ~At(x, "idle") ~> At(x, "idle")
=============================================================================
