------------------------------ MODULE Manager ------------------------------
(***************************************************************************)
(* The lifecycle of a Manager: Start, Stop and Reload called from any      *)
(* goroutine, the mutex that serializes them, the watch goroutine that     *)
(* Start launches, and the notifications of the source, each of which is   *)
(* one more Reload.                                                        *)
(*                                                                         *)
(* A reload is reduced to the document it fetched (module Reload has its   *)
(* inside), and the source to what WatchableSource asks of it.  Three      *)
(* kinds are told apart: "pull", a source with no Watch; "inline", whose   *)
(* Watch calls onChange itself and so cannot return while onChange runs    *)
(* (PollingSource); and "timers", which calls onChange from another        *)
(* goroutine (the debounce timers of FileSource).                          *)
(*                                                                         *)
(* Documents are the numbers of the writes that produced them.             *)
(***************************************************************************)
EXTENDS Integers

CONSTANTS
    Callers,      \* goroutines of the program that use the Manager
    Timers,       \* the notifications of one watch that can run at a time
    Free,         \* the mutex is not held
    Sources,      \* the kinds of source the Manager may be given
    MaxStarts,    \* bound: Starts that succeed; the load of a later one fails
    MaxWrites     \* bound: changes of the source's document

Watches == 1 .. MaxStarts
Notifiers == Watches \X Timers
Procs == Callers \cup Notifiers

ASSUME ManagerAssumption ==
    /\ Sources \subseteq {"pull", "inline", "timers"}
    /\ MaxStarts \in Nat
    /\ MaxWrites \in Nat
    /\ Free \notin Procs
    /\ Callers \cap Notifiers = {}

VARIABLES
    kind,      \* the kind of Manager.source
    mu,        \* the goroutine that holds Manager.mu, or Free
    started,   \* Manager.started
    frozen,    \* Manager.frozen
    watches,   \* how many watches were started; cancel and done are the last's
    ctx,       \* ctx[w]: the watch context
    watcher,   \* watcher[w]: the goroutine in Watch, which closes done
    armed,     \* armed[w]: a timer of the source that will call onChange
    source,    \* the document Fetch returns
    loaded,    \* the document of the current generation, -1 before the first
    pc,        \* pc[p]: where goroutine p is
    op,        \* op[p]: the method it is in
    fetched,   \* fetched[p]: the document its reload has fetched
    since      \* history: the document the source had when p's call began

vars == <<kind, mu, started, frozen, watches, ctx, watcher, armed, source,
          loaded, pc, op, fetched, since>>

Ops == {"none", "start", "stop", "reload"}
Points == {"idle", "locking", "fetching", "applying", "waiting"}

TypeOK ==
    /\ kind \in Sources
    /\ mu \in Procs \cup {Free}
    /\ started \in BOOLEAN
    /\ frozen \in BOOLEAN
    /\ watches \in 0 .. MaxStarts
    /\ ctx \in [Watches -> {"none", "live", "cancelled"}]
    /\ watcher \in [Watches -> {"none", "running", "returned"}]
    /\ armed \in [Watches -> BOOLEAN]
    /\ source \in 0 .. MaxWrites
    /\ loaded \in -1 .. MaxWrites
    /\ pc \in [Procs -> Points]
    /\ op \in [Procs -> Ops]
    /\ fetched \in [Procs -> -1 .. MaxWrites]
    /\ since \in [Procs -> 0 .. MaxWrites]

Init ==
    /\ kind \in Sources
    /\ mu = Free
    /\ started = FALSE
    /\ frozen = FALSE
    /\ watches = 0
    /\ ctx = [w \in Watches |-> "none"]
    /\ watcher = [w \in Watches |-> "none"]
    /\ armed = [w \in Watches |-> FALSE]
    /\ source = 0
    /\ loaded = -1
    /\ pc = [p \in Procs |-> "idle"]
    /\ op = [p \in Procs |-> "none"]
    /\ fetched = [p \in Procs |-> -1]
    /\ since = [p \in Procs |-> 0]

-----------------------------------------------------------------------------
(* The environment: the program's calls, its context, and the source. *)

Call(c, method) ==
    /\ pc[c] = "idle"
    /\ pc' = [pc EXCEPT ![c] = "locking"]
    /\ op' = [op EXCEPT ![c] = method]
    /\ since' = [since EXCEPT ![c] = source]
    /\ UNCHANGED <<kind, mu, started, frozen, watches, ctx, watcher, armed,
                   source, loaded, fetched>>

\* Somebody edits the configuration.
Write ==
    /\ source < MaxWrites
    /\ source' = source + 1
    /\ UNCHANGED <<kind, mu, started, frozen, watches, ctx, watcher, armed,
                   loaded, pc, op, fetched, since>>

\* The context given to Start, from which the watch context derives, is done.
ParentDone(w) ==
    /\ ctx[w] = "live"
    /\ ctx' = [ctx EXCEPT ![w] = "cancelled"]
    /\ UNCHANGED <<kind, mu, started, frozen, watches, watcher, armed, source,
                   loaded, pc, op, fetched, since>>

-----------------------------------------------------------------------------
(* The methods, from mu.Lock to the deferred mu.Unlock. *)

\* Variant: the methods do not take the mutex.
LockingUnlocked(p, method) == pc[p] = "locking" /\ op[p] = method

Locking(p, method) == pc[p] = "locking" /\ op[p] = method /\ mu = Free

Leave(p) ==
    /\ pc' = [pc EXCEPT ![p] = "idle"]
    /\ op' = [op EXCEPT ![p] = "none"]
    /\ fetched' = [fetched EXCEPT ![p] = -1]
    /\ since' = [since EXCEPT ![p] = 0]

\* Start on a started manager, Stop on one that is not: the error is returned.
Refused(p) ==
    /\ \/ Locking(p, "start") /\ started
       \/ Locking(p, "stop") /\ ~started
    /\ Leave(p)
    /\ UNCHANGED <<kind, mu, started, frozen, watches, ctx, watcher, armed,
                   source, loaded>>

\* Variant: started is set before the initial load.
StartLockedEarly(p) ==
    /\ Locking(p, "start")
    /\ ~started
    /\ mu' = p
    /\ frozen' = TRUE
    /\ started' = TRUE
    /\ pc' = [pc EXCEPT ![p] = "fetching"]
    /\ UNCHANGED <<kind, watches, ctx, watcher, armed, source, loaded, op,
                   fetched, since>>

\* Start freezes the DAG whether or not its initial load succeeds.
StartLocked(p) ==
    /\ Locking(p, "start")
    /\ ~started
    /\ mu' = p
    /\ frozen' = TRUE
    /\ pc' = [pc EXCEPT ![p] = "fetching"]
    /\ UNCHANGED <<kind, started, watches, ctx, watcher, armed, source, loaded,
                   op, fetched, since>>

ReloadLocked(p) ==
    /\ Locking(p, "reload")
    /\ mu' = p
    /\ pc' = [pc EXCEPT ![p] = "fetching"]
    /\ UNCHANGED <<kind, started, frozen, watches, ctx, watcher, armed, source,
                   loaded, op, fetched, since>>

\* Variant: the source names the content it expects next.
FetchAhead(p) ==
    /\ pc[p] = "fetching"
    /\ fetched' = [fetched EXCEPT ![p] = source + 1]
    /\ pc' = [pc EXCEPT ![p] = "applying"]
    /\ UNCHANGED <<kind, mu, started, frozen, watches, ctx, watcher, armed,
                   source, loaded, op, since>>

\* Variant: once a generation is loaded, its document is fetched from a cache.
FetchCached(p) ==
    /\ pc[p] = "fetching"
    /\ fetched' = [fetched EXCEPT ![p] = IF loaded >= 0 THEN loaded ELSE source]
    /\ pc' = [pc EXCEPT ![p] = "applying"]
    /\ UNCHANGED <<kind, mu, started, frozen, watches, ctx, watcher, armed,
                   source, loaded, op, since>>

Fetch(p) ==
    /\ pc[p] = "fetching"
    /\ fetched' = [fetched EXCEPT ![p] = source]
    /\ pc' = [pc EXCEPT ![p] = "applying"]
    /\ UNCHANGED <<kind, mu, started, frozen, watches, ctx, watcher, armed,
                   source, loaded, op, since>>

\* Any step of the reload fails: the old generation is preserved.
ReloadFails(p) ==
    /\ pc[p] \in {"fetching", "applying"}
    /\ mu' = Free
    /\ Leave(p)
    /\ UNCHANGED <<kind, started, frozen, watches, ctx, watcher, armed, source,
                   loaded>>

ReloadApplied(p) ==
    /\ pc[p] = "applying"
    /\ op[p] = "reload"
    /\ loaded' = fetched[p]
    /\ mu' = Free
    /\ Leave(p)
    /\ UNCHANGED <<kind, started, frozen, watches, ctx, watcher, armed,
                   source>>

\* Variant: without a watch nobody closes done.
StartAppliedOpenDone(p) ==
    /\ pc[p] = "applying"
    /\ op[p] = "start"
    /\ watches < MaxStarts
    /\ loaded' = fetched[p]
    /\ started' = TRUE
    /\ watches' = watches + 1
    /\ IF kind # "pull"
       THEN /\ ctx' = [ctx EXCEPT ![watches + 1] = "live"]
            /\ watcher' = [watcher EXCEPT ![watches + 1] = "running"]
       ELSE UNCHANGED <<ctx, watcher>>
    /\ mu' = Free
    /\ Leave(p)
    /\ UNCHANGED <<kind, frozen, armed, source>>

\* The initial load is in; a new watch begins, or done is closed at once.
StartApplied(p) ==
    /\ pc[p] = "applying"
    /\ op[p] = "start"
    /\ watches < MaxStarts
    /\ loaded' = fetched[p]
    /\ started' = TRUE
    /\ watches' = watches + 1
    /\ IF kind # "pull"
       THEN /\ ctx' = [ctx EXCEPT ![watches + 1] = "live"]
            /\ watcher' = [watcher EXCEPT ![watches + 1] = "running"]
       ELSE /\ watcher' = [watcher EXCEPT ![watches + 1] = "returned"]
            /\ UNCHANGED ctx
    /\ mu' = Free
    /\ Leave(p)
    /\ UNCHANGED <<kind, frozen, armed, source>>

\* Stop cancels the watch and, still holding the mutex, waits for done.
StopLocked(p) ==
    /\ Locking(p, "stop")
    /\ started
    /\ mu' = p
    /\ pc' = [pc EXCEPT ![p] = "waiting"]
    /\ ctx' = [ctx EXCEPT ![watches] = IF kind # "pull" THEN "cancelled" ELSE @]
    /\ UNCHANGED <<kind, started, frozen, watches, watcher, armed, source,
                   loaded, op, fetched, since>>

\* Variant: Stop does not wait for done.
StopDoneNoWait(p) ==
    /\ pc[p] = "waiting"
    /\ started' = FALSE
    /\ mu' = Free
    /\ Leave(p)
    /\ UNCHANGED <<kind, frozen, watches, ctx, watcher, armed, source, loaded>>

StopDone(p) ==
    /\ pc[p] = "waiting"
    /\ watcher[watches] = "returned"
    /\ started' = FALSE
    /\ mu' = Free
    /\ Leave(p)
    /\ UNCHANGED <<kind, frozen, watches, ctx, watcher, armed, source, loaded>>

-----------------------------------------------------------------------------
(* The watch goroutine and the source's notifications. *)

IdleNotifiers(w) == \A t \in Timers : pc[<<w, t>>] = "idle"

\* onChange is called: one more Reload, with the watch context.
Notify(w, t) ==
    /\ pc[<<w, t>>] = "idle"
    /\ pc' = [pc EXCEPT ![<<w, t>>] = "locking"]
    /\ op' = [op EXCEPT ![<<w, t>>] = "reload"]
    /\ since' = [since EXCEPT ![<<w, t>>] = source]

\* Watch calls onChange itself.  A select whose ticker and ctx.Done are both
\* ready may pick the ticker, so the context is not a guard.
NotifyInWatch(w, t) ==
    /\ kind = "inline"
    /\ watcher[w] = "running"
    /\ IdleNotifiers(w)
    /\ Notify(w, t)
    /\ UNCHANGED <<kind, mu, started, frozen, watches, ctx, watcher, armed,
                   source, loaded, fetched>>

\* Watch schedules onChange on a timer, replacing a pending one.
Arm(w) ==
    /\ kind = "timers"
    /\ watcher[w] = "running"
    /\ armed' = [armed EXCEPT ![w] = TRUE]
    /\ UNCHANGED <<kind, mu, started, frozen, watches, ctx, watcher, source,
                   loaded, pc, op, fetched, since>>

\* The timer fires, whatever became of the watch that armed it.
Fire(w, t) ==
    /\ armed[w]
    /\ armed' = [armed EXCEPT ![w] = FALSE]
    /\ Notify(w, t)
    /\ UNCHANGED <<kind, mu, started, frozen, watches, ctx, watcher, source,
                   loaded, fetched>>

\* Watch returns: on ctx.Done, or because the source cannot watch any more.
WatchReturns(w) ==
    /\ watcher[w] = "running"
    /\ kind = "inline" => IdleNotifiers(w)
    /\ watcher' = [watcher EXCEPT ![w] = "returned"]
    /\ UNCHANGED <<kind, mu, started, frozen, watches, ctx, armed, source,
                   loaded, pc, op, fetched, since>>

-----------------------------------------------------------------------------
Acquire(p) ==
    Refused(p) \/ StartLocked(p) \/ ReloadLocked(p) \/ StopLocked(p)

Proceed(p) ==
    \/ Fetch(p)
    \/ ReloadFails(p)
    \/ ReloadApplied(p)
    \/ StartApplied(p)
    \/ StopDone(p)

Next ==
    \/ \E c \in Callers, method \in Ops \ {"none"} : Call(c, method)
    \/ Write
    \/ \E p \in Procs : Acquire(p) \/ Proceed(p)
    \/ \E w \in Watches :
          \/ ParentDone(w)
          \/ Arm(w)
          \/ WatchReturns(w)
          \/ \E t \in Timers : NotifyInWatch(w, t) \/ Fire(w, t)

Spec == Init /\ [][Next]_vars

(***************************************************************************)
(* A goroutine that can run does; sync.Mutex hands the lock to a waiter    *)
(* that has starved, which is strong fairness of acquiring it; and a Watch *)
(* returns once its context is done, as WatchableSource requires.          *)
(***************************************************************************)
Fairness ==
    /\ \A p \in Procs : SF_vars(Acquire(p)) /\ WF_vars(Proceed(p))
    /\ \A w \in Watches : WF_vars(ctx[w] = "cancelled" /\ WatchReturns(w))

FairSpec == Spec /\ Fairness

-----------------------------------------------------------------------------
(* Properties. *)

\* A watch runs only while its Start is in force: there is never a second
\* watcher, and none is left behind by a Stop (manager.go:133-137).
WatcherOwned ==
    \A w \in Watches : watcher[w] = "running" => started /\ w = watches

\* A started manager has a generation, and its DAG is frozen, although Start
\* fails half way and Stop and Reload interleave with it (manager.go:86-97).
StartedIsLoaded == started => frozen /\ loaded >= 0

\* Generations follow the source: a reload that fetched an older document never
\* replaces a newer one, whoever runs it ("serializes reloads", manager.go:19).
NeverRegresses == [][loaded' >= loaded]_vars

\* When a Reload or Start succeeds, the generation has a document at least as
\* recent as the source's when the call was made: it fetches after it is called
\* and after it has the lock (manager.go:141-148).
FreshOnReturn ==
    [][\A p \in Procs :
          ReloadApplied(p) \/ StartApplied(p) => loaded' >= since[p]]_vars

\* Once Stop has returned, the source's notifications no longer change the
\* generation ("Stop stops watching for config changes", manager.go:125).
QuietAfterStop ==
    [][loaded' # loaded /\ mu \in Notifiers => started]_vars

\* The same, of every source but one whose notifications outlive its Watch.
QuietUnlessTimers ==
    [][kind # "timers" /\ loaded' # loaded /\ mu \in Notifiers => started]_vars

\* Who holds the mutex can go on until it lets go of it: a Stop waits for a
\* watch that has returned or that is told to, and that nothing but an inline
\* source's own reload, which waits for the mutex, keeps from returning
\* (manager.go:133-136).
HolderProceeds ==
    mu # Free =>
        \/ pc[mu] \in {"fetching", "applying"}
        \/ pc[mu] = "waiting" /\ watcher[watches] = "returned"
        \/ /\ pc[mu] = "waiting"
           /\ watcher[watches] = "running"
           /\ ctx[watches] = "cancelled"
           /\ \A t \in Timers :
                 pc[<<watches, t>>] \in {"idle", "locking"}

\* The methods are linearizable: the mutex, the fetch and the waiting inside
\* them cannot be told from methods that take effect in one step each, on a
\* manager without any of these (module AtomicManager).
Atomic == INSTANCE AtomicManager
          WITH late <- kind = "timers",
               watching <- \E w \in Watches : watcher[w] = "running"

ImplementsAtomicManager == Atomic!Spec

\* Every call of Start, Stop and Reload returns, unless the source's Watch runs
\* the very reload that waits for the mutex Stop holds.
CallsReturn ==
    \A c \in Callers :
        (kind # "inline" /\ pc[c] # "idle") ~> pc[c] = "idle"

\* Stop cancels the watch and returns (edge_test.go:1112).
StopReturns == \A c \in Callers : pc[c] = "waiting" ~> pc[c] = "idle"

-----------------------------------------------------------------------------
(***************************************************************************)
(* The inductive invariant of the proofs (module ManagerProofs).           *)
(***************************************************************************)

\* Whoever is between Lock and Unlock is the holder of the mutex.
Locked ==
    \A p \in Procs : pc[p] \in {"fetching", "applying", "waiting"} => mu = p

\* What each method knows while it is inside.
Methods ==
    /\ \A n \in Notifiers : op[n] \in {"none", "reload"}
    /\ \A p \in Procs :
          /\ pc[p] = "waiting" => op[p] = "stop" /\ started
          /\ pc[p] \in {"fetching", "applying"} => op[p] \in {"start", "reload"}
          /\ pc[p] \in {"fetching", "applying"} /\ op[p] = "start" =>
                 ~started /\ frozen

\* done belongs to the last watch, and a notification of a source that calls
\* onChange from its Watch keeps that Watch from returning.
Watching ==
    /\ started => watches >= 1
    /\ \A w \in Watches : watcher[w] = "running" => started /\ w = watches
    /\ kind = "pull" => \A w \in Watches : watcher[w] # "running"
    /\ kind # "timers" =>
          \A w \in Watches :
             /\ ~armed[w]
             /\ \A t \in Timers :
                   pc[<<w, t>>] # "idle" => watcher[w] = "running"

\* Documents are only ever replaced by later ones.
Ordered ==
    /\ loaded <= source
    /\ started => frozen /\ loaded >= 0
    /\ \A p \in Procs :
          /\ since[p] <= source
          /\ pc[p] = "applying" => /\ loaded <= fetched[p]
                                   /\ since[p] <= fetched[p]
                                   /\ 0 <= fetched[p]
                                   /\ fetched[p] <= source

\* A goroutine is in a method exactly while it is not idle; the mutex is held
\* only from inside; and done is closed, or is to be by a watcher that runs.
Held ==
    /\ \A p \in Procs : /\ pc[p] = "idle" <=> op[p] = "none"
                        /\ pc[p] = "idle" => since[p] = 0
    /\ mu # Free => pc[mu] \in {"fetching", "applying", "waiting"}
    /\ started => watcher[watches] # "none"
    /\ \A p \in Procs :
          pc[p] = "waiting" /\ watcher[watches] = "running" =>
              ctx[watches] = "cancelled"

IInv == TypeOK /\ Locked /\ Methods /\ Watching /\ Ordered /\ Held
=============================================================================
