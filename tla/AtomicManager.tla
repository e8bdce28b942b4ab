--------------------------- MODULE AtomicManager ---------------------------
(***************************************************************************)
(* What the lifecycle of a Manager promises to its users, without the      *)
(* mutex and without the inside of a method: Start, Stop and Reload, called *)
(* by any goroutines at once, each take effect in one step between the call *)
(* and the return ("serializes reloads", manager.go:19).                   *)
(***************************************************************************)
EXTENDS Integers

CONSTANTS
    Callers,     \* goroutines of the program
    Notifiers    \* goroutines in which the source calls onChange

Users == Callers \cup Notifiers

VARIABLES
    late,        \* the source's notifications may outlive its Watch
    source,      \* the number of the document the source has
    loaded,      \* the document that is served, -1 before the first
    started,
    frozen,
    watching,    \* the source is being watched
    op,          \* op[p]: the method p is in, or "none"
    since        \* since[p]: the document the source had when p called it

vars == <<late, source, loaded, started, frozen, watching, op, since>>

Init ==
    /\ late \in BOOLEAN
    /\ source = 0
    /\ loaded = -1
    /\ started = FALSE
    /\ frozen = FALSE
    /\ watching = FALSE
    /\ op = [p \in Users |-> "none"]
    /\ since = [p \in Users |-> 0]

Enter(p, method) ==
    /\ op[p] = "none"
    /\ op' = [op EXCEPT ![p] = method]
    /\ since' = [since EXCEPT ![p] = source]
    /\ UNCHANGED <<late, source, loaded, started, frozen, watching>>

Call(p, method) == p \in Callers /\ Enter(p, method)

\* A notification is one more Reload; only some sources make it unwatched.
Notify(p) == p \in Notifiers /\ (watching \/ late) /\ Enter(p, "reload")

Write ==
    /\ source' = source + 1
    /\ UNCHANGED <<late, loaded, started, frozen, watching, op, since>>

WatchEnds ==
    /\ watching
    /\ watching' = FALSE
    /\ UNCHANGED <<late, source, loaded, started, frozen, op, since>>

Return(p) ==
    /\ op' = [op EXCEPT ![p] = "none"]
    /\ since' = [since EXCEPT ![p] = 0]
    /\ UNCHANGED <<late, source>>

\* What is loaded is no older than the call, nor than what was served before.
Load(p) ==
    /\ loaded' \in since[p] .. source
    /\ loaded <= loaded'

Freeze(p) ==
    /\ op[p] = "start"
    /\ ~started
    /\ frozen' = TRUE
    /\ UNCHANGED <<late, source, loaded, started, watching, op, since>>

\* Start, once the DAG is frozen; at most one watch begins.
Start(p) ==
    /\ op[p] = "start"
    /\ ~started /\ frozen /\ ~watching
    /\ Load(p)
    /\ started' = TRUE
    /\ watching' \in BOOLEAN
    /\ Return(p)
    /\ UNCHANGED frozen

\* Stop, once nothing watches.
Stop(p) ==
    /\ op[p] = "stop"
    /\ started /\ ~watching
    /\ started' = FALSE
    /\ Return(p)
    /\ UNCHANGED <<loaded, frozen, watching>>

\* Reload; one that the source asked for, only while the manager is started.
Reload(p) ==
    /\ op[p] = "reload"
    /\ p \in Notifiers => started \/ late
    /\ Load(p)
    /\ Return(p)
    /\ UNCHANGED <<started, frozen, watching>>

\* An error changes nothing.  A Stop fails only if there is nothing to stop; a
\* Start, only if the manager is started or its load failed, after the freeze.
Fail(p) ==
    /\ op[p] # "none"
    /\ op[p] = "stop" => ~started
    /\ op[p] = "start" => started \/ frozen
    /\ Return(p)
    /\ UNCHANGED <<loaded, started, frozen, watching>>

Next ==
    \/ Write
    \/ WatchEnds
    \/ \E p \in Users :
          \/ \E method \in {"start", "stop", "reload"} : Call(p, method)
          \/ Notify(p)
          \/ Freeze(p) \/ Start(p) \/ Stop(p) \/ Reload(p) \/ Fail(p)

Spec == Init /\ [][Next]_vars
=============================================================================
