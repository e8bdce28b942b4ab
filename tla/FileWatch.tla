----------------------------- MODULE FileWatch -----------------------------
(***************************************************************************)
(* FileSource watching a file for a Manager: fsnotify events, the debounce *)
(* timer, and the onChange calls, which run in the timers' goroutines and  *)
(* not in Watch.  FileSource compares nothing: every timer that fires is a *)
(* reload.                                                                 *)
(*                                                                         *)
(* The Manager has been started, with content 0.  Contents are numbered    *)
(* and may come back.                                                      *)
(***************************************************************************)
EXTENDS Integers

CONSTANTS
    MaxContent,  \* contents are 0 .. MaxContent
    MaxRunning   \* bound: onChange calls that wait for the mutex

ASSUME FileWatchAssumption ==
    /\ MaxContent \in Nat
    /\ MaxRunning \in Nat \ {0}

Content == 0 .. MaxContent

VARIABLES
    source,   \* what the file holds
    applied,  \* the content of the current generation
    watch,    \* where Watch is
    event,    \* fsnotify has events of the file to deliver
    timer,    \* Watch's timer is armed
    running,  \* how many timers fired and wait for Manager.mu in onChange
    reload,   \* whose reload holds Manager.mu
    fetched,  \* what the last reload read
    failed    \* history: it was not applied

vars == <<source, applied, watch, event, timer, running, reload, fetched,
          failed>>

TypeOK ==
    /\ source \in Content
    /\ applied \in Content
    /\ watch \in {"setup", "select", "returned"}
    /\ event \in BOOLEAN
    /\ timer \in BOOLEAN
    /\ running \in 0 .. MaxRunning
    /\ reload \in {"none", "timer", "manual"}
    /\ fetched \in Content
    /\ failed \in BOOLEAN

Init ==
    /\ source = 0
    /\ applied = 0
    /\ watch = "setup"
    /\ event = FALSE
    /\ timer = FALSE
    /\ running = 0
    /\ reload = "none"
    /\ fetched = 0
    /\ failed = FALSE

-----------------------------------------------------------------------------
(* The file, and FileSource.Watch. *)

\* Only an established watch is told; the file may be written at any time.
Write(c) ==
    /\ c # source
    /\ source' = c
    /\ event' = (event \/ watch = "select")
    /\ UNCHANGED <<applied, watch, timer, running, reload, fetched, failed>>

\* Variant: no onChange once the watch is established.
SetupSilent ==
    /\ watch = "setup"
    /\ watch' = "select"
    /\ UNCHANGED <<source, applied, event, timer, running, reload, fetched,
                   failed>>

\* The directory is watched, and one debounced onChange is on its way.
Setup ==
    /\ watch = "setup"
    /\ watch' = "select"
    /\ timer' = TRUE
    /\ UNCHANGED <<source, applied, event, running, reload, fetched, failed>>

\* Variant: an event that finds a timer armed only stops it.
EventStops ==
    /\ watch = "select"
    /\ event
    /\ event' = FALSE
    /\ timer' = ~timer
    /\ UNCHANGED <<source, applied, watch, running, reload, fetched, failed>>

\* An event of the file re-arms the timer; one that fired already goes on.
Event ==
    /\ watch = "select"
    /\ event
    /\ event' = FALSE
    /\ timer' = TRUE
    /\ UNCHANGED <<source, applied, watch, running, reload, fetched, failed>>

\* NewWatcher or Add fails, fsnotify reports an error or is closed, or the
\* context is done.  The timer stays armed.
Return ==
    /\ watch # "returned"
    /\ watch' = "returned"
    /\ event' = FALSE
    /\ UNCHANGED <<source, applied, timer, running, reload, fetched, failed>>

\* The timer expires: onChange is called in a goroutine of its own.
Fire ==
    /\ timer
    /\ running < MaxRunning
    /\ timer' = FALSE
    /\ running' = running + 1
    /\ UNCHANGED <<source, applied, watch, event, reload, fetched, failed>>

-----------------------------------------------------------------------------
(* The reloads, one at a time. *)

\* Variant: the file is read when the timer fires, before the mutex is taken.
BeginReloadStale(r) ==
    /\ reload = "none"
    /\ r = "timer" => running > 0
    /\ reload' = r
    /\ running' = IF r = "timer" THEN running - 1 ELSE running
    /\ fetched' = IF r = "timer" THEN fetched ELSE source
    /\ UNCHANGED <<source, applied, watch, event, timer, failed>>

\* Variant: a reload of the program is taken for the one a timer asked for.
BeginReloadAny(r) ==
    /\ reload = "none"
    /\ r = "timer" => running > 0
    /\ reload' = r
    /\ running' = running - 1
    /\ fetched' = source
    /\ UNCHANGED <<source, applied, watch, event, timer, failed>>

BeginReload(r) ==
    /\ reload = "none"
    /\ r = "timer" => running > 0
    /\ reload' = r
    /\ running' = IF r = "timer" THEN running - 1 ELSE running
    /\ fetched' = source
    /\ UNCHANGED <<source, applied, watch, event, timer, failed>>

Applied ==
    /\ reload # "none"
    /\ applied' = fetched
    /\ reload' = "none"
    /\ failed' = FALSE
    /\ UNCHANGED <<source, watch, event, timer, running, fetched>>

\* A failed apply is not retried.
NotApplied ==
    /\ reload # "none"
    /\ reload' = "none"
    /\ failed' = TRUE
    /\ UNCHANGED <<source, applied, watch, event, timer, running, fetched>>

-----------------------------------------------------------------------------
Next ==
    \/ \E c \in Content : Write(c)
    \/ Setup \/ Event \/ Return \/ Fire
    \/ \E r \in {"timer", "manual"} : BeginReload(r)
    \/ Applied \/ NotApplied

Spec == Init /\ [][Next]_vars

\* Goroutines run, timers expire, and the mutex is handed to a waiter.
Fairness ==
    /\ WF_vars(Setup)
    /\ WF_vars(Event)
    /\ SF_vars(Fire)
    /\ SF_vars(BeginReload("timer"))
    /\ WF_vars(Applied \/ NotApplied)

FairSpec == Spec /\ Fairness

-----------------------------------------------------------------------------
(* Properties. *)

\* Something is going to read the file: an event, a timer, a waiting onChange.
Owed == event \/ timer \/ running > 0

\* No write is lost, not even one that lands between the Manager's fetch and
\* the watch's setup (file.go:71-75) or while another reload runs: when nothing
\* is going to read the file, the last reload read what it holds, and the
\* generation has it unless that reload failed.
NoWriteLost ==
    watch = "select" /\ ~Owed =>
        /\ fetched = source
        /\ reload = "none" => applied = source \/ failed

\* A watch that stays up reads the content the file settles on ("calls onChange
\* when the file is modified", file.go:55): a failed apply is not repeated
\* (file.go:76-77), but it hides no later write.
LastContentTried ==
    \A c \in Content :
        <>[](source = c /\ watch = "select") => <>[](fetched = c)
=============================================================================
