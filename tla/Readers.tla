------------------------------ MODULE Readers ------------------------------
(***************************************************************************)
(* Readers beside the reload pipeline: goroutines that Get a resource and  *)
(* use it for a while, taking no lock, and the grace period that a cleanup *)
(* goroutine sleeps for their sake.                                        *)
(*                                                                         *)
(* Time is reduced to the order the grace period is for: a use is shorter  *)
(* than the grace period, so by the end of a sleep every use that was      *)
(* under way at its beginning is over.                                     *)
(***************************************************************************)
EXTENDS Reload

CONSTANT Reader

VARIABLES
    use,    \* use[r]: the resource instance reader r uses, or nothing
    sleep   \* sleep[a]: the uses that began before the sleep of goroutine a

readVars == <<use, sleep>>
readerVars == <<vars, use, sleep>>

ReaderTypeOK ==
    /\ use \in [Reader -> SUBSET Instance]
    /\ sleep \in [Attempts -> SUBSET Reader]

ReaderInit ==
    /\ Init
    /\ use = [r \in Reader |-> {}]
    /\ sleep = [a \in Attempts |-> {}]

\* Val.Get of a resource: one atomic load of current, at any moment.
Get(r, n) ==
    /\ use[r] = {}
    /\ Kind[n] = "resource"
    /\ Present(current.values, n)
    /\ use' = [use EXCEPT ![r] = {<<n, current.values[n].at>>}]
    /\ UNCHANGED <<vars, sleep>>

\* The reader drops the resource.
Drop(r) ==
    /\ use[r] # {}
    /\ use' = [use EXCEPT ![r] = {}]
    /\ sleep' = [a \in Attempts |-> sleep[a] \ {r}]
    /\ UNCHANGED vars

Using == {r \in Reader : use[r] # {}}

\* Variant: the sleep begins before the swap.
SleepFromAccept ==
    sleep' = IF phase = "fetching" /\ phase' = "walking"
             THEN [sleep EXCEPT ![attempt] = Using]
             ELSE sleep

\* time.Sleep, the first thing the goroutine of this reload does.
SleepBegins ==
    sleep' = IF phase = "swapped" /\ cleanup' # cleanup
             THEN [sleep EXCEPT ![attempt] = Using]
             ELSE sleep

\* Everything but the goroutines' cleaning, and that after their sleep.
Pipeline ==
    \/ Register
    \/ \E start \in BOOLEAN : Begin(start)
    \/ ReloadStep

PipelineStep == Pipeline /\ SleepBegins /\ UNCHANGED use

CleanAfterGrace(a) == sleep[a] = {} /\ CleanupStep(a) /\ UNCHANGED readVars

ReaderStep == \E r \in Reader : Drop(r) \/ \E n \in Nodes : Get(r, n)

ReaderNext == PipelineStep \/ (\E a \in Attempts : CleanAfterGrace(a)) \/ ReaderStep

ReaderSpec == ReaderInit /\ [][ReaderNext]_readerVars

-----------------------------------------------------------------------------
\* A reader whose use is shorter than the grace period only ever uses a resource
\* that some reload has built and whose cleanup has not run, whichever generation
\* it loaded and however many cleanup goroutines sleep (options.go:100,
\* derived.go:48).
ReadersUseOpen == \A r \in Reader : use[r] \subseteq built \ closed
=============================================================================
