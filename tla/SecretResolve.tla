--------------------------- MODULE SecretResolve ---------------------------
(***************************************************************************)
(* resolveSecrets: one goroutine per distinct secret name, a semaphore     *)
(* that lets a few of them call the resolver at a time, and a first        *)
(* failure that cancels the others and is the error returned.              *)
(*                                                                         *)
(* The resolver is the program's: it may answer, fail for a reason of its  *)
(* own, and, once the context is done, fail for that.                      *)
(***************************************************************************)
EXTENDS Integers, FiniteSets

CONSTANTS
    Names,  \* the distinct secret names of the document
    Slots,  \* maxConcurrentResolves
    NoName  \* no failure so far

ASSUME SecretResolveAssumption ==
    /\ IsFiniteSet(Names)
    /\ Slots \in Nat \ {0}
    /\ NoName \notin Names

VARIABLES
    at,       \* at[n]: where the goroutine of name n is
    slots,    \* the names whose goroutines hold a slot
    done,     \* the context of the calls is cancelled
    parent,   \* the caller's context is
    secrets,  \* the names whose value has been stored
    failure,  \* the name reported by failOnce
    cause,    \* its reason: the store's, or the context's
    result    \* what resolveSecrets returned

vars == <<at, slots, done, parent, secrets, failure, cause, result>>

Points == {"waiting", "admitted", "calling", "finished"}

TypeOK ==
    /\ at \in [Names -> Points]
    /\ slots \subseteq Names
    /\ done \in BOOLEAN
    /\ parent \in BOOLEAN
    /\ secrets \subseteq Names
    /\ failure \in Names \cup {NoName}
    /\ cause \in {"none", "own", "context"}
    /\ result \in {"none", "values", "error"}

Init ==
    /\ at = [n \in Names |-> "waiting"]
    /\ slots = {}
    /\ done = FALSE
    /\ parent = FALSE
    /\ secrets = {}
    /\ failure = NoName
    /\ cause = "none"
    /\ result = "none"

-----------------------------------------------------------------------------
\* The caller's context, the watch's for instance, is cancelled.
ParentDone ==
    /\ ~parent
    /\ result = "none"
    /\ parent' = TRUE
    /\ done' = TRUE
    /\ UNCHANGED <<at, slots, secrets, failure, cause, result>>

\* Variant: the semaphore admits one goroutine too many.
AdmitOneMore(n) ==
    /\ at[n] = "waiting"
    /\ Cardinality(slots) <= Slots
    /\ slots' = slots \cup {n}
    /\ at' = [at EXCEPT ![n] = "admitted"]
    /\ UNCHANGED <<done, parent, secrets, failure, cause, result>>

\* slots <- struct{}{}
Admit(n) ==
    /\ at[n] = "waiting"
    /\ Cardinality(slots) < Slots
    /\ slots' = slots \cup {n}
    /\ at' = [at EXCEPT ![n] = "admitted"]
    /\ UNCHANGED <<done, parent, secrets, failure, cause, result>>

\* The deferred <-slots, after which the goroutine is over.
Finish(n) ==
    /\ at' = [at EXCEPT ![n] = "finished"]
    /\ slots' = slots \ {n}

\* Variant: the reason is reported in place of the name.
FailUnnamed(n, why) ==
    /\ failure' = IF failure = NoName THEN why ELSE failure
    /\ cause' = IF failure = NoName THEN why ELSE cause
    /\ done' = TRUE

\* Variant: the last failure is the one reported.
FailLast(n, why) ==
    /\ failure' = n
    /\ cause' = why
    /\ done' = TRUE

\* fail: under failOnce, the first failure is recorded, then the others are
\* cancelled; Do makes a later failure wait for that and do nothing.
Fail(n, why) ==
    /\ failure' = IF failure = NoName THEN n ELSE failure
    /\ cause' = IF failure = NoName THEN why ELSE cause
    /\ done' = TRUE

\* The context is looked at once, before the call.
Call(n) ==
    /\ at[n] = "admitted"
    /\ ~done
    /\ at' = [at EXCEPT ![n] = "calling"]
    /\ UNCHANGED <<slots, done, parent, secrets, failure, cause, result>>

Skip(n) ==
    /\ at[n] = "admitted"
    /\ done
    /\ Finish(n)
    /\ Fail(n, "context")
    /\ UNCHANGED <<parent, secrets, result>>

Answers(n) ==
    /\ at[n] = "calling"
    /\ Finish(n)
    /\ secrets' = secrets \cup {n}
    /\ UNCHANGED <<done, parent, failure, cause, result>>

\* Variant: a failed goroutine keeps its slot.
RefusesKeepingSlot(n) ==
    /\ at[n] = "calling"
    /\ at' = [at EXCEPT ![n] = "finished"]
    /\ UNCHANGED slots
    /\ \E why \in {"own", "context"} : (why = "context" => done) /\ Fail(n, why)
    /\ UNCHANGED <<parent, secrets, result>>

\* The store fails, or its value is itself a reference; or the resolver gives
\* up because its context is done.
Refuses(n) ==
    /\ at[n] = "calling"
    /\ Finish(n)
    /\ \E why \in {"own", "context"} : (why = "context" => done) /\ Fail(n, why)
    /\ UNCHANGED <<parent, secrets, result>>

\* Variant: the values are returned although a resolution failed.
ReturnAnyway ==
    /\ result = "none"
    /\ \A n \in Names : at[n] = "finished"
    /\ result' = IF secrets = {} /\ failure # NoName THEN "error" ELSE "values"
    /\ UNCHANGED <<at, slots, done, parent, secrets, failure, cause>>

\* wg.Wait, and the values of all names or the failure.
Return ==
    /\ result = "none"
    /\ \A n \in Names : at[n] = "finished"
    /\ result' = IF failure # NoName THEN "error" ELSE "values"
    /\ UNCHANGED <<at, slots, done, parent, secrets, failure, cause>>

-----------------------------------------------------------------------------
Goroutine(n) == Admit(n) \/ Call(n) \/ Skip(n) \/ Answers(n) \/ Refuses(n)

Next == ParentDone \/ Return \/ \E n \in Names : Goroutine(n)

Spec == Init /\ [][Next]_vars

\* Goroutines run, a resolver call returns, and a blocked send gets its turn.
Fairness == WF_vars(Return) /\ \A n \in Names : SF_vars(Goroutine(n))

FairSpec == Spec /\ Fairness

-----------------------------------------------------------------------------
(* Properties. *)

\* "bounds how many resolver calls one reload runs at once" (secretref.go:29).
AtMostSlots == Cardinality({n \in Names : at[n] = "calling"}) <= Slots

\* What is reported is what went wrong: a cancellation is the reported reason
\* only when the caller's own context was cancelled, never as a consequence of
\* another failure (secretref.go:459-460).
CauseIsFirst == cause = "context" => parent

\* All or nothing: values are returned for every name, or an error.
AllOrNothing ==
    /\ result = "values" => secrets = Names
    /\ result = "error" => failure # NoName

\* However many names fail, resolveSecrets returns.
Returns == <>(result # "none")

-----------------------------------------------------------------------------
(* The inductive invariant of the proofs (module SecretResolveProofs). *)

\* Who calls the resolver holds a slot, and slots are few.
SlotsHeld ==
    /\ \A n \in Names : at[n] \in {"admitted", "calling"} => n \in slots
    /\ Cardinality(slots) <= Slots

\* Until a goroutine fails nothing but the caller cancels the context, and a
\* goroutine that is over has stored its value or reported.
Reported ==
    /\ done => parent \/ failure # NoName
    /\ failure # NoName => done
    /\ cause = "context" => parent
    /\ \A n \in Names : at[n] = "finished" => n \in secrets \/ failure # NoName
    /\ result = "values" => secrets = Names
    /\ result = "error" => failure # NoName
    /\ result # "none" => \A n \in Names : at[n] = "finished"

IInv == TypeOK /\ SlotsHeld /\ Reported
=============================================================================
