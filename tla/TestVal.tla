------------------------------ MODULE TestVal -------------------------------
(***************************************************************************)
(* TestVal: a Manager without a source that serves one static value, and   *)
(* recomputes every derived value each time one is registered.  It walks   *)
(* the nodes with the recompute methods of module Reload, from no old      *)
(* generation, so nothing is carried forward.                              *)
(*                                                                         *)
(* A behaviour is that of one Manager: `eager' says which kind it is.  The *)
(* Manager of a TestVal cannot be reached by the program, so nothing       *)
(* starts, reloads or stops it, and no root is registered with it.         *)
(***************************************************************************)
EXTENDS Readers

VARIABLE eager  \* Manager.eagerRecompute

testVars == <<readerVars, eager>>

\* TestVal(value): the static value is node 0 of a generation stored at once.
StaticGen(d) ==
    [version |-> 0, config |-> NoDoc,
     values |-> [NoValues EXCEPT ![0] = [Absent EXCEPT !.data = d]]]

Static(d) ==
    /\ 0 \in Nodes
    /\ eager = TRUE
    /\ registered = 1
    /\ current = StaticGen(d)
    /\ frozen = FALSE
    /\ phase = "idle"
    /\ builder = NewBuilder(NoDoc)
    /\ pos = 0
    /\ oldGen = NilGen
    /\ attempt = 0
    /\ cleanup = [a \in Attempts |-> {}]
    /\ built = {}
    /\ closed = {}
    /\ abandoned = {}
    /\ use = [r \in Reader |-> {}]
    /\ sleep = [a \in Attempts |-> {}]

TestInit == (ReaderInit /\ eager = FALSE) \/ \E d \in Data : Static(d)

\* addNode: the new node, then recomputeTestNodes from the values there are.
EagerRegister ==
    /\ eager
    /\ phase = "idle"
    /\ registered < NumNodes
    /\ ~Root(registered)
    /\ attempt < MaxAttempts
    /\ registered' = registered + 1
    /\ attempt' = attempt + 1
    /\ phase' = "walking"
    /\ pos' = 1
    /\ builder' = [config |-> NoDoc, values |-> current.values,
                   dirty |-> [n \in Nodes |-> Present(current.values, n)]]
    /\ UNCHANGED <<frozen, current, oldGen, cleanup, built, closed, abandoned>>

\* The resources of the generation that the walk has replaced by new ones.
Superseded ==
    {<<n, current.values[n].at>> :
        n \in {m \in Nodes : /\ Kind[m] = "resource"
                             /\ Present(current.values, m)}}

\* Variant: the values are served though the walk has not reached the end.
EagerPublishPartial ==
    /\ eager
    /\ phase = "walking"
    /\ current' = [version |-> 0, config |-> NoDoc, values |-> builder.values]
    /\ abandoned' = abandoned \cup Superseded
    /\ Return
    /\ UNCHANGED <<registered, frozen, attempt, cleanup, built, closed>>

\* The generation is stored.  There is no old generation to the walk, so no
\* cleanup function is ever called with a value it replaces.
EagerPublish ==
    /\ eager
    /\ phase = "walking"
    /\ pos = registered
    /\ current' = [version |-> 0, config |-> NoDoc, values |-> builder.values]
    /\ abandoned' = abandoned \cup Superseded
    /\ Return
    /\ UNCHANGED <<registered, frozen, attempt, cleanup, built, closed>>

\* An error of a transform is a panic out of the constructor: the node stays
\* registered, what is served does not change (Abort).
EagerWalk == eager /\ (Recompute \/ Abort)

\* The constructors under a TestVal; a test reads the values between them.
EagerStep == EagerWalk \/ EagerPublish

TestNext ==
    \/ ~eager /\ ReaderNext /\ UNCHANGED eager
    \/ (EagerRegister \/ EagerStep) /\ UNCHANGED <<readVars, eager>>

TestSpec == TestInit /\ [][TestNext]_testVars

\* As in Reload, for the calls of the walk under either kind of Manager; a use
\* of a resource ends.
TestFairSpec ==
    /\ TestSpec
    /\ WF_testVars(~eager /\ ReloadStep /\ SleepBegins /\ UNCHANGED <<use, eager>>)
    /\ \A a \in Attempts :
          WF_testVars(~eager /\ CleanAfterGrace(a) /\ UNCHANGED eager)
    /\ \A r \in Reader : WF_testVars(Drop(r) /\ UNCHANGED eager)
    /\ WF_testVars(EagerStep /\ UNCHANGED <<readVars, eager>>)

-----------------------------------------------------------------------------
(* Properties. *)

\* What a test reads is one computation: every derived value was computed from
\* the very values its parents serve, though earlier nodes are recomputed with
\* each registration and a constructor may have panicked (testing.go:41).
EagerConsistent ==
    eager => \A n \in Nodes : Present(current.values, n) =>
        \A p \in Parents[n] :
            /\ Present(current.values, p)
            /\ current.values[n].from[p] = current.values[p].data

-----------------------------------------------------------------------------
(* The inductive invariant of the proofs (module ReadersProofs). *)

\* Nothing but registrations happens to the Manager of a TestVal.
OnlyRegisters ==
    /\ phase \in {"idle", "walking"}
    /\ oldGen = NilGen
    /\ closed = {}
    /\ \A a \in Attempts : cleanup[a] = {}
    /\ use = [r \in Reader |-> {}]
    /\ sleep = [a \in Attempts |-> {}]

\* In vals, a node below bound was computed from the values of its parents.
ComputedBelow(vals, bound) ==
    \A n \in Nodes : n < bound =>
        \A p \in Parents[n] : vals[n].from[p] = vals[p].data

\* What is served: one computation, of the static value and derived nodes.
ServesOne ==
    /\ registered >= 1
    /\ Present(current.values, 0)
    /\ \A n \in Nodes : 1 <= n /\ n < registered => ~Root(n)
    /\ \A n \in Nodes : Present(current.values, n) =>
          /\ n < registered
          /\ \A p \in Parents[n] :
                /\ Present(current.values, p)
                /\ current.values[n].from[p] = current.values[p].data

\* What the walk has recomputed, over the values of the walk before it.
WalksAnew ==
    phase = "walking" =>
        /\ attempt >= 1
        /\ 1 <= pos /\ pos <= registered
        /\ \A n \in Nodes : n < pos => Present(builder.values, n)
        /\ \A n \in Nodes : Present(builder.values, n) => n < registered
        /\ ComputedBelow(builder.values, pos)

\* Where the instances are: each walk builds its own, and those it replaces
\* are given up.
BuildsAnew ==
    /\ ResourcesAccounted
    /\ \A r \in built : r[2] <= attempt
    /\ \A n \in Nodes : current.values[n].at <= attempt
    /\ phase = "walking" =>
          /\ \A r \in built : r[2] = attempt => r \in Building
          /\ \A n \in Nodes : current.values[n].at < attempt
          /\ \A n \in Nodes : 1 <= n /\ n < pos => builder.values[n].at = attempt
          /\ \A n \in Nodes : n = 0 \/ n >= pos => builder.values[n].at < attempt

EagerInv == TypeOK /\ OnlyRegisters /\ ServesOne /\ WalksAnew /\ BuildsAnew

EagerInvariant == eager => EagerInv
=============================================================================
