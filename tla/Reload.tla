------------------------------- MODULE Reload -------------------------------
(***************************************************************************)
(* The reload pipeline of lemonfig: Manager.reloadLocked, the generation   *)
(* and its builder, the recompute method of every kind of node, and        *)
(* scheduleCleanup with the goroutine it starts.                           *)
(*                                                                         *)
(* One reload runs at a time (Manager.mu); what runs beside it are the     *)
(* cleanup goroutines of earlier reloads, and readers, which load the      *)
(* current generation atomically at any moment.  Who calls the reload, and *)
(* the lock itself, are the subject of module Manager.                     *)
(*                                                                         *)
(* A document is a model value and a node's value is reduced to its `data' *)
(* (what reflect.DeepEqual compares) together with three history fields:   *)
(* the attempt that computed it, the parents' data it was computed from,   *)
(* and the resource instances it can reach.                                *)
(***************************************************************************)
EXTENDS Integers, FiniteSets

CONSTANTS
    NumNodes,    \* how many values the program registers
    Kind,        \* Kind[n]: which constructor registered node n
    Parents,     \* Parents[n]: the nodes whose Vals were passed to it
    Keeps,       \* Keeps[n]: the value of n retains its parents' values
    Doc,         \* the documents the source may return
    NoDoc,       \* the config of a nil *generation
    Data,        \* the values that DeepEqual can tell apart
    NoData,      \* a node absent from a generation's map
    Extract,     \* Extract[n][d]: what root n reads from document d
    MaxAttempts  \* bound: how many reloads a behaviour runs

Nodes == 0 .. NumNodes - 1
Kinds == {"key", "struct", "map", "resource", "combine"}
Root(n) == Kind[n] \in {"key", "struct"}

ASSUME ReloadAssumption ==
    /\ NumNodes \in Nat
    /\ MaxAttempts \in Nat
    /\ Kind \in [Nodes -> Kinds]
    /\ Keeps \in [Nodes -> BOOLEAN]
    /\ Parents \in [Nodes -> SUBSET Nodes]
    \* A constructor takes Vals that exist, so a parent's id is the smaller.
    /\ \A n \in Nodes : \A p \in Parents[n] : p < n
    /\ \A n \in Nodes : Root(n) <=> Parents[n] = {}
    /\ \A n \in Nodes : Kind[n] \in {"map", "resource"} =>
            \E p \in Nodes : Parents[n] = {p}
    /\ Extract \in [Nodes -> [Doc -> Data]]
    /\ NoDoc \notin Doc
    /\ NoData \notin Data

(***************************************************************************)
(* A node that retains the value of a parent which is itself a plain value *)
(* retaining resources is outside the condition under which published      *)
(* resources are open (see PublishedResourcesOpen).                        *)
(***************************************************************************)
DirectKeeps ==
    \A n \in Nodes : Keeps[n] =>
        \A p \in Parents[n] : Kind[p] = "resource" \/ ~Keeps[p]

VARIABLES
    registered,  \* len(allNodes), which is also nextID_
    frozen,      \* Manager.frozen
    current,     \* Manager.current; version -1 stands for the nil pointer
    phase,       \* where reloadLocked is
    builder,     \* its generationBuilder
    pos,         \* the next index of allNodes to recompute
    oldGen,      \* its oldGen
    attempt,     \* history: the number of reloads begun
    cleanup,     \* cleanup[a]: what the goroutine of attempt a has yet to clean
    built,       \* history: the resource instances transforms have returned
    closed,      \* history: the instances their cleanup was called with
    abandoned    \* history: the instances nothing will ever clean

vars == <<registered, frozen, current, phase, builder, pos, oldGen, attempt,
          cleanup, built, closed, abandoned>>

Attempts == 1 .. MaxAttempts

\* A resource instance is named by its node and the attempt that built it.
Instance == Nodes \X Attempts

Value == [data : Data \cup {NoData}, at : 0 .. MaxAttempts,
          from : [Nodes -> Data \cup {NoData}], held : SUBSET Instance]

Absent == [data |-> NoData, at |-> 0, from |-> [p \in Nodes |-> NoData],
           held |-> {}]

Present(vals, n) == vals[n].data # NoData

NoValues == [n \in Nodes |-> Absent]

NilGen == [version |-> -1, config |-> NoDoc, values |-> NoValues]

NewBuilder(d) == [config |-> d, values |-> NoValues,
                  dirty |-> [n \in Nodes |-> FALSE]]

\* An old value on its way to its node's cleanup function.
Item == [node : Nodes, at : Attempts, held : SUBSET Instance]

Phases == {"idle", "fetching", "walking", "swapped"}

TypeOK ==
    /\ registered \in 0 .. NumNodes
    /\ frozen \in BOOLEAN
    /\ current \in [version : Int, config : Doc \cup {NoDoc},
                    values : [Nodes -> Value]]
    /\ oldGen \in [version : Int, config : Doc \cup {NoDoc},
                   values : [Nodes -> Value]]
    /\ phase \in Phases
    /\ builder \in [config : Doc \cup {NoDoc}, values : [Nodes -> Value],
                    dirty : [Nodes -> BOOLEAN]]
    /\ pos \in 0 .. NumNodes
    /\ attempt \in 0 .. MaxAttempts
    /\ cleanup \in [Attempts -> SUBSET Item]
    /\ built \subseteq Instance
    /\ closed \subseteq Instance
    /\ abandoned \subseteq Instance

Init ==
    /\ registered = 0
    /\ frozen = FALSE
    /\ current = NilGen
    /\ phase = "idle"
    /\ builder = NewBuilder(NoDoc)
    /\ pos = 0
    /\ oldGen = NilGen
    /\ attempt = 0
    /\ cleanup = [a \in Attempts |-> {}]
    /\ built = {}
    /\ closed = {}
    /\ abandoned = {}

(***************************************************************************)
(* Registration.  Key, Struct, Map, MapWithCleanup and the Combines panic  *)
(* once Start has frozen the DAG.  A Reload before Start is allowed and    *)
(* does not freeze it, so nodes can follow a first generation.             *)
(***************************************************************************)
Register ==
    /\ phase = "idle"
    /\ ~frozen
    /\ registered < NumNodes
    /\ registered' = registered + 1
    /\ UNCHANGED <<frozen, current, phase, builder, pos, oldGen, attempt,
                   cleanup, built, closed, abandoned>>

(***************************************************************************)
(* reloadLocked.                                                           *)
(***************************************************************************)

\* Start freezes the DAG before its initial load; Reload does not.
Begin(start) ==
    /\ phase = "idle"
    /\ attempt < MaxAttempts
    /\ attempt' = attempt + 1
    /\ phase' = "fetching"
    /\ frozen' = (frozen \/ start)
    /\ UNCHANGED <<registered, current, builder, pos, oldGen, cleanup, built,
                   closed, abandoned>>

\* The deferred end of a reload: its locals are gone.
Return ==
    /\ phase' = "idle"
    /\ builder' = NewBuilder(NoDoc)
    /\ pos' = 0
    /\ oldGen' = NilGen

\* The fetch, the parse, a secret reference or the validation fails.
Reject ==
    /\ phase = "fetching"
    /\ Return
    /\ UNCHANGED <<registered, frozen, current, attempt, cleanup, built,
                   closed, abandoned>>

\* The document is accepted; the walk starts from the current generation.
Accept(d) ==
    /\ phase = "fetching"
    /\ phase' = "walking"
    /\ oldGen' = current
    /\ builder' = NewBuilder(d)
    /\ pos' = 0
    /\ UNCHANGED <<registered, frozen, current, attempt, cleanup, built,
                   closed, abandoned>>

-----------------------------------------------------------------------------
(* The walk over allNodes. *)

Walking == phase = "walking" /\ pos < registered

\* Variant: a recomputed value always counts as changed.
ChangedAlways(n, d) == TRUE

\* reflect.DeepEqual against the old value, when the node had one.
Changed(n, d) == ~Present(oldGen.values, n) \/ oldGen.values[n].data # d

\* The instances a value of n computed now can reach.
Reach(n) ==
    (IF Kind[n] = "resource" THEN {<<n, attempt>>} ELSE {})
      \cup (IF Keeps[n] THEN UNION {builder.values[p].held : p \in Parents[n]}
                        ELSE {})

Computed(n, d) ==
    [data |-> d, at |-> attempt,
     from |-> [p \in Nodes |-> IF p \in Parents[n] THEN builder.values[p].data
                                                   ELSE NoData],
     held |-> Reach(n)]

\* Variant: the walk skips the node that follows a changed one.
SetSkipping(n, v, changed) ==
    /\ builder' = [builder EXCEPT !.values[n] = v, !.dirty[n] = changed]
    /\ pos' = IF changed THEN pos + 2 ELSE pos + 1
    /\ UNCHANGED <<registered, frozen, current, phase, oldGen, attempt,
                   cleanup, closed, abandoned>>

\* generationBuilder.set, and on to the next node.
Set(n, v, changed) ==
    /\ builder' = [builder EXCEPT !.values[n] = v, !.dirty[n] = changed]
    /\ pos' = pos + 1
    /\ UNCHANGED <<registered, frozen, current, phase, oldGen, attempt,
                   cleanup, closed, abandoned>>

\* A plain value is dirty when DeepEqual tells it from the old one.
SetPlain(n, d) == Set(n, Computed(n, d), Changed(n, d)) /\ UNCHANGED built

RecomputeKey ==
    /\ Walking
    /\ Kind[pos] = "key"
    /\ SetPlain(pos, Extract[pos][builder.config])

\* When the sub-tree decodes; Abort is the other outcome.
RecomputeStruct ==
    /\ Walking
    /\ Kind[pos] = "struct"
    /\ SetPlain(pos, Extract[pos][builder.config])

\* Variant: one unchanged parent is enough.
MayCarryAny(n) ==
    /\ ~Root(n)
    /\ \E p \in Parents[n] : ~builder.dirty[p]
    /\ Present(oldGen.values, n)

\* mapNode and combineNode: no parent changed and the node had a value.
MayCarry(n) ==
    /\ ~Root(n)
    /\ \A p \in Parents[n] : ~builder.dirty[p]
    /\ Present(oldGen.values, n)

CarryForward ==
    /\ Walking
    /\ MayCarry(pos)
    /\ Set(pos, oldGen.values[pos], FALSE)
    /\ UNCHANGED built

\* The transform of a Map runs and returns d.
RecomputeMap(d) ==
    /\ Walking
    /\ Kind[pos] = "map"
    /\ ~MayCarry(pos)
    /\ SetPlain(pos, d)

\* Variant: a rebuilt resource is a change only when DeepEqual says so.
RecomputeResourceEqual(d) ==
    /\ Walking
    /\ Kind[pos] = "resource"
    /\ ~MayCarry(pos)
    /\ Set(pos, Computed(pos, d), Changed(pos, d))
    /\ built' = built \cup {<<pos, attempt>>}

\* With a cleanup function every rebuild is a change, whatever it returns.
RecomputeResource(d) ==
    /\ Walking
    /\ Kind[pos] = "resource"
    /\ ~MayCarry(pos)
    /\ Set(pos, Computed(pos, d), TRUE)
    /\ built' = built \cup {<<pos, attempt>>}

\* Combine and Combine3 differ in the number of parents only.
RecomputeCombine(d) ==
    /\ Walking
    /\ Kind[pos] = "combine"
    /\ ~MayCarry(pos)
    /\ SetPlain(pos, d)

\* The resources the walk has built so far.
Building ==
    {<<n, attempt>> : n \in {m \in Nodes : /\ phase = "walking"
                                          /\ Kind[m] = "resource"
                                          /\ builder.values[m].at = attempt}}

\* A struct does not decode, a transform fails or panics: the generation under
\* construction is dropped, with whatever resources it had already built.
Abort ==
    /\ Walking
    /\ Kind[pos] # "key"
    /\ ~MayCarry(pos)
    /\ Return
    /\ abandoned' = abandoned \cup Building
    /\ UNCHANGED <<registered, frozen, current, attempt, cleanup, built, closed>>

-----------------------------------------------------------------------------
(* The swap, the callbacks, and the cleanup of the old generation. *)

\* Variant: the generation is stored while the walk still runs.
PublishEarly ==
    /\ phase = "walking"
    /\ current' = [version |-> IF oldGen.version = -1 THEN 0
                               ELSE oldGen.version + 1,
                   config |-> builder.config, values |-> builder.values]
    /\ IF oldGen.version = -1
       THEN Return
       ELSE phase' = "swapped" /\ UNCHANGED <<builder, pos, oldGen>>
    /\ UNCHANGED <<registered, frozen, attempt, cleanup, built, closed,
                   abandoned>>

\* freeze and current.Store.  A first load has no callbacks and no cleanup.
Publish ==
    /\ phase = "walking"
    /\ pos = registered
    /\ current' = [version |-> IF oldGen.version = -1 THEN 0
                               ELSE oldGen.version + 1,
                   config |-> builder.config, values |-> builder.values]
    /\ IF oldGen.version = -1
       THEN Return
       ELSE phase' = "swapped" /\ UNCHANGED <<builder, pos, oldGen>>
    /\ UNCHANGED <<registered, frozen, attempt, cleanup, built, closed,
                   abandoned>>

\* Variant: every old resource is retired, carried forward or not.
RetiredAll ==
    {[node |-> n, at |-> oldGen.values[n].at, held |-> oldGen.values[n].held] :
        n \in {m \in Nodes : /\ phase = "swapped"
                             /\ Kind[m] = "resource"
                             /\ Present(oldGen.values, m)}}

\* The old values of dirty nodes; without a cleanup function cleanupOld does
\* nothing, so only the resources are kept.
Retired ==
    {[node |-> n, at |-> oldGen.values[n].at, held |-> oldGen.values[n].held] :
        n \in {m \in Nodes : /\ phase = "swapped"
                             /\ Kind[m] = "resource"
                             /\ builder.dirty[m]
                             /\ Present(oldGen.values, m)}}

InstancesOf(items) == {<<i.node, i.at>> : i \in items}

\* Variant: the first generation's resources are forgotten.
ScheduleCleanupLate ==
    /\ phase = "swapped"
    /\ cleanup' = [cleanup EXCEPT ![attempt] =
                      IF oldGen.version > 0 THEN Retired ELSE {}]
    /\ Return
    /\ UNCHANGED <<registered, frozen, current, attempt, built, closed,
                   abandoned>>

\* Every OnReload callback returned: scheduleCleanup starts the goroutine.
ScheduleCleanup ==
    /\ phase = "swapped"
    /\ cleanup' = [cleanup EXCEPT ![attempt] = Retired]
    /\ Return
    /\ UNCHANGED <<registered, frozen, current, attempt, built, closed,
                   abandoned>>

\* An OnReload callback panics: the generation is live, the cleanup is skipped.
CallbackPanic ==
    /\ phase = "swapped"
    /\ Return
    /\ abandoned' = abandoned \cup InstancesOf(Retired)
    /\ UNCHANGED <<registered, frozen, current, attempt, cleanup, built, closed>>

\* Variant: the goroutine cleans in topological order, parents first.
CleanupItemForward(a, i) ==
    /\ i \in cleanup[a]
    /\ \A j \in cleanup[a] : j.node >= i.node
    /\ cleanup' = [cleanup EXCEPT ![a] = @ \ {i}]
    /\ closed' = closed \cup {<<i.node, i.at>>}
    /\ UNCHANGED <<registered, frozen, current, phase, builder, pos, oldGen,
                   attempt, built, abandoned>>

\* After the grace period the goroutine of attempt a cleans the item that is
\* last in topological order.  A panic of the cleanup function is recovered
\* per item, so it does not keep the goroutine from the next one.
CleanupItem(a, i) ==
    /\ i \in cleanup[a]
    /\ \A j \in cleanup[a] : j.node <= i.node
    /\ cleanup' = [cleanup EXCEPT ![a] = @ \ {i}]
    /\ closed' = closed \cup {<<i.node, i.at>>}
    /\ UNCHANGED <<registered, frozen, current, phase, builder, pos, oldGen,
                   attempt, built, abandoned>>

CleanupStep(a) == \E i \in cleanup[a] : CleanupItem(a, i)

-----------------------------------------------------------------------------
Recompute ==
    \/ RecomputeKey
    \/ RecomputeStruct
    \/ CarryForward
    \/ \E d \in Data : RecomputeMap(d)
    \/ \E d \in Data : RecomputeResource(d)
    \/ \E d \in Data : RecomputeCombine(d)

\* The steps of a reload that has begun.
ReloadStep ==
    \/ Reject
    \/ \E d \in Doc : Accept(d)
    \/ Recompute
    \/ Abort
    \/ Publish
    \/ ScheduleCleanup
    \/ CallbackPanic

Next ==
    \/ Register
    \/ \E start \in BOOLEAN : Begin(start)
    \/ ReloadStep
    \/ \E a \in Attempts : CleanupStep(a)

Spec == Init /\ [][Next]_vars

\* A reload is a sequence of calls that return, and time.Sleep ends.
Fairness ==
    /\ WF_vars(ReloadStep)
    /\ \A a \in Attempts : WF_vars(CleanupStep(a))

FairSpec == Spec /\ Fairness

-----------------------------------------------------------------------------
(* Properties. *)

\* Every value in a generation was computed from the data that generation
\* holds for its parents, and every root from that generation's document: a
\* carried-forward value is never stale (mapNode.recompute, derived.go:242).
ConsistentOn(config, vals) ==
    \A n \in Nodes : Present(vals, n) =>
        /\ Root(n) => vals[n].data = Extract[n][config]
        /\ \A p \in Parents[n] : /\ Present(vals, p)
                                 /\ vals[n].from[p] = vals[p].data

SnapshotConsistent == ConsistentOn(current.config, current.values)

Live == {<<n, current.values[n].at>> :
            n \in {m \in Nodes : /\ Kind[m] = "resource"
                                 /\ Present(current.values, m)}}

Pending == UNION {InstancesOf(cleanup[a]) : a \in Attempts}

Fates == [live |-> Live, building |-> Building,
          retiring |-> InstancesOf(Retired), pending |-> Pending,
          closed |-> closed, abandoned |-> abandoned]

\* Every resource a transform returned is in exactly one place: published,
\* being built, retired by a swap, waiting for its cleanup, cleaned, or given
\* up by a failed walk or a panicking callback.  So nothing published is ever
\* cleaned, nothing is cleaned twice, and a reload that succeeds leaks nothing
\* (scheduleCleanup, manager.go:223-257).
ResourcesAccounted ==
    /\ LET F == Fates
       IN  /\ built = UNION {F[f] : f \in DOMAIN F}
           /\ \A f, g \in DOMAIN F : f # g => F[f] \cap F[g] = {}
    /\ \A a, b \in Attempts : a # b =>
          InstancesOf(cleanup[a]) \cap InstancesOf(cleanup[b]) = {}

\* No published value can reach a resource whose cleanup has run, carried
\* forward or not.  It needs DirectKeeps: see the run reload_kept_chain.
PublishedResourcesOpen ==
    \A n \in Nodes : current.values[n].held \cap closed = {}

\* A resource waiting for its cleanup is open, and so is everything it was
\* built on: a child is cleaned before the parent it uses (manager.go:230).
ChildrenClosedFirst ==
    \A a \in Attempts : \A i \in cleanup[a] : i.held \cap closed = {}

\* A value whose parents did not change over a swap is the same object: its
\* transform did not run ("If the parent value hasn't changed, the transform
\* is not called", derived.go:274).  A resource parent changed if it is
\* another instance, any other one if its data differs.
SameOver(n) ==
    /\ Present(current.values, n)
    /\ current'.values[n].data = current.values[n].data
    /\ Kind[n] = "resource" => current'.values[n].at = current.values[n].at

UnchangedParentsKeepValue ==
    [][\A n \in Nodes :
          /\ ~Root(n)
          /\ Present(current.values, n)
          /\ \A p \in Parents[n] : SameOver(p)
          => current'.values[n] = current.values[n]]_vars

\* Whatever is published, by a reload or by a TestVal's constructor, has every
\* value registered by then: Get never finds a node missing that a successful
\* reload has walked (panicGetUnregistered, derived.go:68).
EveryNodePublished ==
    [][current' # current =>
          \A n \in Nodes : n < registered' => Present(current'.values, n)]_vars

\* A retired resource is eventually cleaned, unless a failure gave it up: a
\* resource does not wait in a batch or in an unfinished reload for ever.
RetiredIsCleaned ==
    \A r \in {i \in Instance : Kind[i[1]] = "resource"} :
        (r \in built /\ r \notin Live) ~> (r \in Live \cup closed \cup abandoned)

\* Reloads publish one consistent snapshot at a time.
Atomic == INSTANCE AtomicConfig WITH
    snapshot <- [version |-> current.version, config |-> current.config,
                 values |-> [n \in Nodes |->
                               [data |-> current.values[n].data,
                                from |-> current.values[n].from]]]

\* The pipeline implements the abstract snapshot: no reader ever sees a state
\* between two generations, nor one without a value it had before.
ImplementsAtomicConfig == Atomic!Spec
=============================================================================
