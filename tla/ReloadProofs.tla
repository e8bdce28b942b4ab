---------------------------- MODULE ReloadProofs ----------------------------
(***************************************************************************)
(* Theorems about Reload, for every DAG, every set of documents and every  *)
(* number of reloads.                                                      *)
(***************************************************************************)
EXTENDS ReloadInv, TLAPS

USE ReloadAssumption DEF ReloadAssumption

(***************************************************************************)
(* One step of the walk.  Whatever node is at pos, its recompute method    *)
(* stores a value v and a dirty flag c that stand in this relation to the  *)
(* part of the walk already done.                                          *)
(***************************************************************************)
StepValue(n, v, c) ==
    /\ v.data # NoData
    /\ v.at >= 1 /\ v.at <= attempt
    /\ Root(n) => v.data = Extract[n][builder.config]
    /\ \A p \in Parents[n] : v.from[p] = builder.values[p].data
    /\ ~c => /\ Present(oldGen.values, n)
             /\ oldGen.values[n].data = v.data
             /\ Kind[n] = "resource" => oldGen.values[n] = v
    /\ c => IF Kind[n] = "resource" THEN v.at = attempt ELSE Changed(n, v.data)
    /\ MayCarry(n) => v = oldGen.values[n] /\ ~c
    /\ ~MayCarry(n) => v.held = Reach(n) /\ v.at = attempt

SetStep(v, c) ==
    /\ Walking
    /\ Set(pos, v, c)
    /\ built' = IF c /\ Kind[pos] = "resource" THEN built \cup {<<pos, attempt>>}
                                               ELSE built

\* A computed value is well-formed, and related to its parents' values.
LEMMA ComputedValue ==
    ASSUME TypeOK, attempt >= 1, Walking, NEW d \in Data
    PROVE  /\ Computed(pos, d) \in Value
           /\ Computed(pos, d).data = d
           /\ Computed(pos, d).at = attempt
           /\ Computed(pos, d).held = Reach(pos)
           /\ attempt >= 1 /\ Computed(pos, d).at <= attempt
           /\ d # NoData
           /\ \A p \in Parents[pos] :
                 Computed(pos, d).from[p] = builder.values[p].data
<1>1. pos \in Nodes /\ attempt \in Attempts
  BY DEF TypeOK, Walking, Nodes, Attempts
<1>2. Reach(pos) \subseteq Instance
  <2>1. <<pos, attempt>> \in Instance
    BY <1>1 DEF Instance
  <2>2. \A p \in Parents[pos] : builder.values[p].held \subseteq Instance
    BY <1>1 DEF TypeOK, Value
  <2>3. UNION {builder.values[p].held : p \in Parents[pos]} \subseteq Instance
    BY <2>2
  <2> QED BY <2>1, <2>3 DEF Reach
<1>3. \A p \in Nodes : builder.values[p].data \in Data \cup {NoData}
  BY DEF TypeOK, Value
<1>4. [p \in Nodes |-> IF p \in Parents[pos] THEN builder.values[p].data
                                            ELSE NoData]
         \in [Nodes -> Data \cup {NoData}]
  BY <1>3
<1>5. Computed(pos, d) \in Value
  BY <1>1, <1>2, <1>4 DEF Computed, Value, Attempts
<1>6. \A p \in Parents[pos] : Computed(pos, d).from[p] = builder.values[p].data
  BY <1>1 DEF Computed
<1> QED BY <1>1, <1>5, <1>6 DEF Computed, Attempts

\* A recomputed plain value is dirty exactly when DeepEqual tells it apart.
LEMMA PlainStep ==
    ASSUME TypeOK, attempt >= 1, Walking, NEW d \in Data, ~MayCarry(pos),
           Kind[pos] # "resource", SetPlain(pos, d),
           Root(pos) => d = Extract[pos][builder.config]
    PROVE  \E v \in Value, c \in BOOLEAN : StepValue(pos, v, c) /\ SetStep(v, c)
<1> DEFINE v == Computed(pos, d)
           c == Changed(pos, d)
<1>1. c \in BOOLEAN
  BY DEF Changed, Present
<1>2. StepValue(pos, v, c)
  BY ComputedValue DEF StepValue, Changed, Present
<1>3. SetStep(v, c)
  BY DEF SetStep, SetPlain
<1> QED BY <1>1, <1>2, <1>3, ComputedValue

\* Every step of the walk stores one value for the node at pos and moves on.
LEMMA WalkStep ==
    ASSUME IInv, Recompute
    PROVE  \E v \in Value, c \in BOOLEAN : StepValue(pos, v, c) /\ SetStep(v, c)
<1> USE DEF IInv
<1>a. Walking
  BY DEF Recompute, RecomputeKey, RecomputeStruct, CarryForward, RecomputeMap,
         RecomputeResource, RecomputeCombine
<1>0. /\ pos \in Nodes /\ attempt >= 1
      /\ builder.config \in Doc
      /\ Extract[pos][builder.config] \in Data
  <2>1. pos \in Nodes
    BY <1>a DEF Walking, TypeOK, Nodes
  <2>2. builder.config \in Doc
    BY <1>a DEF Walking, Framed, InReload
  <2>3. attempt >= 1
    BY <1>a DEF Walking, TypeOK, Framed
  <2> QED BY <2>1, <2>2, <2>3
<1>1. CASE RecomputeKey
  <2>1. ~MayCarry(pos) /\ Kind[pos] # "resource"
    BY <1>1 DEF RecomputeKey, MayCarry, Root
  <2> QED BY <1>0, <1>1, <2>1, PlainStep DEF RecomputeKey
<1>2. CASE RecomputeStruct
  <2>1. ~MayCarry(pos) /\ Kind[pos] # "resource"
    BY <1>2 DEF RecomputeStruct, MayCarry, Root
  <2> QED BY <1>0, <1>2, <2>1, PlainStep DEF RecomputeStruct
<1>3. CASE CarryForward
  <2> DEFINE v == oldGen.values[pos]
  <2>0. oldGen.values[pos].at <= attempt
    BY <1>0, <1>a DEF Walking, Framed, Dated
  <2>1. v \in Value /\ v.data # NoData /\ v.at >= 1 /\ ~Root(pos)
    BY <1>0, <1>3 DEF CarryForward, MayCarry, Present, TypeOK, Dated
  <2>2. \A p \in Parents[pos] : v.from[p] = builder.values[p].data
    <3> SUFFICES ASSUME NEW p \in Parents[pos]
                 PROVE  v.from[p] = builder.values[p].data
      OBVIOUS
    <3>1. p \in Nodes /\ p < pos /\ ~builder.dirty[p]
      BY <1>0, <1>3 DEF CarryForward, MayCarry
    <3>2. v.from[p] = oldGen.values[p].data
      BY <1>0, <1>3, <3>1 DEF CarryForward, MayCarry, Walking, Framed,
         SnapshotConsistent, ConsistentOn
    <3>3. oldGen.values[p].data = builder.values[p].data
      BY <1>3, <3>1 DEF CarryForward, Walking, Walked, InReload
    <3> QED BY <3>2, <3>3
  <2>3. StepValue(pos, v, FALSE)
    <3>1. MayCarry(pos)
      BY <1>3 DEF CarryForward
    <3> QED BY <2>0, <2>1, <2>2, <3>1 DEF StepValue, Present
  <2>4. SetStep(v, FALSE)
    BY <1>3 DEF SetStep, CarryForward
  <2> QED BY <2>1, <2>3, <2>4
<1>4. CASE \E d \in Data : RecomputeMap(d)
  <2> PICK d \in Data : RecomputeMap(d)
    BY <1>4
  <2>1. ~Root(pos) /\ Kind[pos] # "resource"
    BY DEF RecomputeMap, Root
  <2> QED BY <1>0, <2>1, PlainStep DEF RecomputeMap
<1>5. CASE \E d \in Data : RecomputeResource(d)
  <2> PICK d \in Data : RecomputeResource(d)
    BY <1>5
  <2>1. ~Root(pos) /\ Kind[pos] = "resource" /\ ~MayCarry(pos) /\ Walking
    BY DEF RecomputeResource, Root
  <2>2. StepValue(pos, Computed(pos, d), TRUE)
    BY <1>0, <2>1, ComputedValue DEF StepValue
  <2>3. SetStep(Computed(pos, d), TRUE)
    BY <2>1 DEF SetStep, RecomputeResource
  <2> QED BY <1>0, <2>1, <2>2, <2>3, ComputedValue
<1>6. CASE \E d \in Data : RecomputeCombine(d)
  <2> PICK d \in Data : RecomputeCombine(d)
    BY <1>6
  <2>1. ~Root(pos) /\ Kind[pos] # "resource"
    BY DEF RecomputeCombine, Root
  <2> QED BY <1>0, <2>1, PlainStep DEF RecomputeCombine
<1> QED BY <1>1, <1>2, <1>3, <1>4, <1>5, <1>6 DEF Recompute

(***************************************************************************)
(* What generationBuilder.set does to the builder, field by field.         *)
(***************************************************************************)
LEMMA SetEffect ==
    ASSUME TypeOK, NEW v \in Value, NEW c \in BOOLEAN, SetStep(v, c)
    PROVE  /\ pos \in Nodes /\ pos < registered /\ pos' = pos + 1
           /\ builder'.config = builder.config
           /\ builder'.values \in [Nodes -> Value]
           /\ builder'.dirty \in [Nodes -> BOOLEAN]
           /\ builder' \in [config : Doc \cup {NoDoc},
                            values : [Nodes -> Value],
                            dirty : [Nodes -> BOOLEAN]]
           /\ builder'.values[pos] = v
           /\ builder'.dirty[pos] = c
           /\ \A n \in Nodes : n # pos => /\ builder'.values[n] = builder.values[n]
                                        /\ builder'.dirty[n] = builder.dirty[n]
           /\ phase = "walking" /\ phase' = "walking"
           /\ current' = current /\ oldGen' = oldGen
           /\ registered' = registered /\ attempt' = attempt
           /\ cleanup' = cleanup /\ closed' = closed /\ abandoned' = abandoned
           /\ frozen' = frozen
<1>1. pos \in Nodes
  BY DEF SetStep, Walking, TypeOK, Nodes
<1>2. builder' = [builder EXCEPT !.values[pos] = v, !.dirty[pos] = c]
  BY DEF SetStep, Set
<1>3. builder'.values = [builder.values EXCEPT ![pos] = v]
  BY <1>2 DEF TypeOK
<1>4. builder'.dirty = [builder.dirty EXCEPT ![pos] = c]
  BY <1>2 DEF TypeOK
<1>5. builder'.config = builder.config
  BY <1>2 DEF TypeOK
<1>6. builder' \in [config : Doc \cup {NoDoc}, values : [Nodes -> Value],
                   dirty : [Nodes -> BOOLEAN]]
  BY <1>1, <1>2 DEF TypeOK
<1> QED BY <1>1, <1>3, <1>4, <1>5, <1>6 DEF TypeOK, SetStep, Set, Walking

\* Return leaves the locals empty.
LEMMA EmptyLocals ==
    /\ NilGen \in [version : Int, config : Doc \cup {NoDoc},
                   values : [Nodes -> Value]]
    /\ \A d \in Doc \cup {NoDoc} :
          NewBuilder(d) \in [config : Doc \cup {NoDoc},
                            values : [Nodes -> Value], dirty : [Nodes -> BOOLEAN]]
    /\ Absent \in Value
    /\ 0 \in 0 .. NumNodes /\ 0 \in 0 .. MaxAttempts
<1>1. Absent \in Value
  BY DEF Absent, Value
<1> QED BY <1>1 DEF NilGen, NewBuilder, NoValues

-----------------------------------------------------------------------------
(* The inductive invariant, one lemma per conjunct. *)

\* The initial state satisfies the invariant: nothing registered, nil generation.
LEMMA InitInv == Init => IInv
<1> SUFFICES ASSUME Init PROVE IInv
  OBVIOUS
<1> USE DEF Init
<1>1. TypeOK
  <2>1. cleanup \in [Attempts -> SUBSET Item] /\ phase \in Phases
    BY DEF Phases
  <2> QED BY <2>1, EmptyLocals DEF TypeOK
<1>2. Framed
  BY DEF Framed, InReload, NilGen, NoValues, Absent, Present
<1>3. Dated
  BY DEF Dated, NilGen, NewBuilder, NoValues, Absent, Present
<1>4. SnapshotConsistent
  BY DEF SnapshotConsistent, ConsistentOn, NilGen, NoValues, Absent, Present
<1>5. Walked
  BY DEF Walked, InReload
<1>6. Accounted
  <2>1. Live = {} /\ Building = {} /\ Retired = {} /\ Pending = {}
    BY DEF Live, Building, Retired, Pending, InstancesOf, NilGen, NoValues,
           Absent, Present
  <2>2. InstancesOf({}) = {}
    BY DEF InstancesOf
  <2>3. ResourcesAccounted
    BY <2>1, <2>2 DEF ResourcesAccounted, Fates
  <2>4. \A a \in Attempts : cleanup[a] = {}
    OBVIOUS
  <2>5. \A r \in built : FALSE
    OBVIOUS
  <2>6. phase = "idle"
    OBVIOUS
  <2> HIDE DEF Init
  <2> QED BY <2>3, <2>4, <2>5, <2>6 DEF Accounted
<1> QED BY <1>1, <1>2, <1>3, <1>4, <1>5, <1>6 DEF IInv

\* Types are kept by every step of the pipeline.
LEMMA TypeStep == IInv /\ [Next]_vars => TypeOK'
<1> SUFFICES ASSUME IInv, [Next]_vars PROVE TypeOK'
  OBVIOUS
<1> USE DEF IInv
<1>1. CASE Register
  BY <1>1 DEF Register, TypeOK
<1>2. CASE \E start \in BOOLEAN : Begin(start)
  BY <1>2 DEF Begin, TypeOK, Phases
<1>3. CASE Reject
  BY <1>3, EmptyLocals DEF Reject, Return, TypeOK, Phases
<1>4. CASE \E d \in Doc : Accept(d)
  BY <1>4, EmptyLocals DEF Accept, TypeOK, Phases
<1>5. CASE Recompute
  <2> PICK v \in Value, c \in BOOLEAN : StepValue(pos, v, c) /\ SetStep(v, c)
    BY <1>5, WalkStep
  <2>1. pos' \in 0 .. NumNodes
    BY SetEffect DEF TypeOK, Nodes
  <2>2. built' \subseteq Instance
    <3>1. <<pos, attempt>> \in Instance
      BY SetEffect DEF Instance, Attempts, TypeOK, Framed
    <3> QED BY <3>1 DEF SetStep, TypeOK
  <2> QED BY <2>1, <2>2, SetEffect DEF TypeOK
<1>6. CASE Abort
  <2>1. Building \subseteq Instance
    BY DEF Building, Instance, Attempts, TypeOK, Framed
  <2> QED BY <1>6, <2>1, EmptyLocals DEF Abort, Return, TypeOK, Phases
<1>7. CASE Publish
  <2>1. current' \in [version : Int, config : Doc \cup {NoDoc},
                     values : [Nodes -> Value]]
    BY <1>7 DEF Publish, TypeOK
  <2>2. /\ phase' \in Phases
        /\ pos' \in 0 .. NumNodes
        /\ oldGen' \in [version : Int, config : Doc \cup {NoDoc},
                        values : [Nodes -> Value]]
        /\ builder' \in [config : Doc \cup {NoDoc}, values : [Nodes -> Value],
                         dirty : [Nodes -> BOOLEAN]]
    BY <1>7, EmptyLocals DEF Publish, Return, TypeOK, Phases
  <2> QED BY <1>7, <2>1, <2>2 DEF Publish, TypeOK
<1>8. CASE ScheduleCleanup
  <2>1. Retired \subseteq Item
    <3> SUFFICES ASSUME NEW n \in Nodes, Present(oldGen.values, n)
                 PROVE  [node |-> n, at |-> oldGen.values[n].at,
                         held |-> oldGen.values[n].held] \in Item
      BY DEF Retired
    <3>1. oldGen.values[n] \in Value /\ oldGen.values[n].at >= 1
      BY DEF TypeOK, Dated
    <3> QED BY <3>1 DEF Item, Value, Attempts
  <2> QED BY <1>8, <2>1, EmptyLocals DEF ScheduleCleanup, Return, TypeOK, Phases
<1>9. CASE CallbackPanic
  <2>1. InstancesOf(Retired) \subseteq Instance
    <3> SUFFICES ASSUME NEW n \in Nodes, Present(oldGen.values, n)
                 PROVE  <<n, oldGen.values[n].at>> \in Instance
      BY DEF Retired, InstancesOf
    <3>1. oldGen.values[n] \in Value /\ oldGen.values[n].at >= 1
      BY DEF TypeOK, Dated
    <3> QED BY <3>1 DEF Instance, Value, Attempts
  <2> QED BY <1>9, <2>1, EmptyLocals DEF CallbackPanic, Return, TypeOK, Phases
<1>10. CASE \E a \in Attempts : CleanupStep(a)
  <2> PICK a \in Attempts : \E i \in cleanup[a] : CleanupItem(a, i)
    BY <1>10 DEF CleanupStep
  <2> PICK i \in cleanup[a] : CleanupItem(a, i)
    OBVIOUS
  <2>1. i \in Item
    BY DEF TypeOK
  <2>2. <<i.node, i.at>> \in Instance
    BY <2>1 DEF Item, Instance
  <2> QED BY <2>2 DEF CleanupItem, TypeOK
<1>11. CASE UNCHANGED vars
  BY <1>11 DEF vars, TypeOK
<1> QED BY <1>1, <1>2, <1>3, <1>4, <1>5, <1>6, <1>7, <1>8, <1>9, <1>10, <1>11
        DEF Next, ReloadStep

\* A reload's locals live from Accept to its return, whichever way it returns.
LEMMA FramedStep == IInv /\ [Next]_vars => Framed'
<1> SUFFICES ASSUME IInv, [Next]_vars PROVE Framed'
  OBVIOUS
<1> USE DEF IInv
<1>1. CASE Register
  BY <1>1 DEF Register, Framed, InReload, TypeOK, Nodes
<1>2. CASE \E start \in BOOLEAN : Begin(start)
  BY <1>2 DEF Begin, Framed, InReload, TypeOK
<1>3. CASE Reject
  BY <1>3 DEF Reject, Return, Framed, InReload
<1>4. CASE \E d \in Doc : Accept(d)
  BY <1>4 DEF Accept, Framed, InReload, NewBuilder, TypeOK
<1>5. CASE Recompute
  <2> PICK v \in Value, c \in BOOLEAN : StepValue(pos, v, c) /\ SetStep(v, c)
    BY <1>5, WalkStep
  <2> QED BY SetEffect DEF Framed, InReload, TypeOK
<1>6. CASE Abort
  BY <1>6 DEF Abort, Return, Framed, InReload
<1>7. CASE Publish
  <2>1. current'.version \in Int /\ current'.version >= 0
    BY <1>7 DEF Publish, Framed, TypeOK
  <2>2. /\ current'.config = builder.config
        /\ current'.values = builder.values
    BY <1>7 DEF Publish
  <2>3. current'.config \in Doc
    BY <1>7, <2>2 DEF Publish, Framed, InReload
  <2>4. \A n \in Nodes : Present(current'.values, n) => n < registered'
    BY <1>7, <2>2 DEF Publish, Walked, InReload, Present, Absent, Nodes, TypeOK
  <2>5. CASE oldGen.version = -1
    BY <1>7, <2>1, <2>3, <2>4, <2>5 DEF Publish, Return, Framed, InReload
  <2>6. CASE oldGen.version # -1
    BY <1>7, <2>1, <2>3, <2>4, <2>6 DEF Publish, Framed, InReload
  <2> QED BY <2>5, <2>6
<1>8. CASE ScheduleCleanup
  BY <1>8 DEF ScheduleCleanup, Return, Framed, InReload
<1>9. CASE CallbackPanic
  BY <1>9 DEF CallbackPanic, Return, Framed, InReload
<1>10. CASE \E a \in Attempts : CleanupStep(a)
  BY <1>10 DEF CleanupStep, CleanupItem, Framed, InReload
<1>11. CASE UNCHANGED vars
  BY <1>11 DEF vars, Framed, InReload
<1> QED BY <1>1, <1>2, <1>3, <1>4, <1>5, <1>6, <1>7, <1>8, <1>9, <1>10, <1>11
        DEF Next, ReloadStep

\* Only the walk in progress makes values of the present attempt.
LEMMA DatedStep == IInv /\ [Next]_vars => Dated'
<1> SUFFICES ASSUME IInv, [Next]_vars PROVE Dated'
  OBVIOUS
<1> USE DEF IInv
<1>a. /\ \A n \in Nodes : ~Present(NilGen.values, n)
      /\ \A d : \A n \in Nodes : /\ ~Present(NewBuilder(d).values, n)
                                  /\ NewBuilder(d).values[n].at = 0
  BY DEF NilGen, NewBuilder, NoValues, Absent, Present
<1>b. attempt >= 0
  BY DEF TypeOK
<1>1. CASE Register
  BY <1>1 DEF Register, Dated
<1>2. CASE \E start \in BOOLEAN : Begin(start)
  BY <1>2 DEF Begin, Dated, TypeOK, Value
<1>3. CASE Reject
  BY <1>3, <1>a, <1>b DEF Reject, Return, Dated
<1>4. CASE \E d \in Doc : Accept(d)
  BY <1>4, <1>a, <1>b DEF Accept, Dated
<1>5. CASE Recompute
  <2> PICK v \in Value, c \in BOOLEAN : StepValue(pos, v, c) /\ SetStep(v, c)
    BY <1>5, WalkStep
  <2>1. \A n \in Nodes : builder'.values[n].at <= attempt'
    BY SetEffect DEF Dated, StepValue
  <2>2. \A n \in Nodes : Present(builder'.values, n) => builder'.values[n].at >= 1
    BY SetEffect DEF Dated, StepValue, Present
  <2> QED BY <2>1, <2>2, SetEffect DEF Dated, Present
<1>6. CASE Abort
  BY <1>6, <1>a, <1>b DEF Abort, Return, Dated
<1>7. CASE Publish
  <2>1. current'.values = builder.values /\ attempt' = attempt
    BY <1>7 DEF Publish
  <2>2. \A n \in Nodes : builder.values[n].at <= attempt
    BY DEF Dated
  <2>3. \A n \in Nodes : ~Present(builder.values, n) => builder.values[n] = Absent
    BY <1>7 DEF Publish, Walked, InReload, TypeOK, Nodes
  <2>4. phase' \notin {"fetching", "walking"}
    BY <1>7 DEF Publish, Return
  <2>5. (builder' = builder /\ oldGen' = oldGen)
          \/ (builder' = NewBuilder(NoDoc) /\ oldGen' = NilGen)
    BY <1>7 DEF Publish, Return
  <2>6. /\ \A n \in Nodes : builder'.values[n].at <= attempt
        /\ \A n \in Nodes : Present(builder'.values, n) => builder'.values[n].at >= 1
    BY <1>a, <1>b, <2>2, <2>5 DEF Dated
  <2>7. \A n \in Nodes : Present(oldGen'.values, n) => oldGen'.values[n].at >= 1
    BY <1>a, <2>5 DEF Dated
  <2>8. \A n \in Nodes : Present(builder.values, n) => builder.values[n].at >= 1
    BY DEF Dated
  <2> QED BY <2>1, <2>2, <2>3, <2>4, <2>6, <2>7, <2>8 DEF Dated, Present
<1>8. CASE ScheduleCleanup
  BY <1>8, <1>a, <1>b DEF ScheduleCleanup, Return, Dated
<1>9. CASE CallbackPanic
  BY <1>9, <1>a, <1>b DEF CallbackPanic, Return, Dated
<1>10. CASE \E a \in Attempts : CleanupStep(a)
  BY <1>10 DEF CleanupStep, CleanupItem, Dated
<1>11. CASE UNCHANGED vars
  BY <1>11 DEF vars, Dated
<1> QED BY <1>1, <1>2, <1>3, <1>4, <1>5, <1>6, <1>7, <1>8, <1>9, <1>10, <1>11
        DEF Next, ReloadStep

\* Only Publish changes the generation, and it publishes a finished walk.
LEMMA SnapshotStep == IInv /\ [Next]_vars => SnapshotConsistent'
<1> SUFFICES ASSUME IInv, [Next]_vars PROVE SnapshotConsistent'
  OBVIOUS
<1>1. CASE Publish
  BY <1>1 DEF IInv, Publish, Walked, InReload, SnapshotConsistent
<1>2. CASE ~Publish
  <2>1. current' = current
    <3>1. CASE Recompute
      BY <3>1, WalkStep DEF SetStep, Set
    <3> QED BY <1>2, <3>1
            DEF Next, ReloadStep, Register, Begin, Reject, Accept, Abort, Return,
                ScheduleCleanup, CallbackPanic, CleanupStep, CleanupItem, vars
  <2> QED BY <2>1 DEF IInv, SnapshotConsistent, ConsistentOn, Present
<1> QED BY <1>1, <1>2

\* One recompute (derived.go:91-381) extends what the walk has established by
\* one node: its value fits its parents' and its dirty bit tells the truth.
LEMMA WalkedRecompute == IInv /\ Recompute => Walked'
<1> SUFFICES ASSUME IInv, Recompute PROVE Walked'
  OBVIOUS
<1> TypeOK /\ Walked
  BY DEF IInv
<1> PICK v \in Value, c \in BOOLEAN : StepValue(pos, v, c) /\ SetStep(v, c)
  BY WalkStep
<1>s. /\ pos \in Nodes /\ pos' = pos + 1
      /\ builder'.config = builder.config
      /\ builder'.values[pos] = v /\ builder'.dirty[pos] = c
      /\ \A n \in Nodes : n # pos => /\ builder'.values[n] = builder.values[n]
                                   /\ builder'.dirty[n] = builder.dirty[n]
      /\ phase = "walking" /\ oldGen' = oldGen /\ attempt' = attempt
  BY SetEffect
<1>v. StepValue(pos, v, c)
  OBVIOUS
<1>w. Walked /\ InReload
  BY <1>s DEF InReload
<1>w1. ConsistentOn(builder.config, builder.values)
  BY <1>w DEF Walked
<1>w2. \A n \in Nodes : n >= pos => builder.values[n] = Absent /\ ~builder.dirty[n]
  BY <1>w DEF Walked
<1>w3. \A n \in Nodes : n < pos => Present(builder.values, n)
  BY <1>w DEF Walked
<1>w4. \A n \in Nodes : n < pos /\ ~builder.dirty[n] =>
         /\ Present(oldGen.values, n)
         /\ oldGen.values[n].data = builder.values[n].data
         /\ Kind[n] = "resource" => oldGen.values[n] = builder.values[n]
  BY <1>w DEF Walked
<1>w5. \A n \in Nodes : n < pos /\ builder.dirty[n] =>
         IF Kind[n] = "resource" THEN builder.values[n].at = attempt
                                 ELSE Changed(n, builder.values[n].data)
  BY <1>w DEF Walked
<1>w6. \A n \in Nodes : n < pos /\ MayCarry(n) =>
         builder.values[n] = oldGen.values[n] /\ ~builder.dirty[n]
  BY <1>w DEF Walked
<1>t. pos \in Int /\ pos' \in Int /\ \A n \in Nodes : n \in Int /\ Parents[n] \subseteq Nodes
  BY <1>s DEF TypeOK, Nodes
<1>b. \A n \in Nodes : /\ n < pos' <=> (n < pos \/ n = pos)
                      /\ n >= pos' => n >= pos /\ n # pos
  BY <1>s, <1>t
<1>c. \A n \in Nodes : n < pos => n # pos
  BY <1>t
<1>d. \A n \in Nodes : n <= pos => \A p \in Parents[n] :
         p \in Nodes /\ p < pos /\ p # pos
  BY <1>t
<1>1. ConsistentOn(builder.config, builder.values)'
  <2> SUFFICES ASSUME NEW n \in Nodes, Present(builder.values, n)'
               PROVE  /\ Root(n) => builder'.values[n].data
                                        = Extract[n][builder'.config]
                      /\ \A p \in Parents[n] :
                            /\ Present(builder.values, p)'
                            /\ builder'.values[n].from[p] = builder'.values[p].data
    BY DEF ConsistentOn
  <2>1. n < pos \/ n = pos
    BY <1>s, <1>t, <1>w2 DEF Present, Absent
  <2>2. \A p \in Parents[n] : Present(builder.values, p)'
                              /\ builder'.values[p] = builder.values[p]
    <3> TAKE p \in Parents[n]
    <3>1. n <= pos
      BY <1>t, <2>1
    <3>2. p \in Nodes /\ p < pos /\ p # pos
      BY <1>d, <3>1
    <3>3. builder'.values[p] = builder.values[p] /\ Present(builder.values, p)
      BY <1>s, <1>w3, <3>2
    <3> QED BY <3>3 DEF Present
  <2>3. CASE n = pos
    BY <1>t, <2>2, <2>3, <1>s, <1>v DEF StepValue
  <2>4. CASE n < pos
    BY <1>t, <1>c, <1>s, <1>w1, <2>2, <2>4 DEF ConsistentOn, Present
  <2> QED BY <2>1, <2>3, <2>4
<1>2. \A n \in Nodes : n >= pos' => builder'.values[n] = Absent /\ ~builder'.dirty[n]
  BY <1>t, <1>b, <1>s, <1>w2
<1>3. \A n \in Nodes : n < pos' => Present(builder.values, n)'
  <2>1. v.data # NoData
    BY <1>v DEF StepValue
  <2> TAKE n \in Nodes
  <2> HAVE n < pos'
  <2>2. n < pos \/ n = pos
    <3>1. n \in Int /\ pos \in Int /\ pos' = pos + 1
      BY <1>s, <1>t
    <3> QED BY <3>1
  <2>3. CASE n = pos
    BY <1>s, <2>1, <2>3 DEF Present
  <2>4. CASE n < pos
    BY <1>c, <1>s, <1>w3, <2>4 DEF Present
  <2> QED BY <2>2, <2>3, <2>4
<1>4. \A n \in Nodes : n < pos' /\ ~builder'.dirty[n] =>
         /\ Present(oldGen.values, n)'
         /\ oldGen'.values[n].data = builder'.values[n].data
         /\ Kind[n] = "resource" => oldGen'.values[n] = builder'.values[n]
  BY <1>t, <1>b, <1>c, <1>s, <1>v, <1>w4 DEF Present, StepValue
<1>5. \A n \in Nodes : n < pos' /\ builder'.dirty[n] =>
         IF Kind[n] = "resource" THEN builder'.values[n].at = attempt'
                                 ELSE Changed(n, builder.values[n].data)'
  <2> TAKE n \in Nodes
  <2> HAVE n < pos' /\ builder'.dirty[n]
  <2>1. n < pos \/ n = pos
    <3>1. n \in Int /\ pos \in Int /\ pos' = pos + 1
      BY <1>s, <1>t
    <3> QED BY <3>1
  <2>2. CASE n = pos
    BY <2>2, <1>s, <1>v DEF Changed, Present, StepValue
  <2>3. CASE n < pos
    BY <2>3, <1>c, <1>s, <1>w5 DEF Changed, Present
  <2> QED BY <2>1, <2>2, <2>3
<1>6. \A n \in Nodes : n < pos' /\ MayCarry(n)' =>
         builder'.values[n] = oldGen'.values[n] /\ ~builder'.dirty[n]
  <2> SUFFICES ASSUME NEW n \in Nodes, n < pos', MayCarry(n)'
               PROVE  builder'.values[n] = oldGen'.values[n] /\ ~builder'.dirty[n]
    OBVIOUS
  <2>1. n < pos \/ n = pos
    <3>1. n \in Int /\ pos \in Int /\ pos' = pos + 1
      BY <1>s, <1>t
    <3> QED BY <3>1
  <2>2. MayCarry(n)
    <3>1. n <= pos
      BY <1>t, <2>1
    <3>2. \A p \in Parents[n] : ~builder.dirty[p]
      <4> TAKE p \in Parents[n]
      <4>1. p \in Nodes /\ p # pos
        BY <1>d, <3>1
      <4>2. ~builder'.dirty[p]
        BY DEF MayCarry
      <4> QED BY <1>s, <4>1, <4>2
    <3>3. ~Root(n) /\ Present(oldGen.values, n)
      BY <1>s DEF MayCarry, Present
    <3> QED BY <3>2, <3>3 DEF MayCarry
  <2> QED BY <1>t, <1>c, <1>s, <1>v, <1>w6, <2>1, <2>2 DEF StepValue
<1> QED BY <1>1, <1>2, <1>3, <1>4, <1>5, <1>6 DEF Walked

\* The rest of the pipeline keeps what the walk has established.
LEMMA WalkedStep == IInv /\ [Next]_vars => Walked'
<1> SUFFICES ASSUME IInv, [Next]_vars PROVE Walked'
  OBVIOUS
<1> USE DEF IInv
<1>1. CASE InReload'
  <2>1. CASE Recompute
    BY <2>1, WalkedRecompute
  <2>2. CASE \E d \in Doc : Accept(d)
    <3>1. /\ \A n \in Nodes : builder'.values[n] = Absent /\ ~builder'.dirty[n]
          /\ pos' = 0
      BY <2>2 DEF Accept, NewBuilder, NoValues
    <3>2. \A n \in Nodes : ~(n < pos') /\ ~Present(builder.values, n)'
      BY <3>1 DEF Nodes, Present, Absent
    <3> QED BY <3>1, <3>2 DEF Walked, ConsistentOn
  <2>3. CASE Publish
    <3>1. UNCHANGED <<builder, pos, oldGen, attempt>> /\ InReload
      BY <1>1, <2>3 DEF Publish, Return, InReload
    <3> QED BY <3>1 DEF Walked, ConsistentOn, Present, Changed, MayCarry
  <2>4. CASE UNCHANGED <<builder, pos, oldGen, attempt, phase>>
    <3>1. InReload
      BY <1>1, <2>4 DEF InReload
    <3> QED BY <2>4, <3>1 DEF Walked, ConsistentOn, Present, Changed, MayCarry
  <2>5. CASE Register
    BY <2>4, <2>5 DEF Register
  <2>6. CASE \E a \in Attempts : CleanupStep(a)
    BY <2>4, <2>6 DEF CleanupStep, CleanupItem
  <2>7. CASE UNCHANGED vars
    BY <2>4, <2>7 DEF vars
  <2> QED BY <1>1, <2>1, <2>2, <2>3, <2>5, <2>6, <2>7
          DEF Next, ReloadStep, InReload, Begin, Reject, Abort, Return,
              ScheduleCleanup, CallbackPanic
<1>2. CASE ~InReload'
  BY <1>2 DEF Walked
<1> QED BY <1>1, <1>2

-----------------------------------------------------------------------------
(* Where the resources are. *)

Partition(all, L, B, R, P, C, A) ==
    /\ all = L \cup B \cup R \cup P \cup C \cup A
    /\ L \cap B = {} /\ L \cap R = {} /\ L \cap P = {} /\ L \cap C = {} /\ L \cap A = {}
    /\ B \cap R = {} /\ B \cap P = {} /\ B \cap C = {} /\ B \cap A = {}
    /\ R \cap P = {} /\ R \cap C = {} /\ R \cap A = {}
    /\ P \cap C = {} /\ P \cap A = {}
    /\ C \cap A = {}

\* How resources move between the fates.
LEMMA PartitionMoves ==
    ASSUME NEW all, NEW L, NEW B, NEW R, NEW P, NEW C, NEW A,
           Partition(all, L, B, R, P, C, A)
    PROVE  /\ \A x : x \notin all =>
                 Partition(all \cup {x}, L, B \cup {x}, R, P, C, A)
           /\ Partition(all, L, {}, R, P, C, A \cup B)
           /\ \A L2, R2 : (L2 \cup R2 = L \cup B \cup R /\ L2 \cap R2 = {}) =>
                 Partition(all, L2, {}, R2, P, C, A)
           /\ Partition(all, L, B, {}, P \cup R, C, A)
           /\ Partition(all, L, B, {}, P, C, A \cup R)
           /\ \A x \in P : Partition(all, L, B, R, P \ {x}, C \cup {x}, A)
BY DEF Partition

\* The six fates written out.
LEMMA FatesPartition ==
    ASSUME NEW all, NEW L, NEW B, NEW R, NEW P, NEW C, NEW A
    PROVE  LET F == [live |-> L, building |-> B, retiring |-> R, pending |-> P,
                     closed |-> C, abandoned |-> A]
           IN  (/\ all = UNION {F[f] : f \in DOMAIN F}
                /\ \A f, g \in DOMAIN F : f # g => F[f] \cap F[g] = {})
               <=> Partition(all, L, B, R, P, C, A)
<1> DEFINE F == [live |-> L, building |-> B, retiring |-> R, pending |-> P,
                 closed |-> C, abandoned |-> A]
<1>1. DOMAIN F = {"live", "building", "retiring", "pending", "closed", "abandoned"}
  OBVIOUS
<1>2. /\ F["live"] = L /\ F["building"] = B /\ F["retiring"] = R
      /\ F["pending"] = P /\ F["closed"] = C /\ F["abandoned"] = A
  OBVIOUS
<1> HIDE DEF F
<1>3. UNION {F[f] : f \in DOMAIN F} = L \cup B \cup R \cup P \cup C \cup A
  BY <1>1, <1>2
<1>4. (\A f, g \in DOMAIN F : f # g => F[f] \cap F[g] = {})
        <=> Partition(L \cup B \cup R \cup P \cup C \cup A, L, B, R, P, C, A)
  BY <1>1, <1>2 DEF Partition
<1>5. (all = UNION {F[f] : f \in DOMAIN F}
        /\ \A f, g \in DOMAIN F : f # g => F[f] \cap F[g] = {})
      <=> Partition(all, L, B, R, P, C, A)
  BY <1>3, <1>4 DEF Partition
<1> QED BY <1>5 DEF F

Batches ==
    \A a, b \in Attempts : a # b =>
        InstancesOf(cleanup[a]) \cap InstancesOf(cleanup[b]) = {}

AccountedAsPartition ==
    ResourcesAccounted <=>
      /\ Partition(built, Live, Building, InstancesOf(Retired), Pending, closed,
                   abandoned)
      /\ Batches

\* The accounting property says that the six fates partition what was built.
LEMMA AccountedPartition == AccountedAsPartition
BY FatesPartition DEF AccountedAsPartition, ResourcesAccounted, Fates, Batches

\* The same of the next state.
LEMMA AccountedPartitionNext == AccountedAsPartition'
BY AccountedPartition, PTL

\* Membership in the fates that are computed from the generations.
FateMembership ==
    /\ \A r : r \in Live <=>
          \E n \in Nodes : /\ Kind[n] = "resource" /\ Present(current.values, n)
                           /\ r = <<n, current.values[n].at>>
    /\ \A r : r \in Building <=>
          /\ phase = "walking"
          /\ \E n \in Nodes : /\ Kind[n] = "resource"
                              /\ builder.values[n].at = attempt
                              /\ r = <<n, attempt>>
    /\ \A r : r \in InstancesOf(Retired) <=>
          /\ phase = "swapped"
          /\ \E n \in Nodes : /\ Kind[n] = "resource" /\ builder.dirty[n]
                              /\ Present(oldGen.values, n)
                              /\ r = <<n, oldGen.values[n].at>>
    /\ \A r : r \in Pending <=> \E a \in Attempts : r \in InstancesOf(cleanup[a])

\* Which instances are live, being built, retired and pending.
LEMMA FateMembers == FateMembership
<1>1. \A r : r \in Live <=>
          \E n \in Nodes : /\ Kind[n] = "resource" /\ Present(current.values, n)
                           /\ r = <<n, current.values[n].at>>
  BY DEF Live
<1>2. \A r : r \in Building <=>
          /\ phase = "walking"
          /\ \E n \in Nodes : /\ Kind[n] = "resource"
                              /\ builder.values[n].at = attempt
                              /\ r = <<n, attempt>>
  BY DEF Building
<1>3. \A r : r \in InstancesOf(Retired) <=>
          /\ phase = "swapped"
          /\ \E n \in Nodes : /\ Kind[n] = "resource" /\ builder.dirty[n]
                              /\ Present(oldGen.values, n)
                              /\ r = <<n, oldGen.values[n].at>>
  <2> DEFINE M == {m \in Nodes : /\ phase = "swapped"
                                 /\ Kind[m] = "resource"
                                 /\ builder.dirty[m]
                                 /\ Present(oldGen.values, m)}
             item(n) == [node |-> n, at |-> oldGen.values[n].at,
                         held |-> oldGen.values[n].held]
  <2>1. \A n : item(n).node = n /\ item(n).at = oldGen.values[n].at
    OBVIOUS
  <2>2. InstancesOf(Retired) = {<<i.node, i.at>> : i \in {item(n) : n \in M}}
    BY DEF InstancesOf, Retired
  <2>3. \A r : r \in InstancesOf(Retired) <=>
                \E n \in M : r = <<item(n).node, item(n).at>>
    <3> HIDE DEF item, M
    <3> QED BY <2>2
  <2> QED BY <2>1, <2>3
<1>4. \A r : r \in Pending <=> \E a \in Attempts : r \in InstancesOf(cleanup[a])
  BY DEF Pending
<1> QED BY <1>1, <1>2, <1>3, <1>4 DEF FateMembership

\* The same of the next state.
LEMMA FateMembersNext == FateMembership'
BY FateMembers, PTL

\* The parts of Accounted that are not the partition itself.
AccountedRest ==
    /\ \A r \in built : Kind[r[1]] = "resource" /\ r[2] <= attempt
    /\ phase = "fetching" => \A r \in built : r[2] < attempt
    /\ phase = "walking" => \A r \in built : r[2] = attempt => r \in Building
    /\ \A a \in Attempts : a > attempt => cleanup[a] = {}
    /\ phase # "idle" => \A a \in Attempts : a = attempt => cleanup[a] = {}
    /\ \A a \in Attempts : \A i, j \in cleanup[a] : i.node = j.node => i = j

\* Accounted is the property and its strengthening.
LEMMA AccountedParts == Accounted <=> ResourcesAccounted /\ AccountedRest
BY DEF Accounted, AccountedRest

\* A step that moves no resource.
LEMMA NothingMoves ==
    ASSUME IInv, Live' = Live, Building' = Building,
           InstancesOf(Retired)' = InstancesOf(Retired),
           UNCHANGED <<cleanup, built, closed, abandoned>>
    PROVE  ResourcesAccounted'
<1>1. ResourcesAccounted
  BY DEF IInv, Accounted
<1>2. Pending' = Pending
  BY DEF Pending, InstancesOf
<1>3. Batches => Batches'
  BY DEF Batches, InstancesOf
<1> QED BY <1>1, <1>2, <1>3, AccountedPartition, AccountedPartitionNext
        DEF AccountedAsPartition

\* Outside the walk nothing is being built; outside `swapped' nothing retires.
NoWalk == /\ phase # "walking" => Building = {}
          /\ phase # "swapped" => InstancesOf(Retired) = {}

\* The two sets are empty outside their phase, in any state.
LEMMA NoWalkNow == NoWalk
BY DEF NoWalk, Building, Retired, InstancesOf

\* The same of the next state.
LEMMA NoWalkNext == NoWalk'
BY NoWalkNow, PTL

\* A recompute adds a new instance to what is being built, or none.
LEMMA AccountedWalkStep == IInv /\ Recompute => Accounted'
<1> SUFFICES ASSUME IInv, Recompute PROVE Accounted'
  OBVIOUS
<1>i. TypeOK /\ Framed /\ Dated /\ Walked /\ ResourcesAccounted /\ AccountedRest
  BY AccountedParts DEF IInv
<1> PICK v \in Value, c \in BOOLEAN : StepValue(pos, v, c) /\ SetStep(v, c)
  BY WalkStep
<1>s. /\ pos \in Nodes
      /\ builder'.values[pos] = v
      /\ \A n \in Nodes : n # pos => builder'.values[n] = builder.values[n]
      /\ phase = "walking" /\ phase' = "walking" /\ oldGen' = oldGen
      /\ attempt' = attempt /\ current' = current
      /\ cleanup' = cleanup /\ closed' = closed /\ abandoned' = abandoned
  BY <1>i, SetEffect
<1>1. /\ Live' = Live
      /\ InstancesOf(Retired)' = InstancesOf(Retired)
      /\ Pending' = Pending
  <2>1. Live' = Live
    BY <1>s DEF Live, Present
  <2>2. InstancesOf(Retired)' = InstancesOf(Retired)
    BY <1>s, NoWalkNow, NoWalkNext DEF NoWalk
  <2>3. Pending' = Pending
    BY <1>s DEF Pending, InstancesOf
  <2> QED BY <2>1, <2>2, <2>3
<1>2. builder.values[pos].at = 0 /\ attempt > 0 /\ attempt \in Nat
  <2>1. builder.values[pos] = Absent
    BY <1>i, <1>s DEF Walked, InReload, TypeOK, Nodes
  <2>2. attempt > 0 /\ attempt \in Nat
    BY <1>i, <1>s DEF Framed, TypeOK
  <2> QED BY <2>1, <2>2 DEF Absent
<1>b. \A r : r \in Building' <=>
           r \in Building \/ (Kind[pos] = "resource" /\ v.at = attempt
                                /\ r = <<pos, attempt>>)
  <2> TAKE r
  <2>1. r \in Building' <=>
          \E n \in Nodes : /\ Kind[n] = "resource"
                           /\ builder'.values[n].at = attempt
                           /\ r = <<n, attempt>>
    BY <1>s, FateMembersNext DEF FateMembership
  <2>2. r \in Building <=>
          \E n \in Nodes : /\ Kind[n] = "resource"
                           /\ builder.values[n].at = attempt
                           /\ r = <<n, attempt>>
    BY <1>s, FateMembers DEF FateMembership
  <2> QED BY <1>s, <1>2, <2>1, <2>2
<1>3. CASE c /\ Kind[pos] = "resource"
  <2>1. v.at = attempt /\ built' = built \cup {<<pos, attempt>>}
    BY <1>3 DEF StepValue, SetStep
  <2>2. Building' = Building \cup {<<pos, attempt>>}
    BY <1>b, <1>3, <2>1
  <2>3. <<pos, attempt>> \notin Building
    BY <1>2, <1>s, FateMembers DEF FateMembership
  <2>4. <<pos, attempt>> \notin built
    BY <1>i, <1>s, <2>3 DEF AccountedRest
  <2>p. Partition(built, Live, Building, InstancesOf(Retired), Pending, closed,
                  abandoned) /\ Batches
    BY <1>i, AccountedPartition DEF AccountedAsPartition
  <2>q. Partition(built', Live', Building', InstancesOf(Retired)', Pending',
                  closed', abandoned')
    BY <1>s, <1>1, <2>1, <2>2, <2>4, <2>p, PartitionMoves
  <2>r. Batches'
    BY <1>s, <2>p DEF Batches, InstancesOf
  <2>5. ResourcesAccounted'
    BY <2>q, <2>r, AccountedPartitionNext DEF AccountedAsPartition
  <2>6. AccountedRest'
    BY <1>i, <1>s, <1>2, <1>3, <2>1, <2>2 DEF AccountedRest
  <2> QED BY <2>5, <2>6 DEF Accounted, AccountedRest
<1>4. CASE ~(c /\ Kind[pos] = "resource")
  <2>1. built' = built
    BY <1>4 DEF SetStep
  <2>2. Kind[pos] = "resource" => v.at # attempt
    <3> SUFFICES ASSUME Kind[pos] = "resource" PROVE v.at # attempt
      OBVIOUS
    <3>1. v = current.values[pos]
      BY <1>4, <1>i, <1>s DEF StepValue, Framed
    <3>2. current.values[pos].at < attempt
      BY <1>i, <1>s DEF Dated
    <3> QED BY <1>i, <1>2, <3>1, <3>2 DEF Value
  <2>3. Building' = Building
    BY <1>b, <2>2
  <2>4. ResourcesAccounted'
    BY <1>s, <1>1, <2>1, <2>3, NothingMoves
  <2>5. AccountedRest'
    BY <1>i, <1>s, <2>1, <2>3 DEF AccountedRest
  <2> QED BY <2>4, <2>5 DEF Accounted, AccountedRest
<1> QED BY <1>3, <1>4

\* The swap: what is published is what was carried and what was built; the old
\* instances of the dirty nodes are retired.
LEMMA AccountedPublish == IInv /\ Publish => Accounted'
<1> SUFFICES ASSUME IInv, Publish PROVE Accounted'
  OBVIOUS
<1>i. TypeOK /\ Framed /\ Dated /\ Walked /\ ResourcesAccounted /\ AccountedRest
  BY AccountedParts DEF IInv
<1>s. /\ phase = "walking" /\ pos = registered /\ oldGen = current
      /\ current'.values = builder.values
      /\ UNCHANGED <<attempt, cleanup, built, closed, abandoned>>
      /\ attempt \in Nat /\ attempt > 0 /\ pos \in Int /\ InReload
  BY <1>i DEF Publish, Framed, TypeOK, InReload
<1>o. \/ current.version = -1 /\ phase' = "idle"
      \/ /\ current.version # -1 /\ phase' = "swapped"
         /\ builder' = builder /\ oldGen' = oldGen
  BY <1>s DEF Publish, Return
<1>n. \A n \in Nodes : n \in Int /\ (n < pos \/ n >= pos)
  BY <1>s DEF Nodes
<1>1. Building' = {} /\ InstancesOf(Retired) = {}
  BY <1>o, <1>s, NoWalkNow, NoWalkNext DEF NoWalk
<1>l. \A r : r \in Live <=>
          \E n \in Nodes : /\ Kind[n] = "resource" /\ Present(current.values, n)
                           /\ r = <<n, current.values[n].at>>
  BY FateMembers DEF FateMembership
<1>m. \A r : r \in Live' <=>
          \E n \in Nodes : /\ Kind[n] = "resource" /\ Present(builder.values, n)
                           /\ r = <<n, builder.values[n].at>>
  BY <1>s, FateMembersNext DEF FateMembership, Present
<1>b. \A r : r \in Building <=>
          \E n \in Nodes : /\ Kind[n] = "resource"
                           /\ builder.values[n].at = attempt
                           /\ r = <<n, attempt>>
  BY <1>s, FateMembers DEF FateMembership
<1>r. \A r : r \in InstancesOf(Retired)' <=>
          \E n \in Nodes : /\ Kind[n] = "resource" /\ builder.dirty[n]
                           /\ Present(current.values, n)
                           /\ r = <<n, current.values[n].at>>
  <2>1. CASE current.version = -1
    <3>1. \A n \in Nodes : ~Present(current.values, n)
      BY <1>i, <2>1 DEF Framed, NilGen, NoValues, Absent, Present
    <3>2. InstancesOf(Retired)' = {}
      BY <1>o, <2>1, NoWalkNext DEF NoWalk
    <3> QED BY <3>1, <3>2
  <2>2. CASE current.version # -1
    <3>1. phase' = "swapped" /\ builder' = builder /\ oldGen' = current
      BY <1>o, <1>s, <2>2
    <3> QED BY <3>1, FateMembersNext DEF FateMembership, Present
  <2> QED BY <2>1, <2>2
<1>d. \A n \in Nodes : Kind[n] = "resource" =>
         /\ Present(builder.values, n) <=> n < pos
         /\ Present(current.values, n) => n < pos
         /\ n < pos /\ ~builder.dirty[n] => /\ builder.values[n] = current.values[n]
                                           /\ Present(current.values, n)
         /\ n < pos /\ builder.dirty[n] => builder.values[n].at = attempt
         /\ ~(n < pos) => builder.values[n].at # attempt
         /\ current.values[n].at # attempt
  <2> SUFFICES ASSUME NEW n \in Nodes, Kind[n] = "resource"
               PROVE  /\ Present(builder.values, n) <=> n < pos
                      /\ Present(current.values, n) => n < pos
                      /\ n < pos /\ ~builder.dirty[n] =>
                            /\ builder.values[n] = current.values[n]
                            /\ Present(current.values, n)
                      /\ n < pos /\ builder.dirty[n] => builder.values[n].at = attempt
                      /\ ~(n < pos) => builder.values[n].at # attempt
                      /\ current.values[n].at # attempt
    OBVIOUS
  <2>1. n >= pos => builder.values[n].at = 0 /\ ~Present(builder.values, n)
    BY <1>i, <1>s DEF Walked, Absent, Present
  <2>2. n < pos => Present(builder.values, n)
    BY <1>i, <1>s DEF Walked
  <2>3. Present(current.values, n) => n < pos
    BY <1>i, <1>s DEF Framed
  <2>4. n < pos /\ ~builder.dirty[n] => /\ builder.values[n] = current.values[n]
                                       /\ Present(current.values, n)
    BY <1>i, <1>s DEF Walked
  <2>5. n < pos /\ builder.dirty[n] => builder.values[n].at = attempt
    BY <1>i, <1>s DEF Walked
  <2>6. current.values[n].at # attempt
    <3>1. current.values[n].at < attempt /\ current.values[n].at \in Int
      BY <1>i, <1>s DEF Dated, TypeOK, Value
    <3> QED BY <1>s, <3>1
  <2> QED BY <1>n, <1>s, <2>1, <2>2, <2>3, <2>4, <2>5, <2>6
<1>2. Live' \cup InstancesOf(Retired)' = Live \cup Building
  <2>1. ASSUME NEW r \in Live' PROVE r \in Live \cup Building
    BY <1>m, <1>d, <1>l, <1>b
  <2>2. ASSUME NEW r \in InstancesOf(Retired)' PROVE r \in Live
    BY <1>r, <1>l
  <2>3. ASSUME NEW r \in Live PROVE r \in Live' \cup InstancesOf(Retired)'
    BY <1>l, <1>d, <1>m, <1>r
  <2>4. ASSUME NEW r \in Building PROVE r \in Live'
    BY <1>b, <1>d, <1>m
  <2> QED BY <2>1, <2>2, <2>3, <2>4
<1>3. Live' \cap InstancesOf(Retired)' = {}
  BY <1>m, <1>r, <1>d
<1>4. Pending' = Pending /\ (Batches => Batches')
  BY <1>s DEF Pending, Batches, InstancesOf
<1>5. ResourcesAccounted'
  <2>1. Partition(built, Live, Building, InstancesOf(Retired), Pending, closed,
                  abandoned) /\ Batches
    BY <1>i, AccountedPartition DEF AccountedAsPartition
  <2>2. Partition(built', Live', Building', InstancesOf(Retired)', Pending',
                  closed', abandoned')
    <3>1. /\ Live' \cup InstancesOf(Retired)'
               = Live \cup Building \cup InstancesOf(Retired)
          /\ Live' \cap InstancesOf(Retired)' = {}
      BY <1>1, <1>2, <1>3
    <3>2. \A L2, R2 : (/\ L2 \cup R2 = Live \cup Building \cup InstancesOf(Retired)
                       /\ L2 \cap R2 = {})
             => Partition(built, L2, {}, R2, Pending, closed, abandoned)
      BY <2>1, PartitionMoves
    <3>3. Partition(built, Live', {}, InstancesOf(Retired)', Pending, closed,
                    abandoned)
      BY <3>1, <3>2
    <3> QED BY <1>s, <1>1, <1>4, <3>3
  <2> QED BY <1>4, <2>1, <2>2, AccountedPartitionNext DEF AccountedAsPartition
<1>6. AccountedRest'
  BY <1>i, <1>s, <1>o DEF AccountedRest
<1> QED BY <1>5, <1>6 DEF Accounted, AccountedRest

\* Every step moves resource instances from one fate to exactly one other
\* (manager.go:186-257): the abort gives up what it built, the swap retires the
\* old instances of dirty nodes, the cleanup closes what waits.
LEMMA AccountedStep == IInv /\ [Next]_vars => Accounted'
<1> SUFFICES ASSUME IInv, [Next]_vars PROVE Accounted'
  OBVIOUS
<1>i. TypeOK /\ Framed /\ Dated /\ ResourcesAccounted /\ AccountedRest
  BY AccountedParts DEF IInv
<1>p. Partition(built, Live, Building, InstancesOf(Retired), Pending, closed,
                abandoned) /\ Batches
  BY <1>i, AccountedPartition DEF AccountedAsPartition
<1>a. attempt \in Int /\ Attempts \subseteq Int
  BY <1>i DEF TypeOK, Attempts
<1>l. current' = current => Live' = Live
  BY DEF Live, Present
<1>q. ASSUME AccountedRest', ResourcesAccounted' PROVE Accounted'
  BY <1>q DEF Accounted, AccountedRest
<1>1. CASE Register \/ (\E d \in Doc : Accept(d)) \/ Reject
             \/ (\E start \in BOOLEAN : Begin(start))
  <2>1. UNCHANGED <<current, cleanup, built, closed, abandoned>>
        /\ phase \in {"idle", "fetching"} /\ phase' # "swapped"
    BY <1>1 DEF Register, Accept, Reject, Begin, Return
  <2>2. Building' = {}
    <3>1. CASE \E d \in Doc : Accept(d)
      <4>1. \A n \in Nodes : builder'.values[n].at = 0 /\ attempt' # 0
        BY <1>i, <3>1 DEF Accept, NewBuilder, NoValues, Absent, Framed
      <4> QED BY <4>1 DEF Building
    <3>2. CASE ~\E d \in Doc : Accept(d)
      BY <1>1, <3>2, NoWalkNext DEF NoWalk, Register, Reject, Begin, Return
    <3> QED BY <3>1, <3>2
  <2>3. Building = {} /\ InstancesOf(Retired) = {} /\ InstancesOf(Retired)' = {}
    BY <2>1, NoWalkNow, NoWalkNext DEF NoWalk
  <2>4. ResourcesAccounted'
    BY <1>l, <2>1, <2>2, <2>3, NothingMoves
  <2>5. AccountedRest'
    <3>1. CASE \E start \in BOOLEAN : Begin(start)
      <4>1. phase' = "fetching" /\ attempt' = attempt + 1
        BY <3>1 DEF Begin
      <4>2. \A r \in built : Kind[r[1]] = "resource" /\ r[2] \in Int
                             /\ r[2] <= attempt
        BY <1>i DEF AccountedRest, TypeOK, Instance, Attempts
      <4> QED BY <1>a, <1>i, <2>1, <4>1, <4>2 DEF AccountedRest
    <3>2. CASE \E d \in Doc : Accept(d)
      <4>1. phase = "fetching" /\ phase' = "walking" /\ attempt' = attempt
        BY <3>2 DEF Accept
      <4>2. \A r \in built : r[2] # attempt
        BY <1>a, <1>i, <4>1 DEF AccountedRest, TypeOK, Instance, Attempts
      <4> QED BY <1>i, <2>1, <4>1, <4>2 DEF AccountedRest
    <3>3. CASE Reject \/ Register
      <4>1. phase' = "idle" /\ attempt' = attempt
        BY <3>3 DEF Reject, Return, Register
      <4> QED BY <1>i, <2>1, <4>1 DEF AccountedRest
    <3> QED BY <1>1, <3>1, <3>2, <3>3
  <2> QED BY <1>q, <2>4, <2>5
<1>2. CASE Recompute
  BY <1>2, AccountedWalkStep
<1>3. CASE Publish
  BY <1>3, AccountedPublish
<1>4. CASE Abort
  <2>1. /\ UNCHANGED <<current, cleanup, built, closed, attempt>>
        /\ phase = "walking" /\ phase' = "idle"
        /\ abandoned' = abandoned \cup Building
    BY <1>4 DEF Abort, Return, Walking
  <2>2. /\ Building' = {} /\ InstancesOf(Retired) = {} /\ InstancesOf(Retired)' = {}
        /\ Pending' = Pending /\ (Batches => Batches')
    BY <2>1, NoWalkNow, NoWalkNext DEF NoWalk, Pending, Batches, InstancesOf
  <2>3. Partition(built', Live', Building', InstancesOf(Retired)', Pending',
                  closed', abandoned')
    BY <1>l, <1>p, <2>1, <2>2, PartitionMoves
  <2>4. AccountedRest'
    BY <1>i, <2>1 DEF AccountedRest
  <2> QED BY <1>p, <1>q, <2>2, <2>3, <2>4, AccountedPartitionNext
          DEF AccountedAsPartition
<1>5. CASE ScheduleCleanup
  <2>1. /\ UNCHANGED <<current, built, closed, abandoned, attempt>>
        /\ phase = "swapped" /\ phase' = "idle"
        /\ cleanup' = [cleanup EXCEPT ![attempt] = Retired]
    BY <1>5 DEF ScheduleCleanup, Return
  <2>2. attempt \in Attempts /\ cleanup[attempt] = {}
    BY <1>i, <2>1 DEF Framed, TypeOK, Attempts, AccountedRest
  <2>3. /\ cleanup'[attempt] = Retired
        /\ \A a \in Attempts : a # attempt => cleanup'[a] = cleanup[a]
    BY <1>i, <2>1, <2>2 DEF TypeOK
  <2>4. InstancesOf({}) = {}
    BY DEF InstancesOf
  <2>5. \A a \in Attempts : /\ a # attempt => InstancesOf(cleanup'[a]) = InstancesOf(cleanup[a])
                            /\ a = attempt => InstancesOf(cleanup'[a]) = InstancesOf(Retired)
    BY <2>3
  <2>6. Pending = UNION {InstancesOf(cleanup[a]) : a \in Attempts}
        /\ Pending' = UNION {InstancesOf(cleanup'[a]) : a \in Attempts}
    BY DEF Pending, InstancesOf
  <2>7. Pending' = Pending \cup InstancesOf(Retired)
    <3>1. \A r : /\ r \in Pending <=> \E a \in Attempts : r \in InstancesOf(cleanup[a])
                 /\ r \in Pending' <=> \E a \in Attempts : r \in InstancesOf(cleanup'[a])
      BY <2>6
    <3>2. InstancesOf(cleanup[attempt]) = {}
      BY <2>2, <2>4
    <3>3. ASSUME NEW r \in Pending PROVE r \in Pending'
      <4>1. PICK a \in Attempts : r \in InstancesOf(cleanup[a])
        BY <3>1, <3>3
      <4>2. a # attempt
        BY <3>2, <4>1
      <4> QED BY <2>5, <3>1, <4>1, <4>2
    <3>4. ASSUME NEW r \in InstancesOf(Retired) PROVE r \in Pending'
      BY <2>2, <2>5, <3>1, <3>4
    <3>5. ASSUME NEW r \in Pending' PROVE r \in Pending \cup InstancesOf(Retired)
      <4>1. PICK a \in Attempts : r \in InstancesOf(cleanup'[a])
        BY <3>1, <3>5
      <4>2. CASE a = attempt
        BY <2>5, <4>1, <4>2
      <4>3. CASE a # attempt
        BY <2>5, <3>1, <4>1, <4>3
      <4> QED BY <4>2, <4>3
    <3> QED BY <3>3, <3>4, <3>5
  <2>8. Building = {} /\ Building' = {} /\ InstancesOf(Retired)' = {}
    BY <2>1, NoWalkNow, NoWalkNext DEF NoWalk
  <2>9. Partition(built', Live', Building', InstancesOf(Retired)', Pending',
                  closed', abandoned')
    <3>1. Partition(built, Live, Building, {}, Pending \cup InstancesOf(Retired),
                    closed, abandoned)
      BY <1>p, PartitionMoves
    <3> QED BY <1>l, <2>1, <2>7, <2>8, <3>1
  <2>10. \A a, b \in Attempts : a # b =>
            InstancesOf(cleanup'[a]) \cap InstancesOf(cleanup'[b]) = {}
    <3>1. \A a \in Attempts : InstancesOf(cleanup[a]) \cap InstancesOf(Retired) = {}
      BY <1>p, <2>6 DEF Partition
    <3> QED BY <1>p, <2>5, <3>1 DEF Batches
  <2>11. Batches'
    BY <2>10 DEF Batches, InstancesOf
  <2>12. \A i, j \in Retired : i.node = j.node => i = j
    BY DEF Retired
  <2>13. AccountedRest'
    BY <1>a, <1>i, <2>1, <2>2, <2>3, <2>12 DEF AccountedRest
  <2> QED BY <1>q, <2>9, <2>11, <2>13, AccountedPartitionNext
          DEF AccountedAsPartition
<1>6. CASE CallbackPanic
  <2>1. /\ UNCHANGED <<current, cleanup, built, closed, attempt>>
        /\ phase = "swapped" /\ phase' = "idle"
        /\ abandoned' = abandoned \cup InstancesOf(Retired)
    BY <1>6 DEF CallbackPanic, Return
  <2>2. /\ Building' = {} /\ Building = {} /\ InstancesOf(Retired)' = {}
        /\ Pending' = Pending /\ (Batches => Batches')
    BY <2>1, NoWalkNow, NoWalkNext DEF NoWalk, Pending, Batches, InstancesOf
  <2>3. Partition(built', Live', Building', InstancesOf(Retired)', Pending',
                  closed', abandoned')
    <3>1. Partition(built, Live, Building, {}, Pending, closed,
                    abandoned \cup InstancesOf(Retired))
      BY <1>p, PartitionMoves
    <3> QED BY <1>l, <2>1, <2>2, <3>1
  <2>4. AccountedRest'
    BY <1>i, <2>1 DEF AccountedRest
  <2> QED BY <1>p, <1>q, <2>2, <2>3, <2>4, AccountedPartitionNext
          DEF AccountedAsPartition
<1>7. CASE \E a \in Attempts : CleanupStep(a)
  <2> PICK a \in Attempts : \E i \in cleanup[a] : CleanupItem(a, i)
    BY <1>7 DEF CleanupStep
  <2> PICK i \in cleanup[a] : CleanupItem(a, i)
    OBVIOUS
  <2> DEFINE x == <<i.node, i.at>>
  <2>1. /\ UNCHANGED <<current, phase, builder, oldGen, built, abandoned, attempt>>
        /\ cleanup' = [cleanup EXCEPT ![a] = @ \ {i}]
        /\ closed' = closed \cup {x}
    BY DEF CleanupItem
  <2>2. cleanup'[a] = cleanup[a] \ {i}
        /\ \A b \in Attempts : b # a => cleanup'[b] = cleanup[b]
    BY <1>i, <2>1 DEF TypeOK
  <2>3. InstancesOf(cleanup'[a]) = InstancesOf(cleanup[a]) \ {x}
    <3>1. \A j \in cleanup[a] : <<j.node, j.at>> = x => j = i
      BY <1>i DEF AccountedRest
    <3> QED BY <2>2, <3>1 DEF InstancesOf
  <2>4. x \in InstancesOf(cleanup[a])
    BY DEF InstancesOf
  <2>5. \A b \in Attempts : b # a => InstancesOf(cleanup'[b]) = InstancesOf(cleanup[b])
                                     /\ x \notin InstancesOf(cleanup[b])
    BY <1>p, <2>2, <2>4 DEF Batches
  <2>6. Pending = UNION {InstancesOf(cleanup[b]) : b \in Attempts}
        /\ Pending' = UNION {InstancesOf(cleanup'[b]) : b \in Attempts}
    BY DEF Pending, InstancesOf
  <2>7. Pending' = Pending \ {x} /\ x \in Pending
    <3>1. x \in Pending
      BY <2>4, <2>6
    <3>2. ASSUME NEW r \in Pending' PROVE r \in Pending /\ r # x
      <4> PICK b \in Attempts : r \in InstancesOf(cleanup'[b])
        BY <2>6
      <4>1. CASE b = a
        BY <2>3, <2>6, <4>1
      <4>2. CASE b # a
        BY <2>5, <2>6, <4>2
      <4> QED BY <4>1, <4>2
    <3>3. ASSUME NEW r \in Pending, r # x PROVE r \in Pending'
      <4> PICK b \in Attempts : r \in InstancesOf(cleanup[b])
        BY <2>6
      <4>1. r \in InstancesOf(cleanup'[b])
        BY <2>3, <2>5, <3>3
      <4> QED BY <2>6, <4>1
    <3> QED BY <3>1, <3>2, <3>3
  <2>8. /\ Building' = Building /\ InstancesOf(Retired)' = InstancesOf(Retired)
        /\ Live' = Live
    BY <2>1 DEF Building, Retired, InstancesOf, Live, Present
  <2>9. Partition(built', Live', Building', InstancesOf(Retired)', Pending',
                  closed', abandoned')
    <3>1. Partition(built, Live, Building, InstancesOf(Retired), Pending \ {x},
                    closed \cup {x}, abandoned)
      BY <1>p, <2>7, PartitionMoves
    <3> QED BY <2>1, <2>7, <2>8, <3>1
  <2>10. \A b, d \in Attempts : b # d =>
            InstancesOf(cleanup'[b]) \cap InstancesOf(cleanup'[d]) = {}
    BY <1>p, <2>3, <2>5 DEF Batches
  <2>11. Batches'
    BY <2>10 DEF Batches, InstancesOf
  <2>12. AccountedRest'
    BY <1>i, <2>1, <2>2, <2>8 DEF AccountedRest
  <2> QED BY <1>q, <2>9, <2>11, <2>12, AccountedPartitionNext
          DEF AccountedAsPartition
<1>8. CASE UNCHANGED vars
  <2>1. UNCHANGED <<current, phase, builder, oldGen, attempt, cleanup, built,
                    closed, abandoned>>
    BY <1>8 DEF vars
  <2>2. /\ Building' = Building /\ InstancesOf(Retired)' = InstancesOf(Retired)
        /\ Live' = Live
    BY <2>1 DEF Building, Retired, InstancesOf, Live, Present
  <2>3. ResourcesAccounted'
    BY <2>1, <2>2, NothingMoves
  <2>4. AccountedRest'
    BY <1>i, <2>1, <2>2 DEF AccountedRest
  <2> QED BY <1>q, <2>3, <2>4
<1> QED BY <1>1, <1>2, <1>3, <1>4, <1>5, <1>6, <1>7, <1>8 DEF Next, ReloadStep

-----------------------------------------------------------------------------
(* The theorems. *)

\* The strengthening is an invariant of every behaviour.
THEOREM Inductive == Spec => []IInv
<1>1. IInv /\ [Next]_vars => IInv'
  BY TypeStep, FramedStep, DatedStep, SnapshotStep, WalkedStep, AccountedStep
     DEF IInv
<1> QED BY InitInv, <1>1, PTL DEF Spec

\* Type correctness of the reload pipeline (manager.go, generation.go).
THEOREM TypeCorrect == Spec => []TypeOK
BY Inductive, PTL DEF IInv

\* For every DAG, every published generation is the result of one document:
\* no carried-forward value is stale (derived.go:242-247).
THEOREM Consistent == Spec => []SnapshotConsistent
BY Inductive, PTL DEF IInv

\* For every DAG, every resource is in one place: nothing published is cleaned,
\* nothing is cleaned twice, a successful reload leaks nothing
\* (manager.go:223-257).
THEOREM Accounting == Spec => []ResourcesAccounted
BY Inductive, PTL DEF IInv, Accounted

\* The step facts the next two theorems need: what Publish replaces.
LEMMA PublishedWalk ==
    IInv /\ [Next]_vars =>
      \/ current' = current
      \/ /\ Publish /\ InReload /\ pos = registered /\ oldGen = current
         /\ current'.version = current.version + 1
         /\ current'.config = builder.config
         /\ current'.values = builder.values
<1> SUFFICES ASSUME IInv, [Next]_vars
             PROVE  \/ current' = current
                    \/ /\ Publish /\ InReload /\ pos = registered
                       /\ oldGen = current
                       /\ current'.version = current.version + 1
                       /\ current'.config = builder.config
                       /\ current'.values = builder.values
  OBVIOUS
<1>1. CASE Publish
  BY <1>1 DEF Publish, InReload, IInv, Framed
<1>2. CASE Recompute
  BY <1>2, WalkStep DEF SetStep, Set
<1> QED BY <1>1, <1>2
        DEF Next, ReloadStep, Register, Begin, Reject, Accept, Abort, Return,
            ScheduleCleanup, CallbackPanic, CleanupStep, CleanupItem, vars

\* For every DAG, a node none of whose parents changed over a swap keeps the
\* very same value (derived.go:274).
THEOREM Stability == Spec => UnchangedParentsKeepValue
<1> DEFINE A == \A n \in Nodes :
                  /\ ~Root(n)
                  /\ Present(current.values, n)
                  /\ \A p \in Parents[n] : SameOver(p)
                  => current'.values[n] = current.values[n]
<1>1. IInv /\ [Next]_vars => [A]_vars
  <2> SUFFICES ASSUME IInv, [Next]_vars, NEW n \in Nodes, ~Root(n),
                      Present(current.values, n),
                      \A p \in Parents[n] : SameOver(p)
               PROVE  current'.values[n] = current.values[n]
    OBVIOUS
  <2>1. CASE current' = current
    BY <2>1
  <2>2. CASE current' # current
    <3>1. /\ Publish /\ InReload /\ pos = registered /\ oldGen = current
          /\ current'.values = builder.values
      BY <2>2, PublishedWalk
    <3>2. n < pos /\ \A p \in Parents[n] : p \in Nodes /\ p < pos
      BY <3>1 DEF IInv, Framed, SnapshotConsistent, ConsistentOn
    <3>3. ASSUME NEW p \in Parents[n] PROVE ~builder.dirty[p]
      <4>1. SameOver(p) /\ p \in Nodes /\ p < pos
        BY <3>2
      <4>2. CASE Kind[p] = "resource"
        <5>1. builder.values[p].at = current.values[p].at
          BY <3>1, <4>1, <4>2 DEF SameOver
        <5>2. current.values[p].at < attempt
          BY <3>1, <4>1 DEF IInv, Dated, Publish
        <5>3. attempt \in Int /\ current.values[p].at \in Int
          BY <4>1 DEF IInv, TypeOK, Value
        <5>4. builder.dirty[p] => builder.values[p].at = attempt
          BY <3>1, <4>1, <4>2 DEF IInv, Walked
        <5> QED BY <5>1, <5>2, <5>3, <5>4
      <4>3. CASE Kind[p] # "resource"
        BY <3>1, <4>1, <4>3 DEF IInv, Walked, Changed, SameOver, Present
      <4> QED BY <4>2, <4>3
    <3>4. MayCarry(n)
      BY <3>1, <3>3 DEF MayCarry
    <3> QED BY <3>1, <3>2, <3>4 DEF IInv, Walked
  <2> QED BY <2>1, <2>2
<1> QED BY Inductive, <1>1, PTL DEF Spec, UnchangedParentsKeepValue

\* For every DAG, a successful reload gives every registered node a value, so a
\* Get never panics on a node the reload has walked (derived.go:68).
THEOREM Complete == Spec => EveryNodePublished
<1> DEFINE A == current' # current =>
                  \A n \in Nodes : n < registered' => Present(current'.values, n)
<1>1. IInv /\ [Next]_vars => [A]_vars
  <2> SUFFICES ASSUME IInv, [Next]_vars, current' # current,
                      NEW n \in Nodes, n < registered'
               PROVE  Present(current'.values, n)
    OBVIOUS
  <2>1. Publish /\ InReload /\ pos = registered /\ current'.values = builder.values
    BY PublishedWalk
  <2>2. n < pos
    BY <2>1 DEF Publish
  <2> QED BY <2>1, <2>2 DEF IInv, Walked
<1> QED BY Inductive, <1>1, PTL DEF Spec, EveryNodePublished

\* For every DAG, the pipeline implements the abstract snapshot: readers see one
\* consistent generation replaced as a whole (README, "Atomic generation swap").
THEOREM Implementation == Spec => ImplementsAtomicConfig
<1> DEFINE snap == [version |-> current.version, config |-> current.config,
                    values |-> [n \in Nodes |->
                                  [data |-> current.values[n].data,
                                   from |-> current.values[n].from]]]
<1>1. Init => Atomic!Init
  BY DEF Init, Atomic!Init, Atomic!Empty, NilGen, NoValues, Absent
<1>2. IInv /\ [Next]_vars => [Atomic!Swap]_snap
  <2> SUFFICES ASSUME IInv, [Next]_vars PROVE [Atomic!Swap]_snap
    OBVIOUS
  <2>1. CASE current' = current
    BY <2>1
  <2>2. CASE current' # current
    <3>1. /\ Publish /\ InReload /\ pos = registered /\ oldGen = current
          /\ current'.version = current.version + 1
          /\ current'.config = builder.config
          /\ current'.values = builder.values
      BY <2>2, PublishedWalk
    <3>2. builder.config \in Doc
      BY <3>1 DEF IInv, Framed
    <3>3. ConsistentOn(builder.config, builder.values)
      BY <3>1 DEF IInv, Walked
    <3>4. \A n \in Nodes : Present(current.values, n) => Present(builder.values, n)
      BY <3>1 DEF IInv, Framed, Walked
    <3>5. Atomic!ConsistentSnapshot(snap')
      <4> SUFFICES ASSUME NEW n \in Nodes, Atomic!Present(snap', n)
                   PROVE  /\ Atomic!Root(n) =>
                                snap'.values[n].data = Extract[n][snap'.config]
                          /\ \A p \in Parents[n] :
                                /\ Atomic!Present(snap', p)
                                /\ snap'.values[n].from[p] = snap'.values[p].data
        BY DEF Atomic!ConsistentSnapshot
      <4>1. Present(builder.values, n)
        BY <3>1 DEF Present, Atomic!Present
      <4>2. Atomic!Root(n) => Root(n)
        BY DEF Atomic!Root
      <4>3. \A p \in Parents[n] : p \in Nodes
        OBVIOUS
      <4> QED BY <3>1, <3>3, <4>1, <4>2, <4>3
              DEF ConsistentOn, Present, Atomic!Present
    <3>6. \A n \in Nodes : Atomic!Present(snap, n) => Atomic!Present(snap', n)
      BY <3>1, <3>4 DEF Present, Atomic!Present
    <3> QED BY <3>1, <3>2, <3>5, <3>6 DEF Atomic!Swap
  <2> QED BY <2>1, <2>2
<1> QED BY Inductive, <1>1, <1>2, PTL DEF Spec, Atomic!Spec, ImplementsAtomicConfig

-----------------------------------------------------------------------------
(* What values can reach, under DirectKeeps. *)

\* Initially no value reaches anything.
LEMMA InitHeld == Init => HeldInv
<1> SUFFICES ASSUME Init PROVE HeldInv
  OBVIOUS
<1>1. \A n \in Nodes : /\ ~Present(current.values, n)
                      /\ ~Present(builder.values, n)
                      /\ ~Present(oldGen.values, n)
  BY DEF Init, NilGen, NewBuilder, NoValues, Absent, Present
<1>2. \A a \in Attempts : cleanup[a] = {}
  BY DEF Init
<1> QED BY <1>1, <1>2 DEF HeldInv

\* A kept parent is a resource, or a plain value that reaches nothing.
LEMMA KeptParent ==
    ASSUME DirectKeeps, NEW n \in Nodes, Keeps[n], NEW p \in Parents[n],
           NEW vals, HeldExact(vals, p)
    PROVE  p \in Nodes /\ (Kind[p] = "resource" \/ vals[p].held = {})
BY DEF DirectKeeps, HeldExact

HeldValue(vals, n) ==
    HeldExact(vals, n) /\ vals[n].held \subseteq LiveIn(vals)

\* Under DirectKeeps a recompute stores a value that reaches live resources
\* only: a carried-forward value has clean parents, so their resources are kept.
LEMMA HeldRecompute == DirectKeeps /\ IInv /\ HeldInv /\ Recompute => HeldInv'
<1> SUFFICES ASSUME DirectKeeps, IInv, HeldInv, Recompute PROVE HeldInv'
  OBVIOUS
<1>i. TypeOK /\ Framed /\ Dated /\ Walked /\ SnapshotConsistent
  BY DEF IInv
<1> PICK v \in Value, c \in BOOLEAN : StepValue(pos, v, c) /\ SetStep(v, c)
  BY WalkStep
<1>s. /\ pos \in Nodes /\ pos' = pos + 1 /\ pos < registered
      /\ builder'.values[pos] = v /\ builder'.dirty[pos] = c
      /\ \A n \in Nodes : n # pos => /\ builder'.values[n] = builder.values[n]
                                   /\ builder'.dirty[n] = builder.dirty[n]
      /\ phase = "walking" /\ phase' = "walking" /\ oldGen' = oldGen
      /\ attempt' = attempt /\ current' = current /\ cleanup' = cleanup
      /\ oldGen = current /\ InReload
  BY <1>i, SetEffect DEF Framed, InReload
<1>t. pos \in Int /\ \A n \in Nodes : n \in Int /\ Parents[n] \subseteq Nodes
  BY <1>s DEF Nodes
<1>p. \A p \in Parents[pos] : p \in Nodes /\ p < pos /\ p # pos
  BY <1>s, <1>t
<1>w. ~Present(builder.values, pos)
  BY <1>i, <1>s, <1>t DEF Walked, Present, Absent
<1>h. /\ \A n \in Nodes : Present(current.values, n) =>
            HeldExact(current.values, n) /\ current.values[n].held \subseteq Live
      /\ \A n \in Nodes : Present(builder.values, n) =>
            HeldExact(builder.values, n)
            /\ builder.values[n].held \subseteq LiveIn(builder.values)
  BY DEF HeldInv
\* The generation under construction so far.
<1>1. \A n \in Nodes : Present(builder.values, n) =>
         /\ n < pos
         /\ \A p \in Parents[n] : p \in Nodes /\ p < pos /\ p # pos
  BY <1>i, <1>s, <1>t DEF Walked, Present, Absent
<1>2. LiveIn(builder.values) \subseteq LiveIn(builder'.values)
  BY <1>s, <1>w DEF LiveIn, Present
\* The old parents' values a carried value keeps are the new ones.
<1>3. ASSUME MayCarry(pos), Keeps[pos], NEW p \in Parents[pos]
      PROVE  current.values[p].held = builder.values[p].held
  <2>1. p \in Nodes /\ p < pos /\ ~builder.dirty[p]
    BY <1>3, <1>p DEF MayCarry
  <2>2. /\ Present(builder.values, p) /\ Present(current.values, p)
        /\ Kind[p] = "resource" => current.values[p] = builder.values[p]
    BY <1>i, <1>s, <2>1 DEF Walked
  <2>3. Kind[p] # "resource" =>
           current.values[p].held = {} /\ builder.values[p].held = {}
    BY <1>3, <1>h, <1>s, <2>1, <2>2, KeptParent
  <2> QED BY <2>2, <2>3
<1>4. HeldExact(builder'.values, pos)
  <2>1. CASE ~MayCarry(pos)
    <3>1. v.held = Reach(pos) /\ v.at = attempt
      BY <2>1 DEF StepValue
    <3>2. {builder'.values[p].held : p \in Parents[pos]}
            = {builder.values[p].held : p \in Parents[pos]}
      BY <1>p, <1>s
    <3> QED BY <1>s, <3>1, <3>2 DEF Reach, HeldExact
  <2>2. CASE MayCarry(pos)
    <3>1. v = current.values[pos] /\ Present(current.values, pos)
      BY <1>s, <2>2 DEF StepValue, MayCarry
    <3>2. HeldExact(current.values, pos)
      BY <1>h, <1>s, <3>1
    <3>3. Keeps[pos] => \A p \in Parents[pos] :
             builder'.values[p].held = current.values[p].held
      BY <1>3, <1>p, <1>s, <2>2
    <3>4. Keeps[pos] => {builder'.values[p].held : p \in Parents[pos]}
                          = {current.values[p].held : p \in Parents[pos]}
      BY ONLY <3>3, Zenon
    <3>5. builder'.values[pos] = current.values[pos]
      BY <1>s, <3>1
    <3> QED BY <3>2, <3>4, <3>5 DEF HeldExact
  <2> QED BY <2>1, <2>2
<1>5. builder'.values[pos].held \subseteq LiveIn(builder'.values)
  <2>1. Present(builder'.values, pos)
    BY <1>s DEF StepValue, Present
  <2>2. Kind[pos] = "resource" =>
           <<pos, builder'.values[pos].at>> \in LiveIn(builder'.values)
    BY <1>s, <2>1 DEF LiveIn
  <2>3. \A p \in Parents[pos] :
           builder'.values[p].held \subseteq LiveIn(builder'.values)
    BY <1>2, <1>h, <1>i, <1>p, <1>s DEF Walked
  <2>4. UNION {builder'.values[p].held : p \in Parents[pos]}
          \subseteq LiveIn(builder'.values)
    BY <2>3
  <2> QED BY <1>4, <2>2, <2>4 DEF HeldExact
<1>6. ASSUME NEW n \in Nodes, Present(builder'.values, n)
      PROVE  HeldExact(builder'.values, n)
             /\ builder'.values[n].held \subseteq LiveIn(builder'.values)
  <2>1. CASE n = pos
    BY <1>4, <1>5, <2>1
  <2>2. CASE n # pos
    <3>1. Present(builder.values, n) /\ builder'.values[n] = builder.values[n]
      BY <1>6, <1>s, <2>2 DEF Present
    <3>2. \A p \in Parents[n] : builder'.values[p] = builder.values[p]
      BY <1>1, <1>s, <3>1
    <3>3. {builder'.values[p].held : p \in Parents[n]}
            = {builder.values[p].held : p \in Parents[n]}
      BY ONLY <3>2, Zenon
    <3>4. HeldExact(builder.values, n)
          /\ builder.values[n].held \subseteq LiveIn(builder.values)
      BY <1>h, <3>1
    <3> QED BY <1>2, <3>1, <3>3, <3>4 DEF HeldExact
  <2> QED BY <2>1, <2>2
<1>7. ASSUME NEW n \in Nodes, n < pos', Kind[n] = "resource", builder'.dirty[n],
             Present(oldGen.values, n), NEW r \in oldGen.values[n].held
      PROVE  \E m \in Nodes :
                /\ m <= n /\ Kind[m] = "resource" /\ builder'.dirty[m]
                /\ Present(oldGen.values, m) /\ r = <<m, oldGen.values[m].at>>
  <2>0. n < pos \/ n = pos
    <3>1. n \in Int /\ pos \in Int /\ pos' = pos + 1
      BY <1>s, <1>t
    <3> QED BY <1>7, <3>1
  <2>a. ASSUME NEW k \in Nodes, k < pos, Kind[k] = "resource", builder.dirty[k],
               Present(oldGen.values, k), r \in oldGen.values[k].held
        PROVE  \E m \in Nodes :
                  /\ m <= k /\ Kind[m] = "resource" /\ builder'.dirty[m]
                  /\ Present(oldGen.values, m) /\ r = <<m, oldGen.values[m].at>>
    <3>1. PICK m \in Nodes :
             /\ m <= k /\ Kind[m] = "resource" /\ builder.dirty[m]
             /\ Present(oldGen.values, m) /\ r = <<m, oldGen.values[m].at>>
      BY <2>a DEF HeldInv
    <3>2. m # pos
      BY <1>t, <2>a, <3>1
    <3> QED BY <1>s, <3>1, <3>2
  <2>1. CASE n < pos
    <3>1. n # pos
      BY <1>t, <2>1
    <3> QED BY <1>7, <1>s, <2>1, <2>a, <3>1
  <2>2. CASE n = pos
    <3>1. c /\ ~MayCarry(pos) /\ Present(current.values, pos)
      BY <1>7, <1>s, <2>2 DEF StepValue
    <3>2. PICK q \in Nodes : Parents[pos] = {q}
      BY <1>7, <2>2
    <3>3. builder.dirty[q] /\ q < pos /\ Present(oldGen.values, q)
      BY <1>7, <1>i, <1>p, <1>s, <2>2, <3>1, <3>2
         DEF MayCarry, Root, SnapshotConsistent, ConsistentOn
    <3>4. HeldExact(oldGen.values, pos) /\ HeldExact(oldGen.values, q)
      BY <1>h, <1>s, <3>1, <3>3
    <3>5. CASE r = <<pos, oldGen.values[pos].at>>
      BY <1>7, <1>s, <1>t, <2>2, <3>1, <3>5
    <3>6. CASE r # <<pos, oldGen.values[pos].at>>
      <4>1. Keeps[pos] /\ r \in oldGen.values[q].held
        BY <1>7, <2>2, <3>2, <3>4, <3>6 DEF HeldExact
      <4>2. Kind[q] = "resource"
        BY <1>s, <3>2, <3>4, <4>1, KeptParent
      <4>3. PICK m \in Nodes :
               /\ m <= q /\ Kind[m] = "resource" /\ builder'.dirty[m]
               /\ Present(oldGen.values, m) /\ r = <<m, oldGen.values[m].at>>
        BY <2>a, <3>3, <4>1, <4>2
      <4>4. m <= pos
        BY <1>t, <3>3, <4>3
      <4> QED BY <2>2, <4>3, <4>4
    <3> QED BY <3>5, <3>6
  <2> QED BY <2>0, <2>1, <2>2
<1>8. Live' = Live
  BY <1>s DEF Live, Present
<1>9. \A n \in Nodes : Present(current.values, n)' =>
         HeldExact(current'.values, n) /\ current'.values[n].held \subseteq Live'
  BY <1>8, <1>h, <1>s DEF Present
<1>10. \A a \in Attempts : \A i \in cleanup'[a] : \A r \in i.held :
          r \in InstancesOf(cleanup'[a]) /\ r[1] <= i.node
  BY <1>s DEF HeldInv
<1> QED BY <1>6, <1>7, <1>9, <1>10, <1>s DEF HeldInv, HeldExact, LiveIn, Present,
           InstancesOf

HeldCurrent ==
    \A n \in Nodes : Present(current.values, n) =>
        HeldExact(current.values, n) /\ current.values[n].held \subseteq Live

HeldBuilder ==
    /\ \A n \in Nodes : Present(builder.values, n) =>
          /\ HeldExact(builder.values, n)
          /\ builder.values[n].held \subseteq LiveIn(builder.values)
    /\ \A n \in Nodes :
          n < pos /\ Kind[n] = "resource" /\ builder.dirty[n]
            /\ Present(oldGen.values, n) =>
               \A r \in oldGen.values[n].held : \E m \in Nodes :
                  /\ m <= n /\ Kind[m] = "resource" /\ builder.dirty[m]
                  /\ Present(oldGen.values, m) /\ r = <<m, oldGen.values[m].at>>

HeldBatches ==
    \A a \in Attempts : \A i \in cleanup[a] : \A r \in i.held :
        r \in InstancesOf(cleanup[a]) /\ r[1] <= i.node

HeldSplit == HeldInv <=> HeldCurrent /\ HeldBuilder /\ HeldBatches

\* HeldInv is the conjunction of its three parts.
LEMMA HeldParts == HeldSplit
BY DEF HeldSplit, HeldInv, HeldCurrent, HeldBuilder, HeldBatches

\* The same of the next state.
LEMMA HeldPartsNext == HeldSplit'
BY HeldParts, PTL

\* A walk that has not started, or no walk at all.
LEMMA FreshBuilder ==
    ASSUME pos' = 0, \A n \in Nodes : ~Present(builder'.values, n)
    PROVE  HeldBuilder'
<1>1. \A n \in Nodes : ~(n < pos')
  BY DEF Nodes
<1> QED BY <1>1 DEF HeldBuilder, Present

\* Under DirectKeeps the reach of every value stays among live resources.
LEMMA HeldStep == DirectKeeps /\ IInv /\ HeldInv /\ [Next]_vars => HeldInv'
<1> SUFFICES ASSUME DirectKeeps, IInv, HeldInv, [Next]_vars PROVE HeldInv'
  OBVIOUS
<1>i. TypeOK /\ Framed /\ Dated /\ Walked /\ AccountedRest
  BY AccountedParts DEF IInv
<1>h. HeldCurrent /\ HeldBuilder /\ HeldBatches
  BY HeldParts DEF HeldSplit
<1>q. ASSUME HeldCurrent', HeldBuilder', HeldBatches' PROVE HeldInv'
  BY <1>q, HeldPartsNext DEF HeldSplit
<1>c. current' = current => HeldCurrent'
  <2>1. current' = current => Live' = Live
    BY DEF Live, Present
  <2> QED BY <1>h, <2>1 DEF HeldCurrent, HeldExact, Present
<1>b. UNCHANGED <<builder, pos, oldGen>> => HeldBuilder'
  BY <1>h DEF HeldBuilder, HeldExact, LiveIn, Present
<1>r. Return => HeldBuilder'
  <2>1. Return => pos' = 0 /\ \A n \in Nodes : ~Present(builder'.values, n)
    BY DEF Return, NewBuilder, NoValues, Absent, Present
  <2> QED BY <2>1, FreshBuilder
<1>k. cleanup' = cleanup => HeldBatches'
  BY <1>h DEF HeldBatches, InstancesOf
<1>1. CASE Recompute
  BY <1>1, HeldRecompute
<1>2. CASE \E d \in Doc : Accept(d)
  <2>1. pos' = 0 /\ \A n \in Nodes : ~Present(builder'.values, n)
    BY <1>2 DEF Accept, NewBuilder, NoValues, Absent, Present
  <2>2. HeldBuilder'
    BY <2>1, FreshBuilder
  <2> QED BY <1>2, <1>c, <1>k, <1>q, <2>2 DEF Accept
<1>3. CASE Publish
  <2>1. /\ current'.values = builder.values /\ cleanup' = cleanup
        /\ Return \/ UNCHANGED <<builder, pos, oldGen>>
    BY <1>3 DEF Publish
  <2>2. Live' = LiveIn(builder.values)
    BY <2>1 DEF Live, LiveIn, Present
  <2>3. HeldCurrent'
    BY <1>h, <2>1, <2>2 DEF HeldCurrent, HeldBuilder, HeldExact, Present
  <2> QED BY <1>b, <1>k, <1>q, <1>r, <2>1, <2>3
<1>4. CASE ScheduleCleanup
  <2>1. /\ current' = current /\ Return /\ phase = "swapped" /\ InReload
        /\ cleanup' = [cleanup EXCEPT ![attempt] = Retired]
    BY <1>4 DEF ScheduleCleanup, InReload
  <2>2. attempt \in Attempts
    BY <1>i, <2>1 DEF Framed, TypeOK, Attempts
  <2>3. /\ cleanup'[attempt] = Retired
        /\ \A a \in Attempts : a # attempt => cleanup'[a] = cleanup[a]
    BY <1>i, <2>1, <2>2 DEF TypeOK
  <2>4. ASSUME NEW i \in Retired, NEW r \in i.held
        PROVE  r \in InstancesOf(Retired) /\ r[1] <= i.node
    <3>1. PICK n \in Nodes :
             /\ Kind[n] = "resource" /\ builder.dirty[n]
             /\ Present(oldGen.values, n)
             /\ i = [node |-> n, at |-> oldGen.values[n].at,
                     held |-> oldGen.values[n].held]
      BY DEF Retired
    <3>2. i.node = n /\ r \in oldGen.values[n].held
      BY <2>4, <3>1
    <3>3. n < pos
      BY <1>i, <2>1, <3>1 DEF Walked, TypeOK, Nodes
    <3>4. PICK m \in Nodes :
             /\ m <= n /\ Kind[m] = "resource" /\ builder.dirty[m]
             /\ Present(oldGen.values, m) /\ r = <<m, oldGen.values[m].at>>
      BY <1>h, <3>1, <3>2, <3>3 DEF HeldBuilder
    <3>5. r \in InstancesOf(Retired)
      BY <2>1, <3>4, FateMembers DEF FateMembership
    <3> QED BY <3>2, <3>4, <3>5
  <2>5. \A a \in Attempts : \A i \in cleanup'[a] : \A r \in i.held :
           r \in InstancesOf(cleanup'[a]) /\ r[1] <= i.node
    BY <1>h, <2>2, <2>3, <2>4 DEF HeldBatches
  <2>6. HeldBatches'
    BY <2>5 DEF HeldBatches, InstancesOf
  <2> QED BY <1>c, <1>q, <1>r, <2>1, <2>6
<1>5. CASE \E a \in Attempts : CleanupStep(a)
  <2> PICK a \in Attempts : \E i \in cleanup[a] : CleanupItem(a, i)
    BY <1>5 DEF CleanupStep
  <2> PICK i \in cleanup[a] : CleanupItem(a, i)
    OBVIOUS
  <2>1. /\ UNCHANGED <<current, builder, pos, oldGen>>
        /\ cleanup' = [cleanup EXCEPT ![a] = @ \ {i}]
        /\ \A j \in cleanup[a] : j.node <= i.node
    BY DEF CleanupItem
  <2>2. cleanup'[a] = cleanup[a] \ {i}
        /\ \A b \in Attempts : b # a => cleanup'[b] = cleanup[b]
    BY <1>i, <2>1 DEF TypeOK
  <2>3. ASSUME NEW j \in cleanup'[a], NEW r \in j.held
        PROVE  r \in InstancesOf(cleanup'[a]) /\ r[1] <= j.node
    <3>1. j \in cleanup[a] /\ j # i
      BY <2>2, <2>3
    <3>2. r \in InstancesOf(cleanup[a]) /\ r[1] <= j.node
      BY <1>h, <2>3, <3>1 DEF HeldBatches
    <3>3. PICK k \in cleanup[a] : r = <<k.node, k.at>>
      BY <3>2 DEF InstancesOf
    <3>4. k # i
      <4>1. ASSUME k = i PROVE FALSE
        <5>1. i.node \in Int /\ j.node \in Int
          BY <1>i, <3>1 DEF TypeOK, Item, Nodes
        <5>0. r[1] = i.node
          BY <3>3, <4>1
        <5>2. j.node <= i.node
          BY <2>1, <3>1
        <5>3. r[1] <= j.node
          BY <3>2
        <5>4. i.node <= j.node
          BY <5>0, <5>3
        <5>5. \A x, y \in Int : x <= y /\ y <= x => x = y
          OBVIOUS
        <5>6. i.node = j.node
          BY <5>1, <5>2, <5>4, <5>5
        <5> QED BY <1>i, <3>1, <5>6 DEF AccountedRest
      <4> QED BY <4>1
    <3>5. k \in cleanup'[a]
      BY <2>2, <3>4
    <3> QED BY <3>2, <3>3, <3>5 DEF InstancesOf
  <2>4. \A b \in Attempts : \A j \in cleanup'[b] : \A r \in j.held :
           r \in InstancesOf(cleanup'[b]) /\ r[1] <= j.node
    BY <1>h, <2>2, <2>3 DEF HeldBatches
  <2>5. HeldBatches'
    BY <2>4 DEF HeldBatches, InstancesOf
  <2> QED BY <1>b, <1>c, <1>q, <2>1, <2>5
<1>6. CASE Register \/ (\E start \in BOOLEAN : Begin(start)) \/ UNCHANGED vars
  <2>1. UNCHANGED <<current, builder, pos, oldGen, cleanup>>
    BY <1>6 DEF Register, Begin, vars
  <2> QED BY <1>b, <1>c, <1>k, <1>q, <2>1
<1>7. CASE Reject \/ Abort \/ CallbackPanic
  <2>1. UNCHANGED <<current, cleanup>> /\ Return
    BY <1>7 DEF Reject, Abort, CallbackPanic
  <2> QED BY <1>c, <1>k, <1>q, <1>r, <2>1
<1> QED BY <1>1, <1>2, <1>3, <1>4, <1>5, <1>6, <1>7 DEF Next, ReloadStep

\* Both invariants together, when no plain value hides a resource from DeepEqual.
LEMMA HeldInductive == DirectKeeps => (Spec => [](IInv /\ HeldInv))
<1> SUFFICES ASSUME DirectKeeps PROVE Spec => [](IInv /\ HeldInv)
  OBVIOUS
<1>1. Init => IInv /\ HeldInv
  BY InitInv, InitHeld
<1>2. (IInv /\ HeldInv) /\ [Next]_vars => (IInv /\ HeldInv)'
  BY HeldStep, TypeStep, FramedStep, DatedStep, SnapshotStep, WalkedStep,
     AccountedStep DEF IInv
<1> QED BY <1>1, <1>2, PTL DEF Spec

\* In every DAG that satisfies DirectKeeps no published value reaches a resource
\* whose cleanup has run (README, "Stale DB pools after config change").
THEOREM Open == DirectKeeps => (Spec => []PublishedResourcesOpen)
<1> SUFFICES ASSUME DirectKeeps PROVE Spec => []PublishedResourcesOpen
  OBVIOUS
<1>1. IInv /\ HeldInv => PublishedResourcesOpen
  <2> SUFFICES ASSUME IInv, HeldInv, NEW n \in Nodes
               PROVE  current.values[n].held \cap closed = {}
    BY DEF PublishedResourcesOpen
  <2>1. Live \cap closed = {}
    BY AccountedPartition DEF AccountedAsPartition, Partition, IInv, Accounted
  <2>2. CASE Present(current.values, n)
    BY <2>1, <2>2 DEF HeldInv
  <2>3. CASE ~Present(current.values, n)
    BY <2>3 DEF IInv, Dated, Absent
  <2> QED BY <2>2, <2>3
<1> QED BY HeldInductive, <1>1, PTL

\* In every DAG that satisfies DirectKeeps a resource is cleaned before the
\* resources it was built on, across all batches (manager.go:230).
THEOREM ChildrenFirst == DirectKeeps => (Spec => []ChildrenClosedFirst)
<1> SUFFICES ASSUME DirectKeeps PROVE Spec => []ChildrenClosedFirst
  OBVIOUS
<1>1. IInv /\ HeldInv => ChildrenClosedFirst
  <2> SUFFICES ASSUME IInv, HeldInv, NEW a \in Attempts, NEW i \in cleanup[a],
                      NEW r \in i.held
               PROVE  r \notin closed
    BY DEF ChildrenClosedFirst
  <2>1. Pending \cap closed = {}
    BY AccountedPartition DEF AccountedAsPartition, Partition, IInv, Accounted
  <2>2. r \in Pending
    BY FateMembers DEF HeldInv, FateMembership
  <2> QED BY <2>1, <2>2
<1> QED BY HeldInductive, <1>1, PTL
=============================================================================
