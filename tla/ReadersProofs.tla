--------------------------- MODULE ReadersProofs ---------------------------
(***************************************************************************)
(* What a reader and a test can rely on, for every DAG.                    *)
(*                                                                         *)
(* The grace period protects every reader whose use is shorter, for any    *)
(* number of readers, reloads and sleeping goroutines (module Readers).    *)
(* A TestVal, whose DAG is over one static value, serves one computation,  *)
(* and every value that is registered (module TestVal).  A behaviour of    *)
(* TestVal with eager = FALSE is one of Readers, whose theorems carry over. *)
(***************************************************************************)
EXTENDS TestVal, ReloadProofs

-----------------------------------------------------------------------------
(* Readers beside the pipeline. *)

\* Where the instance that reader r uses can be: published, retired by a swap
\* whose callbacks run, in the batch of a goroutine whose sleep the use began
\* before, or given up.
Place(r, i) ==
    \/ i \in Live
    \/ i \in InstancesOf(Retired)
    \/ i \in abandoned
    \/ \E a \in Attempts : r \in sleep[a] /\ i \in InstancesOf(cleanup[a])

Guarded == \A r \in Reader : \A i \in use[r] : Place(r, i)

RInv == IInv /\ ReaderTypeOK /\ Guarded

\* Readers and sleeps only restrict the pipeline.
LEMMA ReaderStepsReload == [ReaderNext]_readerVars => [Next]_vars
<1> SUFFICES ASSUME [ReaderNext]_readerVars PROVE [Next]_vars
  OBVIOUS
<1>1. CASE PipelineStep
  BY <1>1 DEF PipelineStep, Pipeline, Next
<1>2. CASE \E a \in Attempts : CleanAfterGrace(a)
  BY <1>2 DEF CleanAfterGrace, Next
<1>3. CASE ReaderStep
  BY <1>3 DEF ReaderStep, Get, Drop
<1> QED BY <1>1, <1>2, <1>3 DEF ReaderNext, readerVars

\* So every theorem about Spec holds beside any number of readers.
THEOREM ReaderIsReload == ReaderSpec => Spec
BY ReaderStepsReload, PTL DEF ReaderSpec, ReaderInit, Spec

\* The types of the two variables of Readers.
LEMMA ReaderTypes == IInv /\ ReaderTypeOK /\ [ReaderNext]_readerVars => ReaderTypeOK'
<1> SUFFICES ASSUME IInv, ReaderTypeOK, [ReaderNext]_readerVars
             PROVE  ReaderTypeOK'
  OBVIOUS
<1> USE DEF ReaderTypeOK
<1>1. CASE PipelineStep
  <2>1. Using \subseteq Reader
    BY DEF Using
  <2>2. sleep' \in [Attempts -> SUBSET Reader]
    BY <1>1, <2>1 DEF PipelineStep, SleepBegins
  <2> QED BY <1>1, <2>2 DEF PipelineStep
<1>2. CASE ReaderStep
  <2>1. PICK r \in Reader : Drop(r) \/ \E n \in Nodes : Get(r, n)
    BY <1>2 DEF ReaderStep
  <2>2. CASE Drop(r)
    BY <2>2 DEF Drop
  <2>3. ASSUME NEW n \in Nodes, Get(r, n) PROVE ReaderTypeOK'
    <3>1. current.values[n].at \in Int /\ current.values[n].at >= 1
      BY <2>3 DEF Get, IInv, TypeOK, Dated, Value
    <3>2. current.values[n].at \in Attempts
      BY <3>1 DEF IInv, TypeOK, Value, Attempts
    <3>3. {<<n, current.values[n].at>>} \subseteq Instance
      BY <3>2 DEF Instance
    <3> QED BY <2>3, <3>3 DEF Get
  <2> QED BY <2>1, <2>2, <2>3
<1>3. CASE (\E a \in Attempts : CleanAfterGrace(a)) \/ UNCHANGED readerVars
  BY <1>3 DEF CleanAfterGrace, readVars, readerVars
<1> QED BY <1>1, <1>2, <1>3 DEF ReaderNext

\* A swap leaves every published resource published or retires it.
LEMMA SwapPlaces ==
    ASSUME IInv, Publish, NEW i \in Live
    PROVE  i \in Live' \/ i \in InstancesOf(Retired)'
<1>1. PICK n \in Nodes : /\ Kind[n] = "resource" /\ Present(current.values, n)
                         /\ i = <<n, current.values[n].at>>
  BY DEF Live
<1>2. oldGen = current /\ current.version # -1 /\ InReload /\ pos = registered
  BY <1>1 DEF Publish, IInv, Framed, InReload, NilGen, NoValues, Present, Absent
<1>3. n < pos
  BY <1>1, <1>2 DEF IInv, Framed
<1>4. /\ current'.values = builder.values /\ phase' = "swapped"
      /\ builder' = builder /\ oldGen' = oldGen
  BY <1>2 DEF Publish
<1>5. CASE builder.dirty[n]
  BY <1>1, <1>2, <1>4, <1>5, FateMembersNext DEF FateMembership, Present
<1>6. CASE ~builder.dirty[n]
  <2>1. builder.values[n] = current.values[n]
    BY <1>1, <1>2, <1>3, <1>6 DEF IInv, Walked
  <2> QED BY <1>1, <1>4, <2>1, FateMembersNext DEF FateMembership, Present
<1> QED BY <1>5, <1>6

\* The pipeline keeps what readers use in one of its places.
LEMMA PipelinePlaces ==
    ASSUME IInv, ReaderTypeOK, PipelineStep,
           NEW r \in Reader, NEW i \in use[r], Place(r, i)
    PROVE  Place(r, i)'
<1>a. [Next]_vars
  BY DEF PipelineStep, Pipeline, Next
<1>b. r \in Using
  BY DEF Using
<1>1. CASE Publish
  <2>1. InstancesOf(Retired) = {} /\ UNCHANGED <<cleanup, abandoned, sleep>>
    BY <1>1, NoWalkNow DEF Publish, NoWalk, PipelineStep, SleepBegins
  <2> QED BY <1>1, <2>1, SwapPlaces DEF Place, InstancesOf
<1>2. CASE ScheduleCleanup
  <2>1. UNCHANGED <<current, abandoned>> /\ phase = "swapped"
        /\ cleanup' = [cleanup EXCEPT ![attempt] = Retired]
    BY <1>2 DEF ScheduleCleanup
  <2>2. attempt \in Attempts /\ cleanup[attempt] = {}
    <3>1. attempt \in Int /\ attempt > 0 /\ attempt <= MaxAttempts
      BY <2>1 DEF IInv, TypeOK, Framed
    <3>2. attempt \in Attempts
      BY <3>1 DEF Attempts
    <3> QED BY <2>1, <3>2 DEF IInv, Accounted
  <2>3. CASE i \in InstancesOf(Retired)
    <3>1. cleanup'[attempt] = Retired /\ Retired # {}
      BY <2>1, <2>2, <2>3 DEF IInv, TypeOK, InstancesOf
    <3>2. cleanup' # cleanup
      BY <2>2, <3>1
    <3>3. sleep'[attempt] = Using
      BY <2>1, <2>2, <3>2 DEF PipelineStep, SleepBegins, ReaderTypeOK
    <3> QED BY <1>b, <2>2, <2>3, <3>1, <3>3 DEF Place, InstancesOf
  <2>4. CASE \E a \in Attempts : r \in sleep[a] /\ i \in InstancesOf(cleanup[a])
    <3>1. PICK a \in Attempts : r \in sleep[a] /\ i \in InstancesOf(cleanup[a])
      BY <2>4
    <3>2. a # attempt
      BY <2>2, <3>1 DEF InstancesOf
    <3>3. cleanup'[a] = cleanup[a] /\ sleep'[a] = sleep[a]
      BY <2>1, <3>2 DEF IInv, TypeOK, PipelineStep, SleepBegins, ReaderTypeOK
    <3> QED BY <3>1, <3>3 DEF Place, InstancesOf
  <2>5. Live' = Live
    BY <2>1 DEF Live
  <2> QED BY <2>1, <2>3, <2>4, <2>5 DEF Place
<1>3. CASE CallbackPanic
  <2>1. /\ UNCHANGED <<current, cleanup, sleep>>
        /\ abandoned' = abandoned \cup InstancesOf(Retired)
    BY <1>3 DEF CallbackPanic, PipelineStep, SleepBegins
  <2> QED BY <2>1 DEF Place, Live, InstancesOf
<1>4. CASE Register \/ (\E start \in BOOLEAN : Begin(start)) \/ Reject
           \/ (\E d \in Doc : Accept(d)) \/ Recompute \/ Abort
  <2>1. /\ UNCHANGED <<current, cleanup>> /\ phase # "swapped"
        /\ abandoned \subseteq abandoned'
    <3>1. CASE Recompute
      BY <3>1, WalkStep DEF SetStep, Set, Walking
    <3> QED BY <1>4, <3>1
            DEF Register, Begin, Reject, Accept, Abort, Walking
  <2>2. UNCHANGED sleep /\ InstancesOf(Retired) = {}
    BY <2>1, NoWalkNow DEF NoWalk, PipelineStep, SleepBegins
  <2> QED BY <2>1, <2>2 DEF Place, Live, InstancesOf
<1> QED BY <1>1, <1>2, <1>3, <1>4 DEF PipelineStep, Pipeline, ReloadStep

\* Every step keeps what readers use in one of its places.
LEMMA GuardedStep == RInv /\ [ReaderNext]_readerVars => Guarded'
<1> SUFFICES ASSUME RInv, [ReaderNext]_readerVars,
                    NEW r \in Reader, NEW i \in use'[r]
             PROVE  Place(r, i)'
  BY DEF Guarded
<1> USE DEF RInv
<1>1. CASE PipelineStep
  <2>1. i \in use[r]
    BY <1>1 DEF PipelineStep
  <2> QED BY <1>1, <2>1, PipelinePlaces DEF Guarded
<1>2. CASE \E a \in Attempts : CleanAfterGrace(a)
  <2>1. PICK a \in Attempts : CleanAfterGrace(a)
    BY <1>2
  <2>2. PICK t \in cleanup[a] : CleanupItem(a, t)
    BY <2>1 DEF CleanAfterGrace, CleanupStep
  <2>3. /\ UNCHANGED <<current, phase, builder, oldGen, abandoned, use, sleep>>
        /\ cleanup' = [cleanup EXCEPT ![a] = @ \ {t}] /\ sleep[a] = {}
    BY <2>1, <2>2 DEF CleanAfterGrace, CleanupItem, readVars
  <2>4. Place(r, i)
    BY <2>3 DEF Guarded
  <2>5. \A b \in Attempts : b # a => cleanup'[b] = cleanup[b]
    BY <2>3 DEF IInv, TypeOK
  <2>6. CASE \E b \in Attempts : r \in sleep[b] /\ i \in InstancesOf(cleanup[b])
    BY <2>3, <2>5, <2>6 DEF Place, InstancesOf
  <2>7. Live' = Live /\ InstancesOf(Retired)' = InstancesOf(Retired)
    BY <2>3 DEF Live, Retired, InstancesOf
  <2> QED BY <2>3, <2>4, <2>6, <2>7 DEF Place
<1>3. CASE ReaderStep
  <2>0. /\ UNCHANGED <<cleanup, abandoned>>
        /\ Live' = Live /\ InstancesOf(Retired)' = InstancesOf(Retired)
    BY <1>3 DEF ReaderStep, Get, Drop, vars, Live, Retired, InstancesOf
  <2>1. PICK s \in Reader : Drop(s) \/ \E n \in Nodes : Get(s, n)
    BY <1>3 DEF ReaderStep
  <2>2. CASE Drop(s)
    <3>1. s # r /\ use'[r] = use[r]
      BY <2>2 DEF Drop, ReaderTypeOK
    <3>2. \A a \in Attempts : r \in sleep[a] => r \in sleep'[a]
      BY <2>2, <3>1 DEF Drop, ReaderTypeOK
    <3>3. Place(r, i)
      BY <3>1 DEF Guarded
    <3> QED BY <2>0, <3>2, <3>3 DEF Place, InstancesOf
  <2>3. ASSUME NEW n \in Nodes, Get(s, n) PROVE Place(r, i)'
    <3>1. CASE s = r
      <4>1. i \in Live
        BY <2>3, <3>1 DEF Get, ReaderTypeOK, Live
      <4> QED BY <2>0, <4>1 DEF Place
    <3>2. CASE s # r
      <4>1. use'[r] = use[r] /\ sleep' = sleep
        BY <2>3, <3>2 DEF Get, ReaderTypeOK
      <4>2. Place(r, i)
        BY <4>1 DEF Guarded
      <4> QED BY <2>0, <4>1, <4>2 DEF Place, InstancesOf
    <3> QED BY <3>1, <3>2
  <2> QED BY <2>1, <2>2, <2>3
<1>4. CASE UNCHANGED readerVars
  <2>1. Place(r, i)
    BY <1>4 DEF readerVars, Guarded
  <2> QED BY <1>4, <2>1
        DEF Place, readerVars, vars, Live, Retired, InstancesOf
<1> QED BY <1>1, <1>2, <1>3, <1>4 DEF ReaderNext

\* The pipeline's invariant, the types and the places, of every behaviour.
LEMMA ReaderInductive == ReaderSpec => []RInv
<1>1. ReaderInit => RInv
  BY InitInv DEF ReaderInit, RInv, ReaderTypeOK, Guarded
<1>2. RInv /\ [ReaderNext]_readerVars => RInv'
  <2> SUFFICES ASSUME RInv, [ReaderNext]_readerVars PROVE RInv'
    OBVIOUS
  <2>1. IInv'
    BY ReaderStepsReload, TypeStep, FramedStep, DatedStep, SnapshotStep,
       WalkedStep, AccountedStep DEF IInv, RInv
  <2> QED BY <2>1, ReaderTypes, GuardedStep DEF RInv
<1> QED BY <1>1, <1>2, PTL DEF ReaderSpec

\* For every DAG and any number of readers, a use that is shorter than the grace
\* period is of a resource that was built, and over before its cleanup
\* (options.go:100).
THEOREM Graceful == ReaderSpec => []ReadersUseOpen
<1>1. RInv => ReadersUseOpen
  <2> SUFFICES ASSUME RInv, NEW r \in Reader, NEW i \in use[r]
               PROVE  i \in built \ closed
    BY DEF ReadersUseOpen
  <2>1. /\ Live \cap closed = {} /\ InstancesOf(Retired) \cap closed = {}
        /\ Pending \cap closed = {} /\ closed \cap abandoned = {}
        /\ Live \cup InstancesOf(Retired) \cup Pending \cup abandoned \subseteq built
    BY AccountedPartition
       DEF AccountedAsPartition, Partition, RInv, IInv, Accounted
  <2>2. Place(r, i)
    BY DEF RInv, Guarded
  <2> QED BY <2>1, <2>2, FateMembers DEF Place, FateMembership
<1> QED BY ReaderInductive, <1>1, PTL

-----------------------------------------------------------------------------
(* A TestVal. *)

USE ReloadAssumption DEF ReloadAssumption

\* Which kind of Manager it is never changes, and it is one of the two.
LEMMA Kept == TestSpec => [](eager = TRUE) \/ [](eager = FALSE)
<1>1. TestInit => eager = TRUE \/ eager = FALSE
  BY DEF TestInit, Static
<1>2. eager = TRUE /\ [TestNext]_testVars => (eager = TRUE)'
  BY DEF TestNext, testVars
<1>3. eager = FALSE /\ [TestNext]_testVars => (eager = FALSE)'
  BY DEF TestNext, testVars
<1> QED BY <1>1, <1>2, <1>3, PTL DEF TestSpec

\* A Manager that is not a TestVal's is that of module Readers.
LEMMA RealIsReader == TestSpec /\ [](eager = FALSE) => ReaderSpec
<1>1. TestInit /\ eager = FALSE => ReaderInit
  BY DEF TestInit, Static
<1>2. [TestNext]_testVars /\ eager = FALSE => [ReaderNext]_readerVars
  BY DEF TestNext, testVars, EagerRegister, EagerStep, EagerWalk, EagerPublish
<1> QED BY <1>1, <1>2, PTL DEF TestSpec, ReaderSpec

-----------------------------------------------------------------------------
(* The steps of a TestVal. *)

\* A root is what has no parents, and node 0 can have none.
LEMMA FirstIsRoot == 0 \in Nodes => Kind[0] # "resource"
<1> SUFFICES ASSUME 0 \in Nodes PROVE Kind[0] # "resource"
  OBVIOUS
<1>1. \A p \in Parents[0] : p \in Nodes /\ p < 0
  OBVIOUS
<1>2. Parents[0] = {}
  BY <1>1 DEF Nodes
<1> QED BY <1>2 DEF Root

\* The static value is served at once, alone.
LEMMA StaticInv == ASSUME NEW d \in Data, Static(d) PROVE EagerInv
<1> DEFINE v == [Absent EXCEPT !.data = d]
<1>0. 0 \in Nodes /\ 1 \in 0 .. NumNodes /\ d # NoData
  BY DEF Static, Nodes
<1>1. v \in Value /\ v.data = d /\ v.at = 0
  BY EmptyLocals DEF Value, Absent
<1>2. /\ current.version = 0 /\ current.config = NoDoc
      /\ current.values = [NoValues EXCEPT ![0] = v]
      /\ current = [version |-> 0, config |-> NoDoc,
                    values |-> [NoValues EXCEPT ![0] = v]]
  BY DEF Static, StaticGen
<1>3. /\ current.values \in [Nodes -> Value]
      /\ current.values[0] = v
      /\ \A n \in Nodes : n # 0 => current.values[n] = Absent
  BY <1>0, <1>1, <1>2, EmptyLocals DEF NoValues
<1>4. TypeOK
  <2>1. current \in [version : Int, config : Doc \cup {NoDoc},
                     values : [Nodes -> Value]]
    BY <1>2, <1>3
  <2>2. cleanup \in [Attempts -> SUBSET Item]
    BY DEF Static
  <2> QED BY <1>0, <2>1, <2>2, EmptyLocals DEF Static, TypeOK, Phases
<1>5. OnlyRegisters
  BY DEF Static, OnlyRegisters
<1>6. ServesOne
  <2>1. \A n \in Nodes : Present(current.values, n) => n = 0
    BY <1>3 DEF Present, Absent
  <2>2. Present(current.values, 0)
    BY <1>0, <1>1, <1>3 DEF Present
  <2>3. Parents[0] = {}
    BY <1>0 DEF Nodes
  <2> QED BY <2>1, <2>2, <2>3 DEF Static, ServesOne, Nodes
<1>7. WalksAnew
  BY DEF Static, WalksAnew
<1>8. BuildsAnew
  <2>1. \A n \in Nodes : current.values[n].at = 0
    BY <1>1, <1>3 DEF Absent
  <2>2. Live = {}
    BY <1>0, <1>3, FirstIsRoot DEF Live, Present, Absent
  <2>3. Building = {} /\ InstancesOf(Retired) = {}
    BY NoWalkNow DEF Static, NoWalk
  <2>4. Pending = {} /\ Batches
    BY DEF Static, Pending, Batches, InstancesOf
  <2>5. Partition(built, Live, Building, InstancesOf(Retired), Pending, closed,
                  abandoned)
    BY <2>2, <2>3, <2>4 DEF Static, Partition
  <2>6. ResourcesAccounted
    BY <2>4, <2>5, AccountedPartition DEF AccountedAsPartition
  <2> QED BY <2>1, <2>6 DEF Static, BuildsAnew
<1> QED BY <1>4, <1>5, <1>6, <1>7, <1>8 DEF EagerInv

\* From no old generation nothing is carried forward: each step of the walk
\* stores a new value, computed from the values below it.
LEMMA EagerWalkStep ==
    ASSUME EagerInv, Recompute
    PROVE  \E v \in Value, c \in BOOLEAN :
              /\ SetStep(v, c)
              /\ v.data # NoData /\ v.at = attempt
              /\ \A p \in Parents[pos] : v.from[p] = builder.values[p].data
              /\ Kind[pos] = "resource" => c
<1> USE DEF EagerInv
<1>1. Walking
  BY DEF Recompute, RecomputeKey, RecomputeStruct, CarryForward, RecomputeMap,
         RecomputeResource, RecomputeCombine
<1>2. attempt >= 1 /\ pos \in Nodes /\ 1 <= pos
  BY <1>1 DEF WalksAnew, Walking, TypeOK, Nodes
<1>3. ~Root(pos)
  BY <1>1, <1>2 DEF ServesOne, Walking
<1>4. ~MayCarry(pos)
  BY <1>2 DEF OnlyRegisters, MayCarry, NilGen, NoValues, Absent, Present
<1>5. ASSUME NEW d \in Data, Kind[pos] # "resource", SetPlain(pos, d)
      PROVE  \E v \in Value, c \in BOOLEAN :
                /\ SetStep(v, c)
                /\ v.data # NoData /\ v.at = attempt
                /\ \A p \in Parents[pos] : v.from[p] = builder.values[p].data
                /\ Kind[pos] = "resource" => c
  <2>1. PICK v \in Value, c \in BOOLEAN : StepValue(pos, v, c) /\ SetStep(v, c)
    BY <1>1, <1>2, <1>3, <1>4, <1>5, PlainStep
  <2> QED BY <1>4, <1>5, <2>1 DEF StepValue
<1>6. ASSUME NEW d \in Data, RecomputeResource(d)
      PROVE  \E v \in Value, c \in BOOLEAN :
                /\ SetStep(v, c)
                /\ v.data # NoData /\ v.at = attempt
                /\ \A p \in Parents[pos] : v.from[p] = builder.values[p].data
                /\ Kind[pos] = "resource" => c
  <2>1. SetStep(Computed(pos, d), TRUE)
    BY <1>6 DEF SetStep, RecomputeResource
  <2> QED BY <1>1, <1>2, <2>1, ComputedValue
<1>7. ~RecomputeKey /\ ~RecomputeStruct /\ ~CarryForward
  BY <1>3, <1>4 DEF RecomputeKey, RecomputeStruct, CarryForward, Root
<1>8. CASE \E d \in Data : RecomputeMap(d)
  BY <1>5, <1>8 DEF RecomputeMap
<1>9. CASE \E d \in Data : RecomputeCombine(d)
  BY <1>5, <1>9 DEF RecomputeCombine
<1> QED BY <1>6, <1>7, <1>8, <1>9 DEF Recompute

\* The nodes below the registered one, and the first.
LEMMA FirstServed == EagerInv => 0 \in Nodes /\ Parents[0] = {}
BY DEF EagerInv, TypeOK, ServesOne, Nodes

\* Registering starts a walk over what is served.
LEMMA RegisterKeeps ==
    ASSUME EagerInv, EagerRegister, UNCHANGED readVars PROVE EagerInv'
<1> USE DEF EagerInv, EagerRegister
<1>1. /\ registered \in Int /\ attempt \in Int /\ attempt >= 0
      /\ registered' = registered + 1 /\ attempt' = attempt + 1
      /\ builder'.values = current.values /\ builder'.config = NoDoc
      /\ current' = current /\ phase' = "walking" /\ pos' = 1
  BY DEF TypeOK
<1>2. TypeOK'
  <2>1. builder' \in [config : Doc \cup {NoDoc}, values : [Nodes -> Value],
                     dirty : [Nodes -> BOOLEAN]]
    BY DEF TypeOK, Present
  <2>2. pos' \in 0 .. NumNodes /\ registered' \in 0 .. NumNodes
        /\ attempt' \in 0 .. MaxAttempts /\ phase' \in Phases
    BY DEF TypeOK, Phases
  <2> QED BY <2>1, <2>2 DEF TypeOK
<1>3. OnlyRegisters'
  BY DEF OnlyRegisters, readVars
<1>4. ServesOne'
  <2>1. \A n \in Nodes : 1 <= n /\ n < registered' => ~Root(n)
    BY <1>1 DEF ServesOne, Nodes
  <2>2. \A n \in Nodes : n < registered => n < registered'
    BY <1>1 DEF Nodes
  <2> QED BY <1>1, <2>1, <2>2 DEF ServesOne
<1>5. WalksAnew'
  <2>1. \A n \in Nodes : n < 1 => n = 0
    BY DEF Nodes
  <2>2. \A n \in Nodes : n < registered => n < registered'
    BY <1>1 DEF Nodes
  <2>3. Parents[0] = {}
    BY FirstServed
  <2> QED BY <1>1, <2>1, <2>2, <2>3
          DEF WalksAnew, ServesOne, ComputedBelow, Present
<1>6. BuildsAnew'
  <2>1. \A n \in Nodes : /\ current.values[n].at \in Int
                         /\ current.values[n].at < attempt'
    BY <1>1 DEF BuildsAnew, TypeOK, Value
  <2>2. Building = {} /\ Building' = {}
    <3>1. Building = {}
      BY NoWalkNow DEF NoWalk
    <3>2. \A n \in Nodes : builder'.values[n].at # attempt'
      BY <1>1, <2>1
    <3> QED BY <3>1, <3>2, FateMembersNext DEF FateMembership
  <2>3. InstancesOf(Retired) = {} /\ InstancesOf(Retired)' = {}
    BY <1>1, NoWalkNow, NoWalkNext DEF NoWalk
  <2>4. Live' = Live /\ Pending' = Pending /\ Batches' = Batches
    BY DEF Live, Pending, Batches, InstancesOf
  <2>5. ResourcesAccounted'
    BY <2>2, <2>3, <2>4, AccountedPartition, AccountedPartitionNext
       DEF AccountedAsPartition, BuildsAnew
  <2>6. \A r \in built : r[2] \in Int /\ r[2] <= attempt
    BY DEF BuildsAnew, TypeOK, Instance, Attempts
  <2>7. \A r \in built' : r[2] <= attempt' /\ r[2] # attempt'
    BY <1>1, <2>6
  <2> QED BY <1>1, <2>1, <2>5, <2>7 DEF BuildsAnew, Nodes
<1> QED BY <1>2, <1>3, <1>4, <1>5, <1>6

\* A step of the walk computes one more node and builds its own instance.
LEMMA RecomputeKeeps ==
    ASSUME EagerInv, Recompute, UNCHANGED readVars PROVE EagerInv'
<1> USE DEF EagerInv
<1> PICK v \in Value, c \in BOOLEAN :
        /\ SetStep(v, c)
        /\ v.data # NoData /\ v.at = attempt
        /\ \A p \in Parents[pos] : v.from[p] = builder.values[p].data
        /\ Kind[pos] = "resource" => c
  BY EagerWalkStep
<1>1. /\ pos \in Nodes /\ pos < registered /\ pos' = pos + 1
      /\ builder'.values[pos] = v
      /\ \A n \in Nodes : n # pos => builder'.values[n] = builder.values[n]
      /\ phase = "walking" /\ phase' = "walking"
      /\ UNCHANGED <<current, oldGen, registered, attempt, cleanup, closed,
                     abandoned, frozen>>
      /\ builder' \in [config : Doc \cup {NoDoc}, values : [Nodes -> Value],
                       dirty : [Nodes -> BOOLEAN]]
  BY SetEffect
<1>2. /\ pos \in Int /\ 1 <= pos /\ attempt \in Int /\ registered \in Int
      /\ attempt \in Attempts
  BY <1>1 DEF TypeOK, WalksAnew, Attempts
<1>3. built' = IF Kind[pos] = "resource" THEN built \cup {<<pos, attempt>>}
                                         ELSE built
  BY DEF SetStep
<1>4. TypeOK'
  <2>1. built' \subseteq Instance
    BY <1>1, <1>2, <1>3 DEF TypeOK, Instance
  <2>2. pos' \in 0 .. NumNodes
    BY <1>1 DEF Nodes
  <2> QED BY <1>1, <2>1, <2>2 DEF TypeOK
<1>5. OnlyRegisters'
  BY <1>1 DEF OnlyRegisters, readVars
<1>6. ServesOne'
  BY <1>1 DEF ServesOne
<1>7. WalksAnew'
  <2>1. \A n \in Nodes : n < pos' => n < pos \/ n = pos
    BY <1>1, <1>2 DEF Nodes
  <2>2. \A n \in Nodes : n < pos' => Present(builder'.values, n)
    BY <1>1, <2>1 DEF WalksAnew, Present
  <2>3. \A n \in Nodes : Present(builder'.values, n) => n < registered'
    BY <1>1 DEF WalksAnew, Present
  <2>4. ComputedBelow(builder'.values, pos')
    <3>1. ASSUME NEW n \in Nodes, n < pos', NEW p \in Parents[n]
          PROVE  builder'.values[n].from[p] = builder'.values[p].data
      <4>1. p \in Nodes /\ p < n
        OBVIOUS
      <4>2. p # pos /\ builder'.values[p] = builder.values[p]
        BY <1>1, <1>2, <2>1, <3>1, <4>1 DEF Nodes
      <4>3. CASE n = pos
        BY <1>1, <4>2, <4>3
      <4>4. CASE n # pos
        <5>1. n < pos /\ builder'.values[n] = builder.values[n]
          BY <1>1, <2>1, <3>1, <4>4
        <5> QED BY <1>1, <4>2, <5>1 DEF WalksAnew, ComputedBelow
      <4> QED BY <4>3, <4>4
    <3> QED BY <3>1 DEF ComputedBelow
  <2>5. 1 <= pos' /\ pos' <= registered' /\ attempt' >= 1
    BY <1>1, <1>2 DEF WalksAnew, Nodes
  <2> QED BY <2>2, <2>3, <2>4, <2>5 DEF WalksAnew
<1>8. BuildsAnew'
  <2>1. \A n \in Nodes : n = 0 \/ n >= pos => builder.values[n].at # attempt
    BY <1>1, <1>2 DEF BuildsAnew, TypeOK, Value
  <2>2. <<pos, attempt>> \notin Building
    <3>1. builder.values[pos].at # attempt
      BY <1>1, <1>2, <2>1
    <3> QED BY <3>1, FateMembers DEF FateMembership
  <2>3. <<pos, attempt>> \notin built
    BY <1>1, <2>2 DEF BuildsAnew
  <2>4. Building' = IF Kind[pos] = "resource" THEN Building \cup {<<pos, attempt>>}
                                              ELSE Building
    <3>1. ASSUME NEW n \in Nodes, n # pos
          PROVE  builder'.values[n].at = attempt <=> builder.values[n].at = attempt
      BY <1>1, <3>1
    <3>2. builder'.values[pos].at = attempt
      BY <1>1
    <3>3. \A r : r \in Building' <=>
             r \in Building \/ (Kind[pos] = "resource" /\ r = <<pos, attempt>>)
      BY <1>1, <2>1, <3>1, <3>2, FateMembers, FateMembersNext DEF FateMembership, Nodes
    <3> QED BY <3>3
  <2>5. Live' = Live /\ Pending' = Pending /\ Batches' = Batches
    BY <1>1 DEF Live, Pending, Batches, InstancesOf
  <2>6. InstancesOf(Retired) = {} /\ InstancesOf(Retired)' = {}
    BY <1>1, NoWalkNow, NoWalkNext DEF NoWalk
  <2>7. ResourcesAccounted'
    <3>1. Partition(built, Live, Building, {}, Pending, closed, abandoned) /\ Batches
      BY <2>6, AccountedPartition DEF AccountedAsPartition, BuildsAnew
    <3>2. Partition(built', Live, Building', {}, Pending, closed, abandoned)
      BY <1>3, <2>3, <2>4, <3>1, PartitionMoves
    <3> QED BY <1>1, <2>5, <2>6, <3>1, <3>2, AccountedPartitionNext
            DEF AccountedAsPartition
  <2>8. \A r \in built' : /\ r[2] <= attempt'
                          /\ r[2] = attempt' => r \in Building'
    BY <1>1, <1>2, <1>3, <2>4 DEF BuildsAnew
  <2>9. /\ \A n \in Nodes : 1 <= n /\ n < pos' => builder'.values[n].at = attempt'
        /\ \A n \in Nodes : n = 0 \/ n >= pos' => builder'.values[n].at < attempt'
    <3>1. \A n \in Nodes : n < pos' => n < pos \/ n = pos
      BY <1>1, <1>2 DEF Nodes
    <3>2. \A n \in Nodes : n = 0 \/ n >= pos' => n # pos /\ (n = 0 \/ n >= pos)
      BY <1>1, <1>2 DEF Nodes
    <3> QED BY <1>1, <3>1, <3>2 DEF BuildsAnew
  <2> QED BY <1>1, <2>7, <2>8, <2>9 DEF BuildsAnew
<1> QED BY <1>4, <1>5, <1>6, <1>7, <1>8

\* A panic out of the constructor: what is served stays, the walk is dropped.
LEMMA AbortKeeps ==
    ASSUME EagerInv, Abort, UNCHANGED readVars PROVE EagerInv'
<1> USE DEF EagerInv, Abort
<1>1. /\ phase = "walking" /\ phase' = "idle" /\ pos' = 0 /\ oldGen' = NilGen
      /\ builder' = NewBuilder(NoDoc) /\ abandoned' = abandoned \cup Building
      /\ UNCHANGED <<registered, frozen, current, attempt, cleanup, built, closed>>
  BY DEF Return, Walking
<1>2. Partition(built, Live, Building, InstancesOf(Retired), Pending, closed,
                abandoned) /\ Batches
  BY AccountedPartition DEF AccountedAsPartition, BuildsAnew
<1>3. TypeOK'
  <2>1. abandoned' \subseteq Instance
    BY <1>1, <1>2 DEF TypeOK, Partition
  <2> QED BY <1>1, <2>1, EmptyLocals DEF TypeOK, Phases
<1>4. OnlyRegisters' /\ ServesOne' /\ WalksAnew'
  BY <1>1 DEF OnlyRegisters, ServesOne, WalksAnew, readVars
<1>5. BuildsAnew'
  <2>1. Building' = {} /\ InstancesOf(Retired)' = {} /\ InstancesOf(Retired) = {}
    BY <1>1, NoWalkNow, NoWalkNext DEF NoWalk
  <2>2. Live' = Live /\ Pending' = Pending /\ Batches' = Batches
    BY <1>1 DEF Live, Pending, Batches, InstancesOf
  <2>3. Partition(built, Live, {}, {}, Pending, closed, abandoned \cup Building)
    BY <1>2, <2>1, PartitionMoves
  <2>4. ResourcesAccounted'
    BY <1>1, <1>2, <2>1, <2>2, <2>3, AccountedPartitionNext
       DEF AccountedAsPartition
  <2> QED BY <1>1, <2>4 DEF BuildsAnew
<1> QED BY <1>3, <1>4, <1>5

\* At the end of a walk, what it built is what the new generation serves.
LEMMA WalkBuiltAll ==
    ASSUME EagerInv, EagerPublish
    PROVE  Live' = Building /\ Superseded = Live
<1> USE DEF EagerInv, EagerPublish
<1>1. /\ current'.values = builder.values /\ phase = "walking"
      /\ pos = registered /\ pos \in Int /\ attempt \in Int
      /\ \A n \in Nodes : builder.values[n].at \in Int
  BY DEF TypeOK, Value
<1>2. Kind[0] # "resource"
  BY FirstServed, FirstIsRoot
<1>3. ASSUME NEW n \in Nodes, Kind[n] = "resource"
      PROVE  /\ Present(current'.values, n) <=> builder.values[n].at = attempt
             /\ Present(current'.values, n) => current'.values[n].at = attempt
  <2>1. 1 <= n
    BY <1>2, <1>3 DEF Nodes
  <2>2. CASE n < pos
    BY <1>1, <2>1, <2>2 DEF WalksAnew, BuildsAnew, Present
  <2>3. CASE n >= pos
    BY <1>1, <2>3 DEF WalksAnew, BuildsAnew, Present, Nodes
  <2> QED BY <1>1, <2>2, <2>3 DEF Nodes
<1>4. \A r : r \in Live' <=> r \in Building
  BY <1>1, <1>3, FateMembers, FateMembersNext DEF FateMembership
<1> QED BY <1>4 DEF Superseded, Live

\* Serving the walk's values: what it replaces is given up, nothing is lost.
LEMMA PublishKeeps ==
    ASSUME EagerInv, EagerPublish, UNCHANGED readVars PROVE EagerInv'
<1> USE DEF EagerInv, EagerPublish
<1>1. /\ phase = "walking" /\ pos = registered
      /\ phase' = "idle" /\ pos' = 0 /\ oldGen' = NilGen
      /\ builder' = NewBuilder(NoDoc)
      /\ current' = [version |-> 0, config |-> NoDoc, values |-> builder.values]
      /\ current'.values = builder.values
      /\ abandoned' = abandoned \cup Live
      /\ UNCHANGED <<registered, frozen, attempt, cleanup, built, closed>>
  BY WalkBuiltAll DEF Return
<1>2. Partition(built, Live, Building, InstancesOf(Retired), Pending, closed,
                abandoned) /\ Batches
  BY AccountedPartition DEF AccountedAsPartition, BuildsAnew
<1>3. TypeOK'
  <2>1. abandoned' \subseteq Instance
    BY <1>1, <1>2 DEF TypeOK, Partition
  <2> QED BY <1>1, <2>1, EmptyLocals DEF TypeOK, Phases
<1>4. OnlyRegisters' /\ WalksAnew'
  BY <1>1 DEF OnlyRegisters, WalksAnew, readVars
<1>5. ServesOne'
  <2>1. \A n \in Nodes : Present(builder.values, n) => n < registered
    BY <1>1 DEF WalksAnew
  <2>2. ASSUME NEW n \in Nodes, Present(builder.values, n), NEW p \in Parents[n]
        PROVE  /\ Present(builder.values, p)
               /\ builder.values[n].from[p] = builder.values[p].data
    <3>1. p \in Nodes /\ p < n /\ n < pos
      BY <1>1, <2>1, <2>2
    <3>2. p < pos
      BY <1>1, <3>1 DEF Nodes, TypeOK
    <3> QED BY <1>1, <3>1, <3>2 DEF WalksAnew, ComputedBelow
  <2>3. Present(builder.values, 0)
    BY <1>1, FirstServed DEF WalksAnew, TypeOK
  <2> QED BY <1>1, <2>1, <2>2, <2>3 DEF ServesOne, Present
<1>6. BuildsAnew'
  <2>1. /\ Building' = {} /\ InstancesOf(Retired)' = {} /\ InstancesOf(Retired) = {}
        /\ Live' = Building
    BY <1>1, NoWalkNow, NoWalkNext, WalkBuiltAll DEF NoWalk
  <2>2. Pending' = Pending /\ Batches' = Batches
    BY <1>1 DEF Pending, Batches, InstancesOf
  <2>3. Partition(built, Building, {}, {}, Pending, closed, abandoned \cup Live)
    BY <1>2, <2>1 DEF Partition
  <2>4. ResourcesAccounted'
    BY <1>1, <1>2, <2>1, <2>2, <2>3, AccountedPartitionNext
       DEF AccountedAsPartition
  <2>5. ASSUME NEW n \in Nodes PROVE builder.values[n].at <= attempt
    <3>1. n = 0 \/ n >= pos \/ (1 <= n /\ n < pos)
      BY DEF TypeOK, Nodes
    <3> QED BY <1>1, <3>1 DEF BuildsAnew, TypeOK, Value
  <2> QED BY <1>1, <2>4, <2>5 DEF BuildsAnew
<1> QED BY <1>3, <1>4, <1>5, <1>6

-----------------------------------------------------------------------------
(* The theorems. *)

\* The invariant of every behaviour of a TestVal.
LEMMA EagerInductive == TestSpec /\ [](eager = TRUE) => []EagerInv
<1>1. TestInit /\ eager = TRUE => EagerInv
  BY StaticInv DEF TestInit, Static
<1>2. EagerInv /\ eager = TRUE /\ [TestNext]_testVars => EagerInv'
  <2> SUFFICES ASSUME EagerInv, eager = TRUE, [TestNext]_testVars PROVE EagerInv'
    OBVIOUS
  <2>1. CASE EagerRegister /\ UNCHANGED readVars
    BY <2>1, RegisterKeeps
  <2>2. CASE Recompute /\ UNCHANGED readVars
    BY <2>2, RecomputeKeeps
  <2>3. CASE Abort /\ UNCHANGED readVars
    BY <2>3, AbortKeeps
  <2>4. CASE EagerPublish /\ UNCHANGED readVars
    BY <2>4, PublishKeeps
  <2>5. CASE UNCHANGED testVars
    <3>1. UNCHANGED <<registered, frozen, current, phase, builder, pos, oldGen,
                      attempt, cleanup, built, closed, abandoned, use, sleep>>
      BY <2>5 DEF testVars, readerVars, vars
    <3>2. TypeOK' /\ OnlyRegisters' /\ ServesOne' /\ WalksAnew'
      BY <3>1 DEF EagerInv, TypeOK, OnlyRegisters, ServesOne, WalksAnew
    <3>3. /\ Live' = Live /\ Building' = Building /\ Pending' = Pending
          /\ Batches' = Batches /\ InstancesOf(Retired)' = InstancesOf(Retired)
      BY <3>1 DEF Live, Building, Retired, Pending, Batches, InstancesOf
    <3>4. ResourcesAccounted'
      BY <3>1, <3>3, AccountedPartition, AccountedPartitionNext
         DEF EagerInv, BuildsAnew, AccountedAsPartition
    <3>5. BuildsAnew'
      BY <3>1, <3>3, <3>4 DEF EagerInv, BuildsAnew
    <3> QED BY <3>2, <3>5 DEF EagerInv
  <2> QED BY <2>1, <2>2, <2>3, <2>4, <2>5
          DEF TestNext, EagerStep, EagerWalk
<1> QED BY <1>1, <1>2, PTL DEF TestSpec

\* A real Manager in this specification keeps the invariant of the readers.
LEMMA RealInductive == TestSpec /\ [](eager = FALSE) => []RInv
BY RealIsReader, ReaderInductive, PTL

\* Whatever a test reads is one computation over the static value, however the
\* constructors interleave with panics (testing.go:41, derived.go:169).
THEOREM OneComputation == TestSpec => []EagerConsistent
<1>1. EagerInv => EagerConsistent
  BY DEF EagerInv, ServesOne, EagerConsistent
<1>2. eager = FALSE => EagerConsistent
  BY DEF EagerConsistent
<1> QED BY <1>1, <1>2, Kept, EagerInductive, PTL

\* Reloads and the constructors of a TestVal keep one account of resources: what
\* a TestVal replaces or a panic drops is given up once, and nothing that is
\* served is ever among it (testing.go:41, manager.go:223).
THEOREM TestAccounting == TestSpec => []ResourcesAccounted
<1>1. EagerInv => ResourcesAccounted
  BY DEF EagerInv, BuildsAnew
<1>2. RInv => ResourcesAccounted
  BY DEF RInv, IInv, Accounted
<1> QED BY <1>1, <1>2, Kept, EagerInductive, RealInductive, PTL

\* A reader of either kind of Manager never uses a cleaned resource: the cleanup
\* functions of a TestVal do not run at all (testing.go:41, options.go:100).
THEOREM TestGraceful == TestSpec => []ReadersUseOpen
<1>1. EagerInv => ReadersUseOpen
  BY DEF EagerInv, OnlyRegisters, ReadersUseOpen
<1> QED BY <1>1, Kept, EagerInductive, RealIsReader, Graceful, PTL

\* What any of the two publishes has every registered node (derived.go:68).
THEOREM TestComplete == TestSpec => EveryNodePublished
<1> DEFINE A == current' # current =>
                  \A n \in Nodes : n < registered' => Present(current'.values, n)
<1>1. EagerInv /\ eager = TRUE /\ [TestNext]_testVars => [A]_vars
  <2> SUFFICES ASSUME EagerInv, eager = TRUE, [TestNext]_testVars,
                      current' # current, NEW n \in Nodes, n < registered'
               PROVE  Present(current'.values, n)
    OBVIOUS
  <2>1. EagerPublish
    BY DEF TestNext, testVars, readerVars, vars, EagerRegister, EagerStep,
           EagerWalk, Abort, Recompute, RecomputeKey, RecomputeStruct,
           CarryForward, RecomputeMap, RecomputeResource, RecomputeCombine,
           SetPlain, Set
  <2> QED BY <2>1 DEF EagerPublish, EagerInv, WalksAnew, Present
<1>2. TestSpec /\ [](eager = TRUE) => [][A]_vars
  BY <1>1, EagerInductive, PTL DEF TestSpec
<1>3. TestSpec /\ [](eager = FALSE) => [][A]_vars
  <2>1. Spec => [][A]_vars
    BY Complete DEF EveryNodePublished
  <2> QED BY <2>1, RealIsReader, ReaderIsReload, PTL
<1> QED BY <1>2, <1>3, Kept, PTL DEF EveryNodePublished
=============================================================================
