--------------------------- MODULE ManagerProofs ---------------------------
(***************************************************************************)
(* Proofs of the safety properties of module Manager, for any callers, any *)
(* number of notifications at a time, and every kind of source.            *)
(***************************************************************************)
EXTENDS Manager, TLAPS

USE DEF Watches, Ops, Points

\* What becomes of the variables of a goroutine that leaves a method.
LEMMA LeaveType ==
    ASSUME TypeOK, NEW p \in Procs, Leave(p)
    PROVE  /\ pc' \in [Procs -> Points]
           /\ op' \in [Procs -> Ops]
           /\ fetched' \in [Procs -> -1 .. MaxWrites]
           /\ since' \in [Procs -> 0 .. MaxWrites]
BY ManagerAssumption DEF TypeOK, Leave

\* A notification is a goroutine of the watch that begins a Reload.
LEMMA Notified ==
    ASSUME NEW w \in Watches, NEW t \in Timers, TypeOK,
           NotifyInWatch(w, t) \/ Fire(w, t)
    PROVE  /\ <<w, t>> \in Notifiers
           /\ <<w, t>> \in Procs
           /\ pc[<<w, t>>] = "idle"
           /\ \E n \in Procs :
                 /\ n \in Notifiers
                 /\ n = <<w, t>>
                 /\ pc' = [pc EXCEPT ![n] = "locking"]
                 /\ op' = [op EXCEPT ![n] = "reload"]
                 /\ since' = [since EXCEPT ![n] = source]
           /\ kind # "timers" => watcher[w] = "running" \/ armed[w]
           /\ armed' \in [Watches -> BOOLEAN]
           /\ UNCHANGED <<kind, mu, started, frozen, watches, ctx, watcher,
                          source, loaded, fetched>>
BY DEF TypeOK, NotifyInWatch, Fire, Notify, Notifiers, Procs

\* Types are kept by every step.
LEMMA TypeStep == TypeOK /\ [Next]_vars => TypeOK'
<1> SUFFICES ASSUME TypeOK, [Next]_vars PROVE TypeOK'
    OBVIOUS
<1> USE ManagerAssumption
<1>1. ASSUME NEW c \in Callers, NEW method \in Ops \ {"none"}, Call(c, method)
      PROVE  TypeOK'
    BY <1>1 DEF TypeOK, Call, Procs
<1>2. CASE Write
    BY <1>2 DEF TypeOK, Write
<1>3. ASSUME NEW p \in Procs, Acquire(p) PROVE TypeOK'
  <2>1. CASE Refused(p)
      BY <2>1 DEF TypeOK, Refused, Leave
  <2>2. CASE StartLocked(p)
      BY <2>2 DEF TypeOK, StartLocked
  <2>3. CASE ReloadLocked(p)
      BY <2>3 DEF TypeOK, ReloadLocked
  <2>4. CASE StopLocked(p)
      BY <2>4 DEF TypeOK, StopLocked
  <2> QED
      BY <1>3, <2>1, <2>2, <2>3, <2>4 DEF Acquire
<1>4. ASSUME NEW p \in Procs, Proceed(p) PROVE TypeOK'
  <2>1. CASE Fetch(p)
      BY <2>1 DEF TypeOK, Fetch
  <2>2. CASE ReloadFails(p)
      BY <2>2 DEF TypeOK, ReloadFails, Leave
  <2>3. CASE ReloadApplied(p)
      BY <2>3 DEF TypeOK, ReloadApplied, Leave
  <2>4. CASE StartApplied(p)
    <3>1. watches + 1 \in Watches /\ watches + 1 \in 0 .. MaxStarts
        BY <2>4 DEF TypeOK, StartApplied
    <3>2. ctx' \in [Watches -> {"none", "live", "cancelled"}]
        BY <2>4, <3>1 DEF TypeOK, StartApplied
    <3>3. watcher' \in [Watches -> {"none", "running", "returned"}]
        BY <2>4, <3>1 DEF TypeOK, StartApplied
    <3>4. loaded' \in -1 .. MaxWrites
        BY <2>4 DEF TypeOK, StartApplied
    <3> QED
        BY <2>4, <3>1, <3>2, <3>3, <3>4, LeaveType DEF TypeOK, StartApplied
  <2>5. CASE StopDone(p)
      BY <2>5, LeaveType DEF TypeOK, StopDone
  <2> QED
      BY <1>4, <2>1, <2>2, <2>3, <2>4, <2>5 DEF Proceed
<1>5. ASSUME NEW w \in Watches, ParentDone(w) \/ Arm(w) \/ WatchReturns(w)
      PROVE  TypeOK'
    BY <1>5 DEF TypeOK, ParentDone, Arm, WatchReturns
<1>6. ASSUME NEW w \in Watches, NEW t \in Timers,
             NotifyInWatch(w, t) \/ Fire(w, t)
      PROVE  TypeOK'
  <2>1. PICK n \in Procs :
            /\ n \in Notifiers
            /\ pc[n] = "idle"
            /\ pc' = [pc EXCEPT ![n] = "locking"]
            /\ op' = [op EXCEPT ![n] = "reload"]
            /\ since' = [since EXCEPT ![n] = source]
      BY <1>6, Notified
  <2>2. /\ armed' \in [Watches -> BOOLEAN]
        /\ UNCHANGED <<kind, mu, started, frozen, watches, ctx, watcher,
                       source, loaded, fetched>>
      BY <1>6, Notified
  <2> QED
      BY <2>1, <2>2 DEF TypeOK
<1>7. CASE UNCHANGED vars
    BY <1>7 DEF TypeOK, vars
<1> QED
    BY <1>1, <1>2, <1>3, <1>4, <1>5, <1>6, <1>7 DEF Next

\* The mutex excludes: a step gives it to a goroutine only when it is free.
LEMMA LockedStep == TypeOK /\ Locked /\ [Next]_vars => Locked'
<1> SUFFICES ASSUME TypeOK, Locked, [Next]_vars PROVE Locked'
    OBVIOUS
<1> USE ManagerAssumption
<1>1. ASSUME NEW c \in Callers, NEW method \in Ops \ {"none"}, Call(c, method)
      PROVE  Locked'
    BY <1>1 DEF TypeOK, Locked, Call, Procs
<1>2. CASE Write
    BY <1>2 DEF TypeOK, Locked, Write
<1>3. ASSUME NEW p \in Procs, Acquire(p) PROVE Locked'
    BY <1>3 DEF TypeOK, Locked, Acquire, Refused, StartLocked, ReloadLocked,
                StopLocked, Locking, Leave
<1>4. ASSUME NEW p \in Procs, Proceed(p) PROVE Locked'
  <2>1. CASE Fetch(p)
      BY <2>1 DEF TypeOK, Locked, Fetch
  <2>2. CASE ReloadFails(p)
      BY <2>2 DEF TypeOK, Locked, ReloadFails, Leave
  <2>3. CASE ReloadApplied(p)
      BY <2>3 DEF TypeOK, Locked, ReloadApplied, Leave
  <2>4. CASE StartApplied(p)
      BY <2>4 DEF TypeOK, Locked, StartApplied, Leave
  <2>5. CASE StopDone(p)
      BY <2>5 DEF TypeOK, Locked, StopDone, Leave
  <2> QED
      BY <1>4, <2>1, <2>2, <2>3, <2>4, <2>5 DEF Proceed
<1>5. ASSUME NEW w \in Watches, ParentDone(w) \/ Arm(w) \/ WatchReturns(w)
      PROVE  Locked'
    BY <1>5 DEF Locked, ParentDone, Arm, WatchReturns
<1>6. ASSUME NEW w \in Watches, NEW t \in Timers,
             NotifyInWatch(w, t) \/ Fire(w, t)
      PROVE  Locked'
  <2>1. PICK n \in Procs :
            /\ n \in Notifiers
            /\ pc[n] = "idle"
            /\ pc' = [pc EXCEPT ![n] = "locking"]
            /\ op' = [op EXCEPT ![n] = "reload"]
            /\ since' = [since EXCEPT ![n] = source]
      BY <1>6, Notified
  <2>2. UNCHANGED mu
      BY <1>6, Notified
  <2> QED
      BY <2>1, <2>2 DEF TypeOK, Locked
<1>7. CASE UNCHANGED vars
    BY <1>7 DEF Locked, vars
<1> QED
    BY <1>1, <1>2, <1>3, <1>4, <1>5, <1>6, <1>7 DEF Next

\* What a method found under the lock stays so until it unlocks.
LEMMA MethodsStep == TypeOK /\ Locked /\ Methods /\ [Next]_vars => Methods'
<1> SUFFICES ASSUME TypeOK, Locked, Methods, [Next]_vars PROVE Methods'
    OBVIOUS
<1> USE ManagerAssumption
<1>1. ASSUME NEW c \in Callers, NEW method \in Ops \ {"none"}, Call(c, method)
      PROVE  Methods'
    BY <1>1 DEF TypeOK, Methods, Call, Procs, Notifiers
<1>2. CASE Write
    BY <1>2 DEF Methods, Write
<1>3. ASSUME NEW p \in Procs, Acquire(p) PROVE Methods'
  <2>1. CASE Refused(p)
      BY <2>1 DEF TypeOK, Locked, Methods, Refused, Leave
  <2>2. CASE StartLocked(p)
      BY <2>2 DEF TypeOK, Locked, Methods, StartLocked, Locking
  <2>3. CASE ReloadLocked(p)
      BY <2>3 DEF TypeOK, Locked, Methods, ReloadLocked, Locking
  <2>4. CASE StopLocked(p)
      BY <2>4 DEF TypeOK, Locked, Methods, StopLocked, Locking
  <2> QED
      BY <1>3, <2>1, <2>2, <2>3, <2>4 DEF Acquire
<1>4. ASSUME NEW p \in Procs, Proceed(p) PROVE Methods'
  <2>1. CASE Fetch(p)
      BY <2>1 DEF TypeOK, Locked, Methods, Fetch
  <2>2. CASE ReloadFails(p)
      BY <2>2 DEF TypeOK, Locked, Methods, ReloadFails, Leave
  <2>3. CASE ReloadApplied(p)
      BY <2>3 DEF TypeOK, Locked, Methods, ReloadApplied, Leave
  <2>4. CASE StartApplied(p)
      BY <2>4 DEF TypeOK, Locked, Methods, StartApplied, Leave
  <2>5. CASE StopDone(p)
      BY <2>5 DEF TypeOK, Locked, Methods, StopDone, Leave
  <2> QED
      BY <1>4, <2>1, <2>2, <2>3, <2>4, <2>5 DEF Proceed
<1>5. ASSUME NEW w \in Watches, ParentDone(w) \/ Arm(w) \/ WatchReturns(w)
      PROVE  Methods'
    BY <1>5 DEF Methods, ParentDone, Arm, WatchReturns
<1>6. ASSUME NEW w \in Watches, NEW t \in Timers,
             NotifyInWatch(w, t) \/ Fire(w, t)
      PROVE  Methods'
  <2>1. PICK n \in Procs :
            /\ n \in Notifiers
            /\ pc[n] = "idle"
            /\ pc' = [pc EXCEPT ![n] = "locking"]
            /\ op' = [op EXCEPT ![n] = "reload"]
            /\ since' = [since EXCEPT ![n] = source]
      BY <1>6, Notified
  <2>2. UNCHANGED <<started, frozen>>
      BY <1>6, Notified
  <2> QED
      BY <2>1, <2>2 DEF TypeOK, Methods
<1>7. CASE UNCHANGED vars
    BY <1>7 DEF Methods, vars
<1> QED
    BY <1>1, <1>2, <1>3, <1>4, <1>5, <1>6, <1>7 DEF Next
\* A notification is one of the goroutines.
LEMMA NotifierIsProc ==
    \A w \in Watches, t \in Timers : <<w, t>> \in Procs /\ <<w, t>> \in Notifiers
BY DEF Procs, Notifiers

\* There is at most one watcher, it belongs to the Start in force, and Stop
\* does not end before it has.
LEMMA WatchingStep ==
    TypeOK /\ Methods /\ Watching /\ [Next]_vars => Watching'
<1> SUFFICES ASSUME TypeOK, Methods, Watching, [Next]_vars PROVE Watching'
    OBVIOUS
<1> USE ManagerAssumption, NotifierIsProc
<1>1. ASSUME NEW c \in Callers, NEW method \in Ops \ {"none"}, Call(c, method)
      PROVE  Watching'
  <2>1. \A w \in Watches, t \in Timers : <<w, t>> # c
      BY <1>1
  <2> QED
      BY <1>1, <2>1 DEF TypeOK, Watching, Call
<1>2. CASE Write
    BY <1>2 DEF Watching, Write
<1>3. ASSUME NEW p \in Procs, Acquire(p) PROVE Watching'
  <2>1. CASE Refused(p)
      BY <2>1 DEF TypeOK, Watching, Refused, Locking, Leave
  <2>2. CASE StartLocked(p)
      BY <2>2 DEF TypeOK, Watching, StartLocked, Locking
  <2>3. CASE ReloadLocked(p)
      BY <2>3 DEF TypeOK, Watching, ReloadLocked, Locking
  <2>4. CASE StopLocked(p)
      BY <2>4 DEF TypeOK, Watching, StopLocked, Locking
  <2> QED
      BY <1>3, <2>1, <2>2, <2>3, <2>4 DEF Acquire
<1>4. ASSUME NEW p \in Procs, Proceed(p) PROVE Watching'
  <2>1. CASE Fetch(p)
      BY <2>1 DEF TypeOK, Watching, Fetch
  <2>2. CASE ReloadFails(p)
      BY <2>2 DEF TypeOK, Watching, ReloadFails, Leave
  <2>3. CASE ReloadApplied(p)
      BY <2>3 DEF TypeOK, Watching, ReloadApplied, Leave
  <2>4. CASE StartApplied(p)
    <3>1. \A w \in Watches : watcher[w] # "running"
        BY <2>4 DEF Methods, Watching, StartApplied
    <3>2. watches + 1 \in Watches /\ watches' = watches + 1 /\ started'
        BY <2>4 DEF TypeOK, StartApplied
    <3>3. \A w \in Watches : watcher'[w] = "running" => w = watches'
        BY <2>4, <3>1, <3>2 DEF TypeOK, StartApplied
    <3>4. kind # "timers" => \A w \in Watches :
                            ~armed[w] /\ \A t \in Timers : pc'[<<w, t>>] = "idle"
        BY <2>4, <3>1 DEF TypeOK, Watching, StartApplied, Leave
    <3>5. armed' = armed /\ kind' = kind
        BY <2>4 DEF StartApplied
    <3>6. kind = "pull" => \A w \in Watches : watcher'[w] # "running"
        BY <2>4, <3>1, <3>2 DEF TypeOK, StartApplied
    <3> QED
        BY <3>2, <3>3, <3>4, <3>5, <3>6 DEF TypeOK, Watching
  <2>5. CASE StopDone(p)
      BY <2>5 DEF TypeOK, Watching, StopDone, Leave
  <2> QED
      BY <1>4, <2>1, <2>2, <2>3, <2>4, <2>5 DEF Proceed
<1>5. ASSUME NEW w \in Watches, ParentDone(w) \/ Arm(w) PROVE Watching'
    BY <1>5 DEF TypeOK, Watching, ParentDone, Arm
<1>6. ASSUME NEW w \in Watches, WatchReturns(w) PROVE Watching'
    BY <1>6 DEF TypeOK, Watching, WatchReturns, IdleNotifiers
<1>7. ASSUME NEW w \in Watches, NEW t \in Timers, NotifyInWatch(w, t)
      PROVE  Watching'
    BY <1>7 DEF TypeOK, Watching, NotifyInWatch, Notify
<1>8. ASSUME NEW w \in Watches, NEW t \in Timers, Fire(w, t) PROVE Watching'
    BY <1>8 DEF TypeOK, Watching, Fire, Notify
<1>9. CASE UNCHANGED vars
    BY <1>9 DEF Watching, vars
<1> QED
    BY <1>1, <1>2, <1>3, <1>4, <1>5, <1>6, <1>7, <1>8, <1>9 DEF Next

\* No reload applies a document older than one that was applied before: it
\* fetches and applies without letting go of the mutex.
LEMMA OrderedStep ==
    TypeOK /\ Locked /\ Methods /\ Ordered /\ [Next]_vars => Ordered'
<1> SUFFICES ASSUME TypeOK, Locked, Methods, Ordered, [Next]_vars PROVE Ordered'
    OBVIOUS
<1> USE ManagerAssumption
<1>1. ASSUME NEW c \in Callers, NEW method \in Ops \ {"none"}, Call(c, method)
      PROVE  Ordered'
    BY <1>1 DEF TypeOK, Ordered, Call, Procs
<1>2. CASE Write
    BY <1>2 DEF TypeOK, Ordered, Write
<1>3. ASSUME NEW p \in Procs, Acquire(p) PROVE Ordered'
  <2>1. CASE Refused(p)
      BY <2>1 DEF TypeOK, Ordered, Refused, Leave
  <2>2. CASE StartLocked(p)
      BY <2>2 DEF TypeOK, Ordered, StartLocked
  <2>3. CASE ReloadLocked(p)
      BY <2>3 DEF TypeOK, Ordered, ReloadLocked
  <2>4. CASE StopLocked(p)
      BY <2>4 DEF TypeOK, Ordered, StopLocked
  <2> QED
      BY <1>3, <2>1, <2>2, <2>3, <2>4 DEF Acquire
<1>4. ASSUME NEW p \in Procs, Proceed(p) PROVE Ordered'
  <2>1. CASE Fetch(p)
      BY <2>1 DEF TypeOK, Ordered, Fetch
  <2>2. CASE ReloadFails(p)
      BY <2>2 DEF TypeOK, Ordered, ReloadFails, Leave
  <2>3. ASSUME ReloadApplied(p) \/ StartApplied(p) PROVE Ordered'
    <3>1. \A q \in Procs : pc'[q] # "applying"
        BY <2>3 DEF TypeOK, Locked, ReloadApplied, StartApplied, Leave
    <3>2. /\ loaded' = fetched[p] /\ fetched[p] \in Int
          /\ 0 <= fetched[p] /\ fetched[p] <= source
          /\ source' = source /\ source \in Int
        BY <2>3 DEF TypeOK, Ordered, ReloadApplied, StartApplied
    <3>3. \A q \in Procs : since'[q] <= source'
        BY <2>3 DEF TypeOK, Ordered, ReloadApplied, StartApplied, Leave
    <3>4. started' => frozen'
        BY <2>3 DEF Methods, Ordered, ReloadApplied, StartApplied
    <3> QED
        BY <3>1, <3>2, <3>3, <3>4 DEF Ordered
  <2>4. CASE StopDone(p)
      BY <2>4 DEF TypeOK, Ordered, StopDone, Leave
  <2> QED
      BY <1>4, <2>1, <2>2, <2>3, <2>4 DEF Proceed
<1>5. ASSUME NEW w \in Watches, ParentDone(w) \/ Arm(w) \/ WatchReturns(w)
      PROVE  Ordered'
    BY <1>5 DEF Ordered, ParentDone, Arm, WatchReturns
<1>6. ASSUME NEW w \in Watches, NEW t \in Timers,
             NotifyInWatch(w, t) \/ Fire(w, t)
      PROVE  Ordered'
  <2>1. PICK n \in Procs :
            /\ pc' = [pc EXCEPT ![n] = "locking"]
            /\ since' = [since EXCEPT ![n] = source]
      BY <1>6, Notified
  <2>2. UNCHANGED <<started, frozen, source, loaded, fetched>>
      BY <1>6, Notified
  <2> QED
      BY <2>1, <2>2 DEF TypeOK, Ordered
<1>7. CASE UNCHANGED vars
    BY <1>7 DEF Ordered, vars
<1> QED
    BY <1>1, <1>2, <1>3, <1>4, <1>5, <1>6, <1>7 DEF Next

\* Whoever holds the mutex is inside a method, and done is or will be closed.
LEMMA HeldStep ==
    TypeOK /\ Locked /\ Methods /\ Watching /\ Held /\ [Next]_vars => Held'
<1> SUFFICES ASSUME TypeOK, Locked, Methods, Watching, Held, [Next]_vars
             PROVE  Held'
    OBVIOUS
<1> USE ManagerAssumption, NotifierIsProc
<1>1. ASSUME NEW c \in Callers, NEW method \in Ops \ {"none"}, Call(c, method)
      PROVE  Held'
  <2>1. c \in Procs
      BY DEF Procs
  <2> QED
      BY <1>1, <2>1 DEF TypeOK, Held, Call
<1>2. CASE Write
    BY <1>2 DEF Held, Write
<1>3. ASSUME NEW p \in Procs, Acquire(p) PROVE Held'
  <2>1. CASE Refused(p)
      BY <2>1 DEF TypeOK, Held, Refused, Locking, Leave
  <2>2. CASE StartLocked(p)
      BY <2>2 DEF TypeOK, Held, StartLocked, Locking
  <2>3. CASE ReloadLocked(p)
      BY <2>3 DEF TypeOK, Held, ReloadLocked, Locking
  <2>4. CASE StopLocked(p)
    <3>1. kind # "pull" => ctx'[watches] = "cancelled"
        BY <2>4 DEF TypeOK, Watching, StopLocked
    <3>2. watcher[watches] = "running" => kind # "pull"
        BY <2>4 DEF TypeOK, Watching, StopLocked
    <3> QED
        BY <2>4, <3>1, <3>2 DEF TypeOK, Held, StopLocked, Locking
  <2> QED
      BY <1>3, <2>1, <2>2, <2>3, <2>4 DEF Acquire
<1>4. ASSUME NEW p \in Procs, Proceed(p) PROVE Held'
  <2>1. CASE Fetch(p)
      BY <2>1 DEF TypeOK, Locked, Held, Fetch
  <2>2. CASE ReloadFails(p)
      BY <2>2 DEF TypeOK, Locked, Held, ReloadFails, Leave
  <2>3. CASE ReloadApplied(p)
      BY <2>3 DEF TypeOK, Locked, Held, ReloadApplied, Leave
  <2>4. CASE StartApplied(p)
    <3>1. watches + 1 \in Watches
        BY <2>4 DEF TypeOK, StartApplied
    <3>2. watcher'[watches'] # "none"
        BY <2>4, <3>1 DEF TypeOK, StartApplied
    <3>3. \A q \in Procs : pc'[q] # "waiting"
        BY <2>4 DEF TypeOK, Locked, StartApplied, Leave
    <3>4. \A q \in Procs : /\ pc'[q] = "idle" <=> op'[q] = "none"
                           /\ pc'[q] = "idle" => since'[q] = 0
        BY <2>4 DEF TypeOK, Held, StartApplied, Leave
    <3>5. mu' = Free
        BY <2>4 DEF StartApplied
    <3> QED
        BY <3>2, <3>3, <3>4, <3>5 DEF Held
  <2>5. CASE StopDone(p)
      BY <2>5 DEF TypeOK, Locked, Held, StopDone, Leave
  <2> QED
      BY <1>4, <2>1, <2>2, <2>3, <2>4, <2>5 DEF Proceed
<1>5. ASSUME NEW w \in Watches, ParentDone(w) \/ Arm(w) PROVE Held'
    BY <1>5 DEF TypeOK, Held, Methods, Watching, ParentDone, Arm
<1>6. ASSUME NEW w \in Watches, WatchReturns(w) PROVE Held'
    BY <1>6 DEF TypeOK, Held, Methods, Watching, WatchReturns
<1>7. ASSUME NEW w \in Watches, NEW t \in Timers,
             NotifyInWatch(w, t) \/ Fire(w, t)
      PROVE  Held'
  <2>1. PICK n \in Procs :
            /\ pc[n] = "idle"
            /\ pc' = [pc EXCEPT ![n] = "locking"]
            /\ op' = [op EXCEPT ![n] = "reload"]
            /\ since' = [since EXCEPT ![n] = source]
      BY <1>7, Notified
  <2>2. UNCHANGED <<mu, started, watches, ctx, watcher>>
      BY <1>7, Notified
  <2> QED
      BY <2>1, <2>2 DEF TypeOK, Locked, Held
<1>8. CASE UNCHANGED vars
    BY <1>8 DEF Held, vars
<1> QED
    BY <1>1, <1>2, <1>3, <1>4, <1>5, <1>6, <1>7, <1>8 DEF Next

-----------------------------------------------------------------------------
\* The initial state of a Manager satisfies the invariant.
LEMMA InitInv == Init => IInv
<1> SUFFICES ASSUME Init PROVE IInv
    OBVIOUS
<1>1. TypeOK
  <2>1. 0 \in 0 .. MaxWrites /\ -1 \in -1 .. MaxWrites /\ 0 \in 0 .. MaxStarts
      BY ManagerAssumption
  <2> QED
      BY <2>1 DEF Init, TypeOK
<1>2. Locked /\ Methods
    BY DEF Init, Locked, Methods, Procs
<1>3. Watching
    BY NotifierIsProc DEF Init, Watching
<1>4. Ordered
    BY ManagerAssumption DEF Init, Ordered
<1>5. Held
    BY DEF Init, Held
<1> QED
    BY <1>1, <1>2, <1>3, <1>4, <1>5 DEF IInv

\* The invariant of the manager: who holds the mutex knows what it found, at
\* most one watch runs, and documents are replaced by later ones only.
THEOREM Inductive == Spec => []IInv
<1>1. IInv /\ [Next]_vars => IInv'
    BY TypeStep, LockedStep, MethodsStep, WatchingStep, OrderedStep, HeldStep
       DEF IInv
<1> QED
    BY InitInv, <1>1, PTL DEF Spec

\* Every variable keeps its type, whatever the interleaving of the methods.
THEOREM TypeCorrect == Spec => []TypeOK
<1>1. IInv => TypeOK
    BY DEF IInv
<1> QED
    BY Inductive, <1>1, PTL

\* A watch runs only while the Start that launched it is in force
\* (manager.go:126-139): Stop waits for it before it clears started.
THEOREM Owned == Spec => []WatcherOwned
<1>1. IInv => WatcherOwned
    BY DEF IInv, Watching, WatcherOwned
<1> QED
    BY Inductive, <1>1, PTL

\* A started manager has a generation and a frozen DAG (manager.go:86-97).
THEOREM Loaded == Spec => []StartedIsLoaded
<1>1. IInv => StartedIsLoaded
    BY DEF IInv, Ordered, StartedIsLoaded
<1> QED
    BY Inductive, <1>1, PTL

\* Only the two steps that apply a document change the generation.
LEMMA OnlyApplies ==
    [Next]_vars => \/ loaded' = loaded
                   \/ \E p \in Procs : ReloadApplied(p) \/ StartApplied(p)
BY DEF Next, Acquire, Proceed, Call, Write, Refused, StartLocked, ReloadLocked,
       StopLocked, Fetch, ReloadFails, StopDone, ParentDone, Arm, WatchReturns,
       NotifyInWatch, Fire, Notify, vars

\* The generation follows the source and never goes back to an older document,
\* however the reloads of Start, Reload and the watch interleave.
THEOREM Regress == Spec => NeverRegresses
<1>1. IInv /\ [Next]_vars => [loaded' >= loaded]_vars
  <2> SUFFICES ASSUME IInv, [Next]_vars PROVE loaded' >= loaded
      OBVIOUS
  <2>1. loaded \in Int
      BY ManagerAssumption DEF IInv, TypeOK
  <2>2. ASSUME NEW p \in Procs, ReloadApplied(p) \/ StartApplied(p)
        PROVE  loaded' >= loaded
    <3>1. fetched[p] \in Int /\ loaded <= fetched[p] /\ loaded' = fetched[p]
        BY <2>2, ManagerAssumption
           DEF IInv, TypeOK, Ordered, ReloadApplied, StartApplied
    <3> QED
        BY <2>1, <3>1
  <2> QED
      BY <2>1, <2>2, OnlyApplies
<1> QED
    BY Inductive, <1>1, PTL DEF Spec, NeverRegresses

\* A reload that succeeds applied a document at least as recent as the one the
\* source had when it was called (manager.go:141-148).
THEOREM Fresh == Spec => FreshOnReturn
<1>1. IInv => \A p \in Procs :
                 ReloadApplied(p) \/ StartApplied(p) => loaded' >= since[p]
  <2> SUFFICES ASSUME IInv, NEW p \in Procs, ReloadApplied(p) \/ StartApplied(p)
               PROVE  loaded' >= since[p]
      OBVIOUS
  <2>1. /\ fetched[p] \in Int /\ since[p] \in Int
        /\ since[p] <= fetched[p] /\ loaded' = fetched[p]
      BY ManagerAssumption
         DEF IInv, TypeOK, Ordered, ReloadApplied, StartApplied
  <2> QED
      BY <2>1
<1> QED
    BY Inductive, <1>1, PTL DEF Spec, FreshOnReturn

\* With any source but one that notifies from timers, Stop is final: after it
\* the source's notifications change nothing.  The run manager_reload_after_stop
\* shows that the condition is needed.
THEOREM Quiet == Spec => QuietUnlessTimers
<1>1. IInv /\ [Next]_vars =>
          [kind # "timers" /\ loaded' # loaded /\ mu \in Notifiers => started]_vars
  <2> SUFFICES ASSUME IInv, [Next]_vars, kind # "timers", loaded' # loaded,
                      mu \in Notifiers
               PROVE  started
      OBVIOUS
  <2>1. PICK p \in Procs : ReloadApplied(p) \/ StartApplied(p)
      BY OnlyApplies
  <2>2. pc[p] = "applying" /\ mu = p
      BY <2>1 DEF ReloadApplied, StartApplied, IInv, Locked
  <2>3. PICK w \in Watches, t \in Timers : p = <<w, t>>
      BY <2>2 DEF Notifiers
  <2>4. kind \in {"inline", "pull"}
      BY ManagerAssumption DEF IInv, TypeOK
  <2>5. watcher[w] = "running"
      BY <2>2, <2>3, <2>4 DEF IInv, Watching
  <2> QED
      BY <2>5 DEF IInv, Watching
<1> QED
    BY Inductive, <1>1, PTL DEF Spec, QuietUnlessTimers

\* Only an inline source can keep the holder of the mutex from going on: every
\* other Stop waits for a watch that can return (manager.go:133-136).  The run
\* manager_stop_deadlock shows the inline source that does.
THEOREM Proceeds == Spec => []HolderProceeds
<1>1. IInv => HolderProceeds
  <2> SUFFICES ASSUME IInv, mu # Free, pc[mu] = "waiting"
               PROVE  \/ watcher[watches] = "returned"
                      \/ /\ watcher[watches] = "running"
                         /\ ctx[watches] = "cancelled"
                         /\ \A t \in Timers :
                               pc[<<watches, t>>] \in {"idle", "locking"}
      BY DEF HolderProceeds, IInv, Held
  <2>1. mu \in Procs /\ started /\ op[mu] = "stop"
      BY DEF IInv, TypeOK, Methods
  <2>2. watches \in Watches
      BY <2>1, ManagerAssumption DEF IInv, TypeOK, Watching
  <2>3. watcher[watches] \in {"running", "returned"}
      BY <2>1, <2>2 DEF IInv, TypeOK, Held
  <2>4. watcher[watches] = "running" => ctx[watches] = "cancelled"
      BY <2>1 DEF IInv, Held
  <2>5. ASSUME NEW t \in Timers
        PROVE  pc[<<watches, t>>] \in {"idle", "locking"}
    <3>1. <<watches, t>> \in Procs /\ op[<<watches, t>>] # "stop"
        BY <2>2, NotifierIsProc DEF IInv, Methods
    <3> QED
        BY <2>1, <3>1 DEF IInv, TypeOK, Locked
  <2> QED
      BY <2>3, <2>4, <2>5
<1> QED
    BY Inductive, <1>1, PTL

-----------------------------------------------------------------------------
(* The lifecycle implements the lock-free specification AtomicManager. *)

\* A goroutine that goes on inside a method, up to its last step, is not seen.
LEMMA InsideIsInvisible ==
    ASSUME NEW p \in Procs, ReloadLocked(p) \/ StopLocked(p) \/ Fetch(p)
    PROVE  UNCHANGED Atomic!vars
BY DEF ReloadLocked, StopLocked, Fetch, Atomic!vars

\* The last watch is the only one that may run, so that it is the one seen.
LEMMA OneWatch ==
    ASSUME IInv, NEW w \in Watches, watcher[w] = "running"
    PROVE  started /\ w = watches
BY DEF IInv, Watching

\* What a method leaves behind is a return of the abstract one.
LEMMA LeaveReturns ==
    ASSUME NEW p \in Procs, Leave(p), UNCHANGED <<kind, source>>
    PROVE  Atomic!Return(p)
BY DEF Leave, Atomic!Return

\* The users of the abstract manager are the goroutines.
LEMMA SameUsers == Atomic!Users = Procs
BY DEF Atomic!Users, Procs

\* What a reload has fetched is no older than its call, nor than the generation.
LEMMA FetchedLoads ==
    ASSUME IInv, NEW p \in Procs, ReloadApplied(p) \/ StartApplied(p)
    PROVE  Atomic!Load(p)
<1>1. /\ loaded' = fetched[p] /\ fetched[p] \in Int
      /\ loaded <= fetched[p] /\ since[p] <= fetched[p] /\ fetched[p] <= source
    BY ManagerAssumption
       DEF IInv, TypeOK, Ordered, ReloadApplied, StartApplied
<1>2. since[p] \in Int /\ source \in Int
    BY ManagerAssumption DEF IInv, TypeOK
<1> QED
    BY <1>1, <1>2 DEF Atomic!Load

\* Start, Stop and Reload are linearizable: each step of a method is a step of
\* the abstract method, or not seen (manager.go:19, 82-148).
THEOREM Implementation == Spec => ImplementsAtomicManager
<1> USE ManagerAssumption
<1>1. Init => Atomic!Init
  <2> SUFFICES ASSUME Init PROVE Atomic!Init
      OBVIOUS
  <2>1. ~\E w \in Watches : watcher[w] = "running"
      BY DEF Init
  <2>2. (kind = "timers") \in BOOLEAN
      OBVIOUS
  <2> QED
      BY <2>1, <2>2, SameUsers DEF Init, Atomic!Init
<1>2. IInv /\ [Next]_vars => [Atomic!Next]_(Atomic!vars)
  <2> SUFFICES ASSUME IInv, [Next]_vars PROVE [Atomic!Next]_(Atomic!vars)
      OBVIOUS
  <2> USE SameUsers
  <2>1. ASSUME NEW c \in Callers, NEW method \in Ops \ {"none"},
               Call(c, method)
        PROVE  Atomic!Next
    <3>1. c \in Procs /\ op[c] = "none"
        BY <2>1 DEF Procs, Call, IInv, Held
    <3>2. Atomic!Call(c, method)
        BY <2>1, <3>1 DEF Call, Atomic!Call, Atomic!Enter
    <3> QED
        BY <3>1, <3>2 DEF Atomic!Next
  <2>2. CASE Write
      BY <2>2 DEF Write, Atomic!Write, Atomic!Next
  <2>3. ASSUME NEW p \in Procs, Acquire(p)
        PROVE  [Atomic!Next]_(Atomic!vars)
    <3>1. CASE Refused(p)
      <4>1. Atomic!Return(p)
          BY <3>1, LeaveReturns DEF Refused
      <4>2. Atomic!Fail(p)
          BY <3>1, <4>1 DEF Refused, Locking, Atomic!Fail
      <4> QED
          BY <4>2 DEF Atomic!Next
    <3>2. CASE StartLocked(p)
      <4>1. Atomic!Freeze(p)
          BY <3>2 DEF StartLocked, Locking, Atomic!Freeze
      <4> QED
          BY <4>1 DEF Atomic!Next
    <3> QED
        BY <2>3, <3>1, <3>2, InsideIsInvisible DEF Acquire
  <2>4. ASSUME NEW p \in Procs, Proceed(p)
        PROVE  [Atomic!Next]_(Atomic!vars)
    <3>1. CASE ReloadFails(p)
      <4>1. Atomic!Return(p)
          BY <3>1, LeaveReturns DEF ReloadFails
      <4>2. op[p] \in {"start", "reload"} /\ (op[p] = "start" => frozen)
          BY <3>1 DEF IInv, Methods, ReloadFails
      <4>3. Atomic!Fail(p)
          BY <3>1, <4>1, <4>2 DEF ReloadFails, Atomic!Fail
      <4> QED
          BY <4>3 DEF Atomic!Next
    <3>2. CASE ReloadApplied(p)
      <4>1. Atomic!Return(p) /\ Atomic!Load(p)
          BY <3>2, LeaveReturns, FetchedLoads DEF ReloadApplied
      <4>2. p \in Notifiers => started \/ kind = "timers"
        <5> SUFFICES ASSUME p \in Notifiers, kind # "timers" PROVE started
            OBVIOUS
        <5>1. PICK w \in Watches, t \in Timers : p = <<w, t>>
            BY DEF Notifiers
        <5>2. watcher[w] = "running"
            BY <3>2, <5>1 DEF ReloadApplied, IInv, Watching
        <5> QED
            BY <5>2, OneWatch
      <4>3. Atomic!Reload(p)
          BY <3>2, <4>1, <4>2 DEF ReloadApplied, Atomic!Reload
      <4> QED
          BY <4>3 DEF Atomic!Next
    <3>3. CASE StartApplied(p)
      <4>1. Atomic!Return(p) /\ Atomic!Load(p)
          BY <3>3, LeaveReturns, FetchedLoads DEF StartApplied
      <4>2. ~started /\ frozen
          BY <3>3 DEF StartApplied, IInv, Methods
      <4>3. ~\E w \in Watches : watcher[w] = "running"
          BY <4>2, OneWatch
      <4>4. (\E w \in Watches : watcher'[w] = "running") \in BOOLEAN
          OBVIOUS
      <4>5. Atomic!Start(p)
          BY <3>3, <4>1, <4>2, <4>3, <4>4 DEF StartApplied, Atomic!Start
      <4> QED
          BY <4>5 DEF Atomic!Next
    <3>4. CASE StopDone(p)
      <4>1. Atomic!Return(p)
          BY <3>4, LeaveReturns DEF StopDone
      <4>2. op[p] = "stop" /\ started
          BY <3>4 DEF StopDone, IInv, Methods
      <4>3. ~\E w \in Watches : watcher[w] = "running"
          BY <3>4, OneWatch DEF StopDone
      <4>4. Atomic!Stop(p)
          BY <3>4, <4>1, <4>2, <4>3 DEF StopDone, Atomic!Stop
      <4> QED
          BY <4>4 DEF Atomic!Next
    <3> QED
        BY <2>4, <3>1, <3>2, <3>3, <3>4, InsideIsInvisible DEF Proceed
  <2>5. ASSUME NEW w \in Watches, ParentDone(w) \/ Arm(w)
        PROVE  UNCHANGED Atomic!vars
      BY <2>5 DEF ParentDone, Arm, Atomic!vars
  <2>6. ASSUME NEW w \in Watches, WatchReturns(w) PROVE Atomic!WatchEnds
    <3>1. \E v \in Watches : watcher[v] = "running"
        BY <2>6 DEF WatchReturns
    <3>2. \A v \in Watches : watcher[v] = "running" => v = w
        BY <2>6, OneWatch DEF WatchReturns
    <3>3. ~\E v \in Watches : watcher'[v] = "running"
        BY <2>6, <3>2 DEF WatchReturns, IInv, TypeOK
    <3> QED
        BY <2>6, <3>1, <3>3 DEF WatchReturns, Atomic!WatchEnds
  <2>7. ASSUME NEW w \in Watches, NEW t \in Timers,
               NotifyInWatch(w, t) \/ Fire(w, t)
        PROVE  Atomic!Next
    <3> DEFINE n == <<w, t>>
    <3>1. n \in Procs /\ n \in Notifiers /\ op[n] = "none"
        BY <2>7, Notified DEF IInv, Held
    <3>2. (\E v \in Watches : watcher[v] = "running") \/ kind = "timers"
        BY <2>7, Notified DEF IInv, Watching
    <3>3. /\ op' = [op EXCEPT ![n] = "reload"]
          /\ since' = [since EXCEPT ![n] = source]
          /\ UNCHANGED <<kind, started, frozen, watcher, source, loaded>>
        BY <2>7 DEF NotifyInWatch, Fire, Notify
    <3>4. Atomic!Notify(n)
        BY <3>1, <3>2, <3>3 DEF Atomic!Notify, Atomic!Enter
    <3> QED
        BY <3>1, <3>4 DEF Atomic!Next
  <2>8. CASE UNCHANGED vars
      BY <2>8 DEF vars, Atomic!vars
  <2> QED
      BY <2>1, <2>2, <2>3, <2>4, <2>5, <2>6, <2>7, <2>8 DEF Next, Atomic!Next
<1> QED
    BY Inductive, <1>1, <1>2, PTL DEF Spec, Atomic!Spec, ImplementsAtomicManager
=============================================================================
