# A TLA+ verification of lemonfig

lemonfig is a Go library for configuration that can change while a program runs.
A program registers *derived values* (`Key`, `Struct`, `Map`, `MapWithCleanup`,
`Combine`, `Combine3`), which form a DAG; a `Manager` fetches a document from a
source, computes every value, and publishes the result as one immutable
generation, again and again as the source changes. References such as
`!secret NAME` in the document are resolved through the program's own resolver.

This directory holds TLA+ modules of that machinery, the TLC configurations that
model-check them on small instances, and proofs, checked by TLAPS, of the main
safety properties for every value of the constants. Line numbers are those of the
repository's sources (`manager.go:136` is `src/manager.go`, line 136).

    tlc  -config MCReload.cfg MCReload.tla      # model-check an instance
    tlapm ReloadProofs.tla                      # check the proofs

`PROJECT.json` maps every definition to the lines it stands for, and lists the
runs, the hazards of the code with the properties that cover them, the mutated
definitions that show what each property catches, and the theorems.

## 1. The system

| Component | State it keeps | Operations | Hard behaviour |
|---|---|---|---|
| Reload pipeline (`manager.go`, `derived.go`, `generation.go`) | `allNodes`, `nextID_`, `frozen`, `current` (an atomic pointer), a builder with values and dirty bits during a reload, one cleanup goroutine per reload | registration, `reloadLocked`, `recompute` of five node types, the swap, `OnReload` callbacks, `scheduleCleanup` | values carried forward from an older generation; failure in the middle of the walk, with resources built already; cleanups of several reloads at once; readers at any moment |
| Manager lifecycle (`manager.go`, `source.go`) | `mu`, `started`, `frozen`, `cancel`, `done` | `Start`, `Stop`, `Reload`, the watch goroutine, `onChange` | calls from any goroutine; notifications that race with `Stop`; waiting with the mutex held; a `Start` that fails half way |
| PollingSource (`source/polling.go`) | `lastKey`, `key` | `SetChangeKey`, `fetchKey`, `Watch` | the key compared and the content applied are two fetches; retry after failure; `lastKey` outlives a watch |
| FileSource (`source/file.go`) | the debounce timer, the fsnotify watcher | `Fetch`, `Watch` | the gap before the watch is set up; timers that fire during reloads and after `Watch` has returned |
| Secret cache (`secretref.go:561-612`) | `secretCache` (bytes, values, time) | `secretChangeKey`, `resolveSecretsCached` | two users, one of them outside the reload lock; the resolver runs with no lock held |
| Secret resolution (`secretref.go:425-509`) | a semaphore, a `WaitGroup`, `failOnce` | `resolveSecrets` | failures racing with the cancellation they cause; more names than slots |
| Secret references (`secretref.go`) | none: functions over a document tree | parse, walk, `violations`, unescape, `fill` | escapes, references on fields that are not `Secret` |
| Secret type (`secret.go`) | one value, sealed with a process-wide key | `NewSecret`, `Reveal`, formatting, decode hook | none across steps |
| TestVal (`testing.go`) | a manager that recomputes eagerly | `TestVal`, `recomputeTestNodes` | recomputation at each registration |
| Options, errors, logger, examples | none | setters | none |

How they interact. `Start` and `Reload` call `reloadLocked` under `mu`. `Start`
launches a goroutine that runs the source's `Watch`, and hands it `onChange`,
which is one more `Reload`. A `PollingSource` calls `onChange` from inside
`Watch`; a `FileSource` calls it from timers' goroutines. Each poll computes a
change key with `secretChangeKey`, which shares the secret cache with the
reloads, outside `mu`. `reloadLocked` publishes by one atomic store and starts a
goroutine that, after a grace period, cleans what the swap retired. Readers
(`Val.Get`) take no lock: they load `current`.

What makes each component correct:

* pipeline: a generation is consistent with one document, replaced as a whole;
  what did not change is not recomputed; every resource is cleaned exactly once
  or given up by a failure, children before parents, and never while published;
* lifecycle: one watch at a time and none after `Stop`; no reload puts an older
  document over a newer one; a call that succeeds is fresh; calls return;
* sources: no change is missed, and a failure strands nobody on an old generation;
* secrets: nothing stale is taken for fresh, rotations are picked up, the limits
  on resolver calls hold, and a resolution is all or nothing.

## 2. The modules

| Module | Role |
|---|---|
| `AtomicConfig` | abstract specification: one consistent snapshot, replaced as a whole |
| `Reload` | the reload pipeline; implements `AtomicConfig` |
| `ReloadInv`, `ReloadProofs` | its inductive invariant, and the proofs |
| `AtomicManager` | abstract specification: a manager whose methods take effect in one step each |
| `Manager`, `ManagerProofs` | the lifecycle, which implements `AtomicManager`, and its proofs |
| `Readers` | the pipeline with goroutines that read, and the grace period |
| `TestVal`, `ReadersProofs` | the pipeline under `TestVal`, beside the real one with its readers, and the proofs about both |
| `Polling`, `PollingProofs` | change detection by polling, with the secret cache it shares with the reloads |
| `FileWatch`, `FileWatchProofs` | change detection by file events |
| `SecretScalars` | the leaves of a document, the `Secret` type, and the paths targets read |
| `SecretTypes`, `SecretTypesProofs` | the two walks over a type, `secretFieldReason` and what Viper and mapstructure decode, and the proof that they agree |
| `SecretRefs`, `SecretRefsProofs` | secret references in a document: which are accepted, what they become, what a dump shows |
| `SecretResolve`, `SecretResolveProofs` | one resolution |
| `MCReload`, `MCReloadChain`, `MCManager`, `MCSecretRefs`, `MCSecretResolve` | instances for TLC; `Polling` and `FileWatch` have numbers for constants and are checked as they are |

The modules share the boundary of the reload lock. `Reload` is what happens between
`Lock` and `Unlock`, and `Readers` what happens beside it; `Manager` is who gets the
lock and when, with a reload reduced to the document it fetched; `Polling` and
`FileWatch` are what one kind of source adds on the other side of `onChange`, with the
mutex reduced to a variable that says whose reload runs. `SecretRefs` and
`SecretResolve` are two parts of a reload before its walk: what references mean in
one document, and how their names are resolved.

### Reload

| Variable | Code |
|---|---|
| `registered`, `frozen` | `len(allNodes)` (= `nextID_`), `Manager.frozen` |
| `current` | `Manager.current`: version, config and values; version -1 is the nil pointer |
| `phase`, `pos`, `oldGen`, `builder` | where `reloadLocked` is, its loop index, its `oldGen`, its `generationBuilder` |
| `cleanup[a]` | the `items` still to be cleaned by the goroutine of reload `a` |
| `attempt`, `built`, `closed`, `abandoned` | history: reloads begun, instances built, cleaned, and given up |

A value is its `data` (what `reflect.DeepEqual` can tell apart) and three history
fields: the reload that computed it, the parents' data it was computed from, and the
resource instances it can reach. `Keeps[n]` says that a value retains its parents'
values, as a client retains its pool. The DAG, what roots extract and which values
retain resources are constants: any program's registration is an instance.

`Register` is a constructor of `derived.go`; `Begin` is the call of `reloadLocked`
by `Start` (which freezes first) or `Reload`; `Reject` is each early return before the
walk; `Accept` the load of `oldGen` and the new builder. The walk is one step per
node: `RecomputeKey`, `RecomputeStruct`, `RecomputeMap`, `RecomputeResource`
(`MapWithCleanup`), `RecomputeCombine`, or `CarryForward` when no parent is dirty, and
`Abort` for an error or panic. `Publish` is the atomic store; `ScheduleCleanup` and
`CallbackPanic` are the two ways on from the `OnReload` callbacks; `CleanupItem` is one
item of a cleanup goroutine, last in topological order first. `Register` is possible
only between reloads: registering during one is a data race (section 7).

### Manager

| Variable | Code |
|---|---|
| `mu`, `started`, `frozen` | the fields of that name; `mu` names the goroutine that holds it |
| `watches` | how many watches there were; `cancel` and `done` belong to the last |
| `ctx[w]`, `watcher[w]` | the watch context and the goroutine in `Watch`, which closes `done` |
| `armed[w]` | a timer of the source that will call `onChange` |
| `kind` | "pull" (no `Watch`), "inline" (`Watch` calls `onChange`), "timers" |
| `source`, `loaded`, `fetched[p]`, `since[p]` | the document offered, that of `current`, that of a running reload, and (history) the one there was when the call was made |

Goroutines of the program call `Start`, `Stop` and `Reload` (`Call`). Acquiring the
mutex, the fetch and the end of the reload are separate steps, so that writes, other
callers, the watch and its timers come between them. `StopLocked` cancels and goes on
to wait for `done` with the mutex held, as `manager.go:127-137` does. `ParentDone` is
the program's own context. `NotifyInWatch` has no guard on the context: a Go `select`
whose ticker and `ctx.Done` are both ready may take the ticker.

`AtomicManager` has neither the mutex nor the inside of a method: a `Start`, `Stop` or
`Reload` that was called takes effect and returns in one step, which loads a document
no older than the call and no older than the one served. The mapping drops `mu`, the
stages of `pc` and the fetched document: `watching` is that some watch's goroutine
runs, `late` that the source notifies from timers. A fetch is then a stutter, and the
step that ends a method is the one in which it takes effect; the freeze of `Start`
stays a step of its own, because a `Start` whose load fails leaves it behind.

### Readers, TestVal

`Readers` adds `use[r]`, the resource a goroutine got from `Val.Get` and has not
dropped, and `sleep[a]`, the uses under way when the cleanup goroutine of reload `a`
began its `time.Sleep`. `CleanAfterGrace` waits until those are over, which is what "a
use is shorter than the grace period" means for the order of events; nothing else is
assumed of time. `Get` is possible at any moment, in the middle of a swap's callbacks
as well.

`TestVal` adds `eager`: a behaviour is that of a Manager, or of the hidden Manager of a
`TestVal`, which only ever sees registrations. `EagerRegister` is `addNode` with
`recomputeTestNodes`, whose walk is `Reload`'s own recompute actions with no old
generation; `Abort` is then the panic out of the constructor, which leaves the node
registered; `EagerPublish` is the store. Resources of the generation it replaces
are `abandoned`: nothing cleans them.

### Polling

| Variable | Code |
|---|---|
| `doc`, `store`, `valueAtEdit` | the document of the source, the value of its secret in the store; history: that value when each document appeared |
| `cached`, `cache` | whether a refresh interval is set; `Manager.secrets`, fresh until `Expire` |
| `at[u]`, `data[u]`, `value[u]` | where each user of `resolveSecretsCached` is, the document it fetched, the value it got |
| `reload`, `applied` | whose reload holds `Manager.mu`, the content of `current` |
| `pc`, `key`, `lastKey`, `starts` | where `Watch` is, its local key, `PollingSource.lastKey`, how often the watch was started |

A key covers the document and the secrets, so a key is modelled as the two numbers. The
users are the change key (`Poll`, `PollFails`, `Compare`), computed in the watch
goroutine without the mutex, and the one reload that holds it (`BeginReload`, `Apply`,
`ApplyFails`), of `Start`, of `onChange` or of the program. `Lookup`, `Resolve` and
`Remember` are separate steps of each, so that they interleave. `lastKey` is set only
by a success of `Watch`'s own `onChange`, and outlives the watch (`Stop`).
`ManualWith` says with which settings the program calls `Reload`, `Reverts` whether an
edit may bring an earlier content back.

A reload of the program and a poll may both be between their lookup in the cache and
their store, since no lock spans the two. Then the slower one stores its answer over the
other's, and what was resolved once too often may be older than what it replaces. The
history variable `overlapped` records that a store happened while the other user was
being resolved; the properties about secrets name it where they need the exception.
Without an interval nothing is stored and it stays false.

### FileWatch

`Write` delivers an event only to an established watch, `Setup` arms the first timer,
`Event` re-arms, `Fire` makes one more goroutine wait for the mutex in `onChange`, and
`Return` is every way `Watch` ends. fsnotify is modelled from what the code uses of it:
an event follows a write, several writes may give one event. The filters on the
event's name and kind are taken to pass for writes of the file.

### SecretRefs, SecretResolve

In `SecretRefs` a document is a function from the paths of its leaves to scalars: a
string is a number of `!` before a body, so that references, escaped references and
literals that look like one differ in two fields. A behaviour takes one document with
one registration the way of a reload: parsed, checked, resolved, filled, decoded; or
the ways of a Manager without a resolver and of `DecodeUnresolved`. Then the secret
rotates, or what was loaded is dumped and written back as the document (`WriteBack`),
and the way is taken again.

The two walks over a type are in `SecretTypes`. `SecretFieldReason`, with `FieldByKey`,
follows one path through the types, as the code does. `Slots` goes from a type to the
document, field by field, as Viper and mapstructure do: it gives a *place* for each leaf it
decodes, and `RecomputeTarget` puts the values into the places. It is the independent
definition the check is compared with. Both recur over the structure of a type, so they are
recursive functions, each beside an operator that is one level of it (`FieldIn`,
`ReasonIn`, `FieldsIn`, `SlotsIn`). What the modules assume of their constants:

* `TypesAssumption`: the types of the program are finite, `Rank` being their depth. Go
  forbids a struct that contains itself; a type that does so behind a pointer, a map or a
  slice is left out.
* `FieldsAssumption`: no two fields that mapstructure decodes have the same folded name.
* `RefsAssumption`: a document is a tree of scalars, mappings and lists (`Shaped`), and its
  parser makes no `Secret`.
* `TargetsAssumption`: targets are those a program can register, but for the ones that
  the check lets a reference through for and that read the zero value in its place
  (`Registered`): a `Struct` of `Secret` or of a slice, whose path then holds no mapping for
  `Sub` to find, and a `Key` of a type that `viperGet` cannot give (section 6).

A `Struct` of any other type may well be registered where a document has a list or a
scalar: its `Sub` is nil and it reads nothing, as in derived.go:184-196
(`RecomputeTarget`), and the check rejects the references below it.

A mapping where a list is expected is the only weak conversion of mapstructure that is
modelled: it makes a list of one element, which the check does not follow (`loose`).

`SecretResolve` has a goroutine per name: `Admit` (the send into `slots`), `Call` or
`Skip` (the look at `ctx.Err`), `Answers` or `Refuses`, where `Fail` is `failOnce.Do`:
a later failure waits until the first has recorded its reason and cancelled.

## 3. The runs

Every definition named "Variant:" is not part of a specification: it is the code with
a plausible mistake, and shows which property that mistake breaks.

| Run | Instance | States | What it shows |
|---|---|---|---|
| `reload` | 6 nodes: two roots, a pool, a client on the pool, a combined value that keeps the pool, a plain map; 3 documents; 3 reloads | 452 907 | types; `SnapshotConsistent`; `ResourcesAccounted`; `PublishedResourcesOpen`; `ChildrenClosedFirst`; `UnchangedParentsKeepValue`; `ImplementsAtomicConfig` |
| `reload_live` | a struct, a pool and two plain wrappers; 3 reloads with a reader, or 3 registrations under a `TestVal` | 95 977 | `ReadersUseOpen`; `RetiredIsCleaned`; `EveryNodePublished`; `EagerConsistent` |
| `reload_kept_chain` | the same chain | | `PublishedResourcesOpen` is violated (finding 2) |
| `manager` | 2 callers, 2 watches with a notification each, 1 write, all three kinds of source | 115 618 | types; `WatcherOwned`; `StartedIsLoaded`; `NeverRegresses`; `FreshOnReturn`; `QuietUnlessTimers`; `HolderProceeds`; `ImplementsAtomicManager`; `CallsReturn` |
| `manager_stop_deadlock` | an inline source | | `StopReturns` is violated (finding 1) |
| `manager_reload_after_stop` | a source with timers | | `QuietAfterStop` is violated (finding 3) |
| `polling` | 1 edit, 1 rotation, 2 watches and manual reloads, with an interval and without one | 140 643 | types; `SeenIsApplied`; `EditForcesFresh`; `NeverStepsBack`; `OncePerInterval`; `ConvergesInOrder` |
| `polling_reverted` | 2 documents that alternate, no interval | | `Converges` is violated (finding 4) |
| `polling_manual` | an interval, 1 rotation, and `Manager.Reload` beside the watch | | `Converges` is violated (finding 5) |
| `file_watch` | 3 contents, 2 pending `onChange` calls | 2 580 | types; `NoWriteLost`; `LastContentTried` |
| `secret_refs` | documents of one or two scalars of 11 forms on 11 paths; 6 registrations; 3 modes; a rotation or a dump | 1 600 533 | types; `AcceptedIffLands`; `RefsBecomeSecrets`; `DumpKeepsSecrets`; `KeyTracksConfig`; `DecoderReads` |
| `secret_resolve` | 4 names, 2 slots | 1 746 | types; `AtMostSlots`; `CauseIsFirst`; `AllOrNothing`; `Returns` |

The bounds, and why they are enough:

* `MaxAttempts` = 3 reloads: a first load, a swap that retires resources, and a third
  reload that overlaps with the cleanup of the second and can carry its values
  forward. A fourth only repeats the third, because a reload reads nothing older than
  `current`; that the number does not matter to safety is what the theorems say.
* The DAG of `reload` has every kind of node, a resource built on a resource, and a
  node with two parents of which one may change. Documents differ in one setting, in the other, or in both.
* `MaxStarts` = 2 watches and `MaxWrites` = 1 in `manager`: an earlier watch with its
  timers beside a later one, and one write that separates an older document from a
  newer one. A `Start` beyond the bound is one whose load fails.
* One edit, one rotation, two watches and any number of manual reloads in `polling`: an
  edit and a rotation in either order around each fetch, each lookup and each store of
  either user, and a watch that finds the `lastKey` of an earlier one. The theorems say that the safety part holds for any
  number of them.
* One reader in `reload_live`: readers share nothing but `sleep`, where each counts for
  itself; `ReadersProofs` has any number of them.
* One or two scalars in a document of `secret_refs`: what the check and `fill` do to a
  leaf depends on that leaf; what a document adds is one resolution for several names,
  and a key that covers all of them.
* `MaxRunning` = 2: timers that have fired and wait for the mutex. Firing is held back
  at the bound, which is the only thing it restricts.
* 4 names on 2 slots: calls that run, calls that wait, and calls that are skipped.

Deadlock is checked in `file_watch`, whose system never stops. It is off in the
others: the reload runs end when the reloads they may do are done; the watch of
`polling` has been stopped for good after its last start; a document has been loaded
twice; a resolution ends when it returns; and the lifecycle has a real deadlock with an
inline source, which `manager_stop_deadlock` states as a property of its own.

## 4. Fairness

Liveness is checked under assumptions the runtime or an interface's contract gives:

* A goroutine that can run does (weak fairness of its steps). Transforms, callbacks,
  resolvers and `time.Sleep` return.
* A `sync.Mutex` hands the lock to a waiter that has starved for a millisecond, so
  acquiring it is strongly fair (`SF` on `Acquire` and `BeginReload`). Likewise a
  blocked channel send gets its turn (`SF` on the goroutines of `SecretResolve`).
* `Watch` returns once its context is done: "It must respect context cancellation and
  return nil" (source.go:28-29). `WF` on `WatchReturns` is conditional on that. For an
  inline source the action is disabled while `onChange` runs, which is why the promise
  does not save `Stop`.
* A use of a resource ends (`WF` on `Drop`): it is shorter than a grace period.
* A ticker ticks and the refresh interval passes. What fails transiently succeeds in
  the end (`SF` on `Resolve` and `Apply`): this is the meaning of "transient
  failure" in polling.go:52, and without it nothing can converge. `FileWatch` does not
  assume it: there a failure is not retried, and `LastContentTried` claims only that
  the last content was tried.
* No fairness is given to calls of the program, edits, rotations, the end of a watch or
  a cancellation.

## 5. What is proved

TLAPS proves the following from the modules' named assumptions alone
(`ReloadAssumption`, ...), which only give constants their types and say what the
constructors enforce: a parent is registered before its child, a root has no parents; of
`SecretRefs`, the four that section 2 lists.

| Theorem | Statement | Assumes |
|---|---|---|
| `ReloadProofs!TypeCorrect`, `Consistent`, `Accounting` | `TypeOK`, `SnapshotConsistent`, `ResourcesAccounted`, for every DAG | |
| `ReloadProofs!Stability` | `UnchangedParentsKeepValue` | |
| `ReloadProofs!Implementation` | `Reload` implements `AtomicConfig` | |
| `ReloadProofs!Open`, `ChildrenFirst` | `PublishedResourcesOpen`, `ChildrenClosedFirst` | `DirectKeeps` |
| `ManagerProofs!TypeCorrect`, `Owned`, `Loaded`, `Regress`, `Fresh`, `Quiet` | the safety properties of `manager`, for any callers, timers and kinds of source | |
| `ReloadProofs!Complete` | `EveryNodePublished` | |
| `ManagerProofs!Proceeds` | `HolderProceeds` | |
| `ManagerProofs!Implementation` | `Manager` implements `AtomicManager` | |
| `ReadersProofs!Graceful` | `ReadersUseOpen`, for any number of readers | |
| `ReadersProofs!ReaderIsReload` | the behaviours with readers are behaviours of `Reload` | |
| `ReadersProofs!OneComputation` | `EagerConsistent` | |
| `ReadersProofs!TestAccounting`, `TestComplete`, `TestGraceful` | `ResourcesAccounted`, `EveryNodePublished`, `ReadersUseOpen`, under either kind of Manager | |
| `PollingProofs!TypeCorrect` | `TypeOK` of `Polling` | |
| `PollingProofs!FreshAfterEdit` | `EditForcesFresh`, with manual reloads too | `~Reverts` |
| `PollingProofs!OnceEach` | `OncePerInterval`, with manual reloads too | |
| `PollingProofs!Seen`, `StepsForward` | `SeenIsApplied`, `NeverStepsBack`, with manual reloads too | `~Reverts` |
| `PollingProofs!NoOverlap` | `overlapped` stays false | no manual reloads with an interval |
| `FileWatchProofs!TypeCorrect`, `NothingLost` | `TypeOK` of `FileWatch`, `NoWriteLost` | |
| `SecretRefsProofs!TypeCorrect` | `TypeOK` of `SecretRefs` | |
| `SecretTypesProofs!WalksAgree` | `LandsOnSecret` is what `Slots` makes of a leaf, for all types and documents | |
| `SecretTypesProofs!DumpStable` | what a type decoded of a document is decoded alike when nothing else is left of the document | |
| `SecretRefsProofs!WalksReadAlike` | `DecoderReads` | |
| `SecretRefsProofs!Acceptance`, `Landing`, `KeyTracks` | `AcceptedIffLands`, `RefsBecomeSecrets`, `KeyTracksConfig` | |
| `SecretRefsProofs!DumpRoundTrip` | `DumpKeepsSecrets` | |
| `SecretResolveProofs!TypeCorrect`, `Bounded`, `FirstCause`, `Complete` | `TypeOK` of `SecretResolve`, `AtMostSlots`, `CauseIsFirst`, `AllOrNothing` | |

Along which argument:

* **Reload** (`ReloadInv!IInv`). That a carried-forward value is consistent cannot be
  seen from `current` alone: one must know what a clean bit means in the middle of a
  walk. `Walked` says it: below `pos` the builder is consistent, a clean node has its
  old data (a clean resource its old instance), a dirty one differs, and a node without
  a dirty parent *is* its old value. With `oldGen = current` during the walk
  (`Framed`) and `current` consistent, the clean node's parents have the very data it
  was computed from. `Dated` keeps instances of this reload apart from older ones, and
  `Accounted` adds to the partition of the instances that a batch is scheduled once.
  `HeldInv` is the extra part under `DirectKeeps`: whatever a value reaches is live in
  its own generation, and a resource is retired together with all it reaches; hence
  neither can reach something closed.
* **Implementation**: the only step that changes the mapped snapshot is `Publish`;
  `Walked` at `pos = registered` is the consistency `Swap` asks for.
* **Manager**: `Locked` (who is inside holds `mu`) is the core. `Methods` says what a
  method knows once inside: a `Start` that is loading has `~started`, a waiting `Stop`
  has `started`. `Watching` then gives that a new watch begins only where none runs, since
  `started` becomes false only after `done`. `Ordered` chains `loaded <= fetched <=
  source` for the reload that holds the lock; it is why fetching inside the lock, and
  not before it, prevents regressions. `Held` adds what the holder of the mutex waits
  for: a `Stop` that waits for a running watch has cancelled that very watch, so
  `HolderProceeds` leaves one reason for which it can wait for ever, which is finding 1.
* **Linearizability** (`ManagerProofs!Implementation`): the steps inside a method map to
  stutters (`InsideIsInvisible`). The ones that matter are the last: what an
  applied load fetched lies between `since` and `source` (`Ordered`), a new watch begins
  where none ran (`OneWatch`), and a call that fails had a reason the abstract one admits.
* **Readers** (`Place`): the instance in use is published, or retired by a swap whose
  callbacks run, or in the batch of a goroutine whose sleep began later than the use, or
  given up. A swap moves it from the first place to the second (`SwapPlaces`, from
  `Walked`: what is not dirty is the same value), `ScheduleCleanup` to the third, and the
  goroutine cannot clean it while the use lasts. The partition of `ResourcesAccounted`
  keeps all four apart from `closed`.
* **TestVal** (`EagerInv`). A TestVal is either kind of Manager from the start to the end
  (`Kept`). In the one that is real the steps are those of `Readers`. In the other the
  walk starts from the values that are served, with no old generation: `WalksAnew` says
  that below `pos` every node is computed from the new values of its parents
  (`EagerWalkStep`: nothing can be carried forward), while above it values of earlier
  walks remain; at the end there is nothing above `pos`. `BuildsAnew` keeps the walk's
  instances, which bear its number, apart from those it replaces, so that at the
  store the whole of `Live` is exchanged for the whole of `Building` (`WalkBuiltAll`).
* **Polling**: `Dated` says that whoever has a value for a document, the cache included,
  got it after the document appeared. `OrderedDocs` and `OrderedValues` order what
  `lastKey`, `applied`, the reload, the cache and the source hold. With an interval the
  cache's value lies above `applied`, but only while one user at a time resolves: the
  documents are ordered always, the values until resolutions overlap (`Values`).
  `NoOverlap` says when they cannot, because a poll and the reload it causes follow each
  other (`OneUser`). `Missed` says what a user that has looked in
  vain can rely on: until it stores its own answer, nobody else makes that document's
  answer fresh. With reverts the order has no meaning, and
  the property is false (finding 4).
* **FileWatch**: `NoWriteLost` with its types is inductive once the reload in progress
  is part of the statement.
* **SecretTypes**. That the recursive functions exist at all is the lemma `Recursion`: one
  level looks at lower types only (`FieldsInLower`, `ReasonInLower`, `SlotsInLower`), so
  there is a solution for the types up to each rank, by induction over the ranks. The
  library's induction theorems take an operator, so `NatBySteps` and `TypesByRank` state
  induction for sets, from the least element of a set of numbers. `FieldFound`:
  the field that `fieldByKey` finds, squashed structs and skipped fields in its way, is the
  one among `Fields` with that name. `WalksAgree` follows by induction over the rank: for a
  struct from `FieldFound`, for maps and lists below each step, and where the walk stops
  there is no place for a Secret, or a loose one. `OnePlace`: no leaf has two places.
  `BehindLands`: only
  for a slice does the check let something through below a list, so that where a
  `Struct`'s path holds a list it rejects what `Sub` would lose.
  `DumpStable`: the places of the paths that were decoded are the same places, so that
  ignored fields do not come back and a loose list stays one.
* **SecretRefs**: `WalksReadAlike` carries `WalksAgree` from types to targets
  (`TargetReads`), which begin at a path of their own. `Staged` says what each stage has
  established: the tree is the parsed document, has a violation if it was rejected and none
  after (and only then were names asked for), is filled with the Secrets of the names it
  uses, and the targets were decoded from it. A reference at `p` in a target that covers `p`
  therefore was let through, and arrives unchanged; and since filling makes Secrets of
  references only (`FillLeaves`), a named Secret in a target comes from one. `Kept`
  remembers across a rotation which plaintexts the load before was made of (`MadeOf`).
  Equal keys then mean equal Secrets, hence equal trees and targets; and a different
  plaintext shows in a target, because every reference of an accepted document has one
  that reads it. `Dumped` remembers across a write-back which document was dumped, and that
  the new one is its dump. The dump has exactly the decoded paths (`CleanLoad`), which
  `DumpStable` decodes into the same places (`Reread`). So each Secret comes from the
  same path as before, where the dump has a reference, the empty string or the marker: the
  first is the same Secret again, the second too, and the third is rejected (`ScalarKept`).
* **SecretResolve**: `SlotsHeld` and `Reported`; the limit follows by cardinality of
  the slots, which contain all callers.

Only model-checked: the liveness properties (`CallsReturn`, `RetiredIsCleaned`,
`ConvergesInOrder`, `LastContentTried`, `Returns`), since liveness under fairness and `ENABLED`
are beyond this prover. Every invariant and every action property of the passing runs is
stated by a theorem.

## 6. What the checks found

Each of these is a run that TLC must find violated.

1. **`Stop` can deadlock** (`manager_stop_deadlock`). `Stop` waits for the watch
   goroutine with `mu` held (manager.go:136). If a `PollingSource` is inside `onChange`,
   which waits for `mu` in `Reload`, neither returns. Every later call blocks too.
2. **A plain value can keep publishing a closed resource** (`reload_kept_chain`). A
   `Map` that retains a pool counts as unchanged when `DeepEqual` finds the new pool
   equal to the old one. A `Map` of *that* is carried forward, with the old pool, which
   is then cleaned. `DirectKeeps` is the condition under which this cannot happen: a
   value that retains another retains a resource itself, not a plain value around one.
3. **A reload can follow `Stop`** (`manager_reload_after_stop`). `FileSource` leaves its
   debounce timer armed when `Watch` returns, and `Fetch` ignores the cancelled context.
4. **A reverted edit can strand a poller** (`polling_reverted`). The key that `Watch`
   compares and the content `onChange` applies are two fetches; an edit that is applied
   and reverted between them leaves the edited content live under the original's key.
5. **A rotation can be missed** (`polling_manual`). The resolver runs outside the
   cache's lock, so a slow `Manager.Reload` can put an older secret back as fresh, and
   `onChange` applies it while `lastKey` has the newer one's key.

More disagreements were met while modelling, which no run repeats:

* A `Reload` before `Start` does not freeze the DAG, so a node registered after it has
  no value in the current generation, and `Get` panics with the "internal error" that
  derived.go:68-70 calls a bug in lemonfig. `Reload` models the sequence (`Register`
  after `Publish`); the next publication has the node (`EveryNodePublished`).
* `Combine` and `Combine3` use the Manager of their first argument and look the other
  ids up in it (derived.go:341-347). Two `TestVal`s both have id 0, so a `Combine` of
  them gives the first value twice, or panics on the type assertion, although
  testing.go:10-12 says that they "work as expected". The models have one Manager.
* Under a `TestVal` a resource is rebuilt by every later registration, and the earlier
  one is never cleaned (`EagerPublish` abandons it).
* `Stop` runs no final cleanup, although manager.go:125 says so: the resources of the
  last generation are never closed. `RetiredIsCleaned` counts them as settled.
* "At most once per d" (options.go:79), said of polls and of reloads "including
  Manager.Reload", fails where two resolutions overlap: two lookups both miss, both
  resolve, and the second store is over an entry that is still good. In the same case a
  generation's secrets can step back: a poll resolves the old value, the program's
  reload resolves, stores and applies the new one, the poll stores the old one as fresh,
  and the next reload applies it. `OncePerInterval` and `NeverStepsBack` hold with this
  as their only exception; finding 5 is what it can lead to.
* `covers` compares map keys only (secretref.go:247), while Viper resolves list indexes
  and dotted keys: a `Key[string]` on "providers.0.api_key" reads a reference as text
  without an error, contrary to README.md:206.
* `!!secret x` is presented as the way to write a literal that looks like a reference
  (README.md:198, options.go:49); in a `Secret` field the decode hook rejects it. In a
  string field it loads, but a dump prints the literal without the escape, and the dump
  is rejected when it is read back.
* A `Key[T]` whose `T` is a struct, a pointer or a typed map, or a `Key[Secret]` on a plain
  string, yields the zero value without an error (`viperGet`, derived.go:124). So does a
  `Struct[T]` wherever its path holds anything but a mapping, since Viper's `Sub` is then
  nil (derived.go:186). The check looks at types only: a reference read by a
  `Struct[Secret]` over a string, by a `Struct[[]Secret]` over a list, or by a
  `Key[*Secret]` is accepted and then lost. `Registered` leaves these targets out: for
  them `AcceptedIffLands` and `KeyTracksConfig` are false.

## 7. What is not modelled, and why

* **Options, errors, logger, examples**: no behaviour across steps.
* **The Secret type**'s sealing and its formatting verbs: a Secret is its plaintext, its
  reference and whether it was resolved. The seal is deterministic, so that equality of
  Secrets is equality of plaintexts.
* **YAML aliases and other document formats**: `SecretRefs` takes the scalars the parser
  delivers. Lists where a map is expected, two fields of one folded name, and types that
  contain themselves are left out.
* **The Go memory model**: `OnReload` and `addNode` append to slices without the lock
  that the reload iterating over them holds. Doing so concurrently is undefined, and the
  models assume the program registers between reloads.
* **Reentrant calls**: a callback, transform or resolver that calls the manager blocks
  on a mutex its own goroutine holds.
* **The grace period in real time**: in `Reload` a cleanup may follow its swap at once,
  so no property there relies on the grace. `Readers` reduces it to an order; a use that
  is longer than the grace period is outside what the code promises.
* **Parsing, Viper, decoding**: a document is a model value and `Extract` what a root
  reads from it. A failure of any of them is `Reject` or `Abort`.

## 8. Plan

Done, in the order of importance: the pipeline with its abstract specification and
proofs; the lifecycle; the two sources, with the cache they share with the reloads; one
resolution; secret references; readers and `TestVal`.

Next, to extend the model:

1. Reentrancy in `Manager`: calls made from a callback or a transform by the goroutine
   that holds `mu`, and which of them can never return.
2. `OnReload` and `addNode` during a reload, with the outcomes the race can produce.
3. Vals of several Managers, for `Combine`.

Then, to prove more: an abstract specification of a watch (the generation follows the
source) that `Polling` and `FileWatch` both implement.
