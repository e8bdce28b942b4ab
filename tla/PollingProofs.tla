--------------------------- MODULE PollingProofs ---------------------------
(***************************************************************************)
(* Proofs about change detection, for any number of documents, rotations,  *)
(* restarts of the watch and reloads beside it, with a refresh interval or *)
(* without one:                                                            *)
(*   - nothing is stored over an entry that is still good for its document *)
(*     unless resolutions overlap;                                         *)
(*   - they never do if, with an interval set, the watch alone reloads.    *)
(* And when no edit brings an earlier document back:                       *)
(*   - editing the document forces fresh secrets;                          *)
(*   - what is marked as seen never gets ahead of the generation, and no   *)
(*     reload steps back, the documents in any case and the secrets unless *)
(*     resolutions overlap.                                                *)
(* The runs polling_reverted and polling_manual show that both conditions  *)
(* are needed.                                                             *)
(***************************************************************************)
EXTENDS Polling, TLAPS

USE DEF Doc, Value, Users, Reloads, Steps

\* Programs in which, with a refresh interval, the watch and Start alone reload.
WatchOnly == TRUE \notin ManualWith

\* Types are kept by every step.
LEMMA TypeStep == TypeOK /\ Control /\ [Next]_vars => TypeOK'
<1> SUFFICES ASSUME TypeOK, Control, [Next]_vars PROVE TypeOK'
    OBVIOUS
<1> USE PollingAssumption
<1>1. ASSUME NEW d \in Doc, Edit(d) PROVE TypeOK'
    BY <1>1 DEF TypeOK, Edit, watch
<1>2. CASE Rotate
    BY <1>2 DEF TypeOK, Rotate, watch
<1>3. CASE Expire
    BY <1>3 DEF TypeOK, Expire, world, watch
<1>4. ASSUME NEW u \in Users, Lookup(u) PROVE TypeOK'
    BY <1>4 DEF TypeOK, Lookup, world, watch
<1>5. ASSUME NEW u \in Users, Resolve(u) PROVE TypeOK'
    BY <1>5 DEF TypeOK, Resolve, world, watch
<1>6. ASSUME NEW u \in Users, Remember(u) PROVE TypeOK'
  <2>1. overlapped' \in BOOLEAN
      BY <1>6 DEF TypeOK, Remember
  <2> QED
      BY <1>6, <2>1 DEF TypeOK, Remember, watch
<1>7. CASE Poll
    BY <1>7 DEF TypeOK, Poll, world, watch
<1>8. CASE PollFails
    BY <1>8 DEF TypeOK, PollFails, world
<1>9. CASE Compare
  <2>1. key' \in Config
      BY <1>9 DEF TypeOK, Compare, Config
  <2> QED
      BY <1>9, <2>1 DEF TypeOK, Compare, world
<1>10. CASE Stop
    BY <1>10 DEF TypeOK, Stop, world
<1>11. ASSUME NEW r \in Reloads, BeginReload(r) PROVE TypeOK'
    BY <1>11 DEF TypeOK, BeginReload, world, watch
<1>12. CASE Apply
  <2>1. applied' \in Config
      BY <1>12 DEF TypeOK, Apply, Config
  <2>2. pc' \in {"stopped", "baseline", "select", "offering"}
      BY <1>12 DEF TypeOK, Apply
  <2>3. starts' \in 0 .. MaxStarts
      BY <1>12 DEF TypeOK, Control, Apply
  <2>4. lastKey' \in Config \cup {NoConfig}
      BY <1>12 DEF TypeOK, Apply
  <2> QED
      BY <1>12, <2>1, <2>2, <2>3, <2>4 DEF TypeOK, Apply, world
<1>13. CASE ApplyFails
    BY <1>13 DEF TypeOK, ApplyFails, world
<1>14. CASE UNCHANGED vars
    BY <1>14 DEF TypeOK, vars
<1> QED
    BY <1>1, <1>2, <1>3, <1>4, <1>5, <1>6, <1>7, <1>8, <1>9, <1>10, <1>11,
       <1>12, <1>13, <1>14 DEF Next

\* The mutex and the watch follow each other.
LEMMA ControlStep == TypeOK /\ Control /\ [Next]_vars => Control'
<1> SUFFICES ASSUME TypeOK, Control, [Next]_vars PROVE Control'
    OBVIOUS
<1> USE PollingAssumption
<1>1. ASSUME NEW d \in Doc, Edit(d) PROVE Control'
    BY <1>1 DEF Control, Edit, watch
<1>2. CASE Rotate \/ Expire
    BY <1>2 DEF Control, Rotate, Expire, world, watch
<1>3. ASSUME NEW u \in Users, Lookup(u) \/ Resolve(u) \/ Remember(u) PROVE Control'
  <2>1. /\ at[u] # "idle" /\ at'[u] # "idle"
        /\ \A w \in Users : w # u => at'[w] = at[w]
        /\ UNCHANGED <<cached, reload, pc, starts>>
      BY <1>3 DEF TypeOK, Lookup, Resolve, Remember, world, watch
  <2> QED
      BY <2>1 DEF Control
<1>4. CASE Poll \/ PollFails \/ Compare
  <2>1. at'["reload"] = at["reload"] /\ UNCHANGED <<cached, reload, starts>>
      BY <1>4 DEF TypeOK, Poll, PollFails, Compare, world, watch
  <2>2. pc \in {"baseline", "select"}
      BY <1>4 DEF Control, Poll, PollFails, Compare
  <2>3. at'["key"] # "idle" => pc' = pc
      BY <1>4 DEF TypeOK, Poll, PollFails, Compare, watch
  <2> QED
      BY <2>1, <2>2, <2>3 DEF Control
<1>5. CASE Stop
    BY <1>5 DEF Control, Stop, world
<1>6. ASSUME NEW r \in Reloads, BeginReload(r) PROVE Control'
    BY <1>6 DEF TypeOK, Control, BeginReload, world, watch
<1>7. CASE Apply \/ ApplyFails
  <2>1. at'["reload"] = "idle" /\ at'["key"] = at["key"] /\ reload' = "none"
      BY <1>7 DEF TypeOK, Apply, ApplyFails
  <2>2. at["key"] # "idle" => pc' = pc
      BY <1>7 DEF Control, Apply, ApplyFails
  <2> QED
      BY <2>1, <2>2 DEF Control
<1>8. CASE UNCHANGED vars
    BY <1>8 DEF Control, vars
<1> QED
    BY <1>1, <1>2, <1>3, <1>4, <1>5, <1>6, <1>7, <1>8 DEF Next

\* The numbers among the variables, for arithmetic.
LEMMA Numbers ==
    TypeOK => /\ doc \in Int /\ store \in Int
              /\ cache.data \in Int /\ cache.value \in Int
              /\ applied.doc \in Int /\ applied.value \in Int
              /\ key.doc \in Int /\ key.value \in Int
              /\ lastKey.doc \in Int /\ lastKey.value \in Int
              /\ \A d \in Doc : d \in Int /\ valueAtEdit[d] \in Int
              /\ \A u \in Users : data[u] \in Doc /\ value[u] \in Int
<1> SUFFICES ASSUME TypeOK PROVE
        /\ doc \in Int /\ store \in Int
        /\ cache.data \in Int /\ cache.value \in Int
        /\ applied.doc \in Int /\ applied.value \in Int
        /\ key.doc \in Int /\ key.value \in Int
        /\ lastKey.doc \in Int /\ lastKey.value \in Int
        /\ \A d \in Doc : d \in Int /\ valueAtEdit[d] \in Int
        /\ \A u \in Users : data[u] \in Doc /\ value[u] \in Int
    OBVIOUS
<1> USE PollingAssumption
<1>1. \A c \in Config \cup {NoConfig} : c.doc \in Int /\ c.value \in Int
    BY DEF Config, NoConfig
<1>2. /\ applied.doc \in Int /\ applied.value \in Int
      /\ key.doc \in Int /\ key.value \in Int
      /\ lastKey.doc \in Int /\ lastKey.value \in Int
    BY <1>1 DEF TypeOK
<1>3. /\ doc \in Int /\ store \in Int
      /\ cache.data \in Int /\ cache.value \in Int
    BY DEF TypeOK
<1>4. /\ \A d \in Doc : d \in Int /\ valueAtEdit[d] \in Int
      /\ \A u \in Users : data[u] \in Doc /\ value[u] \in Int
    BY DEF TypeOK
<1> QED
    BY <1>2, <1>3, <1>4

\* No step gives anyone a value older than the document it is for.
LEMMA DatedStep == ~Reverts /\ TypeOK /\ Dated /\ [Next]_vars => Dated'
<1> SUFFICES ASSUME ~Reverts, TypeOK, Dated, [Next]_vars PROVE Dated'
    OBVIOUS
<1> USE PollingAssumption
<1>0. /\ doc \in Int /\ store \in Int
      /\ cache.data \in Int /\ cache.value \in Int
      /\ applied.doc \in Int /\ applied.value \in Int
      /\ \A d \in Doc : d \in Int /\ valueAtEdit[d] \in Int
      /\ \A u \in Users : data[u] \in Doc /\ value[u] \in Int
    BY Numbers
<1>1. ASSUME NEW d \in Doc, Edit(d) PROVE Dated'
  <2>1. /\ d = doc + 1 /\ doc' = d
        /\ valueAtEdit' = [valueAtEdit EXCEPT ![d] = store]
        /\ UNCHANGED <<store, cache, at, data, value, applied>>
      BY <1>1 DEF Edit
  <2>2. \A e \in Doc : e <= doc => valueAtEdit'[e] = valueAtEdit[e]
      BY <1>0, <2>1 DEF TypeOK
  <2>3. \A e \in Doc : valueAtEdit'[e] <= store
      BY <1>0, <2>1 DEF TypeOK, Dated
  <2>4. \A u \in Users : data[u] <= doc
      BY DEF Dated
  <2>5. cache.data # -1 => cache.data \in Doc
      BY DEF TypeOK
  <2>6. applied.doc # -1 => applied.doc \in Doc
      BY DEF TypeOK, Config, NoConfig
  <2> QED
      BY <1>0, <2>1, <2>2, <2>3, <2>4, <2>5, <2>6 DEF Dated
<1>2. CASE Rotate
    BY <1>0, <1>2 DEF Dated, Rotate
<1>3. CASE Expire
    BY <1>0, <1>3 DEF TypeOK, Dated, Expire, world
<1>4. ASSUME NEW u \in Users, Lookup(u) PROVE Dated'
  <2>1. CASE Cached(u)
    <3>1. /\ cache.data = data[u] /\ cache.data # -1
          /\ value' = [value EXCEPT ![u] = cache.value]
          /\ at' = [at EXCEPT ![u] = "done"]
          /\ UNCHANGED <<doc, store, valueAtEdit, cache, data, applied>>
        BY <1>0, <1>4, <2>1 DEF Lookup, Cached, world
    <3>2. valueAtEdit[data[u]] <= value'[u]
        BY <3>1 DEF TypeOK, Dated
    <3>3. \A w \in Users : w # u => at'[w] = at[w] /\ value'[w] = value[w]
        BY <3>1 DEF TypeOK
    <3> QED
        BY <3>1, <3>2, <3>3 DEF Dated
  <2>2. CASE ~Cached(u)
      BY <1>0, <1>4, <2>2 DEF TypeOK, Dated, Lookup, world
  <2> QED
      BY <2>1, <2>2
<1>5. ASSUME NEW u \in Users, Resolve(u) PROVE Dated'
    BY <1>0, <1>5 DEF TypeOK, Dated, Resolve, world
<1>6. ASSUME NEW u \in Users, Remember(u) PROVE Dated'
    BY <1>0, <1>6 DEF TypeOK, Dated, Remember, world
<1>7. CASE Poll
    BY <1>0, <1>7 DEF TypeOK, Dated, Poll, world
<1>8. CASE PollFails \/ Compare \/ Stop \/ ApplyFails
  <2>1. /\ \A u \in Users : at'[u] = at[u] \/ at'[u] = "idle"
        /\ UNCHANGED <<doc, store, valueAtEdit, cache, data, value, applied>>
      BY <1>8 DEF TypeOK, PollFails, Compare, Stop, ApplyFails, world
  <2> QED
      BY <2>1 DEF Dated
<1>9. ASSUME NEW r \in Reloads, BeginReload(r) PROVE Dated'
    BY <1>0, <1>9 DEF TypeOK, Dated, BeginReload, world
<1>10. CASE Apply
    BY <1>0, <1>10 DEF TypeOK, Dated, Apply, world
<1>11. CASE UNCHANGED vars
    BY <1>11 DEF Dated, vars
<1> QED
    BY <1>1, <1>2, <1>3, <1>4, <1>5, <1>6, <1>7, <1>8, <1>9, <1>10,
       <1>11 DEF Next

\* The documents: what the key and the reload fetched was the source's when
\* they did, and the reload of the watch fetches after the key.
LEMMA DocsStep ==
    ~Reverts /\ TypeOK /\ Control /\ OrderedDocs /\ [Next]_vars => OrderedDocs'
<1> SUFFICES ASSUME ~Reverts, TypeOK, Control, OrderedDocs, [Next]_vars
             PROVE  OrderedDocs'
    OBVIOUS
<1> USE PollingAssumption
<1>0. /\ doc \in Int /\ applied.doc \in Int /\ key.doc \in Int
      /\ lastKey.doc \in Int /\ \A u \in Users : data[u] \in Int
    BY Numbers
<1>1. ASSUME NEW d \in Doc, Edit(d) PROVE OrderedDocs'
    BY <1>0, <1>1 DEF OrderedDocs, Edit, watch
<1>2. CASE Rotate \/ Expire
    BY <1>2 DEF OrderedDocs, Rotate, Expire, world, watch
<1>3. ASSUME NEW u \in Users, Lookup(u) \/ Resolve(u) \/ Remember(u)
      PROVE OrderedDocs'
    BY <1>3 DEF OrderedDocs, Lookup, Resolve, Remember, world, watch
<1>4. CASE Poll
    BY <1>0, <1>4 DEF TypeOK, OrderedDocs, Poll, world, watch
<1>5. CASE PollFails \/ Stop
    BY <1>5 DEF OrderedDocs, Control, PollFails, Stop, world
<1>6. CASE Compare
  <2>1. reload # "watch"
      BY <1>6 DEF Control, Compare
  <2>2. key'.doc <= doc
      BY <1>6 DEF OrderedDocs, Compare
  <2> QED
      BY <1>6, <2>1, <2>2 DEF OrderedDocs, Compare, world
<1>7. ASSUME NEW r \in Reloads, BeginReload(r) PROVE OrderedDocs'
    BY <1>0, <1>7 DEF TypeOK, OrderedDocs, BeginReload, world, watch
<1>8. CASE Apply
  <2>1. applied'.doc = data["reload"] /\ reload' = "none" /\ key' = key
        /\ UNCHANGED <<doc, data>>
      BY <1>8 DEF Apply, world
  <2>2. reload # "none"
      BY <1>8 DEF Control, Apply
  <2>3. lastKey'.doc <= applied'.doc
    <3>1. CASE reload = "watch"
        BY <1>8, <2>1, <3>1 DEF OrderedDocs, Apply
    <3>2. CASE reload # "watch"
        BY <1>0, <1>8, <2>1, <2>2, <3>2 DEF OrderedDocs, Apply
    <3> QED
        BY <3>1, <3>2
  <2>4. pc' = "offering" => pc = "offering"
      BY <1>8 DEF Control, Apply
  <2> QED
      BY <1>0, <2>1, <2>2, <2>3, <2>4 DEF OrderedDocs
<1>9. CASE ApplyFails
    BY <1>9 DEF OrderedDocs, ApplyFails, world
<1>10. CASE UNCHANGED vars
    BY <1>10 DEF OrderedDocs, vars
<1> QED
    BY <1>1, <1>2, <1>3, <1>4, <1>5, <1>6, <1>7, <1>8, <1>9, <1>10 DEF Next

\* The values, as long as resolutions do not overlap.
Values == overlapped \/ OrderedValues
Unfilled == overlapped \/ Missed

\* With an interval and no reload but the watch's and Start's, the key and the
\* reload never use the cache at the same time.
LEMMA OneUser ==
    ASSUME WatchOnly, TypeOK, Control, cached, NEW u \in Users, NEW w \in Users,
           at[u] # "idle", w # u
    PROVE  at[w] = "idle"
    BY DEF WatchOnly, TypeOK, Control

\* The values: the store only gets newer, and so does the cache.
LEMMA ValuesStep == TypeOK /\ Control /\ Values /\ [Next]_vars => Values'
<1> SUFFICES ASSUME TypeOK, Control, OrderedValues, [Next]_vars, ~overlapped'
             PROVE  OrderedValues'
  <2>1. [Next]_vars /\ overlapped /\ TypeOK => overlapped'
      BY DEF TypeOK, Next, Edit, Rotate, Expire, Lookup, Resolve, Remember, Poll,
             PollFails, Compare, Stop, BeginReload, Apply, ApplyFails, world, vars
  <2> QED
      BY <2>1 DEF Values
<1> USE PollingAssumption
<1>0. /\ store \in Int /\ cache.value \in Int /\ applied.value \in Int
      /\ key.value \in Int /\ lastKey.value \in Int
      /\ \A u \in Users : value[u] \in Int
    BY Numbers
<1>1. ASSUME NEW d \in Doc, Edit(d) PROVE OrderedValues'
    BY <1>1 DEF OrderedValues, Edit, watch
<1>2. CASE Rotate
    BY <1>0, <1>2 DEF OrderedValues, Rotate, watch
<1>3. CASE Expire
  <2>1. cache'.value = cache.value
      BY <1>3 DEF TypeOK, Expire
  <2> QED
      BY <1>3, <2>1 DEF OrderedValues, Expire, world, watch
<1>4. ASSUME NEW u \in Users, Lookup(u) PROVE OrderedValues'
  <2>1. CASE Cached(u)
    <3>1. /\ cached
          /\ value' = [value EXCEPT ![u] = cache.value]
          /\ at' = [at EXCEPT ![u] = "done"]
          /\ UNCHANGED <<cached, store, cache, reload, applied, pc, key, lastKey>>
        BY <1>4, <2>1 DEF Lookup, Cached, world, watch
    <3>2. /\ value'[u] = cache.value /\ at'[u] = "done"
          /\ \A w \in Users : w # u => at'[w] = at[w] /\ value'[w] = value[w]
        BY <3>1 DEF TypeOK
    <3>3. u = "reload" /\ reload = "watch" => pc = "offering"
        BY DEF Control
    <3> QED
        BY <1>0, <3>1, <3>2, <3>3 DEF OrderedValues
  <2>2. CASE ~Cached(u)
    <3>1. /\ at' = [at EXCEPT ![u] = "resolving"]
          /\ UNCHANGED <<cached, store, cache, value, reload, applied, pc, key,
                         lastKey>>
        BY <1>4, <2>2 DEF Lookup, world, watch
    <3>2. at'[u] = "resolving" /\ \A w \in Users : w # u => at'[w] = at[w]
        BY <3>1 DEF TypeOK
    <3> QED
        BY <3>1, <3>2 DEF OrderedValues
  <2> QED
      BY <2>1, <2>2
<1>5. ASSUME NEW u \in Users, Resolve(u) PROVE OrderedValues'
  <2>1. /\ value' = [value EXCEPT ![u] = store]
        /\ at' = [at EXCEPT ![u] = IF cached THEN "resolved" ELSE "done"]
        /\ UNCHANGED <<cached, store, cache, reload, applied, pc, key, lastKey>>
      BY <1>5 DEF Resolve, world, watch
  <2>2. /\ value'[u] = store
        /\ at'[u] = IF cached THEN "resolved" ELSE "done"
        /\ \A w \in Users : w # u => at'[w] = at[w] /\ value'[w] = value[w]
      BY <2>1 DEF TypeOK
  <2>3. reload = "watch" => key.value <= store
      BY DEF Control, OrderedValues
  <2> QED
      BY <1>0, <2>1, <2>2, <2>3 DEF OrderedValues
<1>6. ASSUME NEW u \in Users, Remember(u) PROVE OrderedValues'
  <2>1. /\ cache'.value = value[u]
        /\ at[u] = "resolved" /\ ~Overlaps(u)
        /\ at' = [at EXCEPT ![u] = "done"]
        /\ UNCHANGED <<cached, store, value, reload, applied, pc, key, lastKey>>
      BY <1>6 DEF Remember, watch
  <2>2. at'[u] = "done" /\ \A w \in Users : w # u => at'[w] = at[w]
      BY <2>1 DEF TypeOK
  <2>3. \A w \in Users : w # u => at[w] \notin {"resolving", "resolved"}
      BY <2>1 DEF Overlaps
  <2>4. cached => cache.value <= value[u]
      BY <2>1 DEF OrderedValues
  <2> QED
      BY <1>0, <2>1, <2>2, <2>3, <2>4 DEF OrderedValues
<1>7. CASE Poll
  <2>1. /\ \A u \in Users : at'[u] = at[u] \/ at'[u] = "lookup"
        /\ UNCHANGED <<cached, store, cache, value, reload, applied, pc, key,
                       lastKey>>
      BY <1>7 DEF TypeOK, Poll, world, watch
  <2> QED
      BY <2>1 DEF OrderedValues
<1>8. CASE PollFails \/ Stop
  <2>1. /\ \A u \in Users : at'[u] = at[u] \/ at'[u] = "idle"
        /\ pc' # "offering"
        /\ UNCHANGED <<cached, store, cache, value, reload, applied, key, lastKey>>
      BY <1>8 DEF TypeOK, PollFails, Stop, world
  <2> QED
      BY <2>1 DEF OrderedValues
<1>9. CASE Compare
  <2>1. reload # "watch"
      BY <1>9 DEF Control, Compare
  <2>2. key'.value = value["key"] /\ at["key"] = "done"
      BY <1>9 DEF Compare
  <2>3. /\ \A u \in Users : at'[u] = at[u] \/ at'[u] = "idle"
        /\ UNCHANGED <<cached, store, cache, value, reload, applied, lastKey>>
      BY <1>9 DEF TypeOK, Compare, world
  <2> QED
      BY <2>1, <2>2, <2>3 DEF OrderedValues
<1>10. ASSUME NEW r \in Reloads, BeginReload(r) PROVE OrderedValues'
  <2>1. /\ at'["reload"] = "lookup" /\ at'["key"] = at["key"]
        /\ UNCHANGED <<cached, store, cache, value, applied, pc, key, lastKey>>
      BY <1>10 DEF TypeOK, BeginReload, world, watch
  <2> QED
      BY <2>1 DEF OrderedValues
<1>11. CASE Apply
  <2>1. /\ at["reload"] = "done" /\ applied'.value = value["reload"]
        /\ at'["reload"] = "idle" /\ at'["key"] = at["key"]
        /\ UNCHANGED <<cached, store, cache, value, key>>
      BY <1>11 DEF TypeOK, Apply, world
  <2>2. lastKey'.value <= applied'.value
    <3>1. CASE reload = "watch"
        BY <1>11, <2>1, <3>1 DEF OrderedValues, Apply
    <3>2. CASE reload # "watch"
        BY <1>0, <1>11, <2>1, <3>2 DEF OrderedValues, Apply
    <3> QED
        BY <3>1, <3>2
  <2>3. pc' = "offering" => pc = "offering"
      BY <1>11 DEF Apply
  <2> QED
      BY <1>0, <2>1, <2>2, <2>3 DEF OrderedValues
<1>12. CASE ApplyFails
  <2>1. /\ at'["reload"] = "idle" /\ at'["key"] = at["key"]
        /\ pc' = "offering" => pc = "offering"
        /\ UNCHANGED <<cached, store, cache, value, applied, key, lastKey>>
      BY <1>12 DEF TypeOK, ApplyFails, world
  <2> QED
      BY <2>1 DEF OrderedValues
<1>13. CASE UNCHANGED vars
    BY <1>13 DEF OrderedValues, vars
<1> QED
    BY <1>1, <1>2, <1>3, <1>4, <1>5, <1>6, <1>7, <1>8, <1>9, <1>10, <1>11,
       <1>12, <1>13 DEF Next

\* Between a user's lookup and its store nobody else stores, unless they overlap,
\* and time can only spoil the entry it missed.
LEMMA MissedStep == TypeOK /\ Unfilled /\ [Next]_vars => Unfilled'
<1> SUFFICES ASSUME TypeOK, Missed, [Next]_vars, ~overlapped',
                    NEW u \in Users, at'[u] \in {"resolving", "resolved"},
                    Cached(u)'
             PROVE  FALSE
  <2>1. [Next]_vars /\ overlapped /\ TypeOK => overlapped'
      BY DEF TypeOK, Next, Edit, Rotate, Expire, Lookup, Resolve, Remember, Poll,
             PollFails, Compare, Stop, BeginReload, Apply, ApplyFails, world, vars
  <2> QED
      BY <2>1 DEF Unfilled, Missed
<1>0. cached' /\ cache'.fresh /\ cache'.data = data'[u]
    BY DEF Cached
<1>1. ASSUME NEW w \in Users, Lookup(w) PROVE FALSE
  <2>1. UNCHANGED <<cached, cache, data>>
      BY <1>1 DEF Lookup, world
  <2>2. Cached(u)
      BY <1>0, <2>1 DEF Cached
  <2>3. CASE w = u
      BY <1>1, <2>2, <2>3 DEF TypeOK, Lookup
  <2>4. CASE w # u
      BY <1>1, <2>2, <2>4 DEF TypeOK, Missed, Lookup
  <2> QED
      BY <2>3, <2>4
<1>2. ASSUME NEW w \in Users, Resolve(w) PROVE FALSE
  <2>1. at[u] \in {"resolving", "resolved"}
      BY <1>2 DEF TypeOK, Resolve
  <2> QED
      BY <1>0, <1>2, <2>1 DEF Missed, Cached, Resolve, world
<1>3. ASSUME NEW w \in Users, Remember(w) PROVE FALSE
  <2>1. w # u
      BY <1>3 DEF TypeOK, Remember
  <2>2. at[u] \in {"resolving", "resolved"}
      BY <1>3, <2>1 DEF TypeOK, Remember
  <2>3. Overlaps(w)
      BY <2>1, <2>2 DEF Overlaps
  <2> QED
      BY <1>3, <2>3 DEF Remember
<1>4. CASE Poll \/ \E r \in Reloads : BeginReload(r)
  <2>1. at[u] \in {"resolving", "resolved"} /\ data'[u] = data[u]
      BY <1>4 DEF TypeOK, Poll, BeginReload
  <2>2. UNCHANGED <<cached, cache>>
      BY <1>4 DEF Poll, BeginReload, world
  <2> QED
      BY <1>0, <2>1, <2>2 DEF Missed, Cached
<1>5. CASE PollFails \/ Compare \/ Apply \/ ApplyFails
  <2>1. at[u] \in {"resolving", "resolved"}
      BY <1>5 DEF TypeOK, PollFails, Compare, Apply, ApplyFails
  <2>2. UNCHANGED <<cached, cache, data>>
      BY <1>5 DEF PollFails, Compare, Apply, ApplyFails, world
  <2> QED
      BY <1>0, <2>1, <2>2 DEF Missed, Cached
<1>6. CASE Expire
    BY <1>0, <1>6 DEF TypeOK, Expire
<1>7. CASE Rotate \/ Stop \/ (\E d \in Doc : Edit(d)) \/ UNCHANGED vars
  <2>1. UNCHANGED <<cached, cache, at, data>>
      BY <1>7 DEF Rotate, Stop, Edit, world, vars
  <2> QED
      BY <1>0, <2>1 DEF Missed, Cached
<1> QED
    BY <1>1, <1>2, <1>3, <1>4, <1>5, <1>6, <1>7 DEF Next

-----------------------------------------------------------------------------
\* Everything holds initially.
LEMMA Initially ==
    Init => TypeOK /\ Control /\ Dated /\ OrderedDocs /\ OrderedValues
<1> SUFFICES ASSUME Init
             PROVE  TypeOK /\ Control /\ Dated /\ OrderedDocs /\ OrderedValues
    OBVIOUS
<1>1. 0 \in Doc /\ 0 \in Value /\ 0 \in 0 .. MaxStarts
    BY PollingAssumption
<1>2. TypeOK
    BY <1>1, PollingAssumption DEF Init, TypeOK
<1>3. Control
    BY DEF Init, Control
<1>4. Dated
    BY <1>1 DEF Init, Dated, NoConfig
<1>5. OrderedDocs /\ OrderedValues
    BY <1>1 DEF Init, OrderedDocs, OrderedValues, NoConfig
<1> QED
    BY <1>2, <1>3, <1>4, <1>5

\* Type correctness, for every setting.
THEOREM TypeCorrect == Spec => []TypeOK
<1>1. Init => TypeOK /\ Control
    BY Initially
<1>2. TypeOK /\ Control /\ [Next]_vars => (TypeOK /\ Control)'
    BY TypeStep, ControlStep
<1> QED
    BY <1>1, <1>2, PTL DEF Spec

\* "To force every instance to fetch fresh secrets, change the document"
\* (options.go:83): the generation's secrets are never older than its document,
\* through the cache or not, although its lock is not held while resolving,
\* and whatever reloads run beside the watch.
THEOREM FreshAfterEdit == ~Reverts => (Spec => []EditForcesFresh)
<1> SUFFICES ASSUME ~Reverts PROVE Spec => []EditForcesFresh
    OBVIOUS
<1> DEFINE IInv == TypeOK /\ Control /\ Dated
<1>1. Init => IInv
    BY Initially
<1>2. IInv /\ [Next]_vars => IInv'
    BY TypeStep, ControlStep, DatedStep
<1>3. IInv => EditForcesFresh
  <2> SUFFICES ASSUME IInv, applied # NoConfig
               PROVE  applied.value >= valueAtEdit[applied.doc]
      BY DEF EditForcesFresh
  <2>1. applied \in Config
      BY DEF TypeOK
  <2>2. applied.doc \in Doc /\ applied.value \in Int
      BY <2>1, PollingAssumption DEF Config
  <2> QED
      BY <2>2, Numbers DEF Dated
<1> QED
    BY <1>1, <1>2, <1>3, PTL DEF Spec

\* The invariant of the ordering.
LEMMA Ordered == ~Reverts => (Spec => [](TypeOK /\ Control /\ OrderedDocs /\ Values))
<1> SUFFICES ASSUME ~Reverts PROVE Spec => [](TypeOK /\ Control /\ OrderedDocs /\ Values)
    OBVIOUS
<1> DEFINE IInv == TypeOK /\ Control /\ OrderedDocs /\ Values
<1>1. Init => IInv
    BY Initially DEF Values
<1>2. IInv /\ [Next]_vars => IInv'
    BY TypeStep, ControlStep, DocsStep, ValuesStep
<1> QED
    BY <1>1, <1>2, PTL DEF Spec

\* Nothing is marked as seen before something at least as recent was applied
\* (polling.go:74-82): the next tick still differs, so no change is missed.  Of
\* the secrets, as long as resolutions do not overlap.
THEOREM Seen == ~Reverts => (Spec => []SeenIsApplied)
<1> SUFFICES ASSUME ~Reverts PROVE Spec => []SeenIsApplied
    OBVIOUS
<1>1. OrderedDocs /\ Values => SeenIsApplied
    BY DEF OrderedDocs, Values, OrderedValues, SeenIsApplied
<1> QED
    BY <1>1, Ordered, PTL

\* No reload replaces a generation by an older document, whoever asks for it, nor
\* by older secrets, as long as resolutions do not overlap.
THEOREM StepsForward == ~Reverts => (Spec => NeverStepsBack)
<1> SUFFICES ASSUME ~Reverts PROVE Spec => NeverStepsBack
    OBVIOUS
<1> DEFINE IInv == TypeOK /\ Control /\ OrderedDocs /\ Values
           Forward == /\ applied.doc <= applied'.doc
                      /\ applied.value <= applied'.value \/ overlapped
<1>1. IInv /\ [Next]_vars => [Forward]_vars
  <2> SUFFICES ASSUME IInv, Next PROVE Forward
      OBVIOUS
  <2>1. applied.doc \in Int /\ applied.value \in Int
      BY Numbers
  <2>2. CASE Apply
    <3>1. /\ applied.doc <= data["reload"]
          /\ applied.value <= value["reload"] \/ overlapped
        BY <2>2 DEF Apply, Control, OrderedDocs, Values, OrderedValues
    <3> QED
        BY <2>2, <3>1 DEF Apply
  <2>3. CASE ~Apply
    <3>1. UNCHANGED applied
        BY <2>3 DEF Next, Edit, Rotate, Expire, Lookup, Resolve, Remember, Poll,
                    PollFails, Compare, Stop, BeginReload, ApplyFails
    <3> QED
        BY <2>1, <3>1
  <2> QED
      BY <2>2, <2>3
<1> QED
    BY <1>1, Ordered, PTL DEF Spec, NeverStepsBack

\* "at most once per d" (options.go:79): polls and reloads, those of the program
\* included, resolve nothing that the cache still has for the same document,
\* except where two resolutions overlap.
THEOREM OnceEach == Spec => OncePerInterval
<1> DEFINE IInv == TypeOK /\ Control /\ Unfilled
<1>1. Init => IInv
  <2>1. Init => Missed
      BY DEF Init, Missed
  <2> QED
      BY <2>1, Initially DEF Unfilled
<1>2. IInv /\ [Next]_vars => IInv'
    BY TypeStep, ControlStep, MissedStep
<1>3. IInv => \A u \in Users :
                 at[u] = "resolved" /\ at'[u] = "done" /\ Cached(u) => overlapped
    BY DEF Unfilled, Missed
<1> QED
    BY <1>1, <1>2, <1>3, PTL DEF Spec, OncePerInterval

\* Where the watch alone reloads, the exceptions for overlapping resolutions are
\* void: the poll and the reload it causes follow each other, although no lock
\* is held while resolving.
THEOREM NoOverlap == WatchOnly => (Spec => []~overlapped)
<1> SUFFICES ASSUME WatchOnly PROVE Spec => []~overlapped
    OBVIOUS
<1> DEFINE Uncached == \A u \in Users : at[u] = "resolved" => cached
           IInv == TypeOK /\ Control /\ Uncached /\ ~overlapped
<1>1. Init => IInv
    BY Initially DEF Init
<1>2. IInv /\ [Next]_vars => IInv'
  <2> SUFFICES ASSUME IInv, [Next]_vars PROVE Uncached' /\ ~overlapped'
      BY TypeStep, ControlStep
  <2>1. Uncached'
      BY DEF TypeOK, Next, Edit, Rotate, Expire, Lookup, Resolve, Remember, Poll,
             PollFails, Compare, Stop, BeginReload, Apply, ApplyFails, world, vars
  <2>2. ASSUME NEW u \in Users, Remember(u) PROVE ~overlapped'
    <3>1. cached /\ at[u] # "idle"
        BY <2>2 DEF Remember
    <3>2. \A w \in Users : w # u => at[w] = "idle"
        BY <3>1, OneUser
    <3>3. ~Overlaps(u)
        BY <3>2 DEF Overlaps
    <3> QED
        BY <2>2, <3>3 DEF Remember
  <2>3. ASSUME ~ \E u \in Users : Remember(u) PROVE ~overlapped'
      BY <2>3 DEF Next, Edit, Rotate, Expire, Lookup, Resolve, Poll, PollFails,
                  Compare, Stop, BeginReload, Apply, ApplyFails, world, vars
  <2> QED
      BY <2>1, <2>2, <2>3
<1> QED
    BY <1>1, <1>2, PTL DEF Spec
=============================================================================
