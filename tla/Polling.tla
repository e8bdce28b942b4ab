------------------------------ MODULE Polling ------------------------------
(***************************************************************************)
(* PollingSource watching a source for a Manager: the key that Watch       *)
(* computes on every tick and compares with lastKey, onChange's reload,    *)
(* which fetches again, and the reloads of Start and of the program, which *)
(* run beside it under Manager.mu.                                         *)
(*                                                                         *)
(* The key covers the document and the values of its secrets.  Both the    *)
(* key, in the watch goroutine and without Manager.mu, and every reload    *)
(* get these values from resolveSecretsCached.  With                       *)
(* WithSecretRefreshInterval (cached) that reuses for a while what was     *)
(* last resolved for the document; the cache has a lock of its own that is *)
(* not held while the resolver runs.  So a poll and a reload of the        *)
(* program's own can resolve side by side and store their values in        *)
(* another order than they got them; the history variable overlapped       *)
(* records that this may have happened.                                    *)
(*                                                                         *)
(* Documents and secret values are numbered in the order in which they     *)
(* appear, so that older and newer can be told apart; all the secrets of a *)
(* document are one value.  The wait for the interval is the action        *)
(* Expire.                                                                 *)
(***************************************************************************)
EXTENDS Integers

CONSTANTS
    MaxDoc,      \* bound: documents are 0 .. MaxDoc
    MaxSecret,   \* bound: values of the secret are 0 .. MaxSecret
    MaxStarts,   \* bound: how often the watch is started
    Reverts,     \* an edit may bring an earlier document back
    Intervals,   \* the values of cached: is a refresh interval set?
    ManualWith   \* those with which the program also calls Reload itself

ASSUME PollingAssumption ==
    /\ MaxDoc \in Nat
    /\ MaxSecret \in Nat
    /\ MaxStarts \in Nat
    /\ Reverts \in BOOLEAN
    /\ Intervals \subseteq BOOLEAN
    /\ ManualWith \subseteq BOOLEAN

Doc == 0 .. MaxDoc
Value == 0 .. MaxSecret
Config == [doc : Doc, value : Value]
NoConfig == [doc |-> -1, value |-> -1]  \* a nil lastKey; no generation

\* The two callers of resolveSecretsCached: the change key and the reload.
Users == {"key", "reload"}
Reloads == {"start", "watch", "manual"}

VARIABLES
    cached,    \* a refresh interval is set
    doc,       \* the document of the source
    store,     \* the value of its secret in the secret store
    valueAtEdit, \* history: the secret's value when each document appeared
    cache,     \* Manager.secrets; fresh while time.Since(at) < every
    overlapped, \* history: one was stored while the other was being resolved
    at,        \* at[u]: where user u is in resolveSecretsCached
    data,      \* data[u]: the document it fetched
    value,     \* value[u]: the value it got
    reload,    \* whose reload holds Manager.mu
    applied,   \* the current generation
    pc,        \* where Watch is: at its baseline, its select, in onChange
    key,       \* its local key
    lastKey,   \* PollingSource.lastKey
    starts     \* how often the watch was started

vars == <<cached, doc, store, valueAtEdit, overlapped, cache, at, data, value,
          reload, applied, pc, key, lastKey, starts>>
world == <<cached, doc, store, valueAtEdit, overlapped>>
watch == <<pc, key, lastKey, starts>>

Steps == {"idle", "lookup", "resolving", "resolved", "done"}

TypeOK ==
    /\ cached \in BOOLEAN
    /\ doc \in Doc
    /\ store \in Value
    /\ valueAtEdit \in [Doc -> Value]
    /\ cache \in [data : Doc \cup {-1}, value : Value, fresh : BOOLEAN]
    /\ overlapped \in BOOLEAN
    /\ at \in [Users -> Steps]
    /\ data \in [Users -> Doc]
    /\ value \in [Users -> Value]
    /\ reload \in Reloads \cup {"none"}
    /\ applied \in Config \cup {NoConfig}
    /\ pc \in {"stopped", "baseline", "select", "offering"}
    /\ key \in Config \cup {NoConfig}
    /\ lastKey \in Config \cup {NoConfig}
    /\ starts \in 0 .. MaxStarts

Init ==
    /\ cached \in Intervals
    /\ doc = 0
    /\ store = 0
    /\ valueAtEdit = [d \in Doc |-> 0]
    /\ cache = [data |-> -1, value |-> 0, fresh |-> FALSE]
    /\ overlapped = FALSE
    /\ at = [u \in Users |-> "idle"]
    /\ data = [u \in Users |-> 0]
    /\ value = [u \in Users |-> 0]
    /\ reload = "none"
    /\ applied = NoConfig
    /\ pc = "stopped"
    /\ key = NoConfig
    /\ lastKey = NoConfig
    /\ starts = 0

-----------------------------------------------------------------------------
(* The inner source, the secret store and the clock. *)

Edit(d) ==
    /\ d # doc
    /\ Reverts \/ d = doc + 1
    /\ doc' = d
    /\ valueAtEdit' = [valueAtEdit EXCEPT ![d] = store]
    /\ UNCHANGED <<cached, store, overlapped, cache, at, data, value, reload,
                   applied, watch>>

Rotate ==
    /\ store < MaxSecret
    /\ store' = store + 1
    /\ UNCHANGED <<cached, doc, valueAtEdit, overlapped, cache, at, data, value,
                   reload, applied, watch>>

Expire ==
    /\ cache.fresh
    /\ cache' = [cache EXCEPT !.fresh = FALSE]
    /\ UNCHANGED <<world, at, data, value, reload, applied, watch>>

-----------------------------------------------------------------------------
(* resolveSecretsCached, for the change key and for the reload. *)

\* Variant: the entry is reused without comparing the document's bytes.
CachedAnyData(u) == cached /\ cache.fresh

Cached(u) == cached /\ cache.fresh /\ cache.data = data[u]

\* Variant: the entry is never looked at.
LookupNever(u) ==
    /\ at[u] = "lookup"
    /\ at' = [at EXCEPT ![u] = "resolving"]
    /\ UNCHANGED <<world, cache, data, value, reload, applied, watch>>

Lookup(u) ==
    /\ at[u] = "lookup"
    /\ IF Cached(u)
       THEN /\ value' = [value EXCEPT ![u] = cache.value]
            /\ at' = [at EXCEPT ![u] = "done"]
       ELSE /\ at' = [at EXCEPT ![u] = "resolving"]
            /\ UNCHANGED value
    /\ UNCHANGED <<world, cache, data, reload, applied, watch>>

\* The resolver answers, with the value it has at some moment of the call.
Resolve(u) ==
    /\ at[u] = "resolving"
    /\ value' = [value EXCEPT ![u] = store]
    /\ at' = [at EXCEPT ![u] = IF cached THEN "resolved" ELSE "done"]
    /\ UNCHANGED <<world, cache, data, reload, applied, watch>>

\* The other user is between its lookup and its store.
Overlaps(u) == \E w \in Users \ {u} : at[w] \in {"resolving", "resolved"}

\* Variant: the entry's time is renewed and its values are not.
RememberTimeOnly(u) ==
    /\ at[u] = "resolved"
    /\ cache' = [cache EXCEPT !.data = data[u], !.fresh = TRUE]
    /\ overlapped' = (overlapped \/ Overlaps(u))
    /\ at' = [at EXCEPT ![u] = "done"]
    /\ UNCHANGED <<cached, doc, store, valueAtEdit, data, value, reload, applied,
                   watch>>

Remember(u) ==
    /\ at[u] = "resolved"
    /\ cache' = [data |-> data[u], value |-> value[u], fresh |-> TRUE]
    /\ overlapped' = (overlapped \/ Overlaps(u))
    /\ at' = [at EXCEPT ![u] = "done"]
    /\ UNCHANGED <<cached, doc, store, valueAtEdit, data, value, reload, applied,
                   watch>>

-----------------------------------------------------------------------------
(* PollingSource.Watch. *)

\* Variant: the poll asks for the document after the last one.
PollAhead ==
    /\ pc \in {"baseline", "select"}
    /\ at["key"] = "idle"
    /\ at' = [at EXCEPT !["key"] = "lookup"]
    /\ data' = [data EXCEPT !["key"] = doc + 1]
    /\ UNCHANGED <<world, cache, value, reload, applied, watch>>

\* fetchKey, for the baseline or on a tick, and secretChangeKey.
Poll ==
    /\ pc \in {"baseline", "select"}
    /\ at["key"] = "idle"
    /\ at' = [at EXCEPT !["key"] = "lookup"]
    /\ data' = [data EXCEPT !["key"] = doc]
    /\ UNCHANGED <<world, cache, value, reload, applied, watch>>

\* A poll whose fetch or resolution fails is skipped, the baseline too.
PollFails ==
    /\ at["key"] \in {"lookup", "resolving"}
    /\ at' = [at EXCEPT !["key"] = "idle"]
    /\ pc' = "select"
    /\ UNCHANGED <<world, cache, data, value, reload, applied, key, lastKey, starts>>

\* Variant: the baseline is taken as seen without being offered.
CompareBaselineSeen ==
    /\ at["key"] = "done"
    /\ at' = [at EXCEPT !["key"] = "idle"]
    /\ key' = [doc |-> data["key"], value |-> value["key"]]
    /\ lastKey' = IF pc = "baseline" THEN key' ELSE lastKey
    /\ pc' = IF key' # lastKey' THEN "offering" ELSE "select"
    /\ UNCHANGED <<world, cache, data, value, reload, applied, starts>>

\* The baseline is offered whatever lastKey is; a tick offers what differs.
Compare ==
    /\ at["key"] = "done"
    /\ at' = [at EXCEPT !["key"] = "idle"]
    /\ key' = [doc |-> data["key"], value |-> value["key"]]
    /\ pc' = IF pc = "baseline" \/ key' # lastKey THEN "offering" ELSE "select"
    /\ UNCHANGED <<world, cache, data, value, reload, applied, lastKey, starts>>

\* The watch context is done, by Stop or by the program's own context: Watch
\* returns from its select, whatever other reload runs.  lastKey is kept.  That
\* Stop cannot end while Watch is in onChange is the subject of module Manager.
Stop ==
    /\ pc = "select"
    /\ at["key"] = "idle"
    /\ pc' = "stopped"
    /\ UNCHANGED <<world, cache, at, data, value, reload, applied, key, lastKey,
                   starts>>

-----------------------------------------------------------------------------
(* A reload from Lock to Unlock: Start's, the program's, or onChange's. *)

BeginReload(r) ==
    /\ reload = "none"
    /\ r = "start" => pc = "stopped" /\ starts < MaxStarts
    /\ r = "watch" => pc = "offering"
    /\ r = "manual" => cached \in ManualWith
    /\ reload' = r
    /\ at' = [at EXCEPT !["reload"] = "lookup"]
    /\ data' = [data EXCEPT !["reload"] = doc]
    /\ UNCHANGED <<world, cache, value, applied, watch>>

\* The reload succeeds.  onChange returned nil, so Watch keeps the key.
Apply ==
    /\ at["reload"] = "done"
    /\ at' = [at EXCEPT !["reload"] = "idle"]
    /\ applied' = [doc |-> data["reload"], value |-> value["reload"]]
    /\ reload' = "none"
    /\ pc' = CASE reload = "start"  -> "baseline"
               [] reload = "watch"  -> "select"
               [] OTHER -> pc
    /\ starts' = IF reload = "start" THEN starts + 1 ELSE starts
    /\ lastKey' = IF reload = "watch" THEN key ELSE lastKey
    /\ UNCHANGED <<world, cache, data, value, key>>

\* Variant: what failed to apply is marked as seen.
ApplyFailsSeen ==
    /\ at["reload"] \in {"lookup", "resolving", "done"}
    /\ at' = [at EXCEPT !["reload"] = "idle"]
    /\ reload' = "none"
    /\ pc' = IF reload = "watch" THEN "select" ELSE pc
    /\ lastKey' = IF reload = "watch" THEN key ELSE lastKey
    /\ UNCHANGED <<world, cache, data, value, applied, key, starts>>

\* The reload fails.  Watch leaves lastKey alone and goes on to its select.
ApplyFails ==
    /\ at["reload"] \in {"lookup", "resolving", "done"}
    /\ at' = [at EXCEPT !["reload"] = "idle"]
    /\ reload' = "none"
    /\ pc' = IF reload = "watch" THEN "select" ELSE pc
    /\ UNCHANGED <<world, cache, data, value, applied, key, lastKey, starts>>

-----------------------------------------------------------------------------
Next ==
    \/ \E d \in Doc : Edit(d)
    \/ Rotate \/ Expire
    \/ \E u \in Users : Lookup(u) \/ Resolve(u) \/ Remember(u)
    \/ Poll \/ PollFails \/ Compare \/ Stop
    \/ \E r \in Reloads : BeginReload(r)
    \/ Apply \/ ApplyFails

Spec == Init /\ [][Next]_vars

(***************************************************************************)
(* The ticker ticks, the interval passes, the mutex is handed to a waiter, *)
(* calls return, and a resolution or a reload that is attempted over and   *)
(* over succeeds in the end, which is what makes a failure transient.      *)
(***************************************************************************)
Fairness ==
    /\ WF_vars(Expire)
    /\ WF_vars(Poll)
    /\ WF_vars(Compare)
    /\ SF_vars(BeginReload("watch"))
    /\ SF_vars(Apply)
    /\ \A u \in Users :
          SF_vars(Lookup(u)) /\ SF_vars(Resolve(u)) /\ WF_vars(Remember(u))

FairSpec == Spec /\ Fairness

-----------------------------------------------------------------------------
(* Properties. *)

\* A content is marked as seen only once a generation at least as recent was
\* applied: lastKey never gets ahead of the generation, although the key and
\* what onChange applies are fetched and resolved separately
\* (polling.go:74-82, secretref.go:547-568).  The document never; the secrets
\* only after a poll and a reload of the program's own resolved side by side.
SeenIsApplied ==
    /\ lastKey.doc <= applied.doc
    /\ lastKey.value <= applied.value \/ overlapped

\* "To force every instance to fetch fresh secrets, change the document"
\* (options.go:83): a generation's secrets are never older than its document.
EditForcesFresh ==
    applied # NoConfig => applied.value >= valueAtEdit[applied.doc]

\* No reload brings back a document older than the one applied, whoever asks for
\* it; nor an older secret, wherever its value comes from, unless resolutions
\* overlapped: then the slower one is stored as fresh, and the next reload
\* applies it (secretref.go:594-604).
NeverStepsBack ==
    [][/\ applied.doc <= applied'.doc
       /\ applied.value <= applied'.value \/ overlapped]_vars

\* The secrets of an unchanged document are resolved "at most once per d" by
\* polls and reloads together, "including Manager.Reload" (options.go:78-82):
\* nothing is stored over an entry that is still good for the document.  That
\* too fails only where resolutions overlap, since no lock spans the lookup and
\* the store.
OncePerInterval ==
    [][\A u \in Users :
          at[u] = "resolved" /\ at'[u] = "done" /\ Cached(u) => overlapped]_vars

\* The document and the secret change no more, and the watch goes on.
Settled == <>[][UNCHANGED <<doc, store>>]_vars /\ <>[](pc # "stopped")

Follows == applied = [doc |-> doc, value |-> store]

\* Once the document and the secret have settled, the generation follows them: no
\* failed apply strands the process on an old generation (polling.go:50-53), and
\* a rotated secret is picked up in the end, though the document did not change
\* ("up to d late", options.go:82).
Converges == Settled => <>[]Follows

\* The same as long as resolutions do not overlap, the program's own reloads
\* included; polling_manual shows what happens when they do.
ConvergesInOrder == Settled /\ []~overlapped => <>[]Follows

-----------------------------------------------------------------------------
(* The inductive invariants of the proofs (module PollingProofs). *)

\* Who holds the mutex, and where the watch is meanwhile.
Control ==
    /\ reload = "none" <=> at["reload"] = "idle"
    /\ reload = "watch" => pc = "offering"
    /\ reload = "start" => pc = "stopped" /\ starts < MaxStarts
    /\ reload = "manual" => cached \in ManualWith
    /\ at["key"] # "idle" => pc \in {"baseline", "select"}

\* Behind EditForcesFresh: whoever has a value for a document got it after the
\* document appeared, the cache included.
Dated ==
    /\ \A d \in Doc : valueAtEdit[d] <= store
    /\ \A u \in Users : data[u] <= doc
    /\ \A u \in Users :
          at[u] \in {"resolved", "done"} => valueAtEdit[data[u]] <= value[u]
    /\ cache.data <= doc
    /\ cache.data # -1 => valueAtEdit[cache.data] <= cache.value
    /\ applied.doc <= doc
    /\ applied.doc # -1 => valueAtEdit[applied.doc] <= applied.value

\* Behind SeenIsApplied and NeverStepsBack, the documents: along the chain
\* lastKey, applied, what is being applied, source, none is older than what
\* comes before it.
OrderedDocs ==
    /\ lastKey.doc <= applied.doc
    /\ applied.doc <= doc
    /\ \A u \in Users : data[u] <= doc
    /\ reload # "none" => applied.doc <= data["reload"]
    /\ pc = "offering" => key.doc <= doc
    /\ reload = "watch" => key.doc <= data["reload"]

\* And the values, which come from the store or, when an interval is set, from
\* a cache that, as long as resolutions do not overlap, only gets newer.
OrderedValues ==
    /\ lastKey.value <= applied.value
    /\ applied.value <= store
    /\ cache.value <= store
    /\ \A u \in Users : value[u] <= store
    /\ pc = "offering" => key.value <= store
    /\ at["reload"] \in {"resolved", "done"} =>
          /\ applied.value <= value["reload"]
          /\ reload = "watch" => key.value <= value["reload"]
    /\ cached =>
          /\ applied.value <= cache.value
          /\ pc = "offering" => key.value <= cache.value
          /\ \A u \in Users :
                /\ at[u] = "resolved" => cache.value <= value[u]
                /\ at[u] = "done" => value[u] <= cache.value

\* Behind OncePerInterval: whoever resolves does so because the cache had
\* nothing good for its document, and nobody else has filled it since.
Missed ==
    \A u \in Users : at[u] \in {"resolving", "resolved"} => ~Cached(u)
=============================================================================
