---------------------------- MODULE AtomicConfig ----------------------------
(***************************************************************************)
(* What lemonfig promises to the readers of its values, without the walk   *)
(* that builds them: there is one published snapshot, it is replaced as a  *)
(* whole, and every value in it was computed from the other values of the  *)
(* same snapshot ("always consistent with the latest successful reload",   *)
(* derived.go:22-24).                                                      *)
(***************************************************************************)
EXTENDS Integers

CONSTANTS
    Nodes,      \* the identifiers of the derived values (derivedID)
    Parents,    \* Parents[n]: the nodes that node n is computed from
    Doc,        \* the configuration documents
    NoDoc,      \* no document has been loaded
    NoData,     \* a node without a value
    Extract     \* Extract[n][d]: what root n reads from document d

VARIABLE snapshot   \* [version, config, values]; version -1 is "nothing yet"

Root(n) == Parents[n] = {}

Empty ==
    [version |-> -1, config |-> NoDoc,
     values |-> [n \in Nodes |->
                   [data |-> NoData, from |-> [p \in Nodes |-> NoData]]]]

Present(s, n) == s.values[n].data # NoData

\* Every value present is the one its document and its parents' values give.
ConsistentSnapshot(s) ==
    \A n \in Nodes : Present(s, n) =>
        /\ Root(n) => s.values[n].data = Extract[n][s.config]
        /\ \A p \in Parents[n] : /\ Present(s, p)
                                 /\ s.values[n].from[p] = s.values[p].data

Init == snapshot = Empty

\* A successful load or reload: one step replaces the whole snapshot.
Swap ==
    /\ snapshot'.version = snapshot.version + 1
    /\ snapshot'.config \in Doc
    /\ ConsistentSnapshot(snapshot')
    /\ \A n \in Nodes : Present(snapshot, n) => Present(snapshot', n)

Spec == Init /\ [][Swap]_snapshot
=============================================================================
