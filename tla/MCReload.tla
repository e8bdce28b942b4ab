------------------------------ MODULE MCReload ------------------------------
(***************************************************************************)
(* An instance of Reload for TLC: two settings of the document, a database *)
(* pool built from the first, a client built on the pool, and a plain value *)
(* that combines the second setting with the pool and keeps the pool; the  *)
(* second setting is also read by a Map.                                   *)
(***************************************************************************)
EXTENDS ReloadInv, TLC

CONSTANTS d1, d2, d3, x, y

MCKind == 0 :> "key" @@ 1 :> "struct" @@ 2 :> "resource" @@ 3 :> "resource"
            @@ 4 :> "combine" @@ 5 :> "map"
MCParents == 0 :> {} @@ 1 :> {} @@ 2 :> {0} @@ 3 :> {2} @@ 4 :> {1, 2} @@ 5 :> {1}
MCKeeps == [n \in Nodes |-> n \in {3, 4}]
MCDoc == {d1, d2, d3}
MCData == {x, y}

\* d1 and d2 differ in the pool's setting, d2 and d3 in the other one.
MCExtract ==
    LET first == d1 :> x @@ d2 :> y @@ d3 :> y
        second == d1 :> x @@ d2 :> x @@ d3 :> y
    IN  [n \in Nodes |-> IF n = 0 THEN first ELSE second]
=============================================================================
