--------------------------- MODULE MCReloadChain ---------------------------
(***************************************************************************)
(* An instance of Reload outside DirectKeeps: a pool is built from the     *)
(* whole configuration, a plain Map wraps the pool, and another plain Map  *)
(* wraps the wrapper.                                                      *)
(***************************************************************************)
EXTENDS TestVal, TLC

CONSTANTS d1, d2, x, y

ChainKind == 0 :> "struct" @@ 1 :> "resource" @@ 2 :> "map" @@ 3 :> "map"
ChainParents == 0 :> {} @@ 1 :> {0} @@ 2 :> {1} @@ 3 :> {2}
ChainKeeps == [n \in Nodes |-> n \in {2, 3}]
ChainDoc == {d1, d2}
ChainData == {x, y}
ChainExtract == [n \in Nodes |-> d1 :> x @@ d2 :> y]
=============================================================================
