-------------------------- MODULE MCSecretResolve --------------------------
(* An instance of SecretResolve for TLC: more names than slots. *)
EXTENDS SecretResolve

CONSTANTS n1, n2, n3, n4

FourNames == {n1, n2, n3, n4}
=============================================================================
