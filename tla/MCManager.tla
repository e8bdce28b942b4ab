----------------------------- MODULE MCManager -----------------------------
(* Instances of Manager for TLC. *)
EXTENDS Manager

CONSTANTS c1, c2, t1

TwoCallers == {c1, c2}
OneTimer == {t1}
=============================================================================
