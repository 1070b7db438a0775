----------------------------- MODULE MCLakehouse -----------------------------
(* Instances of Lakehouse for TLC. *)
EXTENDS Lakehouse, TLC

CONSTANTS e1, e2, r1, r2
MCSymmetry == Permutations(Run)
=============================================================================
