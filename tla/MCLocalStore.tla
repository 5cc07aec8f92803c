---- MODULE MCLocalStore ----
(* Constants of LocalStore for TLC. *)
EXTENDS LocalStore, TLC

CONSTANTS a, b, c, f
Symmetry == Permutations({a, b})
====
