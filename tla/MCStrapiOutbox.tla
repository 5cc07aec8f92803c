--------------------------- MODULE MCStrapiOutbox ---------------------------
(* Small instances of StrapiOutbox for TLC.                                 *)
EXTENDS StrapiOutbox, TLC

Symmetry == Permutations(Items)
=============================================================================
