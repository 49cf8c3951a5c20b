---------------------------- MODULE MCModelWrites ----------------------------
(***************************************************************************)
(* Small instances of ModelWrites: two workers and a table of a few rows.   *)
(***************************************************************************)
EXTENDS ModelWrites, TLC

CONSTANTS w1, w2, none, missing, absent

Symmetry == Permutations(Workers)
=============================================================================
