------------------------------- MODULE MCExports -------------------------------
(* Instances of Exports for TLC. *)
EXTENDS Exports, TLC

ExportsSymmetry == Permutations(Requests) \cup Permutations(IDs)
===============================================================================
