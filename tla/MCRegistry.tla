------------------------------ MODULE MCRegistry ------------------------------
(* Registry for TLC. *)
EXTENDS Registry, TLC

\* Transcript IDs are interchangeable.
IdSymmetry == Permutations(Ids)
===============================================================================
