------------------------------- MODULE MCCopias -------------------------------
(* Instance of Copias for TLC. *)
EXTENDS Copias, TLC

Simetria == Permutations(Mandos) \cup Permutations(Ids)
===============================================================================
