---------------------------- MODULE MCGeneraciones ----------------------------
(* Small instances of Generaciones for TLC. *)
EXTENDS Generaciones, TLC

CONSTANTS g0, g1, g2, gp, p1, p2

\* The terminals are interchangeable.
Simetria == Permutations(Procesos)
=============================================================================
