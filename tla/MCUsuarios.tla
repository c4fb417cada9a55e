------------------------------ MODULE MCUsuarios ------------------------------
(* Small instances of Usuarios for TLC. *)
EXTENDS Usuarios, TLC

CONSTANTS a, b, c, t, i1, i2

\* The attempts are interchangeable.
Simetria == Permutations(Intentos)
=============================================================================
