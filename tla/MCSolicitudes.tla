---------------------------- MODULE MCSolicitudes ----------------------------
(* Small instances of Solicitudes for TLC. *)
EXTENDS Solicitudes, TLC

\* No set of identifiers tells its members apart.
Simetria ==
    Permutations(Transacciones) \cup Permutations(Solicitudes) \cup Permutations(Pedidos)
    \cup Permutations(Clientes) \cup Permutations(Refs)
=============================================================================
