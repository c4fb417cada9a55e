------------------------------ MODULE MCPedidos ------------------------------
(* Small instances of Pedidos for TLC. *)
EXTENDS Pedidos, TLC

CONSTANTS gestor, trabajador, r1, r2, t1, t2

\* Edits of the supervisor and of the assigned worker.
ActoresDePeticiones == r1 :> trabajador @@ r2 :> gestor

Simetria == Permutations(Tareas)
=============================================================================
