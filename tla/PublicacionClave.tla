--------------------------- MODULE PublicacionClave ---------------------------
(***************************************************************************)
(* What a rotation of the PostgreSQL password promises to whoever uses the *)
(* public address: the service is closed, or it answers with every         *)
(* component on one generation of the secrets; and the generation in force *)
(* changes only while it is closed.                                        *)
(***************************************************************************)
CONSTANT Generaciones, Cerrado

VARIABLES
    vigente,    \* the generation in force
    publicado   \* the generation the public address answers with, or Cerrado

Init == vigente \in Generaciones /\ publicado = vigente

Cerrar == publicado' = Cerrado /\ UNCHANGED vigente
Cambiar == publicado = Cerrado /\ vigente' \in Generaciones /\ UNCHANGED publicado
Abrir == publicado' = vigente /\ UNCHANGED vigente

Next == Cerrar \/ Cambiar \/ Abrir
Spec == Init /\ [][Next]_<<vigente, publicado>>
=============================================================================
