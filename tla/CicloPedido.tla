----------------------------- MODULE CicloPedido -----------------------------
(***************************************************************************)
(* What the life of a pedido promises to whoever looks only at its status: *)
(* the work of an encargo is finished before it is announced as ready and  *)
(* stays finished until it goes back to production, and nothing is handed  *)
(* over before it is paid.  How the work is split into tasks, who edits    *)
(* them and in how many requests is left to Pedidos, which implements this.*)
(***************************************************************************)
EXTENDS EstadosDominio

VARIABLES
    estado,       \* pedidos.status, "no_existe" before the row is inserted
    flujo,        \* pedidos.workflow_type
    terminado,    \* there is work and all of it is done
    saldado       \* the whole price has been paid

vars == <<estado, flujo, terminado, saldado>>

EnTrabajo == PedidoInicial \cup {"en_revision", "en_produccion"}

Init ==
    /\ estado = "no_existe"
    /\ flujo \in {"encargo", "impresion"}
    /\ terminado = FALSE
    /\ saldado = TRUE

Crear ==
    /\ estado = "no_existe"
    /\ estado' \in PedidoInicial
    /\ saldado' \in BOOLEAN
    /\ UNCHANGED <<flujo, terminado>>

Trabajar ==
    /\ estado \in EnTrabajo
    /\ terminado' \in BOOLEAN
    /\ UNCHANGED <<estado, flujo, saldado>>

\* A price or a payment may change, at any time of the life of the pedido.
Cobrar ==
    /\ estado # "no_existe"
    /\ saldado' \in BOOLEAN
    /\ UNCHANGED <<estado, flujo, terminado>>

Avanzar ==
    /\ <<estado, estado'>> \in TransicionPedido
    /\ flujo = "encargo" /\ estado' = "listo_entrega" => terminado
    /\ flujo = "encargo" /\ estado' = "entregado" => terminado
    /\ estado' = "entregado" => saldado
    /\ UNCHANGED <<flujo, terminado, saldado>>

Next == Crear \/ Trabajar \/ Cobrar \/ Avanzar

Spec == Init /\ [][Next]_vars
=============================================================================
