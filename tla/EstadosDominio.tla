--------------------------- MODULE EstadosDominio ---------------------------
(***************************************************************************)
(* The status graphs of solicitudes and pedidos, as the SECURITY DEFINER   *)
(* functions of 03_business_rpcs enforce them, and the file category that  *)
(* the status of a pedido dictates.  Pure definitions, shared by every     *)
(* module that reads one of these statuses.                                *)
(***************************************************************************)

SolicitudEstado ==
    {"nueva", "en_revision", "contactada", "aprobada", "rechazada", "convertida"}

PedidoEstado ==
    {"creado", "solicitud_recibida", "en_revision", "en_produccion",
     "listo_entrega", "entregado", "cancelado"}

\* A solicitud in one of these still takes files of its client.
SolicitudAdmiteCarga == {"nueva", "en_revision", "contactada", "aprobada"}

\* actualizar_estado_solicitud: the moves a person may ask for.
TransicionSolicitud ==
    {<<"nueva", "en_revision">>, <<"en_revision", "contactada">>,
     <<"contactada", "aprobada">>}
    \cup {<<e, "rechazada">> : e \in SolicitudAdmiteCarga}

\* actualizar_estado_pedido: the moves, before the checks on tasks and payment.
PedidoInicial == {"creado", "solicitud_recibida"}
PedidoCerrado == {"entregado", "cancelado"}
TransicionPedido ==
    {<<e, "en_revision">> : e \in PedidoInicial}
    \cup {<<"en_revision", "en_produccion">>, <<"en_produccion", "listo_entrega">>,
          <<"listo_entrega", "entregado">>, <<"listo_entrega", "en_produccion">>}
    \cup {<<e, "cancelado">> : e \in PedidoEstado \ PedidoCerrado}

ArchivoVisibilidad ==
    {"cliente_solicitud", "interno_pedido", "avance", "final_entrega"}

\* pedido_file_visibility_for_status; "ninguna" is SQL's NULL.
VisibilidadPorEstado(e) ==
    CASE e \in PedidoInicial \cup {"en_revision"} -> "interno_pedido"
      [] e = "en_produccion"                       -> "avance"
      [] e = "listo_entrega"                       -> "final_entrega"
      [] OTHER                                     -> "ninguna"
=============================================================================
