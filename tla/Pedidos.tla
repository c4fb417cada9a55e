------------------------------- MODULE Pedidos -------------------------------
(***************************************************************************)
(* One pedido after it is born: its status, its tasks, its price and its   *)
(* payments, and the internal users who change them at the same time.  No  *)
(* statement of the code touches two pedidos, so one row says it all.      *)
(*                                                                         *)
(* Status, data, payment and template changes are SECURITY DEFINER         *)
(* functions that lock the pedido FOR UPDATE before they read its rows.    *)
(* Those that ask who calls once they hold the lock (the status, the       *)
(* template, and every task through the policy that takes the same lock)   *)
(* are one action.  Those that ask before they wait and never again (the   *)
(* data, the payment, the creation) are two: Admitir, and the write.       *)
(* Editing a task is two requests: the server reads the row, computes      *)
(* every column from that copy, and writes them all.  The status check it  *)
(* makes in between is made again, under the lock, by the policy of the    *)
(* write, and adds no behaviour of its own.                                *)
(***************************************************************************)
EXTENDS Naturals, EstadosDominio

CONSTANTS
    Tareas,         \* identifiers of rows of pedido_tareas
    Cantidades,     \* the numbers a task title may contain
    Peticiones,     \* task edits and calls that may be in flight at once
    Actores, Gestores,      \* internal users; those with role admin or supervisor
    ActorDe,        \* who sends each of them
    Precios, Cobros,        \* the prices and the sums paid that may be entered
    Sin, Borrada    \* no row yet; the row was deleted

ASSUME CantidadesAssumption == Cantidades \subseteq Nat \ {0}
ASSUME ActoresAssumption == Gestores \subseteq Actores /\ ActorDe \in [Peticiones -> Actores]
ASSUME ImportesAssumption == Precios \subseteq Nat /\ Cobros \subseteq Nat

VARIABLES
    estado, flujo,          \* pedidos.status, pedidos.workflow_type
    total, pagado,          \* pedido_pagos: total_amount, cash plus transfer
    tareas,                 \* the row of each task, Sin or Borrada
    acceso,                 \* users who are active and can access the pedido
    petTarea, petCopia,     \* edits in flight: the task and the row as it was read
    petLlamada              \* calls that passed their access test and wait for the lock

edicion == <<petTarea, petCopia, petLlamada>>
vars == <<estado, flujo, total, pagado, tareas, acceso, edicion>>

\* The number in a title, 0 when it has none.  A task is simple when its
\* target is 0 (NULL) and cuantificada otherwise.
Titulos == Cantidades \cup {0}
Tarea == [titulo : Titulos, objetivo : Titulos, avance : Nat, completa : BOOLEAN]

ASSUME SinAssumption == Sin \notin Tareas \cup Tarea /\ Borrada \notin Tarea

\* The functions that test access before the lock and not again under it.
Llamada == {"crear", "datos", "pago"}

\* can_manage_pedido_tasks: where the tasks may be touched.
EstadoMutable == PedidoInicial \cup {"en_revision", "en_produccion"}

TypeOK ==
    /\ estado \in PedidoEstado \cup {"no_existe"}
    /\ flujo \in {"encargo", "impresion"}
    /\ total \in Precios \cup {0} /\ pagado \in Cobros \cup {0}
    /\ tareas \in [Tareas -> Tarea \cup {Sin, Borrada}]
    /\ acceso \subseteq Actores
    /\ petTarea \in [Peticiones -> Tareas \cup {Sin}]
    /\ petCopia \in [Peticiones -> Tarea \cup {Sin}]
    /\ petLlamada \in [Peticiones -> Llamada \cup {"nada"}]

Init ==
    /\ estado = "no_existe"
    /\ flujo \in {"encargo", "impresion"}
    /\ total = 0 /\ pagado = 0
    /\ tareas = [t \in Tareas |-> Sin]
    /\ acceso = Actores
    /\ petTarea = [r \in Peticiones |-> Sin]
    /\ petCopia = [r \in Peticiones |-> Sin]
    /\ petLlamada = [r \in Peticiones |-> "nada"]

-----------------------------------------------------------------------------
(* What the rows say.                                                      *)

Registradas == {t \in Tareas : tareas[t] \notin {Sin, Borrada}}
Terminado == Registradas # {} /\ \A t \in Registradas : tareas[t].completa

\* calculate_pedido_payment_status: 'pagado', of three values.
Saldado(precio, cobrado) == precio = 0 \/ cobrado >= precio

GestorActivo == Gestores \cap acceso

\* Mutants: the policy forgets the status; it trusts the check made on reading.
PuedeMutarSinEstado(a) == a \in acceso
PuedeMutarSinAcceso(a) == estado \in EstadoMutable

\* can_manage_pedido_tasks, read holding the row of the pedido.
PuedeMutar(a) == a \in acceso /\ estado \in EstadoMutable

-----------------------------------------------------------------------------
(* The pedido.                                                             *)

\* A manager's call passes its access test and begins to wait for the row, or,
\* for a creation, for the row of the solicitud or of the order counter.
Admitir(r, f) ==
    /\ petTarea[r] = Sin /\ petLlamada[r] = "nada"
    /\ ActorDe[r] \in GestorActivo
    /\ f = "crear" <=> estado = "no_existe"
    /\ petLlamada' = [petLlamada EXCEPT ![r] = f]
    /\ UNCHANGED <<estado, flujo, total, pagado, tareas, acceso, petTarea, petCopia>>

\* The call gets its lock and writes: nobody asks again whether the manager is
\* still one.
Ejecutar(r, f) ==
    /\ petLlamada[r] = f
    /\ petLlamada' = [petLlamada EXCEPT ![r] = "nada"]
    /\ UNCHANGED <<acceso, petTarea, petCopia>>

CrearPedido(r, e, n) ==
    /\ Ejecutar(r, "crear")
    /\ estado = "no_existe"
    /\ estado' = e
    /\ total' = n
    /\ UNCHANGED <<flujo, pagado, tareas>>

\* What actualizar_estado_pedido asks of the tasks of an encargo.
TareasPermiten(e) ==
    flujo = "encargo" =>
        /\ e = "en_produccion" /\ estado = "en_revision" => Registradas # {}
        /\ e = "listo_entrega" => Terminado

\* Mutant: any payment is enough.
PagoPermiteParcial(e) == e = "entregado" => total = 0 \/ pagado > 0

PagoPermite(e) == e = "entregado" => Saldado(total, pagado)

CambiarEstado(a, e) ==
    /\ a \in acceso
    /\ <<estado, e>> \in TransicionPedido
    /\ TareasPermiten(e)
    /\ PagoPermite(e)
    /\ estado' = e
    /\ UNCHANGED <<flujo, total, pagado, tareas, acceso, edicion>>

ActualizarDatos(r, n) ==
    /\ Ejecutar(r, "datos")
    /\ estado \in PedidoEstado \ PedidoCerrado
    /\ n >= pagado
    /\ total' = n
    /\ UNCHANGED <<estado, flujo, pagado, tareas>>

\* A payment may still be corrected when the pedido is closed.
ActualizarPago(r, n) ==
    /\ Ejecutar(r, "pago")
    /\ estado # "no_existe"
    /\ n <= total
    /\ pagado' = n
    /\ UNCHANGED <<estado, flujo, total, tareas>>

\* Assigned or removed, activated or deactivated.
CambiarAcceso(a) ==
    /\ acceso' = IF a \in acceso THEN acceso \ {a} ELSE acceso \cup {a}
    /\ UNCHANGED <<estado, flujo, total, pagado, tareas, edicion>>

-----------------------------------------------------------------------------
(* The tasks.                                                              *)

Nueva(n) == [titulo |-> n, objetivo |-> n, avance |-> 0, completa |-> FALSE]

CrearTarea(a, t, n) ==
    /\ PuedeMutar(a)
    /\ tareas[t] = Sin
    /\ tareas' = [tareas EXCEPT ![t] = Nueva(n)]
    /\ UNCHANGED <<estado, flujo, total, pagado, acceso, edicion>>

\* The template has at least one task; titulo gives the number of each.
AplicarPlantilla(a, nuevas, titulo) ==
    /\ PuedeMutar(a)
    /\ flujo = "encargo"
    /\ nuevas # {}
    /\ \A t \in nuevas : tareas[t] = Sin
    /\ tareas' = [t \in Tareas |-> IF t \in nuevas THEN Nueva(titulo[t]) ELSE tareas[t]]
    /\ UNCHANGED <<estado, flujo, total, pagado, acceso, edicion>>

BorrarTarea(a, t) ==
    /\ PuedeMutar(a)
    /\ t \in Registradas
    /\ tareas' = [tareas EXCEPT ![t] = Borrada]
    /\ UNCHANGED <<estado, flujo, total, pagado, acceso, edicion>>

LeerTarea(r, t) ==
    /\ petTarea[r] = Sin /\ petLlamada[r] = "nada"
    /\ ActorDe[r] \in acceso
    /\ t \in Registradas
    /\ petTarea' = [petTarea EXCEPT ![r] = t]
    /\ petCopia' = [petCopia EXCEPT ![r] = tareas[t]]
    /\ UNCHANGED <<estado, flujo, total, pagado, tareas, acceso, petLlamada>>

\* The columns each edit computes from the copy it read.
ConTitulo(c, n) ==
    [titulo |-> n, objetivo |-> n,
     avance |-> IF n = c.objetivo THEN c.avance ELSE 0,
     completa |-> c.completa /\ n \in {0, c.objetivo}]
ConAvance(c, q) == [c EXCEPT !.avance = q, !.completa = (q = c.objetivo)]
Completada(c) == [c EXCEPT !.avance = c.objetivo, !.completa = TRUE]
Reabierta(c) == [c EXCEPT !.completa = FALSE]

\* Mutant: a progress edit sends only the columns it changed.
FilaParcial(actual, nueva, conTitulo) ==
    IF conTitulo THEN nueva
    ELSE [actual EXCEPT !.avance = nueva.avance, !.completa = nueva.completa]

\* The write sends the type, the quantities and the completion computed from
\* the copy, and the title only when it is the title that was edited.
FilaEscrita(actual, nueva, conTitulo) ==
    [nueva EXCEPT !.titulo = IF conTitulo THEN nueva.titulo ELSE actual.titulo]

\* A row that a CHECK constraint refuses would make the write fail: the model
\* writes it all the same, and RestriccionesDeTarea says there is none.
Escribir(r, nueva, conTitulo) ==
    /\ PuedeMutar(ActorDe[r])
    /\ petTarea[r] \in Registradas
    /\ tareas' = [tareas EXCEPT ![petTarea[r]] = FilaEscrita(@, nueva, conTitulo)]
    /\ petTarea' = [petTarea EXCEPT ![r] = Sin]
    /\ petCopia' = [petCopia EXCEPT ![r] = Sin]
    /\ UNCHANGED <<estado, flujo, total, pagado, acceso, petLlamada>>

CambiarTitulo(r, n) == petTarea[r] # Sin /\ Escribir(r, ConTitulo(petCopia[r], n), TRUE)

RegistrarAvance(r, q) ==
    /\ petTarea[r] # Sin
    /\ petCopia[r].objetivo > 0
    /\ q <= petCopia[r].objetivo
    /\ Escribir(r, ConAvance(petCopia[r], q), FALSE)

Completar(r) == petTarea[r] # Sin /\ Escribir(r, Completada(petCopia[r]), FALSE)
Reabrir(r) == petTarea[r] # Sin /\ Escribir(r, Reabierta(petCopia[r]), FALSE)

\* A validation or the policy refused the edit or the call, or a request was
\* lost.
Abandonar(r) ==
    /\ petTarea[r] # Sin \/ petLlamada[r] # "nada"
    /\ petTarea' = [petTarea EXCEPT ![r] = Sin]
    /\ petCopia' = [petCopia EXCEPT ![r] = Sin]
    /\ petLlamada' = [petLlamada EXCEPT ![r] = "nada"]
    /\ UNCHANGED <<estado, flujo, total, pagado, tareas, acceso>>

EditarTarea(r) ==
    \/ \E t \in Tareas : LeerTarea(r, t)
    \/ \E n \in Titulos : CambiarTitulo(r, n)
    \/ \E c \in Cantidades : \E q \in 0..c : RegistrarAvance(r, q)
    \/ Completar(r)
    \/ Reabrir(r)
    \/ Abandonar(r)

\* What a manager calls: the creation, the data, the payment.
LlamarGestor(r) ==
    \/ \E f \in Llamada : Admitir(r, f)
    \/ \E e \in PedidoInicial, n \in Precios : CrearPedido(r, e, n)
    \/ \E n \in Precios : ActualizarDatos(r, n)
    \/ \E n \in Cobros : ActualizarPago(r, n)

Next ==
    \/ \E a \in Actores :
        \/ \E e \in PedidoEstado : CambiarEstado(a, e)
        \/ CambiarAcceso(a)
        \/ \E t \in Tareas, n \in Titulos : CrearTarea(a, t, n)
        \/ \E S \in SUBSET Tareas : \E titulo \in [S -> Titulos] : AplicarPlantilla(a, S, titulo)
        \/ \E t \in Tareas : BorrarTarea(a, t)
    \/ \E r \in Peticiones : EditarTarea(r) \/ LlamarGestor(r)

Spec == Init /\ [][Next]_vars

-----------------------------------------------------------------------------
(* Properties.                                                             *)

\* docs/ORDERS_FLOW.md, Estados de pedido: an encargo is announced as ready,
\* or handed over, only with tasks and all of them complete, and it stays so
\* whatever edit was under way when actualizar_estado_pedido committed.
EncargoTerminado ==
    flujo = "encargo" /\ estado \in {"listo_entrega", "entregado"} => Terminado

\* Every row satisfies the CHECK constraints of pedido_tareas: a write built
\* from a stale copy replaces all the columns together, and never mixes the
\* quantities of two versions (updatePedidoTask).
FilaValida(f) == f.avance <= f.objetivo /\ (f.completa => f.avance = f.objetivo)
RestriccionesDeTarea == \A t \in Registradas : FilaValida(tareas[t])

\* pedido_pagos_paid_amount_not_over_total: the price is lowered and payments
\* are raised by different functions, and neither overtakes the other.
PagoCubierto == pagado <= total

\* can_manage_pedido_tasks: from listo_entrega on the tasks are read only,
\* also for the edits that read them before.
TareasCongeladas ==
    [][(estado \in {"listo_entrega"} \cup PedidoCerrado) => (tareas' = tareas)]_vars

Consumida(f) == \E r \in Peticiones : petLlamada[r] = f /\ petLlamada'[r] = "nada"

\* What may still happen when nobody active has access: no task and no status
\* changes, whatever request was sent before (can_manage_pedido_tasks and
\* actualizar_estado_pedido ask again under the lock); the price, the payment
\* and the creation may, once for each call that was already past its test
\* and waiting, and no new call gets that far.
SinAccesoSoloLoAdmitido ==
    [][(acceso = {}) =>
        /\ tareas' = tareas
        /\ \A r \in Peticiones : petLlamada'[r] \in {petLlamada[r], "nada"}
        /\ estado' # estado => estado = "no_existe" /\ Consumida("crear")
        /\ total' # total => Consumida("crear") \/ Consumida("datos")
        /\ pagado' # pagado => Consumida("pago")]_vars

\* A delivered or cancelled pedido keeps its status and its price.
CierreDefinitivo ==
    [][(estado \in PedidoCerrado) => (estado' = estado /\ total' = total)]_vars

\* The life of the pedido as whoever reads its status is promised it.
Ciclo == INSTANCE CicloPedido
    WITH terminado <- Terminado, saldado <- Saldado(total, pagado)
CicloSpec == Ciclo!Spec

\* docs/ORDERS_FLOW.md, Modelo base de tareas: the number in the title of a
\* task is the quantity it asks for.
TituloDefineCantidad == \A t \in Registradas : tareas[t].objetivo = tareas[t].titulo

-----------------------------------------------------------------------------
(* What every step preserves: the invariants above need the copies of the  *)
(* edits in flight to be rows that were once in the table, and nothing to  *)
(* be paid before the pedido exists.                                       *)

CopiaValida ==
    \A r \in Peticiones : petTarea[r] # Sin => petCopia[r] \in Tarea /\ FilaValida(petCopia[r])

InvInductivo ==
    /\ TypeOK
    /\ EncargoTerminado
    /\ RestriccionesDeTarea
    /\ PagoCubierto
    /\ CopiaValida
    /\ estado = "no_existe" => pagado = 0
=============================================================================
