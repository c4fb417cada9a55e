----------------------------- MODULE Solicitudes -----------------------------
(***************************************************************************)
(* From the request of a client to a numbered pedido: review, client,      *)
(* conversion, the pedidos created by hand, the yearly counter of order    *)
(* numbers and the public references shared by two tables.                 *)
(*                                                                         *)
(* PostgreSQL runs each function as one transaction at READ COMMITTED.     *)
(* One that touches a single row under its lock is a single step here. The *)
(* three that insert are not: each statement sees what was committed when  *)
(* it started, waits for the row locks and the unique keys of the others,  *)
(* and writes nothing that another can read before its commit.             *)
(***************************************************************************)
EXTENDS Naturals, FiniteSets, EstadosDominio

CONSTANTS
    Solicitudes, Pedidos, Clientes, \* identifiers of rows, existing or not
    Refs,           \* public references
    Transacciones,  \* calls in flight
    MaxAnio,        \* years of the run
    MaxNumero,      \* pedidos of a year: 9999
    MaxIntentos,    \* PUBLIC_REFERENCE_ATTEMPTS
    Nulo            \* NULL

ASSUME SolicitudesAssumption ==
    /\ MaxAnio \in Nat \ {0} /\ MaxNumero \in Nat \ {0} /\ MaxIntentos \in Nat \ {0}
    /\ Nulo \notin Solicitudes \cup Pedidos \cup Clientes \cup Refs

VARIABLES
    solicitud,  \* solicitudes: the committed rows
    pedido,     \* pedidos: the committed rows
    clientes,   \* clientes that exist
    contador,   \* pedido_contadores: last_number of each year
    hoy,        \* the year of current_business_date()
    tx,         \* the transaction of each call, or the call about to start one
    cruces      \* history: references two tables were inserting at once

varsSolicitudes == <<solicitud, pedido, clientes, contador, hoy, tx, cruces>>

Anios == 1 .. MaxAnio
Solicitud == [estado : SolicitudEstado, cliente : Clientes \cup {Nulo},
              pedido : Pedidos \cup {Nulo}, ref : Refs]
Pedido == [sol : Solicitudes \cup {Nulo}, cliente : Clientes \cup {Nulo}, ref : Refs,
           anio : Anios, num : 1 .. MaxNumero]

\* Solicitud: "publica" the server will call, "comprobada" past the trigger, "insertada" not
\* committed yet. Pedido: "numera" before the counter, then holding it: "numerada",
\* "revisada" past the trigger of the reference, "escrita" not committed yet.
Numerada == {"numerada", "revisada", "escrita"}
Fase == {"libre", "publica", "comprobada", "insertada", "numera"} \cup Numerada
\* The phases that hold the lock of the solicitud, when there is one.
Bloqueante == {"numera"} \cup Numerada
Tx == [fase : Fase, intento : 0 .. MaxIntentos, sol : Solicitudes \cup {Nulo},
       ped : Pedidos \cup {Nulo}, cliente : Clientes \cup {Nulo}, ref : Refs \cup {Nulo},
       anio : Anios \cup {0}]

\* NULL is no row either, nor what Tratos, below, makes of one.
ASSUME NuloAssumption ==
    Nulo \notin Solicitud \cup Pedido \cup {[s EXCEPT !.estado = "abierta"] : s \in Solicitud}

Libre == [fase |-> "libre", intento |-> 0, sol |-> Nulo, ped |-> Nulo,
          cliente |-> Nulo, ref |-> Nulo, anio |-> 0]

TipoSolicitudes ==
    /\ solicitud \in [Solicitudes -> Solicitud \cup {Nulo}]
    /\ pedido \in [Pedidos -> Pedido \cup {Nulo}]
    /\ clientes \subseteq Clientes
    /\ contador \in [Anios -> 0 .. MaxNumero]
    /\ hoy \in Anios
    /\ tx \in [Transacciones -> Tx]
    /\ cruces \subseteq Refs

InitSolicitudes ==
    /\ solicitud = [q \in Solicitudes |-> Nulo]
    /\ pedido = [p \in Pedidos |-> Nulo]
    /\ clientes = {}
    /\ contador = [a \in Anios |-> 0]
    /\ hoy = 1
    /\ tx = [r \in Transacciones |-> Libre]
    /\ cruces = {}

En(r, fase) == tx[r].fase = fase
Hay(q) == solicitud[q] # Nulo
HayPedido(p) == pedido[p] # Nulo
DelAnio(a) == {p \in Pedidos : HayPedido(p) /\ pedido[p].anio = a}

\* Mutant: the row is locked by the UPDATE at the end, not by a SELECT FOR UPDATE.
BloqueadaAlEscribir(q) == \E r \in Transacciones : tx[r].sol = q /\ En(r, "escrita")

\* The row of q is locked, since a conversion read it and until it ends.
Bloqueada(q) ==
    \E r \in Transacciones : tx[r].sol = q /\ tx[r].fase \in Bloqueante

-----------------------------------------------------------------------------
(* References: each insert looks in the other table, and the unique key is *)
(* of its own.                                                             *)

EnPedidos(ref) == \E p \in Pedidos : HayPedido(p) /\ pedido[p].ref = ref
EnSolicitudes(ref) == \E q \in Solicitudes : Hay(q) /\ solicitud[q].ref = ref

\* Mutant: the references of closed solicitudes may be used again.
AjenaAbierta(ref, q) ==
    \E s \in Solicitudes : Hay(s) /\ solicitud[s].ref = ref /\ s # q
                           /\ solicitud[s].estado # "rechazada"

\* Another solicitud than the one being converted has the reference.
Ajena(ref, q) == \E s \in Solicitudes : Hay(s) /\ solicitud[s].ref = ref /\ s # q

\* Another call is in one of those phases with the reference.
Insertando(r, fases, ref) ==
    \E t \in Transacciones \ {r} : tx[t].fase \in fases /\ tx[t].ref = ref

\* What a trigger does not see: the other table is taking the reference now.
Cruza(r, fases, ref) ==
    cruces' = cruces \cup
        (IF ~EnSolicitudes(ref) /\ Insertando(r, fases, ref) THEN {ref} ELSE {})

-----------------------------------------------------------------------------
(* A request of the public, with files or without.                         *)

Solicitar(r) ==
    /\ En(r, "libre")
    /\ tx' = [tx EXCEPT ![r].fase = "publica", ![r].intento = 1]
    /\ UNCHANGED <<solicitud, pedido, clientes, contador, hoy, cruces>>

\* A new random reference, which the trigger looks for in the pedidos.
ComprobarSolicitud(r, q, ref) ==
    /\ En(r, "publica")
    /\ ~Hay(q) /\ \A t \in Transacciones : tx[t].sol # q
    /\ ~EnPedidos(ref)
    /\ tx' = [tx EXCEPT ![r].fase = "comprobada", ![r].sol = q, ![r].ref = ref]
    /\ Cruza(r, {"revisada", "escrita"}, ref)
    /\ UNCHANGED <<solicitud, pedido, clientes, contador, hoy>>

\* The unique key waits for any other insert of the reference.
InsertarSolicitud(r) ==
    /\ En(r, "comprobada")
    /\ ~EnSolicitudes(tx[r].ref) /\ ~Insertando(r, {"insertada"}, tx[r].ref)
    /\ tx' = [tx EXCEPT ![r].fase = "insertada"]
    /\ UNCHANGED <<solicitud, pedido, clientes, contador, hoy, cruces>>

\* The conflict of that key is the one the server knows by its name; the error of the
\* trigger is not, and ends the call like any other.
Reintentar(r) ==
    /\ En(r, "comprobada") /\ EnSolicitudes(tx[r].ref) /\ tx[r].intento < MaxIntentos
    /\ tx' = [tx EXCEPT ![r] = [Libre EXCEPT !.fase = "publica", !.intento = tx[r].intento + 1]]
    /\ UNCHANGED <<solicitud, pedido, clientes, contador, hoy, cruces>>

ConfirmarSolicitud(r) ==
    /\ En(r, "insertada")
    /\ solicitud' = [solicitud EXCEPT ![tx[r].sol] =
          [estado |-> "nueva", cliente |-> Nulo, pedido |-> Nulo, ref |-> tx[r].ref]]
    /\ tx' = [tx EXCEPT ![r] = Libre]
    /\ UNCHANGED <<pedido, clientes, contador, hoy, cruces>>

-----------------------------------------------------------------------------
(* Pedidos, by hand or by conversion.                                      *)

AbrirManual(r, c) ==
    /\ En(r, "libre") /\ c \in clientes \cup {Nulo}
    /\ tx' = [tx EXCEPT ![r] = [Libre EXCEPT !.fase = "numera", !.cliente = c, !.anio = hoy]]
    /\ UNCHANGED <<solicitud, pedido, clientes, contador, hoy, cruces>>

\* Mutant: the conversion does not look at the status.
AbrirConversionSinRevisar(r, q) ==
    /\ En(r, "libre") /\ Hay(q) /\ ~Bloqueada(q)
    /\ solicitud[q].pedido = Nulo /\ solicitud[q].cliente # Nulo
    /\ tx' = [tx EXCEPT ![r] =
          [Libre EXCEPT !.fase = "numera", !.sol = q, !.cliente = solicitud[q].cliente,
                        !.ref = solicitud[q].ref, !.anio = hoy]]
    /\ UNCHANGED <<solicitud, pedido, clientes, contador, hoy, cruces>>

\* SELECT FOR UPDATE: waits for the row, then checks what it finds.
AbrirConversion(r, q) ==
    /\ En(r, "libre") /\ Hay(q) /\ ~Bloqueada(q)
    /\ solicitud[q].pedido = Nulo
    /\ \A p \in Pedidos : HayPedido(p) => pedido[p].sol # q
    /\ solicitud[q].estado = "aprobada" /\ solicitud[q].cliente # Nulo
    /\ tx' = [tx EXCEPT ![r] =
          [Libre EXCEPT !.fase = "numera", !.sol = q, !.cliente = solicitud[q].cliente,
                        !.ref = solicitud[q].ref, !.anio = hoy]]
    /\ UNCHANGED <<solicitud, pedido, clientes, contador, hoy, cruces>>

\* generar_numero_pedido: the row of the year that was read before waiting for it, held
\* from the upsert to the end of the transaction.
Numerar(r) ==
    /\ En(r, "numera")
    /\ \A t \in Transacciones :
          tx[t].fase \in Numerada => tx[t].anio # tx[r].anio
    /\ contador[tx[r].anio] < MaxNumero
    /\ tx' = [tx EXCEPT ![r].fase = "numerada"]
    /\ UNCHANGED <<solicitud, pedido, clientes, contador, hoy, cruces>>

\* The reference of the solicitud, or a new one, which the trigger looks for in the others.
RevisarReferencia(r, ref) ==
    /\ En(r, "numerada")
    /\ tx[r].sol # Nulo => ref = tx[r].ref
    /\ ~Ajena(ref, tx[r].sol)
    /\ tx' = [tx EXCEPT ![r].fase = "revisada", ![r].ref = ref]
    /\ Cruza(r, {"comprobada", "insertada"}, ref)
    /\ UNCHANGED <<solicitud, pedido, clientes, contador, hoy>>

\* The unique keys of the reference and of the solicitud.
EscribirPedido(r, p) ==
    /\ En(r, "revisada")
    /\ ~HayPedido(p) /\ \A t \in Transacciones : tx[t].ped # p
    /\ ~EnPedidos(tx[r].ref) /\ ~Insertando(r, {"escrita"}, tx[r].ref)
    /\ tx[r].sol # Nulo => \A x \in Pedidos : HayPedido(x) => pedido[x].sol # tx[r].sol
    /\ tx' = [tx EXCEPT ![r].fase = "escrita", ![r].ped = p]
    /\ UNCHANGED <<solicitud, pedido, clientes, contador, hoy, cruces>>

\* The counter, the pedido and the closed solicitud appear together.
ConfirmarPedido(r) ==
    LET t == tx[r] IN
    /\ En(r, "escrita")
    /\ contador' = [contador EXCEPT ![t.anio] = @ + 1]
    /\ pedido' = [pedido EXCEPT ![t.ped] =
          [sol |-> t.sol, cliente |-> t.cliente, ref |-> t.ref,
           anio |-> t.anio, num |-> contador[t.anio] + 1]]
    /\ solicitud' = IF t.sol = Nulo THEN solicitud
                    ELSE [solicitud EXCEPT ![t.sol].estado = "convertida",
                                           ![t.sol].pedido = t.ped]
    /\ tx' = [tx EXCEPT ![r] = Libre]
    /\ UNCHANGED <<clientes, hoy, cruces>>

\* Mutant: the counter is a sequence, which does not go back with its transaction.
AbortarSinDevolver(r) ==
    /\ ~En(r, "libre")
    /\ contador' = IF tx[r].fase \in Numerada
                   THEN [contador EXCEPT ![tx[r].anio] = @ + 1] ELSE contador
    /\ tx' = [tx EXCEPT ![r] = Libre]
    /\ UNCHANGED <<solicitud, pedido, clientes, hoy, cruces>>

\* An error of any statement, a conflict, a year with no numbers left, or a lost
\* connection: all that the transaction did is undone.
Abortar(r) ==
    /\ ~En(r, "libre")
    /\ tx' = [tx EXCEPT ![r] = Libre]
    /\ UNCHANGED <<solicitud, pedido, clientes, contador, hoy, cruces>>

-----------------------------------------------------------------------------
(* What is done to a solicitud, and its clients.                           *)

\* Mutant: convertida may be asked for like any other status.
CambiarEstadoACualquiera(q, e) ==
    /\ Hay(q) /\ ~Bloqueada(q)
    /\ <<solicitud[q].estado, e>> \in TransicionSolicitud \cup {<<"aprobada", "convertida">>}
    /\ solicitud' = [solicitud EXCEPT ![q].estado = e]
    /\ UNCHANGED <<pedido, clientes, contador, hoy, tx, cruces>>

\* Also by ensureSolicitudReviewStarted, which opening the detail calls.
CambiarEstadoSolicitud(q, e) ==
    /\ Hay(q) /\ ~Bloqueada(q)
    /\ <<solicitud[q].estado, e>> \in TransicionSolicitud
    /\ solicitud' = [solicitud EXCEPT ![q].estado = e]
    /\ UNCHANGED <<pedido, clientes, contador, hoy, tx, cruces>>

\* A plain UPDATE, in any status of the solicitud.
AsociarCliente(q, c) ==
    /\ Hay(q) /\ ~Bloqueada(q) /\ c \in clientes
    /\ solicitud' = [solicitud EXCEPT ![q].cliente = c]
    /\ UNCHANGED <<pedido, clientes, contador, hoy, tx, cruces>>

CrearClienteDesdeSolicitud(q, c) ==
    /\ Hay(q) /\ ~Bloqueada(q) /\ solicitud[q].cliente = Nulo
    /\ c \notin clientes
    /\ clientes' = clientes \cup {c}
    /\ solicitud' = [solicitud EXCEPT ![q].cliente = c]
    /\ UNCHANGED <<pedido, contador, hoy, tx, cruces>>

CrearCliente(c) ==
    /\ c \notin clientes
    /\ clientes' = clientes \cup {c}
    /\ UNCHANGED <<solicitud, pedido, contador, hoy, tx, cruces>>

PasarAnio ==
    /\ hoy < MaxAnio
    /\ hoy' = hoy + 1
    /\ UNCHANGED <<solicitud, pedido, clientes, contador, tx, cruces>>

NextSolicitudes ==
    \/ \E r \in Transacciones :
          \/ Solicitar(r) \/ InsertarSolicitud(r) \/ Reintentar(r) \/ ConfirmarSolicitud(r)
          \/ \E q \in Solicitudes, ref \in Refs : ComprobarSolicitud(r, q, ref)
          \/ \E c \in Clientes \cup {Nulo} : AbrirManual(r, c)
          \/ \E q \in Solicitudes : AbrirConversion(r, q)
          \/ Numerar(r)
          \/ \E ref \in Refs : RevisarReferencia(r, ref)
          \/ \E p \in Pedidos : EscribirPedido(r, p)
          \/ ConfirmarPedido(r) \/ Abortar(r)
    \/ \E q \in Solicitudes :
          \/ \E e \in SolicitudEstado : CambiarEstadoSolicitud(q, e)
          \/ \E c \in Clientes : AsociarCliente(q, c) \/ CrearClienteDesdeSolicitud(q, c)
    \/ \E c \in Clientes : CrearCliente(c)
    \/ PasarAnio

SpecSolicitudes == InitSolicitudes /\ [][NextSolicitudes]_varsSolicitudes

\* What the counter sees of a solicitud: open, turned down or converted.
Trato(fila) ==
    IF fila # Nulo /\ fila.estado \in SolicitudAdmiteCarga
    THEN [fila EXCEPT !.estado = "abierta"] ELSE fila
Tratos == [q \in Solicitudes |-> Trato(solicitud[q])]

-----------------------------------------------------------------------------
(* Properties.                                                             *)

\* A solicitud is converted exactly when one pedido is of it: they name each other, share
\* the public reference, and the pedido has a client.
\* convertir_solicitud_a_pedido against a rejection or a second conversion.
ConversionCoherente ==
    /\ \A q \in Solicitudes : Hay(q) =>
          /\ solicitud[q].estado = "convertida" <=> solicitud[q].pedido # Nulo
          /\ solicitud[q].pedido # Nulo =>
                HayPedido(solicitud[q].pedido) /\ pedido[solicitud[q].pedido].sol = q
    /\ \A p \in Pedidos : HayPedido(p) /\ pedido[p].sol # Nulo =>
          /\ Hay(pedido[p].sol) /\ solicitud[pedido[p].sol].pedido = p
          /\ pedido[p].ref = solicitud[pedido[p].sol].ref /\ pedido[p].cliente # Nulo

\* The pedidos of a year are numbered 1, 2, 3... with no repetition and no gap, whatever
\* transactions were undone and in whatever year they had started.
\* generar_numero_pedido.
NumeracionSinHuecos ==
    \A a \in Anios :
        /\ {pedido[p].num : p \in DelAnio(a)} = 1 .. contador[a]
        /\ IsFiniteSet(DelAnio(a)) /\ Cardinality(DelAnio(a)) = contador[a]

\* A public reference names one client's work: two solicitudes, two pedidos, or a pedido
\* and a solicitud it does not come from share it only if both tables were inserting it
\* at once, which the triggers cannot see.
ReferenciaSalvoCruce ==
    /\ \A q, s \in Solicitudes :
          Hay(q) /\ Hay(s) /\ solicitud[q].ref = solicitud[s].ref => q = s
    /\ \A p, x \in Pedidos :
          HayPedido(p) /\ HayPedido(x) /\ pedido[p].ref = pedido[x].ref => p = x
    /\ \A q \in Solicitudes, p \in Pedidos :
          Hay(q) /\ HayPedido(p) /\ solicitud[q].ref = pedido[p].ref =>
              pedido[p].sol = q \/ pedido[p].ref \in cruces

-----------------------------------------------------------------------------
(* The inductive invariant: what a transaction may rely on in each phase,  *)
(* and what keeps two of them apart.                                       *)

\* A request to insert: a row that nobody has, and its reference.
SolicitudPendiente(t) ==
    t.fase \in {"comprobada", "insertada"} =>
        t.sol \in Solicitudes /\ ~Hay(t.sol) /\ t.ref # Nulo

\* A conversion: the row it read under the lock is still the one it read.
ConversionPendiente(t) ==
    t.fase \in Bloqueante =>
        /\ t.anio \in Anios
        /\ t.sol # Nulo =>
              /\ Hay(t.sol)
              /\ solicitud[t.sol].estado = "aprobada" /\ solicitud[t.sol].pedido = Nulo
              /\ solicitud[t.sol].cliente = t.cliente /\ t.cliente # Nulo
              /\ solicitud[t.sol].ref = t.ref

\* A pedido to insert: the number after the last, a reference, a row that nobody has.
PedidoPendiente(t) ==
    /\ t.fase \in Numerada => contador[t.anio] < MaxNumero
    /\ t.fase \in {"revisada", "escrita"} => t.ref # Nulo
    /\ IF t.fase = "escrita" THEN t.ped \in Pedidos /\ ~HayPedido(t.ped) ELSE t.ped = Nulo

\* The unique keys: what a transaction has inserted no other row has.
ClavesUnicas(t) ==
    /\ t.fase = "insertada" => ~EnSolicitudes(t.ref)
    /\ t.fase = "escrita" => ~EnPedidos(t.ref)

FaseCoherente ==
    \A r \in Transacciones :
        /\ tx[r].fase \in {"libre", "publica"} => tx[r].sol = Nulo
        /\ SolicitudPendiente(tx[r]) /\ ConversionPendiente(tx[r])
        /\ PedidoPendiente(tx[r]) /\ ClavesUnicas(tx[r])

\* Two transactions never hold one lock or one key.
Ajenas(t, u) ==
    /\ t.sol = u.sol => t.sol = Nulo
    /\ t.ped = u.ped => t.ped = Nulo
    /\ t.fase \in Numerada /\ u.fase \in Numerada => t.anio # u.anio
    /\ t.fase = u.fase /\ t.fase \in {"insertada", "escrita"} => t.ref # u.ref

Exclusion == \A r, s \in Transacciones : r # s => Ajenas(tx[r], tx[s])

\* A reference that is on its way into both tables is known to be a cross, unless it is
\* of a solicitud already, and then its unique key stops the request.
CruceConocido(ref) == ref \in cruces \/ EnSolicitudes(ref)

CruceAnotado ==
    \A r \in Transacciones :
        /\ tx[r].fase \in {"comprobada", "insertada"} =>
              /\ EnPedidos(tx[r].ref) => CruceConocido(tx[r].ref)
              /\ Insertando(r, {"revisada", "escrita"}, tx[r].ref) => CruceConocido(tx[r].ref)
        /\ tx[r].fase \in {"revisada", "escrita"} /\ tx[r].sol = Nulo /\ EnSolicitudes(tx[r].ref)
              => tx[r].ref \in cruces

\* Every transaction finds, when it commits, what it read under its locks: so a
\* solicitud is converted exactly when a pedido is of it, the numbers of a year have no
\* gap and a reference is shared only by a cross.
\* The locks, unique keys and triggers behind the three functions that insert.
InvSolicitudes ==
    /\ TipoSolicitudes /\ FaseCoherente /\ Exclusion /\ CruceAnotado
    /\ ConversionCoherente /\ NumeracionSinHuecos /\ ReferenciaSalvoCruce

-----------------------------------------------------------------------------
\* A closed solicitud stays closed, with its pedido; and the pedido of a conversion gets
\* the client the solicitud has at that moment, not one that was replaced meanwhile.
ConversionFirme ==
    [][/\ \A q \in Solicitudes : Hay(q) =>
             /\ solicitud[q].estado \in {"rechazada", "convertida"} =>
                   /\ solicitud'[q].estado = solicitud[q].estado
                   /\ solicitud'[q].pedido = solicitud[q].pedido
       /\ \A p \in Pedidos : ~HayPedido(p) /\ HayPedido(p)' /\ pedido'[p].sol # Nulo =>
             pedido'[p].cliente = solicitud[pedido'[p].sol].cliente]_varsSolicitudes

\* To the counter a conversion is one step: the deal is closed, the next number of the
\* year is given and the pedido is written with the client and the reference of the deal.
\* The three functions that insert, whatever they interleave with.
V == INSTANCE Ventanilla WITH trato <- Tratos, libro <- pedido, ultimo <- contador
VentanillaSpec == V!Spec
=============================================================================
