------------------------------- MODULE Cargas -------------------------------
(***************************************************************************)
(* The upload control plane: a browser offers files for a solicitud        *)
(* (anonymously) or for a pedido (as an internal user), sends the bytes    *)
(* straight to Storage and asks the database to incorporate each of them;  *)
(* an administrator's maintenance expires what was abandoned and deletes   *)
(* the orphan objects.                                                     *)
(*                                                                         *)
(* Every PostgreSQL function is one action, at the point where it commits, *)
(* when the row locks it takes cover all it reads.  finalizar_carga_publica*)
(* reads the solicitud without locking it, so it takes two: the checks,    *)
(* made holding the session row, and the insert that waits for the         *)
(* solicitud row.  now() is the time the transaction started.              *)
(***************************************************************************)
EXTENDS Naturals, FiniteSets, EstadosDominio

CONSTANTS
    Solicitudes, Pedidos, Sesiones, Items,
    ArchivoIds,     \* identifiers of rows of archivos
    Peticiones,     \* finalize requests that may be in flight at once
    SesionDe,       \* the session each item would be reserved in
    MaxItems,       \* items a session may hold (10 in the code)
    Plazo,          \* life of a session (4 hours)
    Gracia,         \* upload_cleanup_grace (1 hour)
    VidaFirma,      \* life of a signed upload token (Storage's 2 hours)
    LimiteSesiones, LimiteCandidatos,   \* of one maintenance (100 each)
    MaxTiempo,      \* bound: the clock stops here
    Sin             \* SQL's NULL

ASSUME SesionDeAssumption == SesionDe \in [Items -> Sesiones]
ASSUME TiemposAssumption ==
    /\ Plazo \in Nat \ {0} /\ Gracia \in Nat /\ VidaFirma \in Nat
    /\ MaxTiempo \in Nat /\ MaxItems \in Nat
    /\ LimiteSesiones \in Nat \ {0} /\ LimiteCandidatos \in Nat \ {0}
ASSUME SinAssumption == Sin \notin Solicitudes \cup Pedidos \cup ArchivoIds \cup Items

VARIABLES
    reloj,
    solEstado, solPedido,           \* solicitudes.status, converted_order_id
    pedEstado,                      \* pedidos.status
    acceso,                         \* pedidos the author of their sessions can access
    sesEstado, sesSol, sesPed, vence,   \* archivo_carga_sesiones
    itEstado, itVis, itArchivo,     \* archivo_carga_items
    archivos,                       \* rows of archivos
    objeto, firma,                  \* Storage: object of each path, end of its signature
    cliente,                        \* the browser's entry for each item
    petFase, petItem, petHora,      \* finalize transactions: phase, item, now()
    candidatos                      \* paths that some maintenance is about to delete

dominio == <<solEstado, solPedido, pedEstado, acceso>>
sesion == <<sesEstado, sesSol, sesPed, vence>>
item == <<itEstado, itVis, itArchivo, archivos>>
almacen == <<objeto, firma>>
peticion == <<petFase, petItem, petHora>>
vars == <<reloj, dominio, sesion, item, almacen, cliente, peticion, candidatos>>

Fila == [id : ArchivoIds, item : Items, sol : Solicitudes \cup {Sin},
         ped : Pedidos \cup {Sin}, vis : ArchivoVisibilidad]

SesionEstado == {"libre", "open", "completed", "partial", "expired"}
SesionCerrada == {"completed", "partial", "expired"}
ItemEstado == {"libre", "reserved", "committed", "expired"}
ClienteEstado ==
    {"pendiente", "autorizado", "firmado", "transferido", "registrando", "recibido"}

TypeOK ==
    /\ reloj \in 0..MaxTiempo
    /\ solEstado \in [Solicitudes -> SolicitudEstado \cup {"no_existe"}]
    /\ solPedido \in [Solicitudes -> Pedidos \cup {Sin}]
    /\ pedEstado \in [Pedidos -> PedidoEstado \cup {"no_existe"}]
    /\ acceso \subseteq Pedidos
    /\ sesEstado \in [Sesiones -> SesionEstado]
    /\ sesSol \in [Sesiones -> Solicitudes \cup {Sin}]
    /\ sesPed \in [Sesiones -> Pedidos \cup {Sin}]
    /\ vence \in [Sesiones -> Nat]
    /\ itEstado \in [Items -> ItemEstado]
    /\ itVis \in [Items -> ArchivoVisibilidad \cup {"ninguna"}]
    /\ itArchivo \in [Items -> ArchivoIds \cup {Sin}]
    /\ archivos \subseteq Fila
    /\ objeto \in [Items -> {"ausente", "listo", "discrepante"}]
    /\ firma \in [Items -> Nat]
    /\ cliente \in [Items -> ClienteEstado]
    /\ petFase \in [Peticiones -> {"libre", "iniciada", "comprobada", "hecha"}]
    /\ petItem \in [Peticiones -> Items \cup {Sin}]
    /\ petHora \in [Peticiones -> Nat]
    /\ \A i \in Items : itEstado[i] # "libre" => itVis[i] # "ninguna"
    /\ \A r \in Peticiones : petFase[r] # "libre" => petItem[r] # Sin
    /\ candidatos \subseteq Items

Init ==
    /\ reloj = 0
    /\ solEstado = [q \in Solicitudes |-> "no_existe"]
    /\ solPedido = [q \in Solicitudes |-> Sin]
    /\ pedEstado = [p \in Pedidos |-> "no_existe"]
    /\ acceso = Pedidos
    /\ sesEstado = [s \in Sesiones |-> "libre"]
    /\ sesSol = [s \in Sesiones |-> Sin]
    /\ sesPed = [s \in Sesiones |-> Sin]
    /\ vence = [s \in Sesiones |-> 0]
    /\ itEstado = [i \in Items |-> "libre"]
    /\ itVis = [i \in Items |-> "ninguna"]
    /\ itArchivo = [i \in Items |-> Sin]
    /\ archivos = {}
    /\ objeto = [i \in Items |-> "ausente"]
    /\ firma = [i \in Items |-> 0]
    /\ cliente = [i \in Items |-> "pendiente"]
    /\ petFase = [r \in Peticiones |-> "libre"]
    /\ petItem = [r \in Peticiones |-> Sin]
    /\ petHora = [r \in Peticiones |-> 0]
    /\ candidatos = {}

-----------------------------------------------------------------------------
(* Reservations *)

ItemsDe(s) == {i \in Items : SesionDe[i] = s}
Publica(s) == sesSol[s] # Sin
SolicitudAbierta(s) == solEstado[sesSol[s]] \in SolicitudAdmiteCarga

\* insert_upload_reservation_items, after validate_upload_reservation_items.
InsertarItems(s, vis) ==
    /\ ItemsDe(s) # {} /\ Cardinality(ItemsDe(s)) <= MaxItems
    /\ itEstado' = [i \in Items |-> IF SesionDe[i] = s THEN "reserved" ELSE itEstado[i]]
    /\ itVis' = [i \in Items |-> IF SesionDe[i] = s THEN vis ELSE itVis[i]]
    /\ UNCHANGED <<itArchivo, archivos>>

InsertarSesion(s, q, p) ==
    /\ sesEstado[s] = "libre"
    /\ sesEstado' = [sesEstado EXCEPT ![s] = "open"]
    /\ sesSol' = [sesSol EXCEPT ![s] = q]
    /\ sesPed' = [sesPed EXCEPT ![s] = p]
    /\ vence' = [vence EXCEPT ![s] = reloj + Plazo]

\* crear_solicitud_publica_con_reserva_carga
CrearSolicitudConReserva(q, s) ==
    /\ solEstado[q] = "no_existe"
    /\ solEstado' = [solEstado EXCEPT ![q] = "nueva"]
    /\ InsertarSesion(s, q, Sin)
    /\ InsertarItems(s, "cliente_solicitud")
    /\ UNCHANGED <<reloj, solPedido, pedEstado, acceso, almacen, cliente, peticion, candidatos>>

\* reservar_carga_pedido: the pedido row is locked, its status gives the category.
ReservarCargaPedido(p, s) ==
    /\ pedEstado[p] # "no_existe" /\ p \in acceso
    /\ VisibilidadPorEstado(pedEstado[p]) # "ninguna"
    /\ InsertarSesion(s, Sin, p)
    /\ InsertarItems(s, VisibilidadPorEstado(pedEstado[p]))
    /\ UNCHANGED <<reloj, dominio, almacen, cliente, peticion, candidatos>>

-----------------------------------------------------------------------------
(* Transfer: the browser and Storage *)

\* A reservation that still takes bytes, in either policy of Storage.
ReservaViva(i) ==
    /\ itEstado[i] = "reserved"
    /\ sesEstado[SesionDe[i]] = "open"
    /\ reloj < vence[SesionDe[i]]

\* can_sign_public_upload: the status of the solicitud is not read here.
PuedeFirmar(i) ==
    /\ ReservaViva(i) /\ Publica(SesionDe[i])
    /\ itVis[i] = "cliente_solicitud"

\* can_create_internal_upload
PuedeCargaInterna(i) ==
    LET p == sesPed[SesionDe[i]] IN
    /\ ReservaViva(i) /\ p # Sin
    /\ p \in acceso
    /\ itVis[i] = VisibilidadPorEstado(pedEstado[p])

\* signPublicUpload, first call: autorizar_firma_carga_publica.
AutorizarFirma(i) ==
    /\ cliente[i] = "pendiente"
    /\ ReservaViva(i) /\ Publica(SesionDe[i]) /\ SolicitudAbierta(SesionDe[i])
    /\ cliente' = [cliente EXCEPT ![i] = "autorizado"]
    /\ UNCHANGED <<reloj, dominio, sesion, item, almacen, peticion, candidatos>>

\* signPublicUpload, second call: createSignedUploadUrl under the policy.
FirmarCarga(i) ==
    /\ cliente[i] = "autorizado"
    /\ PuedeFirmar(i)
    /\ reloj + VidaFirma <= MaxTiempo   \* bound: no signature outlives the clock
    /\ firma' = [firma EXCEPT ![i] = reloj + VidaFirma]
    /\ cliente' = [cliente EXCEPT ![i] = "firmado"]
    /\ UNCHANGED <<reloj, dominio, sesion, item, objeto, peticion, candidatos>>

\* The last byte of a TUS transfer reaches Storage (upsert = false).  A signed
\* token is honoured until it ends, whatever became of the session or client;
\* an internal transfer is checked against the policy at each part.
LlegarObjeto(i, contenido) ==
    /\ objeto[i] = "ausente"
    /\ reloj < firma[i] \/ PuedeCargaInterna(i)
    /\ objeto' = [objeto EXCEPT ![i] = contenido]
    /\ UNCHANGED <<reloj, dominio, sesion, item, firma, cliente, peticion, candidatos>>

\* uploadReservedFile resolves ok; the entry's tusCompleted is set.
Transferido(i) ==
    /\ objeto[i] # "ausente"
    /\ \/ cliente[i] = "firmado"
       \/ cliente[i] = "pendiente" /\ sesPed[SesionDe[i]] # Sin
    /\ cliente' = [cliente EXCEPT ![i] = "transferido"]
    /\ UNCHANGED <<reloj, dominio, sesion, item, almacen, peticion, candidatos>>

\* A call of the browser is refused, fails or loses its answer: failEntry.
FallarEntrada(i) ==
    /\ \/ /\ cliente[i] \in {"autorizado", "firmado"}
          /\ cliente' = [cliente EXCEPT ![i] = "pendiente"]
       \/ /\ cliente[i] = "registrando"
          /\ cliente' = [cliente EXCEPT ![i] = "transferido"]
    /\ UNCHANGED <<reloj, dominio, sesion, item, almacen, peticion, candidatos>>

-----------------------------------------------------------------------------
(* Finalize *)

\* finalizePublicUpload / finalizePedidoUpload: the transaction starts.
PedirFinalizar(r, i) ==
    /\ cliente[i] = "transferido" /\ petFase[r] = "libre"
    /\ cliente' = [cliente EXCEPT ![i] = "registrando"]
    /\ petFase' = [petFase EXCEPT ![r] = "iniciada"]
    /\ petItem' = [petItem EXCEPT ![r] = i]
    /\ petHora' = [petHora EXCEPT ![r] = reloj]
    /\ UNCHANGED <<reloj, dominio, sesion, item, almacen, candidatos>>

\* Mutant: finalize reads the session row without FOR UPDATE.
SinBloqueo(s) == FALSE

\* Some finalize holds the row of session s (SELECT ... FOR UPDATE).
Bloqueada(s) ==
    \E r \in Peticiones : petFase[r] = "comprobada" /\ SesionDe[petItem[r]] = s

\* The request ends; what it carried is forgotten.
Liberar(r) ==
    /\ petFase' = [petFase EXCEPT ![r] = "libre"]
    /\ petItem' = [petItem EXCEPT ![r] = Sin]
    /\ petHora' = [petHora EXCEPT ![r] = 0]

ATiempo(r) == petHora[r] < vence[SesionDe[petItem[r]]]

\* Mutant: refresh_upload_session_completion is not called.
IncorporarSinCerrar(i, id) ==
    LET s == SesionDe[i] IN
    /\ \A a \in archivos : a.id # id
    /\ archivos' = archivos \cup
         {[id |-> id, item |-> i, sol |-> sesSol[s], ped |-> sesPed[s], vis |-> itVis[i]]}
    /\ itEstado' = [itEstado EXCEPT ![i] = "committed"]
    /\ itArchivo' = [itArchivo EXCEPT ![i] = id]
    /\ UNCHANGED <<itVis, sesion>>

\* insert into archivos, commit of the item, refresh_upload_session_completion.
Incorporar(i, id) ==
    LET s == SesionDe[i] IN
    /\ \A a \in archivos : a.id # id
    /\ archivos' = archivos \cup
         {[id |-> id, item |-> i, sol |-> sesSol[s], ped |-> sesPed[s], vis |-> itVis[i]]}
    /\ itEstado' = [itEstado EXCEPT ![i] = "committed"]
    /\ itArchivo' = [itArchivo EXCEPT ![i] = id]
    /\ sesEstado' = [sesEstado EXCEPT ![s] =
         IF @ = "open" /\ \A j \in ItemsDe(s) \ {i} : itEstado[j] = "committed"
         THEN "completed" ELSE @]
    /\ UNCHANGED <<itVis, sesSol, sesPed, vence>>

\* Mutant: any item that is no longer reserved counts as already committed.
YaCerrado(r) ==
    LET i == petItem[r] IN
    /\ petFase[r] = "iniciada" /\ ~ Bloqueada(SesionDe[i])
    /\ itEstado[i] # "reserved"
    /\ IF Publica(SesionDe[i]) THEN ATiempo(r)
                               ELSE sesPed[SesionDe[i]] \in acceso
    /\ petFase' = [petFase EXCEPT ![r] = "hecha"]
    /\ UNCHANGED <<reloj, dominio, sesion, item, almacen, cliente, petItem, petHora, candidatos>>

\* The item was committed by an earlier request: already_committed.
YaIncorporado(r) ==
    LET i == petItem[r] IN
    /\ petFase[r] = "iniciada" /\ ~ Bloqueada(SesionDe[i])
    /\ itEstado[i] = "committed"
    /\ IF Publica(SesionDe[i]) THEN ATiempo(r)
                               ELSE sesPed[SesionDe[i]] \in acceso
    /\ petFase' = [petFase EXCEPT ![r] = "hecha"]
    /\ UNCHANGED <<reloj, dominio, sesion, item, almacen, cliente, petItem, petHora, candidatos>>

\* Mutant: the Storage object is not verified.
ComprobarSinObjeto(r) ==
    LET i == petItem[r]
        s == SesionDe[i] IN
    /\ petFase[r] = "iniciada" /\ Publica(s) /\ ~ Bloqueada(s)
    /\ ATiempo(r)
    /\ sesEstado[s] = "open" /\ itEstado[i] = "reserved"
    /\ SolicitudAbierta(s)
    /\ petFase' = [petFase EXCEPT ![r] = "comprobada"]
    /\ UNCHANGED <<reloj, dominio, sesion, item, almacen, cliente, petItem, petHora, candidatos>>

\* finalizar_carga_publica up to the insert: session and item locked, the
\* solicitud and the object only read.
ComprobarPublica(r) ==
    LET i == petItem[r]
        s == SesionDe[i] IN
    /\ petFase[r] = "iniciada" /\ Publica(s) /\ ~ Bloqueada(s)
    /\ ATiempo(r)
    /\ sesEstado[s] = "open" /\ itEstado[i] = "reserved"
    /\ SolicitudAbierta(s)
    /\ objeto[i] = "listo"
    /\ petFase' = [petFase EXCEPT ![r] = "comprobada"]
    /\ UNCHANGED <<reloj, dominio, sesion, item, almacen, cliente, petItem, petHora, candidatos>>

\* ... and from the insert, which waits for whoever holds the solicitud row.
IncorporarPublica(r, id) ==
    /\ petFase[r] = "comprobada"
    /\ Incorporar(petItem[r], id)
    /\ petFase' = [petFase EXCEPT ![r] = "hecha"]
    /\ UNCHANGED <<reloj, dominio, almacen, cliente, petItem, petHora, candidatos>>

\* Mutant: the category reserved is not compared with the present one, and
\* the object is not verified.
FinalizarPedidoSinComparar(r, id) ==
    LET i == petItem[r]
        p == sesPed[SesionDe[i]] IN
    /\ petFase[r] = "iniciada" /\ p # Sin /\ ~ Bloqueada(SesionDe[i])
    /\ p \in acceso
    /\ sesEstado[SesionDe[i]] = "open" /\ itEstado[i] = "reserved" /\ ATiempo(r)
    /\ Incorporar(i, id)
    /\ petFase' = [petFase EXCEPT ![r] = "hecha"]
    /\ UNCHANGED <<reloj, dominio, almacen, cliente, petItem, petHora, candidatos>>

\* finalizar_carga_pedido: session, pedido and item are locked throughout.
FinalizarPedido(r, id) ==
    LET i == petItem[r]
        s == SesionDe[i]
        p == sesPed[s] IN
    /\ petFase[r] = "iniciada" /\ p # Sin /\ ~ Bloqueada(s)
    /\ p \in acceso
    /\ sesEstado[s] = "open" /\ itEstado[i] = "reserved" /\ ATiempo(r)
    /\ itVis[i] = VisibilidadPorEstado(pedEstado[p])
    /\ objeto[i] = "listo"
    /\ Incorporar(i, id)
    /\ petFase' = [petFase EXCEPT ![r] = "hecha"]
    /\ UNCHANGED <<reloj, dominio, almacen, cliente, petItem, petHora, candidatos>>

\* The transaction raises, or never got to commit.
AbortarFinalizar(r) ==
    /\ petFase[r] \in {"iniciada", "comprobada"}
    /\ Liberar(r)
    /\ UNCHANGED <<reloj, dominio, sesion, item, almacen, cliente, candidatos>>

\* The answer of a finalize that succeeded reaches the browser, or is lost.
ResponderFinalizar(r) ==
    /\ petFase[r] = "hecha"
    /\ Liberar(r)
    /\ cliente' = [cliente EXCEPT ![petItem[r]] =
                     IF @ = "registrando" THEN "recibido" ELSE @]
    /\ UNCHANGED <<reloj, dominio, sesion, item, almacen, candidatos>>

PerderRespuesta(r) ==
    /\ petFase[r] = "hecha"
    /\ Liberar(r)
    /\ UNCHANGED <<reloj, dominio, sesion, item, almacen, cliente, candidatos>>

-----------------------------------------------------------------------------
(* Maintenance: cleanupExpiredUploads *)

\* The first n of S in order of expiry; ties are broken by an arbitrary id.
Primeros(P, S, n, hora) ==
    /\ P \subseteq S
    /\ Cardinality(P) = IF Cardinality(S) <= n THEN Cardinality(S) ELSE n
    /\ \A x \in P, y \in S \ P : hora[x] <= hora[y]

\* Mutant: only sessions with some object in Storage are taken.
VencidasConObjeto ==
    {s \in Sesiones : /\ sesEstado[s] = "open" /\ vence[s] <= reloj /\ ~ Bloqueada(s)
                      /\ \E i \in ItemsDe(s) : objeto[i] # "ausente"}

\* select ... for update skip locked
Vencidas ==
    {s \in Sesiones : sesEstado[s] = "open" /\ vence[s] <= reloj /\ ~ Bloqueada(s)}

Incorporados(s) == {i \in ItemsDe(s) : itEstado[i] = "committed"}

EstadoTrasVencer(s) ==
    IF Incorporados(s) = ItemsDe(s) THEN "completed"
    ELSE IF Incorporados(s) = {} THEN "expired" ELSE "partial"

\* can_manage_upload_storage_object, also the candidates' filter.
PuedeBorrar(i, estadoItem, estadoSesion) ==
    /\ estadoItem[i] = "expired" /\ itArchivo[i] = Sin
    /\ estadoSesion[SesionDe[i]] \in {"expired", "partial"}
    /\ vence[SesionDe[i]] + Gracia <= reloj
    /\ \A a \in archivos : a.item # i

\* Mutant: the candidates are those of the sessions closed by this very call.
ReconciliarRecientes(L, C) ==
    /\ Primeros(L, Vencidas, LimiteSesiones, vence)
    /\ sesEstado' = [s \in Sesiones |-> IF s \in L THEN EstadoTrasVencer(s) ELSE sesEstado[s]]
    /\ itEstado' = [i \in Items |->
         IF SesionDe[i] \in L /\ itEstado[i] = "reserved" THEN "expired" ELSE itEstado[i]]
    /\ Primeros(C, {i \in Items : /\ SesionDe[i] \in L /\ PuedeBorrar(i, itEstado', sesEstado')
                                  /\ objeto[i] # "ausente"},
                LimiteCandidatos, [i \in Items |-> vence[SesionDe[i]]])
    /\ candidatos' = candidatos \cup C
    /\ UNCHANGED <<reloj, dominio, sesSol, sesPed, vence, itVis, itArchivo, archivos,
                   almacen, cliente, peticion>>

\* reconciliar_cargas_expiradas
Reconciliar(L, C) ==
    /\ Primeros(L, Vencidas, LimiteSesiones, vence)
    /\ sesEstado' = [s \in Sesiones |-> IF s \in L THEN EstadoTrasVencer(s) ELSE sesEstado[s]]
    /\ itEstado' = [i \in Items |->
         IF SesionDe[i] \in L /\ itEstado[i] = "reserved" THEN "expired" ELSE itEstado[i]]
    /\ Primeros(C, {i \in Items : PuedeBorrar(i, itEstado', sesEstado') /\ objeto[i] # "ausente"},
                LimiteCandidatos, [i \in Items |-> vence[SesionDe[i]]])
    /\ candidatos' = candidatos \cup C
    /\ UNCHANGED <<reloj, dominio, sesSol, sesPed, vence, itVis, itArchivo, archivos,
                   almacen, cliente, peticion>>

\* storage.remove(paths) of one maintenance: the policy is evaluated again, some deletes may
\* fail, and what other maintenances listed stays.
BorrarObjetos(D) ==
    /\ candidatos # {}
    /\ \A i \in D : PuedeBorrar(i, itEstado, sesEstado)
    /\ objeto' = [i \in Items |-> IF i \in D THEN "ausente" ELSE objeto[i]]
    /\ candidatos' \in SUBSET (candidatos \ D)
    /\ UNCHANGED <<reloj, dominio, sesion, item, firma, cliente, peticion>>

-----------------------------------------------------------------------------
(* The domain the uploads belong to *)

CrearPedidoManual(p) ==
    /\ pedEstado[p] = "no_existe"
    /\ pedEstado' = [pedEstado EXCEPT ![p] = "creado"]
    /\ UNCHANGED <<reloj, solEstado, solPedido, acceso, sesion, item, almacen,
                   cliente, peticion, candidatos>>

CambiarEstadoSolicitud(q, e) ==
    /\ <<solEstado[q], e>> \in TransicionSolicitud
    /\ solEstado' = [solEstado EXCEPT ![q] = e]
    /\ UNCHANGED <<reloj, solPedido, pedEstado, acceso, sesion, item, almacen,
                   cliente, peticion, candidatos>>

\* convertir_solicitud_a_pedido: the client files the solicitud has by then
\* become files of the pedido.
ConvertirSolicitud(q, p) ==
    /\ solEstado[q] = "aprobada" /\ solPedido[q] = Sin
    /\ pedEstado[p] = "no_existe"
    /\ pedEstado' = [pedEstado EXCEPT ![p] = "solicitud_recibida"]
    /\ solEstado' = [solEstado EXCEPT ![q] = "convertida"]
    /\ solPedido' = [solPedido EXCEPT ![q] = p]
    /\ archivos' = {IF a.sol = q /\ a.ped = Sin /\ a.vis = "cliente_solicitud"
                    THEN [a EXCEPT !.ped = p] ELSE a : a \in archivos}
    /\ UNCHANGED <<reloj, acceso, sesion, itEstado, itVis, itArchivo, almacen,
                   cliente, peticion, candidatos>>

\* Its checks on tasks and payment are those of module Pedidos.
CambiarEstadoPedido(p, e) ==
    /\ <<pedEstado[p], e>> \in TransicionPedido
    /\ pedEstado' = [pedEstado EXCEPT ![p] = e]
    /\ UNCHANGED <<reloj, solEstado, solPedido, acceso, sesion, item, almacen,
                   cliente, peticion, candidatos>>

\* The author is assigned to the pedido, removed from it, or loses the account.
CambiarAcceso(p) ==
    /\ acceso' = IF p \in acceso THEN acceso \ {p} ELSE acceso \cup {p}
    /\ UNCHANGED <<reloj, solEstado, solPedido, pedEstado, sesion, item, almacen,
                   cliente, peticion, candidatos>>

Avanzar ==
    /\ reloj < MaxTiempo
    /\ reloj' = reloj + 1
    /\ UNCHANGED <<dominio, sesion, item, almacen, cliente, peticion, candidatos>>

-----------------------------------------------------------------------------
Reservar ==
    \E s \in Sesiones :
        \/ \E q \in Solicitudes : CrearSolicitudConReserva(q, s)
        \/ \E p \in Pedidos : ReservarCargaPedido(p, s)

Transferir ==
    \E i \in Items :
        \/ AutorizarFirma(i) \/ FirmarCarga(i) \/ Transferido(i) \/ FallarEntrada(i)
        \/ \E c \in {"listo", "discrepante"} : LlegarObjeto(i, c)

Finalizar ==
    \E r \in Peticiones :
        \/ \E i \in Items : PedirFinalizar(r, i)
        \/ YaIncorporado(r) \/ ComprobarPublica(r) \/ AbortarFinalizar(r)
        \/ \E id \in ArchivoIds : IncorporarPublica(r, id) \/ FinalizarPedido(r, id)
        \/ ResponderFinalizar(r) \/ PerderRespuesta(r)

Mantener ==
    \/ \E L \in SUBSET Sesiones, C \in SUBSET Items : Reconciliar(L, C)
    \/ \E D \in SUBSET candidatos : BorrarObjetos(D)

Negocio ==
    \/ \E q \in Solicitudes :
        \/ \E e \in SolicitudEstado : CambiarEstadoSolicitud(q, e)
        \/ \E p \in Pedidos : ConvertirSolicitud(q, p)
    \/ \E p \in Pedidos :
        \/ CrearPedidoManual(p) \/ CambiarAcceso(p)
        \/ \E e \in PedidoEstado : CambiarEstadoPedido(p, e)

Next == Reservar \/ Transferir \/ Finalizar \/ Mantener \/ Negocio \/ Avanzar

Spec == Init /\ [][Next]_vars

\* A finalize transaction ends, one way or the other.
Terminar(r) ==
    \/ YaIncorporado(r) \/ ComprobarPublica(r) \/ AbortarFinalizar(r)
    \/ \E id \in ArchivoIds : IncorporarPublica(r, id) \/ FinalizarPedido(r, id)

\* Time passes; transactions end; administrators keep running the maintenance
\* ("Puedes volver a ejecutar el mantenimiento") and, if they insist, one of
\* their removals gets through Storage.
Equidad ==
    /\ WF_vars(Avanzar)
    /\ \A r \in Peticiones : WF_vars(Terminar(r))
    /\ WF_vars(\E L \in SUBSET Sesiones, C \in SUBSET Items : Reconciliar(L, C))
    /\ SF_vars(BorrarObjetos({i \in candidatos : PuedeBorrar(i, itEstado, sesEstado)}))

-----------------------------------------------------------------------------
\* How the tables and the bucket show what EntregaArchivos speaks of.
Destinos ==
    LET destino == [libre |-> "sin_reserva", reserved |-> "ofrecido",
                    committed |-> "incorporado", expired |-> "descartado"]
    IN [i \in Items |-> destino[itEstado[i]]]
Filas == {<<a.id, a.item>> : a \in archivos}
Contenidos == {i \in Items : objeto[i] = "listo"}

Entrega == INSTANCE EntregaArchivos WITH
    destino <- Destinos, filas <- Filas, contenido <- Contenidos

(* Properties *)

\* The control plane implements what it promises about each file: see
\* EntregaArchivos.
EntregaSpec == Entrega!Spec

\* A file row exists for exactly the committed items, once for each, and the
\* item points to it: a finalize repeated by a browser that lost the answer,
\* or run twice at once, never duplicates metadata (archivos has no unique
\* path; only the row locks of finalize prevent it).
FilaUnicaPorItem ==
    /\ \A a \in archivos : itEstado[a.item] = "committed" /\ itArchivo[a.item] = a.id
    /\ \A i \in Items : itEstado[i] = "committed" =>
                            \E a \in archivos : a.item = i /\ a.id = itArchivo[i]
    /\ \A a, b \in archivos : a.id = b.id => a = b

\* A listed file can be downloaded: its object is there, with the declared size
\* and type, whatever maintenance deleted and whenever finalize checked.
ArchivoConObjeto == \A a \in archivos : objeto[a.item] = "listo"

\* The status of a session agrees with its items, whether a finalize or a
\* maintenance closed it.
SesionCoherente ==
    \A s \in Sesiones :
        /\ sesEstado[s] = "libre" => \A i \in ItemsDe(s) : itEstado[i] = "libre"
        /\ sesEstado[s] = "open" =>
             /\ \A i \in ItemsDe(s) : itEstado[i] \in {"reserved", "committed"}
             /\ \E i \in ItemsDe(s) : itEstado[i] = "reserved"
        /\ sesEstado[s] = "completed" => \A i \in ItemsDe(s) : itEstado[i] = "committed"
        /\ sesEstado[s] = "partial" =>
             /\ \A i \in ItemsDe(s) : itEstado[i] \in {"committed", "expired"}
             /\ \E i, j \in ItemsDe(s) : itEstado[i] = "committed" /\ itEstado[j] = "expired"
        /\ sesEstado[s] = "expired" => \A i \in ItemsDe(s) : itEstado[i] = "expired"

\* What finalizar_carga_publica verified of session, item and object still holds
\* when it inserts, and nobody else is inserting in its session; whoever was told
\* that it succeeded has a committed item.
VerificadoSigueValiendo ==
    \A r \in Peticiones :
        LET i == petItem[r] IN
        /\ petFase[r] = "comprobada" =>
             /\ Publica(SesionDe[i]) /\ sesEstado[SesionDe[i]] = "open"
             /\ itEstado[i] = "reserved" /\ objeto[i] = "listo"
             /\ \A x \in Peticiones \ {r} :
                    petFase[x] = "comprobada" => SesionDe[petItem[x]] # SesionDe[i]
        /\ petFase[r] = "hecha" => itEstado[i] = "committed"

\* The browser shows "Recibido" only for a file the team can see.
RecibidoEsArchivo ==
    \A i \in Items : cliente[i] = "recibido" => \E a \in archivos : a.item = i

\* A file belongs to the context its session reserved it for, and a file of a
\* solicitud is on a pedido only when that solicitud became that pedido.
ContextoDeArchivo ==
    \A a \in archivos :
        /\ a.sol = sesSol[SesionDe[a.item]]
        /\ IF a.sol = Sin THEN a.ped = sesPed[SesionDe[a.item]] /\ a.vis # "cliente_solicitud"
                          ELSE a.ped \in {Sin, solPedido[a.sol]} /\ a.vis = "cliente_solicitud"

\* What a session is of decides the category of its items; a signature is only
\* ever given to what was reserved.
ContextoDeSesion ==
    /\ \A s \in Sesiones : sesEstado[s] # "libre" =>
         IF sesSol[s] = Sin THEN sesPed[s] # Sin ELSE sesPed[s] = Sin
    /\ \A i \in Items : itEstado[i] # "libre" =>
         (itVis[i] = "cliente_solicitud" <=> Publica(SesionDe[i]))
    /\ \A i \in Items : firma[i] > 0 => itEstado[i] # "libre"

\* The inductive invariant of the proofs: all of the above.
InvInductivo ==
    /\ TypeOK /\ VerificadoSigueValiendo /\ SesionCoherente /\ FilaUnicaPorItem
    /\ ArchivoConObjeto /\ RecibidoEsArchivo /\ ContextoDeSesion /\ ContextoDeArchivo

\* ORDERS_FLOW.md, on the conversion: the client's files of the solicitud are
\* associated with the pedido by completing archivos.pedido_id.
ArchivosHeredados ==
    \A a \in archivos :
        a.sol # Sin /\ solEstado[a.sol] = "convertida" => a.ped = solPedido[a.sol]

\* A closed session is history: neither it nor its items change again, though
\* a finalize may have been checking it when maintenance ran.
CierreDefinitivo ==
    [][\A s \in Sesiones : sesEstado[s] \in SesionCerrada =>
          /\ sesEstado'[s] = sesEstado[s]
          /\ \A i \in ItemsDe(s) : itEstado'[i] = itEstado[i]]_vars

\* An internal file enters with the category of the status its pedido has at
\* that moment, never with the one it had when the upload was reserved.
CategoriaVigente ==
    [][\A a \in archivos' \ archivos :
          a.sol = Sin => a.vis = VisibilidadPorEstado(pedEstado[a.ped])]_vars

\* A session that ran out of time is closed, even when each maintenance takes
\* fewer sessions than there are and skips those a finalize holds.
VencidaSeCierra ==
    \A s \in Sesiones :
        sesEstado[s] = "open" /\ vence[s] <= reloj ~> sesEstado[s] \in SesionCerrada

\* An object whose item expired is deleted once the grace is over, though a
\* signature may outlive session and grace and bring the object back, and
\* though removals may fail.
HuerfanoSeBorra ==
    \A i \in Items :
        (itEstado[i] = "expired" /\ objeto[i] # "ausente" /\ vence[SesionDe[i]] + Gracia <= reloj)
            ~> objeto[i] = "ausente"
=============================================================================
