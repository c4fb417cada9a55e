----------------------------- MODULE CargasProof -----------------------------
(***************************************************************************)
(* Proofs about Cargas for any number of sessions, items, requests and     *)
(* instants.  InvInductivo is inductive as a whole; each lemma below shows *)
(* that a step preserves one of its parts, from those it needs.            *)
(***************************************************************************)
EXTENDS Cargas, TLAPS

USE SesionDeAssumption, TiemposAssumption, SinAssumption

\* The category an internal file may get is never the client's, nor NULL when
\* the pedido takes files.
LEMMA CategoriaInterna ==
    ASSUME NEW e
    PROVE  /\ VisibilidadPorEstado(e) # "cliente_solicitud"
           /\ VisibilidadPorEstado(e) \in ArchivoVisibilidad \cup {"ninguna"}
BY DEF VisibilidadPorEstado, PedidoInicial, ArchivoVisibilidad

\* Every step of the program keeps every variable in its type.
LEMMA TipoPaso == TypeOK /\ VerificadoSigueValiendo /\ Next => TypeOK'
<1> SUFFICES ASSUME TypeOK, VerificadoSigueValiendo, Next PROVE TypeOK'
  OBVIOUS
<1> USE DEF TypeOK, SesionEstado, ItemEstado, ClienteEstado
<1>1. ASSUME NEW q \in Solicitudes, NEW s \in Sesiones, CrearSolicitudConReserva(q, s)
      PROVE  TypeOK'
  BY <1>1 DEF CrearSolicitudConReserva, InsertarSesion, InsertarItems, almacen, peticion,
              SolicitudEstado, ArchivoVisibilidad
<1>2. ASSUME NEW p \in Pedidos, NEW s \in Sesiones, ReservarCargaPedido(p, s)
      PROVE  TypeOK'
  BY <1>2, CategoriaInterna DEF ReservarCargaPedido, InsertarSesion, InsertarItems,
              dominio, almacen, peticion
<1>3. ASSUME NEW i \in Items, AutorizarFirma(i) \/ Transferido(i) \/ FallarEntrada(i)
      PROVE  TypeOK'
  BY <1>3 DEF AutorizarFirma, Transferido, FallarEntrada, dominio, sesion, item, almacen, peticion
<1>4. ASSUME NEW i \in Items, FirmarCarga(i)
      PROVE  TypeOK'
  BY <1>4 DEF FirmarCarga, dominio, sesion, item, peticion
<1>5. ASSUME NEW i \in Items, NEW c \in {"listo", "discrepante"}, LlegarObjeto(i, c)
      PROVE  TypeOK'
  BY <1>5 DEF LlegarObjeto, dominio, sesion, item, peticion
<1>6. ASSUME NEW r \in Peticiones, NEW i \in Items, PedirFinalizar(r, i)
      PROVE  TypeOK'
  BY <1>6 DEF PedirFinalizar, dominio, sesion, item, almacen
<1>7. ASSUME NEW r \in Peticiones, YaIncorporado(r) \/ ComprobarPublica(r)
      PROVE  TypeOK'
  BY <1>7 DEF YaIncorporado, ComprobarPublica, dominio, sesion, item, almacen
<1>8. ASSUME NEW r \in Peticiones, AbortarFinalizar(r) \/ ResponderFinalizar(r) \/ PerderRespuesta(r)
      PROVE  TypeOK'
  BY <1>8 DEF AbortarFinalizar, ResponderFinalizar, PerderRespuesta, Liberar,
              dominio, sesion, item, almacen
<1>9. ASSUME NEW i \in Items, NEW id \in ArchivoIds, Incorporar(i, id), itEstado[i] = "reserved"
      PROVE  /\ archivos' \subseteq Fila /\ itEstado' \in [Items -> ItemEstado]
             /\ itArchivo' \in [Items -> ArchivoIds \cup {Sin}]
             /\ sesEstado' \in [Sesiones -> SesionEstado]
             /\ \A j \in Items : itEstado'[j] # "libre" => itVis'[j] # "ninguna"
  BY <1>9 DEF Incorporar, Fila
<1>10. ASSUME NEW r \in Peticiones, NEW id \in ArchivoIds, IncorporarPublica(r, id)
       PROVE  TypeOK'
  <2>1. petItem[r] \in Items /\ itEstado[petItem[r]] = "reserved"
    BY <1>10 DEF IncorporarPublica, VerificadoSigueValiendo
  <2>2. Incorporar(petItem[r], id)
    BY <1>10 DEF IncorporarPublica
  <2>3. itVis' = itVis /\ sesSol' = sesSol /\ sesPed' = sesPed /\ vence' = vence
    BY <2>2 DEF Incorporar
  <2>4. QED
    BY <1>9, <1>10, <2>1, <2>2, <2>3 DEF IncorporarPublica, dominio, almacen
<1>11. ASSUME NEW r \in Peticiones, NEW id \in ArchivoIds, FinalizarPedido(r, id)
       PROVE  TypeOK'
  <2>1. petItem[r] \in Items /\ itEstado[petItem[r]] = "reserved"
    BY <1>11 DEF FinalizarPedido
  <2>2. Incorporar(petItem[r], id)
    BY <1>11 DEF FinalizarPedido
  <2>3. itVis' = itVis /\ sesSol' = sesSol /\ sesPed' = sesPed /\ vence' = vence
    BY <2>2 DEF Incorporar
  <2>4. QED
    BY <1>9, <1>11, <2>1, <2>2, <2>3 DEF FinalizarPedido, dominio, almacen
<1>12. ASSUME NEW L \in SUBSET Sesiones, NEW X \in SUBSET Items, Reconciliar(L, X)
       PROVE  TypeOK'
  BY <1>12 DEF Reconciliar, Primeros, EstadoTrasVencer, Vencidas, dominio, almacen, peticion
<1>13. ASSUME NEW D \in SUBSET candidatos, BorrarObjetos(D)
       PROVE  TypeOK'
  BY <1>13 DEF BorrarObjetos, dominio, sesion, item, peticion
<1>14. ASSUME NEW q \in Solicitudes, NEW e \in SolicitudEstado, CambiarEstadoSolicitud(q, e)
       PROVE  TypeOK'
  BY <1>14 DEF CambiarEstadoSolicitud, sesion, item, almacen, peticion
<1>15. ASSUME NEW q \in Solicitudes, NEW p \in Pedidos, ConvertirSolicitud(q, p)
       PROVE  TypeOK'
  BY <1>15 DEF ConvertirSolicitud, Fila, SolicitudEstado, PedidoEstado, sesion, almacen, peticion
<1>16. ASSUME NEW p \in Pedidos, CrearPedidoManual(p) \/ CambiarAcceso(p)
       PROVE  TypeOK'
  BY <1>16 DEF CrearPedidoManual, CambiarAcceso, PedidoEstado, sesion, item, almacen, peticion
<1>17. ASSUME NEW p \in Pedidos, NEW e \in PedidoEstado, CambiarEstadoPedido(p, e)
       PROVE  TypeOK'
  BY <1>17 DEF CambiarEstadoPedido, sesion, item, almacen, peticion
<1>18. CASE Avanzar
  BY <1>18 DEF Avanzar, dominio, sesion, item, almacen, peticion
<1> HIDE DEF TypeOK, SesionEstado, ItemEstado, ClienteEstado
<1>19. QED
  BY <1>1, <1>2, <1>3, <1>4, <1>5, <1>6, <1>7, <1>8, <1>10, <1>11, <1>12, <1>13, <1>14,
     <1>15, <1>16, <1>17, <1>18
     DEF Next, Reservar, Transferir, Finalizar, Mantener, Negocio

-----------------------------------------------------------------------------
(* What the groups of actions do to the variables the invariant is about *)

\* The steps that touch no session, item state, object or request.
Ajeno ==
    \/ \E i \in Items : AutorizarFirma(i) \/ FirmarCarga(i) \/ Transferido(i) \/ FallarEntrada(i)
    \/ Negocio \/ Avanzar

LEMMA AjenoNoToca ==
    Ajeno => UNCHANGED <<sesion, itEstado, itVis, itArchivo, objeto, peticion, candidatos>>
BY DEF Ajeno, Negocio, AutorizarFirma, FirmarCarga, Transferido, FallarEntrada,
       CambiarEstadoSolicitud, ConvertirSolicitud, CrearPedidoManual, CambiarAcceso,
       CambiarEstadoPedido, Avanzar, sesion, item, almacen, peticion

\* A reservation opens a free session with all its items reserved.
Reserva(s) ==
    /\ sesEstado[s] = "libre" /\ ItemsDe(s) # {}
    /\ sesEstado' = [sesEstado EXCEPT ![s] = "open"]
    /\ itEstado' = [i \in Items |-> IF SesionDe[i] = s THEN "reserved" ELSE itEstado[i]]
    /\ \A x \in Sesiones \ {s} : sesSol'[x] = sesSol[x] /\ sesPed'[x] = sesPed[x]
    /\ \A i \in Items : SesionDe[i] # s => itVis'[i] = itVis[i]
    /\ UNCHANGED <<solPedido, itArchivo, archivos, almacen, cliente, peticion, candidatos>>

LEMMA ReservasReservan ==
    ASSUME TypeOK, NEW s \in Sesiones,
           \/ \E q \in Solicitudes : CrearSolicitudConReserva(q, s)
           \/ \E p \in Pedidos : ReservarCargaPedido(p, s)
    PROVE  Reserva(s)
BY DEF TypeOK, Reserva, CrearSolicitudConReserva, ReservarCargaPedido, InsertarSesion,
       InsertarItems, dominio

\* An incorporation, public or internal, is made on a reserved item of an open
\* session whose row nobody else holds.
Incorporacion(r, id) ==
    LET i == petItem[r] IN
    /\ i \in Items /\ SesionDe[i] \in Sesiones
    /\ itEstado[i] = "reserved" /\ objeto[i] = "listo" /\ sesEstado[SesionDe[i]] = "open"
    /\ \A x \in Peticiones \ {r} :
           petFase[x] = "comprobada" => SesionDe[petItem[x]] # SesionDe[i]
    /\ Incorporar(i, id)
    /\ petFase' = [petFase EXCEPT ![r] = "hecha"]
    /\ UNCHANGED <<reloj, dominio, almacen, cliente, petItem, petHora, candidatos>>

LEMMA IncorporacionesIncorporan ==
    ASSUME TypeOK, VerificadoSigueValiendo, NEW r \in Peticiones, NEW id \in ArchivoIds,
           IncorporarPublica(r, id) \/ FinalizarPedido(r, id)
    PROVE  Incorporacion(r, id)
<1>1. petFase[r] # "libre" /\ petItem[r] \in Items /\ SesionDe[petItem[r]] \in Sesiones
  BY DEF TypeOK, IncorporarPublica, FinalizarPedido
<1>2. CASE IncorporarPublica(r, id)
  BY <1>1, <1>2 DEF IncorporarPublica, Incorporacion, VerificadoSigueValiendo
<1>3. CASE FinalizarPedido(r, id)
  BY <1>1, <1>3 DEF FinalizarPedido, Incorporacion, Bloqueada
<1>4. QED
  BY <1>2, <1>3

\* A maintenance closes open sessions that no finalize holds.
Cierre(L) ==
    /\ L \subseteq Sesiones
    /\ \A s \in L : sesEstado[s] = "open" /\ ~ Bloqueada(s)
    /\ sesEstado' = [s \in Sesiones |-> IF s \in L THEN EstadoTrasVencer(s) ELSE sesEstado[s]]
    /\ itEstado' = [i \in Items |->
         IF SesionDe[i] \in L /\ itEstado[i] = "reserved" THEN "expired" ELSE itEstado[i]]
    /\ UNCHANGED <<dominio, sesSol, sesPed, vence, itVis, itArchivo, archivos, almacen,
                   cliente, peticion>>

LEMMA ReconciliarCierra ==
    ASSUME NEW L \in SUBSET Sesiones, NEW X \in SUBSET Items, Reconciliar(L, X)
    PROVE  Cierre(L)
BY DEF Reconciliar, Cierre, Primeros, Vencidas

\* An object is only deleted where the item expired and has no file.
LEMMA BorrarSoloVencidos ==
    ASSUME NEW D \in SUBSET candidatos, BorrarObjetos(D)
    PROVE  /\ \A i \in D : itEstado[i] = "expired"
           /\ objeto' = [i \in Items |-> IF i \in D THEN "ausente" ELSE objeto[i]]
           /\ UNCHANGED <<reloj, dominio, sesion, item, firma, cliente, peticion>>
BY DEF BorrarObjetos, PuedeBorrar

\* The steps as the proofs below take them apart.
LEMMA Pasos ==
    ASSUME TypeOK, VerificadoSigueValiendo, Next
    PROVE  \/ Ajeno
           \/ \E s \in Sesiones : Reserva(s)
           \/ \E i \in Items, c \in {"listo", "discrepante"} : LlegarObjeto(i, c)
           \/ \E r \in Peticiones :
                \/ \E i \in Items : PedirFinalizar(r, i)
                \/ YaIncorporado(r) \/ ComprobarPublica(r) \/ AbortarFinalizar(r)
                \/ \E id \in ArchivoIds : Incorporacion(r, id)
                \/ ResponderFinalizar(r) \/ PerderRespuesta(r)
           \/ \E L \in SUBSET Sesiones : Cierre(L)
           \/ \E D \in SUBSET candidatos : BorrarObjetos(D)
<1>1. CASE Reservar
  BY <1>1, ReservasReservan DEF Reservar
<1>2. CASE Transferir
  BY <1>2 DEF Transferir, Ajeno
<1>3. CASE Finalizar
  BY <1>3, IncorporacionesIncorporan DEF Finalizar
<1>4. CASE Mantener
  BY <1>4, ReconciliarCierra DEF Mantener
<1>5. CASE Negocio \/ Avanzar
  BY <1>5 DEF Ajeno
<1>6. QED
  BY <1>1, <1>2, <1>3, <1>4, <1>5 DEF Next

-----------------------------------------------------------------------------
(* Each part of the invariant *)

\* Nothing invalidates what a finalize has verified, not even the maintenance
\* or another finalize: they would have to hold the row of its session.
LEMMA VerificadoPaso ==
    TypeOK /\ VerificadoSigueValiendo /\ SesionCoherente /\ Next => VerificadoSigueValiendo'
<1> SUFFICES ASSUME TypeOK, VerificadoSigueValiendo, SesionCoherente, Next
             PROVE  VerificadoSigueValiendo'
  OBVIOUS
<1> USE DEF VerificadoSigueValiendo, Publica
<1>1. CASE Ajeno
  BY <1>1, AjenoNoToca DEF sesion, peticion
<1>2. ASSUME NEW s \in Sesiones, Reserva(s)
      PROVE  VerificadoSigueValiendo'
  BY <1>2 DEF TypeOK, Reserva, SesionCoherente, ItemsDe, almacen, peticion
<1>3. ASSUME NEW i \in Items, NEW c \in {"listo", "discrepante"}, LlegarObjeto(i, c)
      PROVE  VerificadoSigueValiendo'
  BY <1>3 DEF TypeOK, LlegarObjeto, sesion, item, peticion
<1>4. ASSUME NEW r \in Peticiones, NEW i \in Items, PedirFinalizar(r, i)
      PROVE  VerificadoSigueValiendo'
  BY <1>4 DEF TypeOK, PedirFinalizar, sesion, item, almacen
<1>5. ASSUME NEW r \in Peticiones, YaIncorporado(r)
      PROVE  VerificadoSigueValiendo'
  BY <1>5 DEF TypeOK, YaIncorporado, sesion, item, almacen
<1>6. ASSUME NEW r \in Peticiones, ComprobarPublica(r)
      PROVE  VerificadoSigueValiendo'
  BY <1>6 DEF TypeOK, ComprobarPublica, Bloqueada, sesion, item, almacen
<1>7. ASSUME NEW r \in Peticiones,
             AbortarFinalizar(r) \/ ResponderFinalizar(r) \/ PerderRespuesta(r)
      PROVE  VerificadoSigueValiendo'
  BY <1>7 DEF TypeOK, AbortarFinalizar, ResponderFinalizar, PerderRespuesta, Liberar,
              sesion, item, almacen
<1>8. ASSUME NEW r \in Peticiones, NEW id \in ArchivoIds, Incorporacion(r, id)
      PROVE  VerificadoSigueValiendo'
  BY <1>8 DEF TypeOK, Incorporacion, Incorporar, almacen
<1>9. ASSUME NEW L \in SUBSET Sesiones, Cierre(L)
      PROVE  VerificadoSigueValiendo'
  BY <1>9 DEF TypeOK, Cierre, Bloqueada, almacen, peticion
<1>10. ASSUME NEW D \in SUBSET candidatos, BorrarObjetos(D)
       PROVE  VerificadoSigueValiendo'
  BY <1>10, BorrarSoloVencidos DEF TypeOK, sesion, item, peticion
<1> HIDE DEF VerificadoSigueValiendo
<1>11. QED
  BY <1>1, <1>2, <1>3, <1>4, <1>5, <1>6, <1>7, <1>8, <1>9, <1>10, Pasos

\* The three verdicts of a maintenance, by what was committed in time.
LEMMA EstadoTrasVencerCasos ==
    ASSUME NEW s \in Sesiones
    PROVE  /\ (\A i \in ItemsDe(s) : itEstado[i] = "committed")
                  => EstadoTrasVencer(s) = "completed"
           /\ (\A i \in ItemsDe(s) : itEstado[i] # "committed") /\ ItemsDe(s) # {}
                  => EstadoTrasVencer(s) = "expired"
           /\ (\E i, j \in ItemsDe(s) : itEstado[i] = "committed" /\ itEstado[j] # "committed")
                  => EstadoTrasVencer(s) = "partial"
<1>1. \A i \in ItemsDe(s) : i \in Incorporados(s) <=> itEstado[i] = "committed"
  BY DEF Incorporados
<1>2. Incorporados(s) \subseteq ItemsDe(s)
  BY DEF Incorporados
<1>3. Incorporados(s) = ItemsDe(s) <=> \A i \in ItemsDe(s) : itEstado[i] = "committed"
  BY <1>1, <1>2
<1>4. Incorporados(s) = {} <=> \A i \in ItemsDe(s) : itEstado[i] # "committed"
  BY <1>1, <1>2
<1>5. QED
  BY <1>3, <1>4 DEF EstadoTrasVencer

\* The status of every session keeps agreeing with its items.
LEMMA SesionPaso ==
    TypeOK /\ VerificadoSigueValiendo /\ SesionCoherente /\ Next => SesionCoherente'
<1> SUFFICES ASSUME TypeOK, VerificadoSigueValiendo, SesionCoherente, Next
             PROVE  SesionCoherente'
  OBVIOUS
<1> USE DEF ItemsDe
<1>1. ASSUME UNCHANGED <<sesEstado, itEstado>>
      PROVE  SesionCoherente'
  BY <1>1 DEF SesionCoherente
<1>2. ASSUME NEW s \in Sesiones, Reserva(s)
      PROVE  SesionCoherente'
  BY <1>2 DEF TypeOK, Reserva, SesionCoherente
<1>3. ASSUME NEW r \in Peticiones, NEW id \in ArchivoIds, Incorporacion(r, id)
      PROVE  SesionCoherente'
  <2> DEFINE i == petItem[r]
  <2>1. /\ i \in Items /\ SesionDe[i] \in Sesiones
        /\ itEstado[i] = "reserved" /\ sesEstado[SesionDe[i]] = "open"
        /\ itEstado' = [itEstado EXCEPT ![i] = "committed"]
        /\ sesEstado' = [sesEstado EXCEPT ![SesionDe[i]] =
             IF @ = "open" /\ \A j \in ItemsDe(SesionDe[i]) \ {i} : itEstado[j] = "committed"
             THEN "completed" ELSE @]
    BY <1>3 DEF Incorporacion, Incorporar
  <2> HIDE DEF i
  <2>2. QED
    BY <2>1 DEF TypeOK, SesionCoherente
<1>4. ASSUME NEW L \in SUBSET Sesiones, Cierre(L)
      PROVE  SesionCoherente'
  <2> SUFFICES ASSUME NEW s \in Sesiones PROVE SesionCoherente!(s)'
    BY DEF SesionCoherente
  <2>1. CASE s \notin L
    BY <1>4, <2>1 DEF TypeOK, Cierre, SesionCoherente
  <2>2. CASE s \in L
    <3>1. /\ sesEstado[s] = "open" /\ sesEstado'[s] = EstadoTrasVencer(s)
          /\ \A i \in ItemsDe(s) :
               itEstado'[i] = IF itEstado[i] = "reserved" THEN "expired" ELSE itEstado[i]
      BY <1>4, <2>2 DEF Cierre
    <3>2. /\ \A i \in ItemsDe(s) : itEstado[i] \in {"reserved", "committed"}
          /\ \E i \in ItemsDe(s) : itEstado[i] = "reserved"
      BY <3>1 DEF SesionCoherente
    <3>3. CASE \E i \in ItemsDe(s) : itEstado[i] = "committed"
      <4>1. EstadoTrasVencer(s) = "partial"
        BY <3>2, <3>3, EstadoTrasVencerCasos
      <4>2. QED
        BY <3>1, <3>2, <3>3, <4>1
    <3>4. CASE \A i \in ItemsDe(s) : itEstado[i] # "committed"
      <4>1. EstadoTrasVencer(s) = "expired"
        BY <3>2, <3>4, EstadoTrasVencerCasos
      <4>2. QED
        BY <3>1, <3>2, <3>4, <4>1
    <3>5. QED
      BY <3>3, <3>4
  <2>3. QED
    BY <2>1, <2>2
<1>5. ASSUME NEW i \in Items, NEW c \in {"listo", "discrepante"}, LlegarObjeto(i, c)
      PROVE  SesionCoherente'
  BY <1>1, <1>5 DEF LlegarObjeto, sesion, item
<1>6. ASSUME NEW r \in Peticiones,
             \/ \E i \in Items : PedirFinalizar(r, i)
             \/ YaIncorporado(r) \/ ComprobarPublica(r) \/ AbortarFinalizar(r)
             \/ ResponderFinalizar(r) \/ PerderRespuesta(r)
      PROVE  SesionCoherente'
  BY <1>1, <1>6 DEF PedirFinalizar, YaIncorporado, ComprobarPublica, AbortarFinalizar,
                    ResponderFinalizar, PerderRespuesta, sesion, item
<1>7. ASSUME NEW D \in SUBSET candidatos, BorrarObjetos(D)
      PROVE  SesionCoherente'
  BY <1>1, <1>7 DEF BorrarObjetos, sesion, item
<1>8. CASE Ajeno
  BY <1>1, <1>8, AjenoNoToca DEF sesion
<1>9. QED
  BY <1>2, <1>3, <1>4, <1>5, <1>6, <1>7, <1>8, Pasos

\* Steps that leave rows, item states and objects as they are, except for the
\* pedido that a conversion writes into rows of its solicitud.
LEMMA AjenoArchivos ==
    ASSUME TypeOK, Ajeno
    PROVE  \/ UNCHANGED <<archivos, solPedido>>
           \/ \E q \in Solicitudes, p \in Pedidos : ConvertirSolicitud(q, p)
BY DEF Ajeno, Negocio, AutorizarFirma, FirmarCarga, Transferido, FallarEntrada,
       CambiarEstadoSolicitud, CrearPedidoManual, CambiarAcceso,
       CambiarEstadoPedido, Avanzar, dominio, item

\* What a conversion does to one row.
Heredado(a, q, p) ==
    IF a.sol = q /\ a.ped = Sin /\ a.vis = "cliente_solicitud" THEN [a EXCEPT !.ped = p] ELSE a

LEMMA HeredadoConserva ==
    ASSUME NEW q \in Solicitudes, NEW p \in Pedidos, NEW a \in Fila
    PROVE  /\ Heredado(a, q, p).id = a.id /\ Heredado(a, q, p).item = a.item
           /\ Heredado(a, q, p).sol = a.sol /\ Heredado(a, q, p).vis = a.vis
           /\ Heredado(a, q, p).ped =
                IF a.sol = q /\ a.ped = Sin /\ a.vis = "cliente_solicitud" THEN p ELSE a.ped
BY DEF Heredado, Fila

LEMMA ConvertirHereda ==
    ASSUME NEW q \in Solicitudes, NEW p \in Pedidos, ConvertirSolicitud(q, p)
    PROVE  archivos' = {Heredado(a, q, p) : a \in archivos}
BY DEF ConvertirSolicitud, Heredado

\* The row an incorporation inserts.
FilaNueva(i, id) ==
    [id |-> id, item |-> i, sol |-> sesSol[SesionDe[i]], ped |-> sesPed[SesionDe[i]],
     vis |-> itVis[i]]

LEMMA IncorporarInserta ==
    ASSUME NEW i \in Items, NEW id \in ArchivoIds, Incorporar(i, id)
    PROVE  /\ archivos' = archivos \cup {FilaNueva(i, id)}
           /\ FilaNueva(i, id).id = id /\ FilaNueva(i, id).item = i
           /\ \A a \in archivos : a.id # id
           /\ itEstado' = [itEstado EXCEPT ![i] = "committed"]
           /\ itArchivo' = [itArchivo EXCEPT ![i] = id]
BY DEF Incorporar, FilaNueva

\* An item gets one row, when it is committed, and keeps it.
LEMMA FilaPaso ==
    TypeOK /\ VerificadoSigueValiendo /\ SesionCoherente /\ FilaUnicaPorItem /\ Next
        => FilaUnicaPorItem'
<1> SUFFICES ASSUME TypeOK, VerificadoSigueValiendo, SesionCoherente, FilaUnicaPorItem, Next
             PROVE  FilaUnicaPorItem'
  OBVIOUS
<1>0. \A a \in archivos : a \in Fila /\ a.item \in Items
  BY DEF TypeOK, Fila
<1>1. ASSUME UNCHANGED <<archivos, itEstado, itArchivo>>
      PROVE  FilaUnicaPorItem'
  BY <1>1 DEF FilaUnicaPorItem
<1>2. ASSUME NEW s \in Sesiones, Reserva(s)
      PROVE  FilaUnicaPorItem'
  BY <1>0, <1>2 DEF TypeOK, Reserva, SesionCoherente, ItemsDe, FilaUnicaPorItem
<1>3. ASSUME NEW r \in Peticiones, NEW id \in ArchivoIds, Incorporacion(r, id)
      PROVE  FilaUnicaPorItem'
  <2> DEFINE i == petItem[r]
  <2>1. i \in Items /\ itEstado[i] = "reserved" /\ Incorporar(i, id)
    BY <1>3 DEF Incorporacion
  <2> HIDE DEF i
  <2>2. \A a \in archivos : a.item # i
    BY <2>1 DEF FilaUnicaPorItem
  <2>3. QED
    BY <1>0, <2>1, <2>2, IncorporarInserta DEF TypeOK, FilaUnicaPorItem
<1>4. ASSUME NEW L \in SUBSET Sesiones, Cierre(L)
      PROVE  FilaUnicaPorItem'
  BY <1>0, <1>4 DEF TypeOK, Cierre, FilaUnicaPorItem
<1>5. ASSUME NEW i \in Items, NEW c \in {"listo", "discrepante"}, LlegarObjeto(i, c)
      PROVE  FilaUnicaPorItem'
  BY <1>1, <1>5 DEF LlegarObjeto, item
<1>6. ASSUME NEW r \in Peticiones,
             \/ \E i \in Items : PedirFinalizar(r, i)
             \/ YaIncorporado(r) \/ ComprobarPublica(r) \/ AbortarFinalizar(r)
             \/ ResponderFinalizar(r) \/ PerderRespuesta(r)
      PROVE  FilaUnicaPorItem'
  BY <1>1, <1>6 DEF PedirFinalizar, YaIncorporado, ComprobarPublica, AbortarFinalizar,
                    ResponderFinalizar, PerderRespuesta, item
<1>7. ASSUME NEW D \in SUBSET candidatos, BorrarObjetos(D)
      PROVE  FilaUnicaPorItem'
  BY <1>1, <1>7 DEF BorrarObjetos, item
<1>8. CASE Ajeno
  <2>1. UNCHANGED <<itEstado, itArchivo>>
    BY <1>8, AjenoNoToca
  <2>2. ASSUME NEW q \in Solicitudes, NEW p \in Pedidos, ConvertirSolicitud(q, p)
        PROVE  FilaUnicaPorItem'
    <3>1. archivos' = {Heredado(a, q, p) : a \in archivos}
      BY <2>2, ConvertirHereda
    <3>2. \A a \in archivos : Heredado(a, q, p).id = a.id /\ Heredado(a, q, p).item = a.item
      BY <1>0, HeredadoConserva
    <3>3. QED
      BY <2>1, <3>1, <3>2 DEF FilaUnicaPorItem
  <2>3. QED
    BY <1>1, <1>8, <2>1, <2>2, AjenoArchivos
<1>9. QED
  BY <1>2, <1>3, <1>4, <1>5, <1>6, <1>7, <1>8, Pasos

\* A committed item has its object, before and after any step: only the object
\* of an expired item is ever deleted.
LEMMA ObjetoPaso ==
    TypeOK /\ VerificadoSigueValiendo /\ FilaUnicaPorItem /\ ArchivoConObjeto /\ Next
        => ArchivoConObjeto'
<1> SUFFICES ASSUME TypeOK, VerificadoSigueValiendo, FilaUnicaPorItem, ArchivoConObjeto, Next
             PROVE  ArchivoConObjeto'
  OBVIOUS
<1>0. \A a \in archivos : a \in Fila /\ a.item \in Items
  BY DEF TypeOK, Fila
<1>1. ASSUME UNCHANGED <<archivos, objeto>>
      PROVE  ArchivoConObjeto'
  BY <1>1 DEF ArchivoConObjeto
<1>2. ASSUME NEW s \in Sesiones, Reserva(s)
      PROVE  ArchivoConObjeto'
  BY <1>1, <1>2 DEF Reserva, almacen
<1>3. ASSUME NEW r \in Peticiones, NEW id \in ArchivoIds, Incorporacion(r, id)
      PROVE  ArchivoConObjeto'
  <2>1. petItem[r] \in Items /\ objeto[petItem[r]] = "listo" /\ Incorporar(petItem[r], id)
        /\ objeto' = objeto
    BY <1>3 DEF Incorporacion, almacen
  <2>2. QED
    BY <2>1, IncorporarInserta DEF ArchivoConObjeto
<1>4. ASSUME NEW L \in SUBSET Sesiones, Cierre(L)
      PROVE  ArchivoConObjeto'
  BY <1>1, <1>4 DEF Cierre, almacen
<1>5. ASSUME NEW i \in Items, NEW c \in {"listo", "discrepante"}, LlegarObjeto(i, c)
      PROVE  ArchivoConObjeto'
  BY <1>0, <1>5 DEF TypeOK, LlegarObjeto, ArchivoConObjeto, item
<1>6. ASSUME NEW r \in Peticiones,
             \/ \E i \in Items : PedirFinalizar(r, i)
             \/ YaIncorporado(r) \/ ComprobarPublica(r) \/ AbortarFinalizar(r)
             \/ ResponderFinalizar(r) \/ PerderRespuesta(r)
      PROVE  ArchivoConObjeto'
  BY <1>1, <1>6 DEF PedirFinalizar, YaIncorporado, ComprobarPublica, AbortarFinalizar,
                    ResponderFinalizar, PerderRespuesta, item, almacen
<1>7. ASSUME NEW D \in SUBSET candidatos, BorrarObjetos(D)
      PROVE  ArchivoConObjeto'
  BY <1>0, <1>7, BorrarSoloVencidos DEF TypeOK, FilaUnicaPorItem, ArchivoConObjeto, item
<1>8. CASE Ajeno
  <2>1. objeto' = objeto
    BY <1>8, AjenoNoToca
  <2>2. ASSUME NEW q \in Solicitudes, NEW p \in Pedidos, ConvertirSolicitud(q, p)
        PROVE  ArchivoConObjeto'
    <3>1. archivos' = {Heredado(a, q, p) : a \in archivos}
      BY <2>2, ConvertirHereda
    <3>2. \A a \in archivos : Heredado(a, q, p).item = a.item
      BY <1>0, HeredadoConserva
    <3>3. QED
      BY <2>1, <3>1, <3>2 DEF ArchivoConObjeto
  <2>3. QED
    BY <1>1, <1>8, <2>1, <2>2, AjenoArchivos
<1>9. QED
  BY <1>2, <1>3, <1>4, <1>5, <1>6, <1>7, <1>8, Pasos

\* Every step keeps the rows there are, and the item each belongs to.
LEMMA FilasPermanecen ==
    ASSUME TypeOK, VerificadoSigueValiendo, Next
    PROVE  \A a \in archivos : \E b \in archivos' : b.item = a.item /\ b.id = a.id
<1>0. \A a \in archivos : a \in Fila
  BY DEF TypeOK
<1>1. CASE archivos' = archivos
  BY <1>1
<1>2. ASSUME NEW q \in Solicitudes, NEW p \in Pedidos, ConvertirSolicitud(q, p)
      PROVE  \A a \in archivos : \E b \in archivos' : b.item = a.item /\ b.id = a.id
  BY <1>0, <1>2, ConvertirHereda, HeredadoConserva
<1>3. ASSUME NEW r \in Peticiones, NEW id \in ArchivoIds, Incorporacion(r, id)
      PROVE  \A a \in archivos : \E b \in archivos' : b.item = a.item /\ b.id = a.id
  BY <1>3, IncorporarInserta DEF Incorporacion
<1>4. \/ archivos' = archivos
      \/ \E q \in Solicitudes, p \in Pedidos : ConvertirSolicitud(q, p)
      \/ \E r \in Peticiones, id \in ArchivoIds : Incorporacion(r, id)
  BY Pasos, AjenoArchivos DEF Reserva, LlegarObjeto, PedirFinalizar, YaIncorporado,
     ComprobarPublica, AbortarFinalizar, ResponderFinalizar, PerderRespuesta, Cierre,
     BorrarObjetos, item
<1>5. QED
  BY <1>1, <1>2, <1>3, <1>4

\* Only the answer of a finalize that committed makes an entry "recibido".
LEMMA RecibidoPaso ==
    TypeOK /\ VerificadoSigueValiendo /\ FilaUnicaPorItem /\ RecibidoEsArchivo /\ Next
        => RecibidoEsArchivo'
<1> SUFFICES ASSUME TypeOK, VerificadoSigueValiendo, FilaUnicaPorItem, RecibidoEsArchivo, Next
             PROVE  RecibidoEsArchivo'
  OBVIOUS
<1>1. ASSUME \A i \in Items : cliente'[i] = "recibido" => cliente[i] = "recibido"
      PROVE  RecibidoEsArchivo'
  BY <1>1, FilasPermanecen DEF RecibidoEsArchivo
<1>2. ASSUME NEW r \in Peticiones, ResponderFinalizar(r)
      PROVE  RecibidoEsArchivo'
  <2>1. petItem[r] \in Items /\ itEstado[petItem[r]] = "committed"
    BY <1>2 DEF TypeOK, ResponderFinalizar, VerificadoSigueValiendo
  <2>2. \E a \in archivos : a.item = petItem[r]
    BY <2>1 DEF FilaUnicaPorItem
  <2>3. archivos' = archivos
        /\ \A i \in Items \ {petItem[r]} : cliente'[i] = cliente[i]
    BY <1>2 DEF TypeOK, ResponderFinalizar, item
  <2>4. QED
    BY <2>2, <2>3 DEF RecibidoEsArchivo
<1>3. CASE Ajeno
  <2>1. ASSUME NEW i \in Items,
               AutorizarFirma(i) \/ FirmarCarga(i) \/ Transferido(i) \/ FallarEntrada(i)
        PROVE  \A j \in Items : cliente'[j] = "recibido" => cliente[j] = "recibido"
    BY <2>1 DEF TypeOK, AutorizarFirma, FirmarCarga, Transferido, FallarEntrada
  <2>2. CASE Negocio \/ Avanzar
    <3>1. cliente' = cliente
      BY <2>2 DEF Negocio, CambiarEstadoSolicitud, ConvertirSolicitud, CrearPedidoManual,
         CambiarAcceso, CambiarEstadoPedido, Avanzar
    <3>2. QED
      BY <1>1, <3>1
  <2>3. QED
    BY <1>1, <1>3, <2>1, <2>2 DEF Ajeno
<1>4. ASSUME NEW r \in Peticiones, NEW i \in Items, PedirFinalizar(r, i)
      PROVE  RecibidoEsArchivo'
  BY <1>1, <1>4 DEF TypeOK, PedirFinalizar
<1>5. CASE cliente' = cliente
  BY <1>1, <1>5
<1>6. QED
  BY <1>2, <1>3, <1>4, <1>5, Pasos DEF Reserva, LlegarObjeto, YaIncorporado, ComprobarPublica,
     AbortarFinalizar, Incorporacion, PerderRespuesta, Cierre, BorrarObjetos

\* The context of a session is fixed when it is reserved.
LEMMA ContextoSesionPaso ==
    TypeOK /\ VerificadoSigueValiendo /\ SesionCoherente /\ ContextoDeSesion /\ Next
        => ContextoDeSesion'
<1> SUFFICES ASSUME TypeOK, VerificadoSigueValiendo, SesionCoherente, ContextoDeSesion, Next
             PROVE  ContextoDeSesion'
  OBVIOUS
<1> USE DEF ContextoDeSesion, Publica
<1>1. ASSUME UNCHANGED <<sesion, itEstado, itVis, firma>>
      PROVE  ContextoDeSesion'
  BY <1>1 DEF sesion
<1>2. ASSUME NEW q \in Solicitudes, NEW s \in Sesiones, CrearSolicitudConReserva(q, s)
      PROVE  ContextoDeSesion'
  BY <1>2 DEF TypeOK, CrearSolicitudConReserva, InsertarSesion, InsertarItems, almacen
<1>3. ASSUME NEW p \in Pedidos, NEW s \in Sesiones, ReservarCargaPedido(p, s)
      PROVE  ContextoDeSesion'
  BY <1>3, CategoriaInterna
     DEF TypeOK, ReservarCargaPedido, InsertarSesion, InsertarItems, almacen
<1>4. ASSUME NEW i \in Items, FirmarCarga(i)
      PROVE  ContextoDeSesion'
  BY <1>4 DEF TypeOK, FirmarCarga, PuedeFirmar, ReservaViva, sesion, item
<1>5. ASSUME NEW r \in Peticiones, NEW id \in ArchivoIds, Incorporacion(r, id)
      PROVE  ContextoDeSesion'
  BY <1>5 DEF TypeOK, Incorporacion, Incorporar, almacen
<1>6. ASSUME NEW L \in SUBSET Sesiones, Cierre(L)
      PROVE  ContextoDeSesion'
  BY <1>6 DEF TypeOK, Cierre, almacen
<1>7. ASSUME NEW i \in Items, AutorizarFirma(i) \/ Transferido(i) \/ FallarEntrada(i)
      PROVE  ContextoDeSesion'
  BY <1>1, <1>7 DEF AutorizarFirma, Transferido, FallarEntrada, sesion, item, almacen
<1>8. ASSUME NEW i \in Items, NEW c \in {"listo", "discrepante"}, LlegarObjeto(i, c)
      PROVE  ContextoDeSesion'
  BY <1>1, <1>8 DEF LlegarObjeto, item
<1>9. ASSUME NEW r \in Peticiones,
             \/ \E i \in Items : PedirFinalizar(r, i)
             \/ YaIncorporado(r) \/ ComprobarPublica(r) \/ AbortarFinalizar(r)
             \/ ResponderFinalizar(r) \/ PerderRespuesta(r)
      PROVE  ContextoDeSesion'
  BY <1>1, <1>9 DEF PedirFinalizar, YaIncorporado, ComprobarPublica, AbortarFinalizar,
                    ResponderFinalizar, PerderRespuesta, item, almacen
<1>10. ASSUME NEW D \in SUBSET candidatos, BorrarObjetos(D)
       PROVE  ContextoDeSesion'
  BY <1>1, <1>10 DEF BorrarObjetos, item
<1>11. CASE Negocio \/ Avanzar
  BY <1>1, <1>11 DEF Negocio, CambiarEstadoSolicitud, ConvertirSolicitud, CrearPedidoManual,
     CambiarAcceso, CambiarEstadoPedido, Avanzar, item, almacen
<1> HIDE DEF ContextoDeSesion
<1>12. QED
  BY <1>2, <1>3, <1>4, <1>5, <1>6, <1>7, <1>8, <1>9, <1>10, <1>11,
     IncorporacionesIncorporan, ReconciliarCierra
     DEF Next, Reservar, Transferir, Finalizar, Mantener

\* A file keeps the context it was incorporated in; only the conversion of its
\* own solicitud puts it on a pedido.
LEMMA ContextoArchivoPaso ==
    TypeOK /\ VerificadoSigueValiendo /\ SesionCoherente /\ FilaUnicaPorItem
           /\ ContextoDeSesion /\ ContextoDeArchivo /\ Next
        => ContextoDeArchivo'
<1> SUFFICES ASSUME TypeOK, VerificadoSigueValiendo, SesionCoherente, FilaUnicaPorItem,
                    ContextoDeSesion, ContextoDeArchivo, Next
             PROVE  ContextoDeArchivo'
  OBVIOUS
<1>0. \A a \in archivos : a \in Fila /\ a.item \in Items /\ itEstado[a.item] = "committed"
                          /\ a.sol \in Solicitudes \cup {Sin}
  BY DEF TypeOK, Fila, FilaUnicaPorItem
<1>1. ASSUME UNCHANGED <<archivos, sesSol, sesPed, solPedido>>
      PROVE  ContextoDeArchivo'
  BY <1>1 DEF ContextoDeArchivo
<1>2. ASSUME NEW s \in Sesiones, Reserva(s)
      PROVE  ContextoDeArchivo'
  <2>1. \A a \in archivos : SesionDe[a.item] \in Sesiones \ {s}
    BY <1>0, <1>2 DEF Reserva, SesionCoherente, ItemsDe
  <2>2. QED
    BY <1>2, <2>1 DEF Reserva, ContextoDeArchivo
<1>3. ASSUME NEW r \in Peticiones, NEW id \in ArchivoIds, Incorporacion(r, id)
      PROVE  ContextoDeArchivo'
  <2> DEFINE i == petItem[r]
             s == SesionDe[i]
  <2>1. /\ i \in Items /\ s \in Sesiones /\ sesEstado[s] = "open" /\ itEstado[i] = "reserved"
        /\ Incorporar(i, id) /\ solPedido' = solPedido
    BY <1>3 DEF Incorporacion, dominio
  <2> HIDE DEF i
  <2>2. sesSol' = sesSol /\ sesPed' = sesPed
    BY <2>1 DEF Incorporar
  <2>3. archivos' = archivos \cup {FilaNueva(i, id)}
    BY <2>1, IncorporarInserta
  <2>4. /\ FilaNueva(i, id).item = i /\ FilaNueva(i, id).sol = sesSol[s]
        /\ FilaNueva(i, id).ped = sesPed[s] /\ FilaNueva(i, id).vis = itVis[i]
    BY DEF FilaNueva
  <2>5. IF sesSol[s] = Sin THEN itVis[i] # "cliente_solicitud"
                           ELSE sesPed[s] = Sin /\ itVis[i] = "cliente_solicitud"
    BY <2>1 DEF ContextoDeSesion, Publica
  <2>6. QED
    BY <2>1, <2>2, <2>3, <2>4, <2>5 DEF ContextoDeArchivo
<1>4. ASSUME NEW q \in Solicitudes, NEW p \in Pedidos, ConvertirSolicitud(q, p)
      PROVE  ContextoDeArchivo'
  <2>1. /\ archivos' = {Heredado(a, q, p) : a \in archivos}
        /\ sesSol' = sesSol /\ sesPed' = sesPed
        /\ solPedido[q] = Sin /\ solPedido' = [solPedido EXCEPT ![q] = p]
    BY <1>4, ConvertirHereda DEF ConvertirSolicitud, sesion
  <2> SUFFICES ASSUME NEW a \in archivos
               PROVE  LET b == Heredado(a, q, p) IN
                      /\ b.sol = sesSol[SesionDe[b.item]]
                      /\ IF b.sol = Sin
                         THEN b.ped = sesPed[SesionDe[b.item]] /\ b.vis # "cliente_solicitud"
                         ELSE b.ped \in {Sin, solPedido'[b.sol]} /\ b.vis = "cliente_solicitud"
    BY <2>1 DEF ContextoDeArchivo
  <2>2. /\ Heredado(a, q, p).item = a.item /\ Heredado(a, q, p).sol = a.sol
        /\ Heredado(a, q, p).vis = a.vis
        /\ Heredado(a, q, p).ped =
             IF a.sol = q /\ a.ped = Sin /\ a.vis = "cliente_solicitud" THEN p ELSE a.ped
    BY <1>0, HeredadoConserva
  <2>3. /\ a.sol = sesSol[SesionDe[a.item]]
        /\ IF a.sol = Sin THEN a.ped = sesPed[SesionDe[a.item]] /\ a.vis # "cliente_solicitud"
                          ELSE a.ped \in {Sin, solPedido[a.sol]} /\ a.vis = "cliente_solicitud"
    BY DEF ContextoDeArchivo
  <2>4. a.sol # Sin => solPedido'[a.sol] = IF a.sol = q THEN p ELSE solPedido[a.sol]
    BY <1>0, <2>1 DEF TypeOK
  <2>5. CASE a.sol = Sin
    BY <2>2, <2>3, <2>5
  <2>6. CASE a.sol = q
    BY <2>1, <2>2, <2>3, <2>4, <2>6
  <2>7. CASE a.sol # Sin /\ a.sol # q
    BY <2>2, <2>3, <2>4, <2>7
  <2>8. QED
    BY <2>5, <2>6, <2>7
<1>5. CASE Ajeno
  BY <1>1, <1>4, <1>5, AjenoNoToca, AjenoArchivos DEF sesion
<1>6. ASSUME NEW L \in SUBSET Sesiones, Cierre(L)
      PROVE  ContextoDeArchivo'
  BY <1>1, <1>6 DEF Cierre, dominio
<1>7. ASSUME NEW i \in Items, NEW c \in {"listo", "discrepante"}, LlegarObjeto(i, c)
      PROVE  ContextoDeArchivo'
  BY <1>1, <1>7 DEF LlegarObjeto, item, sesion, dominio
<1>8. ASSUME NEW r \in Peticiones,
             \/ \E i \in Items : PedirFinalizar(r, i)
             \/ YaIncorporado(r) \/ ComprobarPublica(r) \/ AbortarFinalizar(r)
             \/ ResponderFinalizar(r) \/ PerderRespuesta(r)
      PROVE  ContextoDeArchivo'
  BY <1>1, <1>8 DEF PedirFinalizar, YaIncorporado, ComprobarPublica, AbortarFinalizar,
                    ResponderFinalizar, PerderRespuesta, item, sesion, dominio
<1>9. ASSUME NEW D \in SUBSET candidatos, BorrarObjetos(D)
      PROVE  ContextoDeArchivo'
  BY <1>1, <1>9 DEF BorrarObjetos, item, sesion, dominio
<1>10. QED
  BY <1>2, <1>3, <1>5, <1>6, <1>7, <1>8, <1>9, Pasos

-----------------------------------------------------------------------------
(* The invariant *)

LEMMA InicioInductivo == Init => InvInductivo
BY DEF Init, InvInductivo, TypeOK, VerificadoSigueValiendo, SesionCoherente, FilaUnicaPorItem,
       ArchivoConObjeto, RecibidoEsArchivo, ContextoDeSesion, ContextoDeArchivo, ItemsDe,
       SesionEstado, ItemEstado, ClienteEstado, Publica

LEMMA PasoInductivo == InvInductivo /\ [Next]_vars => InvInductivo'
<1>1. CASE Next
  BY <1>1, TipoPaso, VerificadoPaso, SesionPaso, FilaPaso, ObjetoPaso, RecibidoPaso,
     ContextoSesionPaso, ContextoArchivoPaso DEF InvInductivo
<1>2. ASSUME InvInductivo, UNCHANGED vars
      PROVE  InvInductivo'
  BY <1>2 DEF InvInductivo, TypeOK, VerificadoSigueValiendo, SesionCoherente, FilaUnicaPorItem,
     ArchivoConObjeto, RecibidoEsArchivo, ContextoDeSesion, ContextoDeArchivo, Publica, ItemsDe,
     vars, dominio, sesion, item, almacen, peticion
<1>3. QED
  BY <1>1, <1>2

\* Every reachable state of the upload control plane, of any size, satisfies the
\* inductive invariant.
THEOREM Invariante == Spec => []InvInductivo
<1>1. QED
  BY InicioInductivo, PasoInductivo, PTL DEF Spec

\* Whatever happens, each variable stays in its type.
THEOREM TiposCorrectos == Spec => []TypeOK
<1>1. InvInductivo => TypeOK
  BY DEF InvInductivo
<1>2. QED
  BY <1>1, Invariante, PTL

\* However many finalize requests run, are repeated or lose their answer, there
\* is one row of archivos for each committed item and none for any other.
THEOREM FilaUnica == Spec => []FilaUnicaPorItem
<1>1. InvInductivo => FilaUnicaPorItem
  BY DEF InvInductivo
<1>2. QED
  BY <1>1, Invariante, PTL

\* Maintenance never deletes the object of a listed file.
THEOREM ObjetoPresente == Spec => []ArchivoConObjeto
<1>1. InvInductivo => ArchivoConObjeto
  BY DEF InvInductivo
<1>2. QED
  BY <1>1, Invariante, PTL

\* "Recibido" in the browser means a row in archivos.
THEOREM RecibidoVerdadero == Spec => []RecibidoEsArchivo
<1>1. InvInductivo => RecibidoEsArchivo
  BY DEF InvInductivo
<1>2. QED
  BY <1>1, Invariante, PTL

\* The context of every file is that of its session, or the pedido its
\* solicitud became.
THEOREM ContextoCorrecto == Spec => []ContextoDeArchivo
<1>1. InvInductivo => ContextoDeArchivo
  BY DEF InvInductivo
<1>2. QED
  BY <1>1, Invariante, PTL

-----------------------------------------------------------------------------
(* Action properties and refinement *)

\* No step changes a closed session or its items: the maintenance only takes
\* open ones, and a finalize that was checking it would still hold it open.
THEOREM CierreEsDefinitivo == Spec => CierreDefinitivo
<1> DEFINE Quieta == \A s \in Sesiones : sesEstado[s] \in SesionCerrada =>
                       /\ sesEstado'[s] = sesEstado[s]
                       /\ \A i \in ItemsDe(s) : itEstado'[i] = itEstado[i]
<1>1. ASSUME InvInductivo, Next PROVE Quieta
  <2> USE DEF SesionCerrada, ItemsDe, InvInductivo
  <2>1. ASSUME UNCHANGED <<sesEstado, itEstado>> PROVE Quieta
    BY <2>1
  <2>2. ASSUME NEW s \in Sesiones, Reserva(s) PROVE Quieta
    BY <1>1, <2>2 DEF TypeOK, Reserva
  <2>3. ASSUME NEW r \in Peticiones, NEW id \in ArchivoIds, Incorporacion(r, id) PROVE Quieta
    BY <1>1, <2>3 DEF TypeOK, Incorporacion, Incorporar
  <2>4. ASSUME NEW L \in SUBSET Sesiones, Cierre(L) PROVE Quieta
    BY <1>1, <2>4 DEF TypeOK, Cierre
  <2>5. CASE Ajeno
    BY <2>1, <2>5, AjenoNoToca DEF sesion
  <2> HIDE DEF Quieta
  <2>6. QED
    BY <1>1, <2>1, <2>2, <2>3, <2>4, <2>5, Pasos
       DEF LlegarObjeto, PedirFinalizar, YaIncorporado, ComprobarPublica, AbortarFinalizar,
           ResponderFinalizar, PerderRespuesta, BorrarObjetos, sesion, item
<1>2. ASSUME UNCHANGED vars PROVE Quieta
  BY <1>2 DEF vars, sesion, item
<1>3. InvInductivo /\ [Next]_vars => [Quieta]_vars
  BY <1>1
<1>4. QED
  BY <1>3, Invariante, PTL DEF Spec, CierreDefinitivo

\* An internal file enters with the category of the present status of its pedido:
\* finalizar_carga_pedido compares it holding the pedido's row, no conversion
\* makes an internal file, and a public one has its solicitud.
THEOREM CategoriaEsVigente == Spec => CategoriaVigente
<1> DEFINE Nuevas == \A a \in archivos' \ archivos :
                        a.sol = Sin => a.vis = VisibilidadPorEstado(pedEstado[a.ped])
<1>1. ASSUME InvInductivo, Next PROVE Nuevas
  <2> USE DEF InvInductivo
  <2>1. ASSUME NEW r \in Peticiones, NEW id \in ArchivoIds, IncorporarPublica(r, id)
        PROVE  Nuevas
    <3>1. /\ petItem[r] \in Items /\ sesSol[SesionDe[petItem[r]]] # Sin
          /\ Incorporar(petItem[r], id)
      BY <1>1, <2>1 DEF IncorporarPublica, VerificadoSigueValiendo, Publica, TypeOK
    <3>2. QED
      BY <3>1, IncorporarInserta DEF FilaNueva
  <2>2. ASSUME NEW r \in Peticiones, NEW id \in ArchivoIds, FinalizarPedido(r, id)
        PROVE  Nuevas
    <3>1. /\ petItem[r] \in Items /\ Incorporar(petItem[r], id)
          /\ itVis[petItem[r]] =
               VisibilidadPorEstado(pedEstado[sesPed[SesionDe[petItem[r]]]])
      BY <1>1, <2>2 DEF FinalizarPedido, TypeOK
    <3>2. archivos' = archivos \cup {FilaNueva(petItem[r], id)}
      BY <3>1, IncorporarInserta
    <3>3. /\ FilaNueva(petItem[r], id).vis = itVis[petItem[r]]
          /\ FilaNueva(petItem[r], id).ped = sesPed[SesionDe[petItem[r]]]
      BY DEF FilaNueva
    <3>4. QED
      BY <3>1, <3>2, <3>3
  <2>3. ASSUME NEW q \in Solicitudes, NEW p \in Pedidos, ConvertirSolicitud(q, p)
        PROVE  Nuevas
    <3>1. archivos' = {Heredado(a, q, p) : a \in archivos}
      BY <2>3, ConvertirHereda
    <3>2. ASSUME NEW a \in archivos
          PROVE  Heredado(a, q, p).sol = a.sol /\ (a.sol = Sin => Heredado(a, q, p) = a)
      <4>1. a \in Fila /\ q # Sin
        BY <1>1 DEF TypeOK
      <4>2. Heredado(a, q, p).sol = a.sol
        BY <4>1, HeredadoConserva
      <4>3. a.sol # q => Heredado(a, q, p) = a
        BY DEF Heredado
      <4>4. QED
        BY <4>1, <4>2, <4>3
    <3>3. QED
      BY <3>1, <3>2
  <2>4. \/ archivos' = archivos
        \/ \E q \in Solicitudes, p \in Pedidos : ConvertirSolicitud(q, p)
        \/ \E r \in Peticiones, id \in ArchivoIds :
             IncorporarPublica(r, id) \/ FinalizarPedido(r, id)
    <3>1. CASE Finalizar
      BY <3>1 DEF Finalizar, PedirFinalizar, YaIncorporado, ComprobarPublica, AbortarFinalizar,
         ResponderFinalizar, PerderRespuesta, item
    <3>2. CASE Reservar
      BY <3>2 DEF Reservar, CrearSolicitudConReserva, ReservarCargaPedido, InsertarItems
    <3>3. CASE Transferir
      BY <3>3 DEF Transferir, AutorizarFirma, FirmarCarga, Transferido, FallarEntrada,
         LlegarObjeto, item
    <3>4. CASE Mantener
      BY <3>4 DEF Mantener, Reconciliar, BorrarObjetos, item
    <3>5. CASE Negocio \/ Avanzar
      BY <3>5 DEF Negocio, CambiarEstadoSolicitud, CrearPedidoManual, CambiarAcceso,
         CambiarEstadoPedido, Avanzar, item
    <3>6. QED
      BY <1>1, <3>1, <3>2, <3>3, <3>4, <3>5 DEF Next
  <2>5. CASE archivos' = archivos
    BY <2>5
  <2> HIDE DEF Nuevas
  <2>6. QED
    BY <2>1, <2>2, <2>3, <2>4, <2>5
<1>2. ASSUME UNCHANGED vars PROVE Nuevas
  BY <1>2 DEF vars, item
<1>3. InvInductivo /\ [Next]_vars => [Nuevas]_vars
  BY <1>1
<1>4. QED
  BY <1>3, Invariante, PTL DEF Spec, CategoriaVigente

\* The abstract destinations, one state at a time.
LEMMA DestinosDe ==
    ASSUME TypeOK, NEW i \in Items
    PROVE  /\ itEstado[i] = "libre" => Destinos[i] = "sin_reserva"
           /\ itEstado[i] = "reserved" => Destinos[i] = "ofrecido"
           /\ itEstado[i] = "committed" => Destinos[i] = "incorporado"
           /\ itEstado[i] = "expired" => Destinos[i] = "descartado"
BY DEF Destinos

\* What the three abstract variables depend on.
LEMMA AbstractoQuieto ==
    /\ itEstado' = itEstado => Destinos' = Destinos
    /\ archivos' = archivos => Filas' = Filas
    /\ objeto' = objeto => Contenidos' = Contenidos
BY DEF Destinos, Filas, Contenidos

\* Each step of the control plane is a step of EntregaArchivos or none of its
\* business.
LEMMA PasoEntrega == InvInductivo /\ Next => Entrega!Next \/ UNCHANGED Entrega!vars
<1> SUFFICES ASSUME InvInductivo, Next
             PROVE  Entrega!Next \/ UNCHANGED <<Destinos, Filas, Contenidos>>
  BY DEF Entrega!vars
<1> USE DEF InvInductivo
<1>1. ASSUME UNCHANGED <<itEstado, archivos, objeto>>
      PROVE  UNCHANGED <<Destinos, Filas, Contenidos>>
  BY <1>1, AbstractoQuieto
<1>2. ASSUME NEW s \in Sesiones, Reserva(s)
      PROVE  Entrega!Next
  <2>1. \A i \in ItemsDe(s) : Destinos[i] = "sin_reserva"
    BY <1>2, DestinosDe DEF Reserva, SesionCoherente, ItemsDe
  <2>2. Destinos' = [i \in Items |-> IF i \in ItemsDe(s) THEN "ofrecido" ELSE Destinos[i]]
    BY <1>2 DEF TypeOK, Reserva, Destinos, ItemsDe
  <2>3. Filas' = Filas /\ Contenidos' = Contenidos
    BY <1>2, AbstractoQuieto DEF Reserva, almacen
  <2>4. ItemsDe(s) \in SUBSET Items
    BY DEF ItemsDe
  <2>5. Entrega!Ofrecer(ItemsDe(s))
    BY <2>1, <2>2, <2>3 DEF Entrega!Ofrecer
  <2>6. QED
    BY <2>4, <2>5 DEF Entrega!Next
<1>3. ASSUME NEW i \in Items, NEW c \in {"listo", "discrepante"}, LlegarObjeto(i, c)
      PROVE  Entrega!Next \/ UNCHANGED <<Destinos, Filas, Contenidos>>
  <2>1. /\ objeto[i] = "ausente" /\ objeto' = [objeto EXCEPT ![i] = c]
        /\ itEstado' = itEstado /\ archivos' = archivos
    BY <1>3 DEF LlegarObjeto, item
  <2>2. itEstado[i] \in {"reserved", "expired"}
    <3>1. itEstado[i] # "committed"
      BY <2>1 DEF FilaUnicaPorItem, ArchivoConObjeto
    <3>2. itEstado[i] # "libre"
      <4>1. CASE reloj < firma[i]
        BY <4>1 DEF TypeOK, ContextoDeSesion
      <4>2. CASE PuedeCargaInterna(i)
        BY <4>2 DEF PuedeCargaInterna, ReservaViva
      <4>3. QED
        BY <1>3, <4>1, <4>2 DEF LlegarObjeto
    <3>3. QED
      BY <3>1, <3>2 DEF TypeOK, ItemEstado
  <2>3. Destinos[i] \in {"ofrecido", "descartado"}
    BY <2>2, DestinosDe
  <2>4. Destinos' = Destinos /\ Filas' = Filas
    BY <2>1, AbstractoQuieto
  <2>5. CASE c = "listo"
    <3>1. Contenidos' = Contenidos \cup {i}
      BY <2>1, <2>5 DEF TypeOK, Contenidos
    <3>2. QED
      BY <2>3, <2>4, <3>1 DEF Entrega!Next, Entrega!Llegar
  <2>6. CASE c = "discrepante"
    <3>1. Contenidos' = Contenidos
      BY <2>1, <2>6 DEF TypeOK, Contenidos
    <3>2. QED
      BY <2>4, <3>1
  <2>7. QED
    BY <2>5, <2>6
<1>4. ASSUME NEW r \in Peticiones, NEW id \in ArchivoIds, Incorporacion(r, id)
      PROVE  Entrega!Next
  <2> DEFINE i == petItem[r]
  <2>1. /\ i \in Items /\ itEstado[i] = "reserved" /\ objeto[i] = "listo" /\ objeto' = objeto
        /\ Incorporar(i, id)
    BY <1>4 DEF Incorporacion, almacen
  <2> HIDE DEF i
  <2>2. Destinos[i] = "ofrecido" /\ i \in Contenidos
    BY <2>1, DestinosDe DEF Contenidos
  <2>3. \A f \in Filas : f[1] # id /\ f[2] # i
    BY <2>1, IncorporarInserta DEF Filas, FilaUnicaPorItem
  <2>4. Destinos' = [Destinos EXCEPT ![i] = "incorporado"]
    <3>1. itEstado' = [itEstado EXCEPT ![i] = "committed"]
      BY <2>1, IncorporarInserta
    <3>2. Destinos' = [j \in Items |-> IF j = i THEN "incorporado" ELSE Destinos[j]]
      BY <2>1, <3>1 DEF TypeOK, Destinos
    <3>3. DOMAIN Destinos = Items
      BY DEF Destinos
    <3>4. QED
      BY <2>1, <3>2, <3>3
  <2>5. Filas' = Filas \cup {<<id, i>>}
    BY <2>1, IncorporarInserta DEF Filas
  <2>6. Contenidos' = Contenidos
    BY <2>1, AbstractoQuieto
  <2>7. Entrega!Incorporar(i, id)
    BY <2>2, <2>3, <2>4, <2>5, <2>6 DEF Entrega!Incorporar
  <2>8. QED
    BY <2>1, <2>7 DEF Entrega!Next
<1>5. ASSUME NEW L \in SUBSET Sesiones, Cierre(L)
      PROVE  Entrega!Next
  <2> DEFINE V == {i \in Items : SesionDe[i] \in L /\ itEstado[i] = "reserved"}
  <2>1. \A i \in V : Destinos[i] = "ofrecido"
    BY DestinosDe
  <2>2. Destinos' = [i \in Items |-> IF i \in V THEN "descartado" ELSE Destinos[i]]
    BY <1>5 DEF TypeOK, Cierre, Destinos
  <2>3. Filas' = Filas /\ Contenidos' = Contenidos
    BY <1>5, AbstractoQuieto DEF Cierre, almacen
  <2>4. V \in SUBSET Items
    OBVIOUS
  <2> HIDE DEF V
  <2>5. QED
    BY <2>1, <2>2, <2>3, <2>4 DEF Entrega!Next, Entrega!Descartar
<1>6. ASSUME NEW D \in SUBSET candidatos, BorrarObjetos(D)
      PROVE  Entrega!Next
  <2>1. D \in SUBSET Items
    BY DEF TypeOK
  <2>2. \A i \in D : Destinos[i] = "descartado"
    BY <1>6, <2>1, BorrarSoloVencidos, DestinosDe
  <2>3. Destinos' = Destinos /\ Filas' = Filas
    BY <1>6, AbstractoQuieto DEF BorrarObjetos, item
  <2>4. Contenidos' = Contenidos \ D
    BY <1>6 DEF TypeOK, BorrarObjetos, Contenidos
  <2>5. QED
    BY <2>1, <2>2, <2>3, <2>4 DEF Entrega!Next, Entrega!Retirar
<1>7. CASE Ajeno
  <2>1. itEstado' = itEstado /\ objeto' = objeto
    BY <1>7, AjenoNoToca
  <2>2. ASSUME NEW q \in Solicitudes, NEW p \in Pedidos, ConvertirSolicitud(q, p)
        PROVE  Filas' = Filas
    <3>1. archivos' = {Heredado(a, q, p) : a \in archivos}
      BY <2>2, ConvertirHereda
    <3>2. \A a \in archivos : Heredado(a, q, p).id = a.id /\ Heredado(a, q, p).item = a.item
      BY HeredadoConserva DEF TypeOK
    <3>3. QED
      BY <3>1, <3>2 DEF Filas
  <2>3. QED
    BY <1>7, <2>1, <2>2, AjenoArchivos, AbstractoQuieto
<1>8. QED
  BY <1>1, <1>2, <1>3, <1>4, <1>5, <1>6, <1>7, Pasos
     DEF PedirFinalizar, YaIncorporado, ComprobarPublica, AbortarFinalizar,
         ResponderFinalizar, PerderRespuesta, item, almacen

\* The control plane implements EntregaArchivos: every file offered is
\* incorporated exactly once with its content present, or discarded.
THEOREM ImplementaEntrega == Spec => EntregaSpec
<1>1. Init => Entrega!Init
  BY DEF Init, Entrega!Init, Destinos, Filas, Contenidos
<1>2. InvInductivo /\ [Next]_vars => [Entrega!Next]_(Entrega!vars)
  <2>1. ASSUME UNCHANGED vars PROVE UNCHANGED Entrega!vars
    BY <2>1, AbstractoQuieto DEF vars, item, almacen, Entrega!vars
  <2>2. QED
    BY <2>1, PasoEntrega
<1>3. QED
  BY <1>1, <1>2, Invariante, PTL DEF Spec, EntregaSpec, Entrega!Spec
=============================================================================
