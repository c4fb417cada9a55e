---------------------------- MODULE UsuariosProof ----------------------------
(***************************************************************************)
(* What Usuarios proves for any set of users and any number of resets,     *)
(* edits and first changes at once.                                        *)
(***************************************************************************)
EXTENDS Usuarios, TLAPS

\* The invocation of attempt a moves, and no other.
Mueve(a) ==
    /\ proc' \in [Intentos -> Proc]
    /\ \A b \in Intentos \ {a} : proc'[b] = proc[b]

\* Every move of an invocation, by where it ends.
LEMMA Movimientos ==
  ASSUME TypeOK, NEW a \in Intentos
  PROVE  /\ \A f \in Fase : Pasa(a, f) =>
               Mueve(a) /\ proc'[a].fase = f /\ proc'[a].resultado = proc[a].resultado
         /\ \A r \in Resultado : Acaba(a, r) =>
               Mueve(a) /\ proc'[a].fase = "fin" /\ proc'[a].resultado = r
         /\ SinRespuestaDeInicio(a) =>
               /\ Mueve(a) /\ proc'[a].fase \in {"inicio", "recuperar"}
               /\ proc'[a].resultado = proc[a].resultado
  <1>1. proc \in [Intentos -> Proc]
    BY DEF TypeOK
  <1>2. ASSUME NEW f \in Fase, Pasa(a, f)
        PROVE  Mueve(a) /\ proc'[a].fase = f /\ proc'[a].resultado = proc[a].resultado
    BY <1>1, <1>2 DEF Pasa, Mueve, Proc
  <1>3. ASSUME NEW r \in Resultado, Acaba(a, r)
        PROVE  Mueve(a) /\ proc'[a].fase = "fin" /\ proc'[a].resultado = r
    BY <1>1, <1>3 DEF Acaba, Mueve, Proc, Fase
  <1>4. ASSUME SinRespuestaDeInicio(a)
        PROVE  /\ Mueve(a) /\ proc'[a].fase \in {"inicio", "recuperar"}
               /\ proc'[a].resultado = proc[a].resultado
    BY <1>1, <1>4 DEF SinRespuestaDeInicio, Pasa, Mueve, Proc, Fase
  <1> QED BY <1>2, <1>3, <1>4

\* What follows a call of complete, by the phase and the answer.
LEMMA MovimientoDeCierre ==
  ASSUME TypeOK, NEW a \in Intentos, NEW c \in BOOLEAN, TrasCierre(a, c),
         proc[a].fase \in Cierre
  PROVE  /\ Mueve(a)
         /\ \/ /\ c /\ proc[a].fase = "exito"
               /\ proc'[a].fase = "fin" /\ proc'[a].resultado = "exito"
            \/ /\ proc[a].fase = "atencion"
               /\ proc'[a].fase = "fin" /\ proc'[a].resultado = "revisar"
            \/ /\ proc'[a].resultado = proc[a].resultado
               /\ \/ proc'[a].fase = proc[a].fase
                  \/ proc[a].fase = "exito" /\ proc'[a].fase = "lee_exito"
                  \/ proc[a].fase = "falla" /\ proc'[a].fase = "lee_falla"
                  \/ proc[a].fase = "reversion" /\ proc'[a].fase = "lee_reversion"
  <1>1. proc \in [Intentos -> Proc]
    BY DEF TypeOK
  <1>2. CASE c /\ proc[a].fase = "exito" /\ Acaba(a, "exito")
    BY <1>2, Movimientos DEF Resultado
  <1>3. CASE proc' = [proc EXCEPT ![a].vuelta = 2]
    BY <1>1, <1>3 DEF Mueve, Proc
  <1>4. CASE proc[a].fase = "exito" /\ Pasa(a, "lee_exito")
    BY <1>4, Movimientos DEF Fase, Lectura
  <1>5. CASE proc[a].fase = "falla" /\ Pasa(a, "lee_falla")
    BY <1>5, Movimientos DEF Fase, Lectura
  <1>6. CASE proc[a].fase = "reversion" /\ Pasa(a, "lee_reversion")
    BY <1>6, Movimientos DEF Fase, Lectura
  <1>7. CASE proc[a].fase = "atencion" /\ Acaba(a, "revisar")
    BY <1>7, Movimientos DEF Resultado
  <1> QED BY <1>2, <1>3, <1>4, <1>5, <1>6, <1>7 DEF TrasCierre

\* The initial state satisfies the inductive invariant.
LEMMA Inicio == Init => InvInductivo
  <1> SUFFICES ASSUME Init PROVE InvInductivo
    OBVIOUS
  <1>1. TypeOK
    BY UsuariosAssumption DEF Init, TypeOK, Perfil, Intento, EstadoIntento, Proc, Fase, Resultado
  <1>2. ProtocoloCoherente /\ UnPendientePorObjetivo /\ MarcaDePendiente /\ RespuestaVeraz
    BY DEF Init, ProtocoloCoherente, UnPendientePorObjetivo, MarcaDePendiente, RespuestaVeraz,
           AntesDeAuth, Deshaciendo, FaseCoherente, Veraz
  <1>3. TemporalBloqueaSalvoCruce
    BY DEF Init, TemporalBloqueaSalvoCruce
  <1>4. SiempreUnAdmin
    BY UsuariosAssumption DEF Init, SiempreUnAdmin, AdminActivo
  <1> QED BY <1>1, <1>2, <1>3, <1>4 DEF InvInductivo

Resto == <<perfil, clave, intento, cambio, edicion, aplicados, cruzados>>

\* A step that only moves an invocation keeps the invariant when the place it
\* reaches agrees with the row and with Auth.
LEMMA SoloProc ==
  ASSUME InvInductivo, NEW a \in Intentos, Mueve(a), UNCHANGED Resto,
         proc'[a].fase # "libre", proc[a].fase = "libre" => intento[a].actor # Nadie /\ intento[a].objetivo # Nadie,
         FaseCoherente(a)', Veraz(a)'
  PROVE  InvInductivo'
  <1> USE DEF InvInductivo, Resto
  <1>1. TypeOK'
    BY DEF TypeOK, Mueve
  <1>2. ProtocoloCoherente'
    BY DEF ProtocoloCoherente, FaseCoherente, Mueve
  <1>3. RespuestaVeraz'
    BY DEF RespuestaVeraz, Veraz, Mueve
  <1>4. UnPendientePorObjetivo' /\ MarcaDePendiente' /\ TemporalBloqueaSalvoCruce' /\ SiempreUnAdmin'
    BY DEF UnPendientePorObjetivo, MarcaDePendiente, TemporalBloqueaSalvoCruce, SiempreUnAdmin,
           AdminActivo
  <1> QED BY <1>1, <1>2, <1>3, <1>4

\* The calls that change no row: begin before its locks, begin repeated or
\* refused, recovery, a refusal of Auth, the reads, and the death of the server.
LEMMA ProcConserva ==
  ASSUME InvInductivo, NEW a \in Intentos,
         \/ AutorizarInicio(a) \/ RepetirInicio(a) \/ Recuperar(a) \/ AuthRechaza(a)
         \/ CerrarSinEfecto(a) \/ Confirmar(a) \/ Morir(a)
  PROVE  InvInductivo'
  <1>0. /\ UNCHANGED Resto /\ proc[a].fase # "libre"
        /\ TypeOK /\ FaseCoherente(a) /\ Veraz(a)
    BY DEF Resto, AutorizarInicio, RepetirInicio, Recuperar, AuthRechaza, CerrarSinEfecto,
           Confirmar, Morir, En, Cierre, InvInductivo, ProtocoloCoherente, RespuestaVeraz
  <1> USE DEF FaseCoherente, Veraz, AntesDeAuth, Deshaciendo, Resto, En
  <1>1. CASE AutorizarInicio(a)
    <2>1. CASE proc' = [proc EXCEPT ![a].fase = "dentro"] /\ En(a, "inicio")
      <3>1. Mueve(a) /\ proc'[a].fase = "dentro" /\ proc'[a].resultado = proc[a].resultado
        BY <1>0, <2>1 DEF TypeOK, Mueve, Proc, Fase
      <3> QED BY <1>0, <2>1, <3>1, SoloProc
    <2>2. CASE Acaba(a, "error")
      BY <1>0, <2>2, <1>1, Movimientos, SoloProc DEF Resultado, AutorizarInicio
    <2>3. CASE SinRespuestaDeInicio(a)
      BY <1>0, <2>3, <1>1, Movimientos, SoloProc DEF AutorizarInicio
    <2> QED BY <1>1, <2>1, <2>2, <2>3 DEF AutorizarInicio
  <1>2. CASE RepetirInicio(a)
    <2>1. CASE Pasa(a, "auth") /\ intento[a].estado = "pending"
      BY <1>0, <1>2, <2>1, Movimientos, SoloProc DEF RepetirInicio, Fase
    <2>2. CASE SinRespuestaDeInicio(a)
      BY <1>0, <1>2, <2>2, Movimientos, SoloProc DEF RepetirInicio
    <2>3. CASE Acaba(a, "error")
      BY <1>0, <1>2, <2>3, Movimientos, SoloProc DEF RepetirInicio, Resultado
    <2> QED BY <1>2, <2>1, <2>2, <2>3 DEF RepetirInicio, Responde
  <1>3. CASE Recuperar(a)
    <2>1. CASE Pasa(a, "reversion") /\ intento[a].estado = "pending"
      BY <1>0, <1>3, <2>1, Movimientos, SoloProc DEF Recuperar, Fase, Cierre
    <2>2. CASE \E r \in {"revisar", "error"} : Acaba(a, r)
      BY <1>0, <1>3, <2>2, Movimientos, SoloProc DEF Recuperar, Resultado
    <2> QED BY <1>3, <2>1, <2>2 DEF Recuperar
  <1>4. CASE AuthRechaza(a)
    BY <1>0, <1>4, Movimientos, SoloProc DEF AuthRechaza, Fase, Cierre
  <1>5. CASE CerrarSinEfecto(a)
    <2>1. PICK c \in BOOLEAN : /\ TrasCierre(a, c)
                               /\ c => intento[a].estado = EstadoFinal(proc[a].fase)
      BY <1>5 DEF CerrarSinEfecto
    <2>2. proc[a].fase \in Cierre
      BY <1>5 DEF CerrarSinEfecto
    <2> QED BY <1>0, <2>1, <2>2, MovimientoDeCierre, SoloProc DEF EstadoFinal, Cierre
  <1>6. CASE Confirmar(a)
    <2>1. CASE Acaba(a, "exito") /\ En(a, "lee_exito") /\ Coherente(a, "succeeded")
      BY <1>0, <2>1, Movimientos, SoloProc DEF Coherente, Resultado
    <2>2. CASE Pasa(a, "atencion")
      BY <1>0, <1>6, <2>2, Movimientos, SoloProc DEF Confirmar, Fase, Cierre
    <2>3. CASE Acaba(a, "sin_cambio") /\ En(a, "lee_falla") /\ Coherente(a, "failed")
      BY <1>0, <2>3, Movimientos, SoloProc DEF Coherente, Resultado
    <2>4. CASE \E r \in {"revisar", "error"} : Acaba(a, r)
      BY <1>0, <2>4, Movimientos, SoloProc DEF Resultado
    <2> QED BY <1>6, <2>1, <2>2, <2>3, <2>4 DEF Confirmar
  <1>7. CASE Morir(a)
    BY <1>0, <1>7, Movimientos, SoloProc DEF Morir, Resultado
  <1> QED BY <1>1, <1>2, <1>3, <1>4, <1>5, <1>6, <1>7

\* A new invocation says who resets whom, and has touched nothing.
LEMMA EmpezarConserva ==
  ASSUME InvInductivo, NEW a \in Intentos, NEW u \in Usuarios, NEW v \in Usuarios,
         Empezar(a, u, v)
  PROVE  InvInductivo'
  <1>0. TypeOK /\ FaseCoherente(a) /\ Veraz(a) /\ proc[a].fase = "libre"
    BY DEF InvInductivo, ProtocoloCoherente, RespuestaVeraz, Empezar, En
  <1>1. Mueve(a) /\ proc'[a].fase = "inicio" /\ proc'[a].resultado = proc[a].resultado
    BY <1>0, Movimientos DEF Empezar, Fase
  <1>2. /\ intento' = [intento EXCEPT ![a].actor = u, ![a].objetivo = v]
        /\ UNCHANGED <<perfil, clave, cambio, edicion, aplicados, cruzados>>
    BY DEF Empezar
  <1>3. /\ intento' \in [Intentos -> Intento]
        /\ \A b \in Intentos \ {a} : intento'[b] = intento[b]
        /\ intento'[a].estado = "ninguno" /\ intento'[a].actor = u /\ intento'[a].objetivo = v
    <2>1. intento \in [Intentos -> Intento] /\ intento[a].estado = "ninguno"
      BY <1>0 DEF TypeOK, FaseCoherente
    <2> QED BY <1>2, <2>1 DEF Intento
  <1>4. TypeOK'
    BY <1>0, <1>1, <1>2, <1>3, UsuariosAssumption DEF TypeOK, Mueve
  <1>5. ProtocoloCoherente' /\ RespuestaVeraz'
    BY <1>0, <1>1, <1>2, <1>3
    DEF InvInductivo, ProtocoloCoherente, RespuestaVeraz, FaseCoherente, Veraz, Mueve,
        AntesDeAuth, Deshaciendo
  <1>6. UnPendientePorObjetivo'
    BY <1>3 DEF InvInductivo, UnPendientePorObjetivo
  <1>7. MarcaDePendiente'
    BY <1>2, <1>3 DEF InvInductivo, MarcaDePendiente
  <1>8. TemporalBloqueaSalvoCruce' /\ SiempreUnAdmin'
    BY <1>2 DEF InvInductivo, TemporalBloqueaSalvoCruce, SiempreUnAdmin, AdminActivo
  <1> QED BY <1>4, <1>5, <1>6, <1>7, <1>8 DEF InvInductivo

\* A limited attempt leaves its row and nothing else.
LEMMA LimitarConserva ==
  ASSUME InvInductivo, NEW a \in Intentos, LimitarIntento(a)
  PROVE  InvInductivo'
  <1> DEFINE v == intento[a].objetivo
  <1>0. TypeOK /\ FaseCoherente(a) /\ Veraz(a) /\ proc[a].fase = "dentro" /\ v \in Usuarios
    BY DEF InvInductivo, ProtocoloCoherente, RespuestaVeraz, LimitarIntento, En, TypeOK, Intento
  <1>1. /\ Mueve(a) /\ proc'[a].fase \in {"inicio", "recuperar", "fin"}
        /\ proc'[a].resultado \in {"ninguno", "error"}
        /\ proc'[a].resultado # "ninguno" => proc'[a].fase = "fin"
    BY <1>0, Movimientos DEF LimitarIntento, Responde, Resultado, FaseCoherente
  <1>2. /\ intento' = [intento EXCEPT ![a].estado = "rate_limited",
                                      ![a].activo = perfil[v].activo, ![a].debe = perfil[v].debe]
        /\ intento[a].estado = "ninguno"
        /\ UNCHANGED <<perfil, clave, cambio, edicion, aplicados, cruzados>>
    BY DEF LimitarIntento
  <1>3. /\ intento' \in [Intentos -> Intento]
        /\ \A b \in Intentos \ {a} : intento'[b] = intento[b]
        /\ intento'[a].estado = "rate_limited"
        /\ intento'[a].actor = intento[a].actor /\ intento'[a].objetivo = v
    <2>1. intento \in [Intentos -> Intento] /\ perfil[v].activo \in BOOLEAN /\ perfil[v].debe \in BOOLEAN
      BY <1>0 DEF TypeOK, Perfil
    <2>2. intento[a] \in Intento /\ "rate_limited" \in EstadoIntento
      BY <2>1 DEF EstadoIntento
    <2> DEFINE fila == [intento[a] EXCEPT !.estado = "rate_limited",
                                          !.activo = perfil[v].activo, !.debe = perfil[v].debe]
    <2>3. /\ fila \in Intento /\ fila.estado = "rate_limited"
          /\ fila.actor = intento[a].actor /\ fila.objetivo = v
      BY <2>1, <2>2 DEF Intento
    <2>4. intento' = [intento EXCEPT ![a] = fila]
      BY <1>2, <2>1
    <2> HIDE DEF fila
    <2> QED BY <2>1, <2>3, <2>4
  <1> HIDE DEF v
  <1>4. TypeOK'
    BY SMTT(30), <1>0, <1>1, <1>2, <1>3 DEF TypeOK, Mueve, v
  <1>5. ProtocoloCoherente' /\ RespuestaVeraz'
    BY <1>0, <1>1, <1>2, <1>3
    DEF InvInductivo, ProtocoloCoherente, RespuestaVeraz, FaseCoherente, Veraz, Mueve,
        AntesDeAuth, Deshaciendo
  <1>6. UnPendientePorObjetivo'
    BY <1>3 DEF InvInductivo, UnPendientePorObjetivo
  <1>7. MarcaDePendiente'
    BY <1>2, <1>3 DEF InvInductivo, MarcaDePendiente
  <1>8. TemporalBloqueaSalvoCruce' /\ SiempreUnAdmin'
    BY <1>2 DEF InvInductivo, TemporalBloqueaSalvoCruce, SiempreUnAdmin, AdminActivo
  <1> QED BY <1>4, <1>5, <1>6, <1>7, <1>8 DEF InvInductivo

\* A reservation blocks the user and remembers a mark he may return to; the
\* trigger left another active administrator.
LEMMA ReservarConserva ==
  ASSUME InvInductivo, NEW a \in Intentos, ReservarIntento(a)
  PROVE  InvInductivo'
  <1> DEFINE v == intento[a].objetivo
  <1>0. /\ TypeOK /\ FaseCoherente(a) /\ Veraz(a) /\ proc[a].fase = "dentro"
        /\ v \in Usuarios /\ a \notin aplicados
    BY DEF InvInductivo, ProtocoloCoherente, RespuestaVeraz, ReservarIntento, En, TypeOK, Intento,
           FaseCoherente, AntesDeAuth
  <1>1. /\ Mueve(a) /\ proc'[a].fase \in {"inicio", "recuperar", "auth"}
        /\ proc'[a].resultado = "ninguno"
    BY <1>0, Movimientos DEF ReservarIntento, Responde, Fase, FaseCoherente
  <1>2. /\ intento' = [intento EXCEPT ![a].estado = "pending",
                                      ![a].activo = perfil[v].activo, ![a].debe = perfil[v].debe]
        /\ perfil' = [perfil EXCEPT ![v].activo = FALSE, ![v].debe = TRUE]
        /\ ~OtroPendiente(a) /\ IntegridadAdmin(intento[a].actor, v, perfil[v].admin, FALSE)
        /\ UNCHANGED <<clave, cambio, edicion, aplicados, cruzados>>
    BY DEF ReservarIntento
  <1>3. /\ intento' \in [Intentos -> Intento]
        /\ \A b \in Intentos \ {a} : intento'[b] = intento[b]
        /\ intento'[a].estado = "pending" /\ intento'[a].debe = perfil[v].debe
        /\ intento'[a].actor = intento[a].actor /\ intento'[a].objetivo = v
    <2>1. intento \in [Intentos -> Intento] /\ perfil[v].activo \in BOOLEAN /\ perfil[v].debe \in BOOLEAN
      BY <1>0 DEF TypeOK, Perfil
    <2>2. intento[a] \in Intento /\ "pending" \in EstadoIntento
      BY <2>1 DEF EstadoIntento
    <2> DEFINE fila == [intento[a] EXCEPT !.estado = "pending",
                                          !.activo = perfil[v].activo, !.debe = perfil[v].debe]
    <2>3. /\ fila \in Intento /\ fila.estado = "pending" /\ fila.debe = perfil[v].debe
          /\ fila.actor = intento[a].actor /\ fila.objetivo = v
      BY <2>1, <2>2 DEF Intento
    <2>4. intento' = [intento EXCEPT ![a] = fila]
      BY <1>2, <2>1
    <2> HIDE DEF fila
    <2> QED BY <2>1, <2>3, <2>4
  <1>4. /\ perfil' \in [Usuarios -> Perfil]
        /\ \A u \in Usuarios \ {v} : perfil'[u] = perfil[u]
        /\ perfil'[v].debe
    BY <1>0, <1>2 DEF TypeOK, Perfil
  <1> HIDE DEF v
  <1>5. TypeOK'
    BY SMTT(30), <1>0, <1>1, <1>2, <1>3, <1>4 DEF TypeOK, Mueve, v
  <1>6. ProtocoloCoherente' /\ RespuestaVeraz'
    BY <1>0, <1>1, <1>2, <1>3
    DEF InvInductivo, ProtocoloCoherente, RespuestaVeraz, FaseCoherente, Veraz, Mueve,
        AntesDeAuth, Deshaciendo
  <1>7. UnPendientePorObjetivo'
    BY <1>2, <1>3 DEF InvInductivo, UnPendientePorObjetivo, OtroPendiente, v
  <1>8. TemporalBloqueaSalvoCruce'
    BY <1>2, <1>4 DEF InvInductivo, TemporalBloqueaSalvoCruce
  <1>9. MarcaDePendiente'
    <2>1. ASSUME NEW b \in Intentos, b # a, intento[b].estado = "pending"
          PROVE  intento[b].objetivo # v
      BY <1>2, <2>1 DEF OtroPendiente, v
    <2>2. \A b \in Intentos \ {a} : intento[b].objetivo \in Usuarios \/ proc[b].fase = "libre"
      BY <1>0 DEF TypeOK, Intento
    <2>3. ASSUME NEW b \in Intentos \ {a}, intento[b].estado = "pending"
          PROVE  intento[b].objetivo \in Usuarios
      BY <2>2, <2>3 DEF InvInductivo, ProtocoloCoherente, FaseCoherente
    <2> QED BY <1>0, <1>2, <1>3, <1>4, <2>1, <2>3
            DEF InvInductivo, MarcaDePendiente, TemporalBloqueaSalvoCruce
  <1>10. SiempreUnAdmin'
    BY <1>0, <1>2, <1>4 DEF InvInductivo, SiempreUnAdmin, AdminActivo, IntegridadAdmin
  <1> QED BY <1>5, <1>6, <1>7, <1>8, <1>9, <1>10 DEF InvInductivo

\* Auth takes, or may have taken, the temporary password: the attempt is pending,
\* so the user keeps the mark, and no other attempt relies on the old password.
LEMMA AuthConserva ==
  ASSUME InvInductivo, NEW a \in Intentos, AuthAplica(a) \/ AuthIncierta(a)
  PROVE  InvInductivo'
  <1> DEFINE v == intento[a].objetivo
  <1>0. /\ TypeOK /\ FaseCoherente(a) /\ Veraz(a) /\ proc[a].fase = "auth"
        /\ intento[a].estado = "pending" /\ v \in Usuarios
        /\ UNCHANGED <<perfil, intento, cambio, edicion, cruzados>>
    <2>1. TypeOK /\ FaseCoherente(a) /\ Veraz(a) /\ proc[a].fase = "auth"
          /\ UNCHANGED <<perfil, intento, cambio, edicion, cruzados>>
      BY DEF InvInductivo, ProtocoloCoherente, RespuestaVeraz, AuthAplica, AuthIncierta, En
    <2> QED BY <2>1 DEF FaseCoherente, TypeOK, Intento
  <1>1. /\ Mueve(a) /\ proc'[a].fase \in {"exito", "atencion"}
        /\ proc'[a].resultado = "ninguno"
        /\ proc'[a].fase = "exito" => a \in aplicados'
    BY <1>0, Movimientos DEF AuthAplica, AuthIncierta, Fase, Cierre, FaseCoherente
  <1>2. \/ UNCHANGED <<clave, aplicados>>
        \/ /\ clave' = [clave EXCEPT ![v] = a] /\ aplicados' = aplicados \cup {a}
    BY DEF AuthAplica, AuthIncierta
  <1> HIDE DEF v
  <1>3. TypeOK'
    BY <1>0, <1>1, <1>2 DEF TypeOK, Mueve
  <1>4. ProtocoloCoherente' /\ RespuestaVeraz'
    BY <1>0, <1>1, <1>2
    DEF InvInductivo, ProtocoloCoherente, RespuestaVeraz, FaseCoherente, Veraz, Mueve,
        AntesDeAuth, Deshaciendo
  <1>5. UnPendientePorObjetivo' /\ SiempreUnAdmin'
    BY <1>0 DEF InvInductivo, UnPendientePorObjetivo, SiempreUnAdmin, AdminActivo
  <1>6. perfil[v].debe \/ v \in cruzados
    BY <1>0 DEF InvInductivo, MarcaDePendiente, v
  <1>7. TemporalBloqueaSalvoCruce'
    BY <1>0, <1>2, <1>6 DEF InvInductivo, TemporalBloqueaSalvoCruce, TypeOK
  <1>8. MarcaDePendiente'
    <2>1. ASSUME NEW b \in Intentos, b # a, intento[b].estado = "pending"
          PROVE  intento[b].objetivo # v
      BY <1>0, <2>1 DEF InvInductivo, UnPendientePorObjetivo, v
    <2>2. ASSUME NEW b \in Intentos, intento[b].estado = "pending"
          PROVE  intento[b].objetivo \in Usuarios
      BY <1>0, <2>2 DEF InvInductivo, ProtocoloCoherente, FaseCoherente, TypeOK, Intento
    <2> QED BY <1>0, <1>2, <2>1, <2>2 DEF InvInductivo, MarcaDePendiente, TypeOK, v
  <1> QED BY <1>3, <1>4, <1>5, <1>7, <1>8 DEF InvInductivo

\* Closing an attempt: a failure returns the remembered mark, and only when Auth
\* did not take the password; the others leave the mark.
LEMMA CerrarConserva ==
  ASSUME InvInductivo, NEW a \in Intentos, Cerrar(a)
  PROVE  InvInductivo'
  <1> DEFINE v == intento[a].objetivo
             final == EstadoFinal(proc[a].fase)
             act == ActivoFinal(a, final)
             deb == DebeFinal(a, final)
  <1>0. /\ TypeOK /\ FaseCoherente(a) /\ Veraz(a) /\ proc[a].fase \in Cierre
        /\ intento[a].estado = "pending"
        /\ UNCHANGED <<clave, cambio, edicion, aplicados, cruzados>>
    BY DEF InvInductivo, ProtocoloCoherente, RespuestaVeraz, Cerrar
  <1>1. v \in Usuarios /\ intento[a].activo \in BOOLEAN /\ intento[a].debe \in BOOLEAN
    BY <1>0 DEF TypeOK, Intento, FaseCoherente, Cierre
  <1>2. /\ proc[a].fase = "exito" => final = "succeeded"
        /\ proc[a].fase \in {"falla", "reversion"} => final = "failed"
        /\ proc[a].fase = "atencion" => final = "attention_required"
        /\ final \in {"succeeded", "failed", "attention_required"}
    BY <1>0 DEF EstadoFinal, Cierre
  <1>3. PICK c \in BOOLEAN : TrasCierre(a, c)
    BY DEF Cerrar
  <1>4. /\ Mueve(a)
        /\ \/ /\ proc[a].fase = "exito"
              /\ proc'[a].fase = "fin" /\ proc'[a].resultado = "exito"
           \/ /\ proc[a].fase = "atencion"
              /\ proc'[a].fase = "fin" /\ proc'[a].resultado = "revisar"
           \/ /\ proc'[a].resultado = "ninguno"
              /\ \/ proc'[a].fase = proc[a].fase
                 \/ proc[a].fase = "exito" /\ proc'[a].fase = "lee_exito"
                 \/ proc[a].fase = "falla" /\ proc'[a].fase = "lee_falla"
                 \/ proc[a].fase = "reversion" /\ proc'[a].fase = "lee_reversion"
    BY <1>0, <1>3, MovimientoDeCierre DEF FaseCoherente, Cierre
  <1>5. /\ intento' = [intento EXCEPT ![a].estado = final]
        /\ perfil' = [perfil EXCEPT ![v].activo = act, ![v].debe = deb]
        /\ IntegridadAdmin(intento[a].actor, v, perfil[v].admin, act)
    BY DEF Cerrar, PerfilFinal
  <1>6. /\ act \in BOOLEAN /\ deb \in BOOLEAN
        /\ final # "failed" => deb
        /\ final = "failed" => deb = intento[a].debe
    BY <1>1, Zenon DEF ActivoFinal, DebeFinal
  <1> HIDE DEF final, act, deb
  <1>7. /\ intento' \in [Intentos -> Intento]
        /\ \A b \in Intentos \ {a} : intento'[b] = intento[b]
        /\ intento'[a].estado = final
        /\ intento'[a].actor = intento[a].actor /\ intento'[a].objetivo = v
    BY <1>0, <1>2, <1>5 DEF TypeOK, Intento, EstadoIntento
  <1>8. /\ perfil' \in [Usuarios -> Perfil]
        /\ \A u \in Usuarios \ {v} : perfil'[u] = perfil[u]
        /\ perfil'[v].debe = deb /\ perfil'[v].activo = act /\ perfil'[v].admin = perfil[v].admin
    BY <1>0, <1>1, <1>5, <1>6 DEF TypeOK, Perfil
  <1> HIDE DEF v
  <1>9. TypeOK'
    BY <1>0, <1>4, <1>7, <1>8 DEF TypeOK, Mueve, v
  <1>10. ProtocoloCoherente' /\ RespuestaVeraz'
    <2>1. FaseCoherente(a)' /\ Veraz(a)'
      BY <1>0, <1>2, <1>4, <1>7
      DEF FaseCoherente, Veraz, Cierre, AntesDeAuth, Deshaciendo
    <2> QED BY <1>0, <1>4, <1>7, <2>1
            DEF InvInductivo, ProtocoloCoherente, RespuestaVeraz, FaseCoherente, Veraz, Mueve
  <1>11. UnPendientePorObjetivo'
    BY <1>2, <1>7 DEF InvInductivo, UnPendientePorObjetivo
  <1>12. final = "failed" => a \notin aplicados
    BY <1>0, <1>2 DEF FaseCoherente, Deshaciendo, Cierre
  <1>13. clave[v] # Propia => deb \/ v \in cruzados
    BY <1>0, <1>6, <1>12 DEF InvInductivo, MarcaDePendiente, v
  <1>14. TemporalBloqueaSalvoCruce'
    BY <1>0, <1>8, <1>13 DEF InvInductivo, TemporalBloqueaSalvoCruce
  <1>15. MarcaDePendiente'
    <2>1. ASSUME NEW b \in Intentos, b # a, intento[b].estado = "pending"
          PROVE  intento[b].objetivo # v
      BY <1>0, <2>1 DEF InvInductivo, UnPendientePorObjetivo, v
    <2>2. ASSUME NEW b \in Intentos, intento[b].estado = "pending"
          PROVE  intento[b].objetivo \in Usuarios
      BY <1>0, <2>2 DEF InvInductivo, ProtocoloCoherente, FaseCoherente, TypeOK, Intento
    <2> QED BY <1>0, <1>2, <1>7, <1>8, <2>1, <2>2 DEF InvInductivo, MarcaDePendiente
  <1>16. SiempreUnAdmin'
    BY <1>1, <1>5, <1>8, v \in Usuarios DEF InvInductivo, SiempreUnAdmin, AdminActivo, IntegridadAdmin, v
  <1> QED BY <1>9, <1>10, <1>11, <1>14, <1>15, <1>16 DEF InvInductivo

\* The target of a pending attempt is a user.
LEMMA ObjetivoDePendiente ==
  ASSUME InvInductivo, NEW a \in Intentos, intento[a].estado = "pending"
  PROVE  intento[a].objetivo \in Usuarios
  BY DEF InvInductivo, ProtocoloCoherente, FaseCoherente, TypeOK, Intento

\* A user's own first change: it makes the password his, and lifts the mark of an
\* account that no reset holds, or is recorded as one that crossed a reset.
LEMMA CambioConserva ==
  ASSUME InvInductivo, NEW u \in Usuarios, CambiarInicial(u)
  PROVE  InvInductivo'
  <1>0. /\ TypeOK /\ UNCHANGED <<intento, proc, edicion, aplicados>>
        /\ cambio' \in [Usuarios -> {"nada", "listo", "rpc1", "rpc2"}]
    BY DEF InvInductivo, TypeOK, CambiarInicial, EmpezarCambio, CambiarClave, CompletarCambio,
           CambioSinEfecto, SinConfirmarCambio
  <1>1. ProtocoloCoherente' /\ RespuestaVeraz' /\ UnPendientePorObjetivo'
    BY <1>0 DEF InvInductivo, ProtocoloCoherente, RespuestaVeraz, FaseCoherente, Veraz,
                UnPendientePorObjetivo
  <1>2. CASE UNCHANGED <<perfil, clave, cruzados>>
    <2>1. TypeOK'
      BY <1>0, <1>2 DEF TypeOK
    <2>2. MarcaDePendiente' /\ TemporalBloqueaSalvoCruce' /\ SiempreUnAdmin'
      BY <1>0, <1>2 DEF InvInductivo, MarcaDePendiente, TemporalBloqueaSalvoCruce, SiempreUnAdmin,
                        AdminActivo
    <2> QED BY <1>1, <2>1, <2>2 DEF InvInductivo
  <1>3. CASE clave' = [clave EXCEPT ![u] = Propia] /\ UNCHANGED <<perfil, cruzados>>
    <2>1. TypeOK'
      BY <1>0, <1>3 DEF TypeOK
    <2>2. \A w \in Usuarios : clave'[w] # Propia => clave'[w] = clave[w]
      BY <1>0, <1>3 DEF TypeOK
    <2>3. TemporalBloqueaSalvoCruce' /\ SiempreUnAdmin'
      BY <1>3, <2>2 DEF InvInductivo, TemporalBloqueaSalvoCruce, SiempreUnAdmin, AdminActivo
    <2>4. MarcaDePendiente'
      BY <1>0, <1>3, <2>2, ObjetivoDePendiente DEF InvInductivo, MarcaDePendiente
    <2> QED BY <1>1, <2>1, <2>3, <2>4 DEF InvInductivo
  <1>4. CASE CompletarCambio(u)
    <2>1. /\ perfil' = [perfil EXCEPT ![u].debe = FALSE] /\ UNCHANGED clave
          /\ cruzados' = IF perfil[u].debe /\ ReseteoDe(u) THEN cruzados \cup {u} ELSE cruzados
      BY <1>4 DEF CompletarCambio
    <2>2. /\ perfil' \in [Usuarios -> Perfil]
          /\ \A w \in Usuarios \ {u} : perfil'[w] = perfil[w]
          /\ \A w \in Usuarios : perfil'[w].admin = perfil[w].admin /\ perfil'[w].activo = perfil[w].activo
      BY ZenonT(60), <1>0, <2>1 DEF TypeOK, Perfil
    <2>3. TypeOK'
      BY <1>0, <2>1, <2>2 DEF TypeOK
    <2>4. SiempreUnAdmin'
      BY <2>2 DEF InvInductivo, SiempreUnAdmin, AdminActivo
    <2>5. clave[u] # Propia => u \in cruzados'
      BY <2>1 DEF InvInductivo, TemporalBloqueaSalvoCruce, ReseteoDe
    <2>6. TemporalBloqueaSalvoCruce'
      BY <2>1, <2>2, <2>5 DEF InvInductivo, TemporalBloqueaSalvoCruce
    <2>7. ASSUME NEW a \in Intentos, intento[a].estado = "pending", intento[a].objetivo = u
          PROVE  u \in cruzados'
      BY <2>1, <2>7 DEF InvInductivo, MarcaDePendiente, ReseteoDe
    <2>8. MarcaDePendiente'
      BY <1>0, <2>1, <2>2, <2>7, ObjetivoDePendiente DEF InvInductivo, MarcaDePendiente
    <2> QED BY <1>1, <2>3, <2>4, <2>6, <2>8 DEF InvInductivo
  <1> QED BY <1>2, <1>3, <1>4 DEF CambiarInicial, EmpezarCambio, CambiarClave, CambioSinEfecto

\* An edit never touches the mark, and its trigger leaves an administrator.
LEMMA EdicionConserva ==
  ASSUME InvInductivo, NEW u \in Editores, Editar(u)
  PROVE  InvInductivo'
  <1>0. /\ TypeOK /\ u \in Usuarios
        /\ UNCHANGED <<clave, intento, proc, cambio, aplicados, cruzados>>
    BY UsuariosAssumption
    DEF InvInductivo, Editar, RevisarEdicion, EmpezarUpdate, Escribir, AbandonarEdicion
  <1>1. ProtocoloCoherente' /\ RespuestaVeraz' /\ UnPendientePorObjetivo'
    BY <1>0 DEF InvInductivo, ProtocoloCoherente, RespuestaVeraz, FaseCoherente, Veraz,
                UnPendientePorObjetivo
  <1>2. CASE UNCHANGED perfil /\ edicion' \in [Usuarios -> Edicion \cup {Nadie}]
    <2>1. TypeOK'
      BY <1>0, <1>2 DEF TypeOK
    <2>2. MarcaDePendiente' /\ TemporalBloqueaSalvoCruce' /\ SiempreUnAdmin'
      BY <1>0, <1>2 DEF InvInductivo, MarcaDePendiente, TemporalBloqueaSalvoCruce, SiempreUnAdmin,
                        AdminActivo
    <2> QED BY <1>1, <2>1, <2>2 DEF InvInductivo
  <1>3. CASE Escribir(u)
    <2> DEFINE e == edicion[u]
    <2>1. e \in Edicion
      BY <1>0, <1>3 DEF Escribir, TypeOK
    <2>2. e.objetivo \in Usuarios /\ e.admin \in BOOLEAN /\ e.activo \in BOOLEAN
      BY <2>1, Zenon DEF Edicion
    <2>3. /\ perfil' = [perfil EXCEPT ![e.objetivo].admin = e.admin, ![e.objetivo].activo = e.activo]
          /\ edicion' = [edicion EXCEPT ![u] = Nadie]
          /\ IntegridadAdmin(u, e.objetivo, e.admin, e.activo)
      BY <1>3 DEF Escribir
    <2>4. /\ perfil' \in [Usuarios -> Perfil]
          /\ \A w \in Usuarios \ {e.objetivo} : perfil'[w] = perfil[w]
          /\ \A w \in Usuarios : perfil'[w].debe = perfil[w].debe
          /\ perfil'[e.objetivo].admin = e.admin /\ perfil'[e.objetivo].activo = e.activo
      BY <1>0, <2>2, <2>3 DEF TypeOK, Perfil
    <2> HIDE DEF e
    <2>5. TypeOK'
      BY <1>0, <2>3, <2>4 DEF TypeOK
    <2>6. MarcaDePendiente' /\ TemporalBloqueaSalvoCruce'
      BY <1>0, <2>4, ObjetivoDePendiente DEF InvInductivo, MarcaDePendiente, TemporalBloqueaSalvoCruce
    <2>7. SiempreUnAdmin'
      BY <2>2, <2>3, <2>4 DEF InvInductivo, SiempreUnAdmin, AdminActivo, IntegridadAdmin
    <2> QED BY <1>1, <2>5, <2>6, <2>7 DEF InvInductivo
  <1>4. CASE \E v \in Usuarios, admin, activo \in BOOLEAN : RevisarEdicion(u, v, admin, activo)
    <2>1. UNCHANGED perfil /\ edicion' \in [Usuarios -> Edicion \cup {Nadie}]
      BY <1>0, <1>4 DEF RevisarEdicion, TypeOK, Edicion
    <2> QED BY <1>2, <2>1
  <1>5. CASE EmpezarUpdate(u)
    <2>1. edicion[u] \in Edicion
      BY <1>0, <1>5 DEF EmpezarUpdate, TypeOK
    <2>2. edicion' = [edicion EXCEPT ![u] = [edicion[u] EXCEPT !.fase = "sentencia"]]
      BY <1>5 DEF EmpezarUpdate
    <2>3. [edicion[u] EXCEPT !.fase = "sentencia"] \in Edicion
      BY <2>1 DEF Edicion
    <2>4. UNCHANGED perfil /\ edicion' \in [Usuarios -> Edicion \cup {Nadie}]
      BY <1>0, <1>5, <2>2, <2>3 DEF EmpezarUpdate, TypeOK
    <2> QED BY <1>2, <2>4
  <1>6. CASE AbandonarEdicion(u)
    <2>1. UNCHANGED perfil /\ edicion' \in [Usuarios -> Edicion \cup {Nadie}]
      BY <1>0, <1>6 DEF AbandonarEdicion, TypeOK
    <2> QED BY <1>2, <2>1
  <1> QED BY <1>3, <1>4, <1>5, <1>6 DEF Editar

\* Every step preserves the invariant.
LEMMA Paso == InvInductivo /\ [Next]_vars => InvInductivo'
  <1> SUFFICES ASSUME InvInductivo, [Next]_vars PROVE InvInductivo'
    OBVIOUS
  <1>1. ASSUME NEW a \in Intentos, Restablecer(a) PROVE InvInductivo'
    BY <1>1, EmpezarConserva, ReservarConserva, LimitarConserva, ProcConserva, AuthConserva,
       CerrarConserva DEF Restablecer
  <1>2. ASSUME NEW u \in Usuarios, CambiarInicial(u) PROVE InvInductivo'
    BY <1>2, CambioConserva
  <1>3. ASSUME NEW u \in Editores, Editar(u) PROVE InvInductivo'
    BY <1>3, EdicionConserva
  <1>4. CASE UNCHANGED vars
    BY <1>4 DEF vars, InvInductivo, TypeOK, ProtocoloCoherente, FaseCoherente,
       UnPendientePorObjetivo, MarcaDePendiente, RespuestaVeraz, Veraz,
       TemporalBloqueaSalvoCruce, SiempreUnAdmin, AdminActivo
  <1> QED BY <1>1, <1>2, <1>3, <1>4 DEF Next

\* The invariant of the module holds whatever users, edits and resets there are.
THEOREM Invariante == Spec => []InvInductivo
  BY Inicio, Paso, PTL DEF Spec

\* Every variable keeps its type.
THEOREM TiposCorrectos == Spec => []TypeOK
  <1>1. InvInductivo => TypeOK
    BY DEF InvInductivo
  <1> QED BY <1>1, Invariante, PTL

\* However many administrators edit and reset one another, an active one remains:
\* the trigger and its lock are enough, without the check of the server.
THEOREM AdminSiempre == Spec => []SiempreUnAdmin
  <1>1. InvInductivo => SiempreUnAdmin
    BY DEF InvInductivo
  <1> QED BY <1>1, Invariante, PTL

\* The server never reports a success or an undone reset that did not happen.
THEOREM RespuestaSiempreVeraz == Spec => []RespuestaVeraz
  <1>1. InvInductivo => RespuestaVeraz
    BY DEF InvInductivo
  <1> QED BY <1>1, Invariante, PTL

\* Two resets never hold the same user.
THEOREM UnSoloPendiente == Spec => []UnPendientePorObjetivo
  <1>1. InvInductivo => UnPendientePorObjetivo
    BY DEF InvInductivo
  <1> QED BY <1>1, Invariante, PTL

\* A temporary password is always marked, but for the completion that crosses a reset.
THEOREM TemporalSiempreBloquea == Spec => []TemporalBloqueaSalvoCruce
  <1>1. InvInductivo => TemporalBloqueaSalvoCruce
    BY DEF InvInductivo
  <1> QED BY <1>1, Invariante, PTL

\* The step of MarcaSoloPorIntento.
MarcaPorIntento ==
    \A u \in Usuarios :
        ~perfil[u].debe /\ perfil'[u].debe =>
            \E a \in Intentos :
                intento[a].objetivo = u /\ intento'[a].estado # intento[a].estado

\* An attempt moves the mark of its user alone, and moves its own row with it.
LEMMA RestablecerMarca ==
  ASSUME TypeOK, NEW a \in Intentos, Restablecer(a)
  PROVE  MarcaPorIntento
  <1>1. perfil \in [Usuarios -> Perfil] /\ intento \in [Intentos -> Intento]
    BY DEF TypeOK
  <1>2. CASE UNCHANGED perfil
    BY <1>2 DEF MarcaPorIntento
  <1>3. CASE ReservarIntento(a)
    <2>1. intento'[a].estado = "pending" /\ intento[a].estado = "ninguno"
      BY <1>1, <1>3 DEF ReservarIntento, Intento
    <2>2. \A u \in Usuarios : u # intento[a].objetivo => perfil'[u] = perfil[u]
      BY <1>1, <1>3 DEF ReservarIntento
    <2> QED BY <2>1, <2>2 DEF MarcaPorIntento
  <1>4. CASE Cerrar(a)
    <2>1. EstadoFinal(proc[a].fase) # "pending"
      BY <1>4 DEF Cerrar, EstadoFinal, Cierre
    <2>2. intento[a].estado = "pending" /\ intento'[a].estado = EstadoFinal(proc[a].fase)
      BY <1>1, <1>4 DEF Cerrar, Intento
    <2>3. \A u \in Usuarios : u # intento[a].objetivo => perfil'[u] = perfil[u]
      BY <1>1, <1>4 DEF Cerrar, PerfilFinal
    <2> QED BY <2>1, <2>2, <2>3 DEF MarcaPorIntento
  <1> QED
    BY <1>2, <1>3, <1>4 DEF Restablecer, Empezar, AutorizarInicio, LimitarIntento, RepetirInicio,
       Recuperar, AuthRechaza, AuthAplica, AuthIncierta, CerrarSinEfecto, Confirmar, Morir

\* Nobody who chose his password is marked again but by an attempt, in the step
\* in which it begins or is closed.
THEOREM MarcaSiemprePorIntento == Spec => MarcaSoloPorIntento
  <1>1. InvInductivo /\ [Next]_vars => [MarcaPorIntento]_vars
    <2> SUFFICES ASSUME InvInductivo, Next PROVE MarcaPorIntento
      OBVIOUS
    <2>1. TypeOK /\ perfil \in [Usuarios -> Perfil] /\ Editores \subseteq Usuarios
      BY UsuariosAssumption DEF InvInductivo, TypeOK
    <2>2. ASSUME NEW a \in Intentos, Restablecer(a) PROVE MarcaPorIntento
      BY <2>1, <2>2, RestablecerMarca
    <2>3. ASSUME NEW u \in Usuarios, CambiarInicial(u) PROVE MarcaPorIntento
      <3>1. \A w \in Usuarios : perfil'[w].debe => perfil[w].debe
        BY <2>1, <2>3 DEF CambiarInicial, EmpezarCambio, CambiarClave, CompletarCambio,
           CambioSinEfecto, Perfil
      <3> QED BY <3>1 DEF MarcaPorIntento
    <2>4. ASSUME NEW u \in Editores, Editar(u) PROVE MarcaPorIntento
      <3>1. \A w \in Usuarios : perfil'[w].debe = perfil[w].debe
        BY <2>1, <2>4 DEF Editar, RevisarEdicion, EmpezarUpdate, Escribir, AbandonarEdicion, Perfil
      <3> QED BY <3>1 DEF MarcaPorIntento
    <2> QED BY <2>2, <2>3, <2>4 DEF Next
  <1>2. [MarcaPorIntento]_vars => [\A u \in Usuarios :
          ~perfil[u].debe /\ perfil'[u].debe =>
              \E a \in Intentos :
                  intento[a].objetivo = u /\ intento'[a].estado # intento[a].estado]_vars
    BY DEF MarcaPorIntento
  <1> QED BY <1>1, <1>2, Invariante, PTL DEF Spec, MarcaSoloPorIntento
-----------------------------------------------------------------------------
(* Usuarios implements Reseteo: the calls, their retries and the reads are *)
(* stutters but for those that record, apply, close and announce.          *)

\* The initial states map to initial states.
LEMMA InicioReseteo == Init => R!Init
  BY UsuariosAssumption DEF Init, R!Init, Estados, Retenidos, Anuncios

\* Nothing is seen of a reset but its row and its answer.
LEMMA LoQueSeVe ==
  /\ UNCHANGED intento => UNCHANGED <<Estados, Retenidos>>
  /\ \A a \in Intentos : Estados[a] = intento[a].estado
  /\ \A a \in Intentos : intento[a].estado \notin {"ninguno", "rate_limited"} =>
        Retenidos[a] = intento[a].objetivo
  BY DEF Estados, Retenidos

\* What is seen of the row of one attempt changes with it alone.
LEMMA UnaFilaCambia ==
  ASSUME NEW a \in Intentos, \A b \in Intentos \ {a} : intento'[b] = intento[b]
  PROVE  /\ Estados' = [Estados EXCEPT ![a] = intento'[a].estado]
         /\ intento'[a].estado \in {"ninguno", "rate_limited"}
               /\ intento[a].estado \in {"ninguno", "rate_limited"} => Retenidos' = Retenidos
         /\ intento'[a].estado \notin {"ninguno", "rate_limited"} =>
               Retenidos' = [Retenidos EXCEPT ![a] = intento'[a].objetivo]
  <1>1. Estados' = [Estados EXCEPT ![a] = intento'[a].estado]
    BY DEF Estados
  <1>2. ASSUME intento'[a].estado \in {"ninguno", "rate_limited"},
               intento[a].estado \in {"ninguno", "rate_limited"}
        PROVE  Retenidos' = Retenidos
    BY <1>2 DEF Retenidos
  <1>3. ASSUME intento'[a].estado \notin {"ninguno", "rate_limited"}
        PROVE  Retenidos' = [Retenidos EXCEPT ![a] = intento'[a].objetivo]
    BY <1>3 DEF Retenidos
  <1> QED BY <1>1, <1>2, <1>3

\* While an invocation has not ended nothing was announced of it, and its move
\* announces what it answers and nothing of the others.
LEMMA AnuncioDeUno ==
  ASSUME NEW a \in Intentos, Mueve(a), FaseCoherente(a), proc[a].fase # "fin"
  PROVE  /\ Anuncios[a] = "ninguno"
         /\ proc'[a].resultado \in {"exito", "sin_cambio"} =>
               Anuncios' = [Anuncios EXCEPT ![a] = proc'[a].resultado]
         /\ proc'[a].resultado \notin {"exito", "sin_cambio"} => Anuncios' = Anuncios
  <1>1. proc[a].resultado = "ninguno"
    BY DEF FaseCoherente
  <1>2. Anuncios[a] = "ninguno"
    BY <1>1 DEF Anuncios
  <1>3. ASSUME proc'[a].resultado \in {"exito", "sin_cambio"}
        PROVE  Anuncios' = [Anuncios EXCEPT ![a] = proc'[a].resultado]
    BY <1>3 DEF Anuncios, Mueve
  <1>4. ASSUME proc'[a].resultado \notin {"exito", "sin_cambio"} PROVE Anuncios' = Anuncios
    BY <1>1, <1>4 DEF Anuncios, Mueve
  <1> QED BY <1>2, <1>3, <1>4

\* A call that changes no row and does not announce is not seen.
LEMMA Invisible ==
  ASSUME NEW a \in Intentos, Mueve(a), FaseCoherente(a), proc[a].fase # "fin",
         UNCHANGED <<intento, clave, aplicados>>,
         proc'[a].resultado \notin {"exito", "sin_cambio"}
  PROVE  UNCHANGED R!vars
  BY AnuncioDeUno, LoQueSeVe DEF R!vars

\* An announcement agrees with the audit, which the next call or the read saw.
LEMMA AnuncioVeraz ==
  ASSUME NEW a \in Intentos, Mueve(a), FaseCoherente(a), proc[a].fase # "fin",
         UNCHANGED <<intento, clave, aplicados>>,
         \/ intento[a].estado = "succeeded" /\ proc'[a].resultado = "exito"
         \/ intento[a].estado = "failed" /\ proc'[a].resultado = "sin_cambio"
  PROVE  R!Anunciar(a)
  BY AnuncioDeUno, LoQueSeVe DEF R!Anunciar, R!Decir

\* The calls that change no row: they announce, or are not seen.
LEMMA ProcReseteo ==
  ASSUME InvInductivo, NEW a \in Intentos,
         \/ AutorizarInicio(a) \/ RepetirInicio(a) \/ Recuperar(a) \/ AuthRechaza(a)
         \/ CerrarSinEfecto(a) \/ Confirmar(a) \/ Morir(a)
  PROVE  [R!Next]_(R!vars)
  <1>0. /\ UNCHANGED <<intento, clave, aplicados>> /\ proc[a].fase # "fin"
        /\ TypeOK /\ FaseCoherente(a) /\ proc[a].resultado = "ninguno"
    BY DEF AutorizarInicio, RepetirInicio, Recuperar, AuthRechaza, CerrarSinEfecto,
           Confirmar, Morir, En, Cierre, InvInductivo, ProtocoloCoherente, FaseCoherente
  <1>1. ASSUME NEW f \in Fase, Pasa(a, f) PROVE UNCHANGED R!vars
    BY <1>0, <1>1, Movimientos, Invisible
  <1>2. ASSUME NEW r \in {"ninguno", "revisar", "error"}, Acaba(a, r) PROVE UNCHANGED R!vars
    BY <1>0, <1>2, Movimientos, Invisible DEF Resultado
  <1>3. ASSUME SinRespuestaDeInicio(a) PROVE UNCHANGED R!vars
    BY <1>0, <1>3, Movimientos, Invisible
  <1>4. CASE AutorizarInicio(a)
    <2>1. ASSUME proc' = [proc EXCEPT ![a].fase = "dentro"] PROVE UNCHANGED R!vars
      <3>1. Mueve(a) /\ proc'[a].resultado = proc[a].resultado
        BY <1>0, <2>1 DEF TypeOK, Mueve, Proc, Fase
      <3> QED BY <1>0, <3>1, Invisible
    <2> QED BY <1>2, <1>3, <1>4, <2>1 DEF AutorizarInicio
  <1>5. CASE RepetirInicio(a)
    BY <1>1, <1>2, <1>3, <1>5 DEF RepetirInicio, Responde, Fase
  <1>6. CASE Recuperar(a)
    BY <1>1, <1>2, <1>6 DEF Recuperar, Fase, Cierre
  <1>7. CASE AuthRechaza(a)
    BY <1>1, <1>7 DEF AuthRechaza, Fase, Cierre
  <1>8. CASE CerrarSinEfecto(a)
    <2>1. PICK c \in BOOLEAN : /\ TrasCierre(a, c) /\ proc[a].fase \in Cierre
                               /\ c => intento[a].estado = EstadoFinal(proc[a].fase)
      BY <1>8 DEF CerrarSinEfecto
    <2>2. CASE proc'[a].resultado = "exito"
      <3>1. Mueve(a) /\ intento[a].estado = "succeeded"
        BY <1>0, <2>1, <2>2, MovimientoDeCierre DEF EstadoFinal
      <3>2. R!Anunciar(a)
        BY <1>0, <2>2, <3>1, AnuncioVeraz
      <3> QED BY <3>2 DEF R!Next
    <2>3. CASE proc'[a].resultado # "exito"
      <3>1. Mueve(a) /\ proc'[a].resultado \in {"ninguno", "revisar"}
        BY <1>0, <2>1, <2>3, MovimientoDeCierre
      <3> QED BY <1>0, <3>1, Invisible
    <2> QED BY <2>2, <2>3
  <1>9. CASE Confirmar(a)
    <2>1. ASSUME \/ Acaba(a, "exito") /\ Coherente(a, "succeeded")
                 \/ Acaba(a, "sin_cambio") /\ Coherente(a, "failed")
          PROVE  R!Next
      <3>1. R!Anunciar(a)
        BY <1>0, <2>1, Movimientos, AnuncioVeraz DEF Coherente, Resultado
      <3> QED BY <3>1 DEF R!Next
    <2> QED BY <1>1, <1>2, <1>9, <2>1 DEF Confirmar, Fase, Cierre
  <1>10. CASE Morir(a)
    BY <1>2, <1>10 DEF Morir
  <1> QED BY <1>4, <1>5, <1>6, <1>7, <1>8, <1>9, <1>10

\* The calls that record, limit or close an attempt, and Auth.
LEMMA FilaReseteo ==
  ASSUME InvInductivo, NEW a \in Intentos,
         \/ \E u, v \in Usuarios : Empezar(a, u, v)
         \/ ReservarIntento(a) \/ LimitarIntento(a)
         \/ AuthAplica(a) \/ AuthIncierta(a) \/ Cerrar(a)
  PROVE  [R!Next]_(R!vars)
  <1> DEFINE v == intento[a].objetivo
  <1>0. /\ TypeOK /\ FaseCoherente(a)
        /\ proc[a].fase # "fin" /\ proc[a].resultado = "ninguno"
        /\ intento \in [Intentos -> Intento] /\ proc \in [Intentos -> Proc]
        /\ proc[a].fase # "libre" => v \in Usuarios
    BY DEF Empezar, ReservarIntento, LimitarIntento, AuthAplica, AuthIncierta, Cerrar, En,
           Cierre, InvInductivo, ProtocoloCoherente, FaseCoherente, TypeOK, Intento
  <1>1. ASSUME NEW u \in Usuarios, NEW w \in Usuarios, Empezar(a, u, w) PROVE UNCHANGED R!vars
    <2>1. /\ \A b \in Intentos \ {a} : intento'[b] = intento[b]
          /\ intento'[a].estado = "ninguno" /\ intento[a].estado = "ninguno"
          /\ UNCHANGED <<clave, aplicados>>
      <3>1. intento[a].estado = "ninguno"
        BY <1>0, <1>1 DEF Empezar, FaseCoherente, En
      <3>2. intento' = [intento EXCEPT ![a].actor = u, ![a].objetivo = w]
        BY <1>1 DEF Empezar
      <3>3. \A b \in Intentos \ {a} : intento'[b] = intento[b]
        BY <1>0, <3>2
      <3>4. intento'[a].estado = "ninguno"
        BY <1>0, <3>1, <3>2 DEF Intento
      <3> QED BY <1>1, <3>1, <3>3, <3>4 DEF Empezar
    <2>2. Mueve(a) /\ proc'[a].resultado = "ninguno"
      BY <1>0, <1>1, Movimientos DEF Empezar, Fase
    <2>3. Estados' = [Estados EXCEPT ![a] = Estados[a]] /\ Retenidos' = Retenidos
      BY <2>1, UnaFilaCambia, LoQueSeVe
    <2>4. Estados' = Estados
      BY <2>3 DEF Estados
    <2> QED BY <1>0, <2>1, <2>2, <2>3, <2>4, AnuncioDeUno DEF R!vars
  <1>2. ASSUME LimitarIntento(a) PROVE R!Next
    <2>1. /\ \A b \in Intentos \ {a} : intento'[b] = intento[b]
          /\ intento'[a].estado = "rate_limited" /\ intento[a].estado = "ninguno"
          /\ UNCHANGED <<clave, aplicados>>
      BY <1>0, <1>2 DEF LimitarIntento, Intento
    <2>2. Mueve(a) /\ proc'[a].resultado \in {"ninguno", "error"}
      BY <1>0, <1>2, Movimientos DEF LimitarIntento, Responde, Resultado
    <2>3. R!Limitar(a)
      BY <1>0, <2>1, <2>2, UnaFilaCambia, LoQueSeVe, AnuncioDeUno DEF R!Limitar
    <2> QED BY <2>3 DEF R!Next
  <1>3. ASSUME ReservarIntento(a) PROVE R!Next
    <2>1. /\ \A b \in Intentos \ {a} : intento'[b] = intento[b]
          /\ intento'[a].estado = "pending" /\ intento'[a].objetivo = v
          /\ intento[a].estado = "ninguno" /\ ~OtroPendiente(a)
          /\ UNCHANGED <<clave, aplicados>>
      BY <1>0, <1>3 DEF ReservarIntento, Intento
    <2>2. Mueve(a) /\ proc'[a].resultado = "ninguno" /\ v \in Usuarios
      BY <1>0, <1>3, Movimientos DEF ReservarIntento, Responde, Fase, En
    <2>3. \A b \in Intentos : R!Abierto(b) => Retenidos[b] # v
      BY <2>1, LoQueSeVe DEF OtroPendiente, R!Abierto
    <2>4. R!Abrir(a, v)
      BY <1>0, <2>1, <2>2, <2>3, UnaFilaCambia, LoQueSeVe, AnuncioDeUno DEF R!Abrir
    <2> QED BY <2>2, <2>4 DEF R!Next
  <1>4. ASSUME AuthAplica(a) \/ AuthIncierta(a) PROVE [R!Next]_(R!vars)
    <2>1. /\ UNCHANGED intento /\ intento[a].estado = "pending" /\ a \notin aplicados
          /\ Mueve(a) /\ proc'[a].resultado = "ninguno"
      BY <1>0, <1>4, Movimientos
      DEF AuthAplica, AuthIncierta, En, FaseCoherente, AntesDeAuth, Fase, Cierre
    <2>2. CASE UNCHANGED <<clave, aplicados>>
      BY <1>0, <2>1, <2>2, Invisible
    <2>3. CASE clave' = [clave EXCEPT ![v] = a] /\ aplicados' = aplicados \cup {a}
      <3>1. R!Aplicar(a)
        BY <1>0, <2>1, <2>3, LoQueSeVe, AnuncioDeUno DEF R!Aplicar, R!Abierto
      <3> QED BY <3>1 DEF R!Next
    <2> QED BY <1>4, <2>2, <2>3 DEF AuthAplica, AuthIncierta
  <1>5. ASSUME Cerrar(a) PROVE R!Next
    <2> DEFINE final == EstadoFinal(proc[a].fase)
    <2>1. PICK c \in BOOLEAN : TrasCierre(a, c)
      BY <1>5 DEF Cerrar
    <2>2. /\ proc[a].fase \in Cierre /\ intento[a].estado = "pending"
          /\ intento' = [intento EXCEPT ![a].estado = final]
          /\ UNCHANGED <<clave, aplicados>>
      BY <1>5 DEF Cerrar
    <2>3. /\ final \in {"succeeded", "failed", "attention_required"}
          /\ final = "succeeded" <=> proc[a].fase = "exito"
          /\ final = "failed" <=> proc[a].fase \in {"falla", "reversion"}
      BY <2>2 DEF EstadoFinal, Cierre
    <2>4. (final = "succeeded" => a \in aplicados) /\ (final = "failed" => a \notin aplicados)
      BY <1>0, <2>3 DEF FaseCoherente, Deshaciendo
    <2> HIDE DEF final
    <2>5. /\ \A b \in Intentos \ {a} : intento'[b] = intento[b]
          /\ intento'[a].estado = final /\ intento'[a].objetivo = v
      BY <1>0, <2>2 DEF Intento
    <2>6. Estados' = [Estados EXCEPT ![a] = final] /\ Retenidos' = Retenidos
      <3>1. Retenidos' = [Retenidos EXCEPT ![a] = Retenidos[a]]
        BY <2>2, <2>3, <2>5, UnaFilaCambia, LoQueSeVe
      <3>2. Retenidos' = Retenidos
        BY <3>1 DEF Retenidos
      <3> QED BY <2>5, <3>2, UnaFilaCambia
    <2>7. R!Cerrar(a, final)
      BY <2>2, <2>4, <2>6, LoQueSeVe DEF R!Cerrar, R!Abierto
    <2>8. CASE proc'[a].resultado = "exito"
      <3>1. Mueve(a) /\ final = "succeeded"
        BY <1>0, <2>1, <2>2, <2>3, <2>8, MovimientoDeCierre
      <3>2. R!Decir(a, "exito")
        BY <1>0, <2>8, <3>1, AnuncioDeUno DEF R!Decir
      <3> QED BY <2>7, <3>1, <3>2 DEF R!Next
    <2>9. CASE proc'[a].resultado # "exito"
      <3>1. Mueve(a) /\ proc'[a].resultado \in {"ninguno", "revisar"}
        BY <1>0, <2>1, <2>2, <2>9, MovimientoDeCierre
      <3>2. Anuncios' = Anuncios
        BY <1>0, <3>1, AnuncioDeUno
      <3> QED BY <2>3, <2>7, <3>2 DEF R!Next
    <2> QED BY <2>8, <2>9
  <1> QED BY <1>1, <1>2, <1>3, <1>4, <1>5

\* Every step maps to a step or a stutter.
LEMMA PasoReseteo == InvInductivo /\ [Next]_vars => [R!Next]_(R!vars)
  <1> SUFFICES ASSUME InvInductivo, [Next]_vars PROVE [R!Next]_(R!vars)
    OBVIOUS
  <1>1. ASSUME NEW a \in Intentos, Restablecer(a) PROVE [R!Next]_(R!vars)
    BY <1>1, ProcReseteo, FilaReseteo DEF Restablecer
  <1>2. ASSUME UNCHANGED <<intento, proc, clave, aplicados>> PROVE UNCHANGED R!vars
    BY <1>2, LoQueSeVe DEF R!vars, Anuncios
  <1>3. ASSUME NEW u \in Usuarios, CambiarInicial(u) PROVE [R!Next]_(R!vars)
    <2>1. CASE CambiarClave(u)
      <3>1. UNCHANGED <<intento, proc, aplicados>> /\ clave' = [clave EXCEPT ![u] = Propia]
        BY <2>1 DEF CambiarClave
      <3>2. R!Elegir(u)
        BY <3>1, LoQueSeVe DEF R!Elegir, Anuncios
      <3> QED BY <3>2 DEF R!Next
    <2> QED BY <1>2, <1>3, <2>1
            DEF CambiarInicial, EmpezarCambio, CompletarCambio, CambioSinEfecto
  <1>4. ASSUME NEW u \in Editores, Editar(u) PROVE UNCHANGED R!vars
    BY <1>2, <1>4 DEF Editar, RevisarEdicion, EmpezarUpdate, Escribir, AbandonarEdicion
  <1>5. CASE UNCHANGED vars
    BY <1>2, <1>5 DEF vars
  <1> QED BY <1>1, <1>3, <1>4, <1>5 DEF Next

\* Whatever calls are lost, repeated or cut short, a reset is what Reseteo promises:
\* it holds its user alone, changes the password once and before it is closed, is
\* closed once and truly, and is announced as it was closed.
THEOREM ImplementaReseteo == Spec => ReseteoSpec
  BY InicioReseteo, PasoReseteo, Invariante, PTL DEF Spec, ReseteoSpec, R!Spec
=============================================================================
