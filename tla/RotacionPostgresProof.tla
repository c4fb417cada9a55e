------------------------- MODULE RotacionPostgresProof -------------------------
(***************************************************************************)
(* What RotacionPostgres proves for any number of services.                *)
(***************************************************************************)
EXTENDS RotacionPostgres, TLAPS

USE NumServiciosAssumption

LEMMA PasoMutar ==
  ASSUME InvInductivo, Mutar
  PROVE  InvInductivo'
  <1> USE DEF Gen, Parte, Muta, Otra, Hacia, Orden
  <1>1. TypeOK'
    BY DEF InvInductivo, Mutar, TypeOK, Sigue, Pasa, Fase, Escribe, Dudosa, TrasMutar, Compensa
  <1>2. PublicoCoherente' /\ RespuestaVeraz'
    BY DEF InvInductivo, Mutar, TypeOK, Sigue, Pasa, Fase, TrasMutar, Compensa, PublicoCoherente, RespuestaVeraz, FasesCerradas, Adelante
  <1>3. FasesCerradas' /\ FasesDeOrden'
    BY DEF InvInductivo, Mutar, TypeOK, Sigue, Pasa, Fase, TrasMutar, Compensa, FasesCerradas, FasesDeOrden, Adelante, Final
  <1>4. AvanceExacto' /\ RetrocesoExacto'
    <2>1. /\ orden \in {"cutover", "rollback"} /\ orden' = orden /\ fase \in Muta
          /\ material \in [Parte -> Gen] /\ intentos' = intentos \cup {fase}
          /\ \A p \in Parte : material[p] = IF p \in intentos THEN Hacia(orden) ELSE Otra(Hacia(orden))
          /\ fase = "supavisor" => intentos = {}
          /\ fase = "roles" => intentos = {"supavisor"}
          /\ fase = "env" => intentos = {"supavisor", "roles"}
          /\ turno = 1 /\ turno' = turno
      BY DEF InvInductivo, Mutar, TypeOK, Sigue, AvanceExacto, FasesDeOrden, Adelante, Compensa,
             Fase, Final
    <2>2. CASE Escribe(fase, Hacia(orden)) /\ Pasa(TrasMutar[fase])
      BY <2>1, <2>2 DEF Escribe, Pasa, TrasMutar, AvanceExacto, RetrocesoExacto, Adelante, Compensa
    <2>3. CASE Dudosa(fase, Hacia(orden)) /\ Pasa("c_env")
      BY <2>1, <2>3 DEF Escribe, Dudosa, Pasa, AvanceExacto, RetrocesoExacto, Adelante, Compensa
    <2> QED BY <2>2, <2>3 DEF Mutar
  <1>5. ContenedoresExactos'
    BY DEF InvInductivo, Mutar, TypeOK, Sigue, Pasa, Fase, TrasMutar, Compensa, ContenedoresExactos, Adelante, Final, Presentes, ContenedoresEn
  <1> QED BY <1>1, <1>2, <1>3, <1>4, <1>5 DEF InvInductivo

LEMMA PasoPrevio ==
  ASSUME InvInductivo, Previo
  PROVE  InvInductivo'
  <1> USE DEF Gen, Parte, Muta, Otra, Hacia, Orden
  <1>0. /\ fase = "previo" /\ intentos = {} /\ turno = 1 /\ candado /\ meta = Hacia(orden)
        /\ TypeOK /\ PublicoCoherente /\ respuesta = "ninguna"
        /\ UNCHANGED <<material, contenedor, abierto, candado, intentos, turno, orden, meta>>
    BY DEF InvInductivo, Previo, Quieto, Sigue, AvanceExacto, FasesCerradas, FasesDeOrden,
           Fase, Compensa, Adelante, Final
  <1>1. PublicoCoherente' /\ TypeOK'
    BY <1>0 DEF Previo, TypeOK, PublicoCoherente, Uniforme, En, ContenedoresEn, Pasa, Responde,
           TrasPrevio, Fase, Compensa, Respuesta
  <1>2. CASE Admite(orden) /\ Pasa(TrasPrevio) /\ orden = "cutover"
    BY <1>0, <1>1, <1>2 DEF Admite, Pasa, TrasPrevio, InvInductivo, RespuestaVeraz, FasesCerradas,
       FasesDeOrden, AvanceExacto, RetrocesoExacto, ContenedoresExactos, Adelante, Compensa, Final,
       Fase, Uniforme, En, ContenedoresEn
  <1>3. CASE Admite(orden) /\ Pasa(TrasPrevio) /\ orden = "rollback"
    BY <1>0, <1>1, <1>3 DEF Admite, Pasa, TrasPrevio, InvInductivo, RespuestaVeraz, FasesCerradas,
       FasesDeOrden, AvanceExacto, RetrocesoExacto, ContenedoresExactos, Adelante, Compensa, Final,
       Fase, En, Presentes
  <1>4. CASE Admite(orden) /\ Pasa(TrasPrevio) /\ orden = "rollback-resume"
    <2>1. En("origen", Parte)
      BY <1>4 DEF Admite, RolesEn, SupavisorEn, En
    <2>2. \A s \in Servicios : ~(s < turno)
      BY <1>0 DEF Servicios
    <2>3. ~abierto /\ fase' = "recrear" /\ UNCHANGED respuesta
      BY <1>4 DEF Admite, Pasa, TrasPrevio
    <2> QED BY <1>0, <1>1, <1>4, <2>1, <2>2, <2>3 DEF InvInductivo, RespuestaVeraz, FasesCerradas,
       FasesDeOrden, AvanceExacto, RetrocesoExacto, ContenedoresExactos, Adelante, Compensa, Final,
       Fase, En
  <1>5. CASE Admite(orden) /\ Pasa(TrasPrevio) /\ orden = "target-finalize"
    BY <1>0, <1>1, <1>5 DEF Admite, Pasa, TrasPrevio, InvInductivo, RespuestaVeraz, FasesCerradas,
       FasesDeOrden, AvanceExacto, RetrocesoExacto, ContenedoresExactos, Adelante, Compensa, Final,
       Fase, Uniforme, En, ContenedoresEn
  <1>6. CASE \/ orden = "cutover" /\ Pasa("previo_falla")
             \/ orden \in {"rollback", "rollback-resume"} /\ Responde("PREFLIGHT_FAILED")
             \/ orden = "target-finalize" /\ Responde("NOT_ACCEPTED")
    BY <1>0, <1>1, <1>6 DEF Pasa, Responde, InvInductivo, RespuestaVeraz, FasesCerradas,
       FasesDeOrden, AvanceExacto, RetrocesoExacto, ContenedoresExactos, Adelante, Compensa, Final,
       Fase
  <1>7. orden \in Orden
    BY <1>0 DEF TypeOK
  <1> QED BY <1>2, <1>3, <1>4, <1>5, <1>6, <1>7 DEF Previo

LEMMA PasoPrevioFalla ==
  ASSUME InvInductivo, PrevioFalla
  PROVE  InvInductivo'
  <1> USE DEF Gen, Parte, Muta, Otra, Hacia, Orden
  <1>1. TypeOK'
    BY DEF InvInductivo, PrevioFalla, TypeOK, Servicios, Respuesta, Sigue, Quieto, Pasa, Responde, Fase, Compensa, Adelante, Final
  <1>2. PublicoCoherente' /\ RespuestaVeraz'
    BY DEF InvInductivo, PrevioFalla, TypeOK, PublicoCoherente, RespuestaVeraz, FasesCerradas, FasesDeOrden, AvanceExacto, RetrocesoExacto, ContenedoresExactos, Uniforme, En, ContenedoresEn, Presentes, Sigue, Quieto, Pasa, Responde, Fase, Compensa, Adelante, Final
  <1>3. FasesCerradas' /\ FasesDeOrden'
    BY DEF InvInductivo, PrevioFalla, TypeOK, FasesCerradas, FasesDeOrden, Sigue, Quieto, Pasa, Responde, Fase, Compensa, Adelante, Final
  <1>4. AvanceExacto' /\ RetrocesoExacto'
    BY DEF InvInductivo, PrevioFalla, TypeOK, AvanceExacto, RetrocesoExacto, FasesDeOrden, En, Uniforme, ContenedoresEn, Sigue, Quieto, Pasa, Responde, Fase, Compensa, Adelante, Final
  <1>5. ContenedoresExactos'
    BY DEF InvInductivo, PrevioFalla, TypeOK, ContenedoresExactos, FasesDeOrden, AvanceExacto, RetrocesoExacto, En, Uniforme, Presentes, ContenedoresEn, Servicios, Sigue, Quieto, Pasa, Responde, Fase, Compensa, Adelante, Final
  <1> QED BY <1>1, <1>2, <1>3, <1>4, <1>5 DEF InvInductivo

LEMMA PasoPrevioSoltar ==
  ASSUME InvInductivo, PrevioSoltar
  PROVE  InvInductivo'
  <1> USE DEF Gen, Parte, Muta, Otra, Hacia, Orden
  <1>1. TypeOK'
    BY DEF InvInductivo, PrevioSoltar, TypeOK, Servicios, Respuesta, Sigue, Quieto, Pasa, Responde, Fase, Compensa, Adelante, Final
  <1>2. PublicoCoherente' /\ RespuestaVeraz'
    BY DEF InvInductivo, PrevioSoltar, TypeOK, PublicoCoherente, RespuestaVeraz, FasesCerradas, FasesDeOrden, AvanceExacto, RetrocesoExacto, ContenedoresExactos, Uniforme, En, ContenedoresEn, Presentes, Sigue, Quieto, Pasa, Responde, Fase, Compensa, Adelante, Final
  <1>3. FasesCerradas' /\ FasesDeOrden'
    BY DEF InvInductivo, PrevioSoltar, TypeOK, FasesCerradas, FasesDeOrden, Sigue, Quieto, Pasa, Responde, Fase, Compensa, Adelante, Final
  <1>4. AvanceExacto' /\ RetrocesoExacto'
    BY DEF InvInductivo, PrevioSoltar, TypeOK, AvanceExacto, RetrocesoExacto, FasesDeOrden, En, Uniforme, ContenedoresEn, Sigue, Quieto, Pasa, Responde, Fase, Compensa, Adelante, Final
  <1>5. ContenedoresExactos'
    BY DEF InvInductivo, PrevioSoltar, TypeOK, ContenedoresExactos, FasesDeOrden, AvanceExacto, RetrocesoExacto, En, Uniforme, Presentes, ContenedoresEn, Servicios, Sigue, Quieto, Pasa, Responde, Fase, Compensa, Adelante, Final
  <1> QED BY <1>1, <1>2, <1>3, <1>4, <1>5 DEF InvInductivo

LEMMA PasoCerrar ==
  ASSUME InvInductivo, Cerrar
  PROVE  InvInductivo'
  <1> USE DEF Gen, Parte, Muta, Otra, Hacia, Orden
  <1>1. TypeOK'
    BY DEF InvInductivo, Cerrar, TypeOK, Servicios, Respuesta, Sigue, Quieto, Pasa, Responde, Fase, Compensa, Adelante, Final
  <1>2. PublicoCoherente' /\ RespuestaVeraz'
    BY DEF InvInductivo, Cerrar, TypeOK, PublicoCoherente, RespuestaVeraz, FasesCerradas, FasesDeOrden, AvanceExacto, RetrocesoExacto, ContenedoresExactos, Uniforme, En, ContenedoresEn, Presentes, Sigue, Quieto, Pasa, Responde, Fase, Compensa, Adelante, Final
  <1>3. FasesCerradas' /\ FasesDeOrden'
    BY DEF InvInductivo, Cerrar, TypeOK, FasesCerradas, FasesDeOrden, Sigue, Quieto, Pasa, Responde, Fase, Compensa, Adelante, Final
  <1>4. AvanceExacto' /\ RetrocesoExacto'
    BY DEF InvInductivo, Cerrar, TypeOK, AvanceExacto, RetrocesoExacto, FasesDeOrden, En, Uniforme, ContenedoresEn, Sigue, Quieto, Pasa, Responde, Fase, Compensa, Adelante, Final
  <1>5. ContenedoresExactos'
    BY DEF InvInductivo, Cerrar, TypeOK, ContenedoresExactos, FasesDeOrden, AvanceExacto, RetrocesoExacto, En, Uniforme, Presentes, ContenedoresEn, Servicios, Sigue, Quieto, Pasa, Responde, Fase, Compensa, Adelante, Final
  <1> QED BY <1>1, <1>2, <1>3, <1>4, <1>5 DEF InvInductivo

LEMMA PasoVerificar ==
  ASSUME InvInductivo, Verificar
  PROVE  InvInductivo'
  <1> USE DEF Gen, Parte, Muta, Otra, Hacia, Orden
  <1>1. TypeOK'
    BY DEF InvInductivo, Verificar, TypeOK, Servicios, Respuesta, Sigue, Quieto, Pasa, Responde, Fase, Compensa, Adelante, Final, RolesEn
  <1>2. PublicoCoherente' /\ RespuestaVeraz'
    BY DEF InvInductivo, Verificar, TypeOK, PublicoCoherente, RespuestaVeraz, FasesCerradas, FasesDeOrden, AvanceExacto, RetrocesoExacto, ContenedoresExactos, Uniforme, En, ContenedoresEn, Presentes, Sigue, Quieto, Pasa, Responde, Fase, Compensa, Adelante, Final, RolesEn
  <1>3. FasesCerradas' /\ FasesDeOrden'
    BY DEF InvInductivo, Verificar, TypeOK, FasesCerradas, FasesDeOrden, Sigue, Quieto, Pasa, Responde, Fase, Compensa, Adelante, Final, RolesEn
  <1>4. AvanceExacto' /\ RetrocesoExacto'
    BY DEF InvInductivo, Verificar, TypeOK, AvanceExacto, RetrocesoExacto, FasesDeOrden, En, Uniforme, ContenedoresEn, Sigue, Quieto, Pasa, Responde, Fase, Compensa, Adelante, Final, RolesEn
  <1>5. ContenedoresExactos'
    BY DEF InvInductivo, Verificar, TypeOK, ContenedoresExactos, FasesDeOrden, AvanceExacto, RetrocesoExacto, En, Uniforme, Presentes, ContenedoresEn, Servicios, Sigue, Quieto, Pasa, Responde, Fase, Compensa, Adelante, Final, RolesEn
  <1> QED BY <1>1, <1>2, <1>3, <1>4, <1>5 DEF InvInductivo

LEMMA PasoCompensar ==
  ASSUME InvInductivo, Compensar
  PROVE  InvInductivo'
  <1> USE DEF Gen, Parte, Muta, Otra, Hacia, Orden
  <1>1. TypeOK'
    BY DEF InvInductivo, Compensar, TypeOK, Servicios, Respuesta, Sigue, Quieto, Pasa, Responde, Fase, Compensa, Adelante, Final, TrasCompensar, ParteDe, Escribe, Dudosa, RolesEn, SupavisorEn
  <1>2. PublicoCoherente' /\ RespuestaVeraz'
    BY DEF InvInductivo, Compensar, TypeOK, PublicoCoherente, RespuestaVeraz, FasesCerradas, FasesDeOrden, AvanceExacto, RetrocesoExacto, ContenedoresExactos, Uniforme, En, ContenedoresEn, Presentes, Sigue, Quieto, Pasa, Responde, Fase, Compensa, Adelante, Final, TrasCompensar, ParteDe, Escribe, Dudosa, RolesEn, SupavisorEn
  <1>3. FasesCerradas' /\ FasesDeOrden'
    BY DEF InvInductivo, Compensar, TypeOK, FasesCerradas, FasesDeOrden, Sigue, Quieto, Pasa, Responde, Fase, Compensa, Adelante, Final, TrasCompensar, ParteDe, Escribe, Dudosa, RolesEn, SupavisorEn
  <1>4. AvanceExacto' /\ RetrocesoExacto'
    BY DEF InvInductivo, Compensar, TypeOK, AvanceExacto, RetrocesoExacto, FasesDeOrden, En, Uniforme, ContenedoresEn, Sigue, Quieto, Pasa, Responde, Fase, Compensa, Adelante, Final, TrasCompensar, ParteDe, Escribe, Dudosa, RolesEn, SupavisorEn
  <1>5. ContenedoresExactos'
    BY DEF InvInductivo, Compensar, TypeOK, ContenedoresExactos, FasesDeOrden, AvanceExacto, RetrocesoExacto, En, Uniforme, Presentes, ContenedoresEn, Servicios, Sigue, Quieto, Pasa, Responde, Fase, Compensa, Adelante, Final, TrasCompensar, ParteDe, Escribe, Dudosa, RolesEn, SupavisorEn
  <1> QED BY <1>1, <1>2, <1>3, <1>4, <1>5 DEF InvInductivo

LEMMA PasoCompensado ==
  ASSUME InvInductivo, Compensado
  PROVE  InvInductivo'
  <1> USE DEF Gen, Parte, Muta, Otra, Hacia, Orden
  <1>1. TypeOK'
    BY DEF InvInductivo, Compensado, TypeOK, Servicios, Respuesta, Sigue, Quieto, Pasa, Responde, Fase, Compensa, Adelante, Final
  <1>2. PublicoCoherente' /\ RespuestaVeraz'
    BY DEF InvInductivo, Compensado, TypeOK, PublicoCoherente, RespuestaVeraz, FasesCerradas, FasesDeOrden, AvanceExacto, RetrocesoExacto, ContenedoresExactos, Uniforme, En, ContenedoresEn, Presentes, Sigue, Quieto, Pasa, Responde, Fase, Compensa, Adelante, Final
  <1>3. FasesCerradas' /\ FasesDeOrden'
    BY DEF InvInductivo, Compensado, TypeOK, FasesCerradas, FasesDeOrden, Sigue, Quieto, Pasa, Responde, Fase, Compensa, Adelante, Final
  <1>4. AvanceExacto' /\ RetrocesoExacto'
    BY DEF InvInductivo, Compensado, TypeOK, AvanceExacto, RetrocesoExacto, FasesDeOrden, En, Uniforme, ContenedoresEn, Sigue, Quieto, Pasa, Responde, Fase, Compensa, Adelante, Final
  <1>5. ContenedoresExactos'
    BY DEF InvInductivo, Compensado, TypeOK, ContenedoresExactos, FasesDeOrden, AvanceExacto, RetrocesoExacto, En, Uniforme, Presentes, ContenedoresEn, Servicios, Sigue, Quieto, Pasa, Responde, Fase, Compensa, Adelante, Final
  <1> QED BY <1>1, <1>2, <1>3, <1>4, <1>5 DEF InvInductivo

LEMMA PasoPuntero ==
  ASSUME InvInductivo, Puntero
  PROVE  InvInductivo'
  <1> USE DEF Gen, Parte, Muta, Otra, Hacia, Orden
  <1>1. TypeOK'
    BY DEF InvInductivo, Puntero, TypeOK, Servicios, Respuesta, Sigue, Quieto, Pasa, Responde, Fase, Compensa, Adelante, Final, Escribe, Dudosa
  <1>2. PublicoCoherente' /\ RespuestaVeraz'
    BY DEF InvInductivo, Puntero, TypeOK, PublicoCoherente, RespuestaVeraz, FasesCerradas, FasesDeOrden, AvanceExacto, RetrocesoExacto, ContenedoresExactos, Uniforme, En, ContenedoresEn, Presentes, Sigue, Quieto, Pasa, Responde, Fase, Compensa, Adelante, Final, Escribe, Dudosa
  <1>3. FasesCerradas' /\ FasesDeOrden'
    BY DEF InvInductivo, Puntero, TypeOK, FasesCerradas, FasesDeOrden, Sigue, Quieto, Pasa, Responde, Fase, Compensa, Adelante, Final, Escribe, Dudosa
  <1>4. AvanceExacto' /\ RetrocesoExacto'
    BY DEF InvInductivo, Puntero, TypeOK, AvanceExacto, RetrocesoExacto, FasesDeOrden, En, Uniforme, ContenedoresEn, Sigue, Quieto, Pasa, Responde, Fase, Compensa, Adelante, Final, Escribe, Dudosa
  <1>5. ContenedoresExactos'
    BY DEF InvInductivo, Puntero, TypeOK, ContenedoresExactos, FasesDeOrden, AvanceExacto, RetrocesoExacto, En, Uniforme, Presentes, ContenedoresEn, Servicios, Sigue, Quieto, Pasa, Responde, Fase, Compensa, Adelante, Final, Escribe, Dudosa
  <1> QED BY <1>1, <1>2, <1>3, <1>4, <1>5 DEF InvInductivo

LEMMA PasoLeerPuntero ==
  ASSUME InvInductivo, LeerPuntero
  PROVE  InvInductivo'
  <1> USE DEF Gen, Parte, Muta, Otra, Hacia, Orden
  <1>1. TypeOK'
    BY DEF InvInductivo, LeerPuntero, TypeOK, Servicios, Respuesta, Sigue, Quieto, Pasa, Responde, Fase, Compensa, Adelante, Final
  <1>2. PublicoCoherente' /\ RespuestaVeraz'
    BY DEF InvInductivo, LeerPuntero, TypeOK, PublicoCoherente, RespuestaVeraz, FasesCerradas, FasesDeOrden, AvanceExacto, RetrocesoExacto, ContenedoresExactos, Uniforme, En, ContenedoresEn, Presentes, Sigue, Quieto, Pasa, Responde, Fase, Compensa, Adelante, Final
  <1>3. FasesCerradas' /\ FasesDeOrden'
    BY DEF InvInductivo, LeerPuntero, TypeOK, FasesCerradas, FasesDeOrden, Sigue, Quieto, Pasa, Responde, Fase, Compensa, Adelante, Final
  <1>4. AvanceExacto' /\ RetrocesoExacto'
    BY DEF InvInductivo, LeerPuntero, TypeOK, AvanceExacto, RetrocesoExacto, FasesDeOrden, En, Uniforme, ContenedoresEn, Sigue, Quieto, Pasa, Responde, Fase, Compensa, Adelante, Final
  <1>5. ContenedoresExactos'
    BY DEF InvInductivo, LeerPuntero, TypeOK, ContenedoresExactos, FasesDeOrden, AvanceExacto, RetrocesoExacto, En, Uniforme, Presentes, ContenedoresEn, Servicios, Sigue, Quieto, Pasa, Responde, Fase, Compensa, Adelante, Final
  <1> QED BY <1>1, <1>2, <1>3, <1>4, <1>5 DEF InvInductivo

LEMMA PasoReleer ==
  ASSUME InvInductivo, Releer
  PROVE  InvInductivo'
  <1> USE DEF Gen, Parte, Muta, Otra, Hacia, Orden
  <1>1. TypeOK'
    BY DEF InvInductivo, Releer, TypeOK, Servicios, Respuesta, Sigue, Quieto, Pasa, Responde, Fase, Compensa, Adelante, Final
  <1>2. PublicoCoherente' /\ RespuestaVeraz'
    BY DEF InvInductivo, Releer, TypeOK, PublicoCoherente, RespuestaVeraz, FasesCerradas, FasesDeOrden, AvanceExacto, RetrocesoExacto, ContenedoresExactos, Uniforme, En, ContenedoresEn, Presentes, Sigue, Quieto, Pasa, Responde, Fase, Compensa, Adelante, Final
  <1>3. FasesCerradas' /\ FasesDeOrden'
    BY DEF InvInductivo, Releer, TypeOK, FasesCerradas, FasesDeOrden, Sigue, Quieto, Pasa, Responde, Fase, Compensa, Adelante, Final
  <1>4. AvanceExacto' /\ RetrocesoExacto'
    BY DEF InvInductivo, Releer, TypeOK, AvanceExacto, RetrocesoExacto, FasesDeOrden, En, Uniforme, ContenedoresEn, Sigue, Quieto, Pasa, Responde, Fase, Compensa, Adelante, Final
  <1>5. ContenedoresExactos'
    BY DEF InvInductivo, Releer, TypeOK, ContenedoresExactos, FasesDeOrden, AvanceExacto, RetrocesoExacto, En, Uniforme, Presentes, ContenedoresEn, Servicios, Sigue, Quieto, Pasa, Responde, Fase, Compensa, Adelante, Final
  <1> QED BY <1>1, <1>2, <1>3, <1>4, <1>5 DEF InvInductivo

LEMMA PasoRecrear ==
  ASSUME InvInductivo, Recrear
  PROVE  InvInductivo'
  <1> USE DEF Gen, Parte, Muta, Otra, Hacia, Orden
  <1>1. TypeOK'
    BY DEF InvInductivo, Recrear, TypeOK, Servicios, Respuesta, Sigue, Quieto, Pasa, Responde, Fase, Compensa, Adelante, Final
  <1>2. PublicoCoherente' /\ RespuestaVeraz'
    BY DEF InvInductivo, Recrear, TypeOK, PublicoCoherente, RespuestaVeraz, FasesCerradas, FasesDeOrden, AvanceExacto, RetrocesoExacto, ContenedoresExactos, Uniforme, En, ContenedoresEn, Presentes, Sigue, Quieto, Pasa, Responde, Fase, Compensa, Adelante, Final
  <1>3. FasesCerradas' /\ FasesDeOrden'
    BY DEF InvInductivo, Recrear, TypeOK, FasesCerradas, FasesDeOrden, Sigue, Quieto, Pasa, Responde, Fase, Compensa, Adelante, Final
  <1>4. AvanceExacto' /\ RetrocesoExacto'
    BY DEF InvInductivo, Recrear, TypeOK, AvanceExacto, RetrocesoExacto, FasesDeOrden, En, Uniforme, ContenedoresEn, Sigue, Quieto, Pasa, Responde, Fase, Compensa, Adelante, Final
  <1>5. ContenedoresExactos'
    BY DEF InvInductivo, Recrear, TypeOK, ContenedoresExactos, FasesDeOrden, AvanceExacto, RetrocesoExacto, En, Uniforme, Presentes, ContenedoresEn, Servicios, Sigue, Quieto, Pasa, Responde, Fase, Compensa, Adelante, Final
  <1> QED BY <1>1, <1>2, <1>3, <1>4, <1>5 DEF InvInductivo

LEMMA PasoRecreados ==
  ASSUME InvInductivo, Recreados
  PROVE  InvInductivo'
  <1> USE DEF Gen, Parte, Muta, Otra, Hacia, Orden
  <1>1. TypeOK'
    BY DEF InvInductivo, Recreados, TypeOK, Servicios, Respuesta, Sigue, Quieto, Pasa, Responde, Fase, Compensa, Adelante, Final
  <1>2. PublicoCoherente' /\ RespuestaVeraz'
    BY DEF InvInductivo, Recreados, TypeOK, PublicoCoherente, RespuestaVeraz, FasesCerradas, FasesDeOrden, AvanceExacto, RetrocesoExacto, ContenedoresExactos, Uniforme, En, ContenedoresEn, Presentes, Sigue, Quieto, Pasa, Responde, Fase, Compensa, Adelante, Final
  <1>3. FasesCerradas' /\ FasesDeOrden'
    BY DEF InvInductivo, Recreados, TypeOK, FasesCerradas, FasesDeOrden, Sigue, Quieto, Pasa, Responde, Fase, Compensa, Adelante, Final
  <1>4. AvanceExacto' /\ RetrocesoExacto'
    BY DEF InvInductivo, Recreados, TypeOK, AvanceExacto, RetrocesoExacto, FasesDeOrden, En, Uniforme, ContenedoresEn, Sigue, Quieto, Pasa, Responde, Fase, Compensa, Adelante, Final
  <1>5. ContenedoresExactos'
    BY DEF InvInductivo, Recreados, TypeOK, ContenedoresExactos, FasesDeOrden, AvanceExacto, RetrocesoExacto, En, Uniforme, Presentes, ContenedoresEn, Servicios, Sigue, Quieto, Pasa, Responde, Fase, Compensa, Adelante, Final
  <1> QED BY <1>1, <1>2, <1>3, <1>4, <1>5 DEF InvInductivo

LEMMA PasoAceptar ==
  ASSUME InvInductivo, Aceptar
  PROVE  InvInductivo'
  <1> USE DEF Gen, Parte, Muta, Otra, Hacia, Orden
  <1>1. TypeOK'
    BY DEF InvInductivo, Aceptar, TypeOK, Servicios, Respuesta, Sigue, Quieto, Pasa, Responde, Fase, Compensa, Adelante, Final
  <1>2. PublicoCoherente' /\ RespuestaVeraz'
    BY DEF InvInductivo, Aceptar, TypeOK, PublicoCoherente, RespuestaVeraz, FasesCerradas, FasesDeOrden, AvanceExacto, RetrocesoExacto, ContenedoresExactos, Uniforme, En, ContenedoresEn, Presentes, Sigue, Quieto, Pasa, Responde, Fase, Compensa, Adelante, Final
  <1>3. FasesCerradas' /\ FasesDeOrden'
    BY DEF InvInductivo, Aceptar, TypeOK, FasesCerradas, FasesDeOrden, Sigue, Quieto, Pasa, Responde, Fase, Compensa, Adelante, Final
  <1>4. AvanceExacto' /\ RetrocesoExacto'
    BY DEF InvInductivo, Aceptar, TypeOK, AvanceExacto, RetrocesoExacto, FasesDeOrden, En, Uniforme, ContenedoresEn, Sigue, Quieto, Pasa, Responde, Fase, Compensa, Adelante, Final
  <1>5. ContenedoresExactos'
    BY DEF InvInductivo, Aceptar, TypeOK, ContenedoresExactos, FasesDeOrden, AvanceExacto, RetrocesoExacto, En, Uniforme, Presentes, ContenedoresEn, Servicios, Sigue, Quieto, Pasa, Responde, Fase, Compensa, Adelante, Final
  <1> QED BY <1>1, <1>2, <1>3, <1>4, <1>5 DEF InvInductivo

LEMMA PasoAbrir ==
  ASSUME InvInductivo, Abrir
  PROVE  InvInductivo'
  <1> USE DEF Gen, Parte, Muta, Otra, Hacia, Orden
  <1>1. TypeOK'
    BY ZenonT(60) DEF InvInductivo, Abrir, TypeOK, Servicios, Respuesta, Sigue, Quieto, Pasa, Responde, Fase, Compensa, Adelante, Final
  <1>2. PublicoCoherente' /\ RespuestaVeraz'
    BY DEF InvInductivo, Abrir, TypeOK, PublicoCoherente, RespuestaVeraz, FasesCerradas, FasesDeOrden, AvanceExacto, RetrocesoExacto, ContenedoresExactos, Uniforme, En, ContenedoresEn, Presentes, Sigue, Quieto, Pasa, Responde, Fase, Compensa, Adelante, Final
  <1>3. FasesCerradas' /\ FasesDeOrden'
    BY DEF InvInductivo, Abrir, TypeOK, FasesCerradas, FasesDeOrden, Sigue, Quieto, Pasa, Responde, Fase, Compensa, Adelante, Final
  <1>4. AvanceExacto' /\ RetrocesoExacto'
    BY DEF InvInductivo, Abrir, TypeOK, AvanceExacto, RetrocesoExacto, FasesDeOrden, En, Uniforme, ContenedoresEn, Sigue, Quieto, Pasa, Responde, Fase, Compensa, Adelante, Final
  <1>5. ContenedoresExactos'
    BY DEF InvInductivo, Abrir, TypeOK, ContenedoresExactos, FasesDeOrden, AvanceExacto, RetrocesoExacto, En, Uniforme, Presentes, ContenedoresEn, Servicios, Sigue, Quieto, Pasa, Responde, Fase, Compensa, Adelante, Final
  <1> QED BY <1>1, <1>2, <1>3, <1>4, <1>5 DEF InvInductivo

LEMMA PasoRecerrar ==
  ASSUME InvInductivo, Recerrar
  PROVE  InvInductivo'
  <1> USE DEF Gen, Parte, Muta, Otra, Hacia, Orden
  <1>1. TypeOK'
    BY DEF InvInductivo, Recerrar, TypeOK, Servicios, Respuesta, Sigue, Quieto, Pasa, Responde, Fase, Compensa, Adelante, Final
  <1>2. PublicoCoherente' /\ RespuestaVeraz'
    BY DEF InvInductivo, Recerrar, TypeOK, PublicoCoherente, RespuestaVeraz, FasesCerradas, FasesDeOrden, AvanceExacto, RetrocesoExacto, ContenedoresExactos, Uniforme, En, ContenedoresEn, Presentes, Sigue, Quieto, Pasa, Responde, Fase, Compensa, Adelante, Final
  <1>3. FasesCerradas' /\ FasesDeOrden'
    BY DEF InvInductivo, Recerrar, TypeOK, FasesCerradas, FasesDeOrden, Sigue, Quieto, Pasa, Responde, Fase, Compensa, Adelante, Final
  <1>4. AvanceExacto' /\ RetrocesoExacto'
    BY DEF InvInductivo, Recerrar, TypeOK, AvanceExacto, RetrocesoExacto, FasesDeOrden, En, Uniforme, ContenedoresEn, Sigue, Quieto, Pasa, Responde, Fase, Compensa, Adelante, Final
  <1>5. ContenedoresExactos'
    BY DEF InvInductivo, Recerrar, TypeOK, ContenedoresExactos, FasesDeOrden, AvanceExacto, RetrocesoExacto, En, Uniforme, Presentes, ContenedoresEn, Servicios, Sigue, Quieto, Pasa, Responde, Fase, Compensa, Adelante, Final
  <1> QED BY <1>1, <1>2, <1>3, <1>4, <1>5 DEF InvInductivo

LEMMA PasoAbrirFinal ==
  ASSUME InvInductivo, AbrirFinal
  PROVE  InvInductivo'
  <1> USE DEF Gen, Parte, Muta, Otra, Hacia, Orden
  <1>1. TypeOK'
    BY DEF InvInductivo, AbrirFinal, TypeOK, Servicios, Respuesta, Sigue, Quieto, Pasa, Responde, Fase, Compensa, Adelante, Final
  <1>2. PublicoCoherente' /\ RespuestaVeraz'
    BY DEF InvInductivo, AbrirFinal, TypeOK, PublicoCoherente, RespuestaVeraz, FasesCerradas, FasesDeOrden, AvanceExacto, RetrocesoExacto, ContenedoresExactos, Uniforme, En, ContenedoresEn, Presentes, Sigue, Quieto, Pasa, Responde, Fase, Compensa, Adelante, Final
  <1>3. FasesCerradas' /\ FasesDeOrden'
    BY DEF InvInductivo, AbrirFinal, TypeOK, FasesCerradas, FasesDeOrden, Sigue, Quieto, Pasa, Responde, Fase, Compensa, Adelante, Final
  <1>4. AvanceExacto' /\ RetrocesoExacto'
    BY DEF InvInductivo, AbrirFinal, TypeOK, AvanceExacto, RetrocesoExacto, FasesDeOrden, En, Uniforme, ContenedoresEn, Sigue, Quieto, Pasa, Responde, Fase, Compensa, Adelante, Final
  <1>5. ContenedoresExactos'
    BY DEF InvInductivo, AbrirFinal, TypeOK, ContenedoresExactos, FasesDeOrden, AvanceExacto, RetrocesoExacto, En, Uniforme, Presentes, ContenedoresEn, Servicios, Sigue, Quieto, Pasa, Responde, Fase, Compensa, Adelante, Final
  <1> QED BY <1>1, <1>2, <1>3, <1>4, <1>5 DEF InvInductivo

LEMMA PasoSoltar ==
  ASSUME InvInductivo, Soltar
  PROVE  InvInductivo'
  <1> USE DEF Gen, Parte, Muta, Otra, Hacia, Orden
  <1>1. TypeOK'
    BY DEF InvInductivo, Soltar, TypeOK, Servicios, Respuesta, Sigue, Quieto, Pasa, Responde, Fase, Compensa, Adelante, Final
  <1>2. PublicoCoherente' /\ RespuestaVeraz'
    BY DEF InvInductivo, Soltar, TypeOK, PublicoCoherente, RespuestaVeraz, FasesCerradas, FasesDeOrden, AvanceExacto, RetrocesoExacto, ContenedoresExactos, Uniforme, En, ContenedoresEn, Presentes, Sigue, Quieto, Pasa, Responde, Fase, Compensa, Adelante, Final
  <1>3. FasesCerradas' /\ FasesDeOrden'
    BY DEF InvInductivo, Soltar, TypeOK, FasesCerradas, FasesDeOrden, Sigue, Quieto, Pasa, Responde, Fase, Compensa, Adelante, Final
  <1>4. AvanceExacto' /\ RetrocesoExacto'
    BY DEF InvInductivo, Soltar, TypeOK, AvanceExacto, RetrocesoExacto, FasesDeOrden, En, Uniforme, ContenedoresEn, Sigue, Quieto, Pasa, Responde, Fase, Compensa, Adelante, Final
  <1>5. ContenedoresExactos'
    BY DEF InvInductivo, Soltar, TypeOK, ContenedoresExactos, FasesDeOrden, AvanceExacto, RetrocesoExacto, En, Uniforme, Presentes, ContenedoresEn, Servicios, Sigue, Quieto, Pasa, Responde, Fase, Compensa, Adelante, Final
  <1> QED BY <1>1, <1>2, <1>3, <1>4, <1>5 DEF InvInductivo

LEMMA PasoLeerCandado ==
  ASSUME InvInductivo, LeerCandado
  PROVE  InvInductivo'
  <1> USE DEF Gen, Parte, Muta, Otra, Hacia, Orden
  <1>1. TypeOK'
    BY DEF InvInductivo, LeerCandado, TypeOK, Servicios, Respuesta, Sigue, Quieto, Pasa, Responde, Fase, Compensa, Adelante, Final
  <1>2. PublicoCoherente' /\ RespuestaVeraz'
    BY DEF InvInductivo, LeerCandado, TypeOK, PublicoCoherente, RespuestaVeraz, FasesCerradas, FasesDeOrden, AvanceExacto, RetrocesoExacto, ContenedoresExactos, Uniforme, En, ContenedoresEn, Presentes, Sigue, Quieto, Pasa, Responde, Fase, Compensa, Adelante, Final
  <1>3. FasesCerradas' /\ FasesDeOrden'
    BY DEF InvInductivo, LeerCandado, TypeOK, FasesCerradas, FasesDeOrden, Sigue, Quieto, Pasa, Responde, Fase, Compensa, Adelante, Final
  <1>4. AvanceExacto' /\ RetrocesoExacto'
    BY DEF InvInductivo, LeerCandado, TypeOK, AvanceExacto, RetrocesoExacto, FasesDeOrden, En, Uniforme, ContenedoresEn, Sigue, Quieto, Pasa, Responde, Fase, Compensa, Adelante, Final
  <1>5. ContenedoresExactos'
    BY DEF InvInductivo, LeerCandado, TypeOK, ContenedoresExactos, FasesDeOrden, AvanceExacto, RetrocesoExacto, En, Uniforme, Presentes, ContenedoresEn, Servicios, Sigue, Quieto, Pasa, Responde, Fase, Compensa, Adelante, Final
  <1> QED BY <1>1, <1>2, <1>3, <1>4, <1>5 DEF InvInductivo

LEMMA PasoPublico ==
  ASSUME InvInductivo, Publico
  PROVE  InvInductivo'
  <1> USE DEF Gen, Parte, Muta, Otra, Hacia, Orden
  <1>1. TypeOK'
    BY DEF InvInductivo, Publico, TypeOK, Servicios, Respuesta, Sigue, Quieto, Pasa, Responde, Fase, Compensa, Adelante, Final
  <1>2. PublicoCoherente' /\ RespuestaVeraz'
    BY DEF InvInductivo, Publico, TypeOK, PublicoCoherente, RespuestaVeraz, FasesCerradas, FasesDeOrden, AvanceExacto, RetrocesoExacto, ContenedoresExactos, Uniforme, En, ContenedoresEn, Presentes, Sigue, Quieto, Pasa, Responde, Fase, Compensa, Adelante, Final
  <1>3. FasesCerradas' /\ FasesDeOrden'
    BY DEF InvInductivo, Publico, TypeOK, FasesCerradas, FasesDeOrden, Sigue, Quieto, Pasa, Responde, Fase, Compensa, Adelante, Final
  <1>4. AvanceExacto' /\ RetrocesoExacto'
    BY DEF InvInductivo, Publico, TypeOK, AvanceExacto, RetrocesoExacto, FasesDeOrden, En, Uniforme, ContenedoresEn, Sigue, Quieto, Pasa, Responde, Fase, Compensa, Adelante, Final
  <1>5. ContenedoresExactos'
    BY DEF InvInductivo, Publico, TypeOK, ContenedoresExactos, FasesDeOrden, AvanceExacto, RetrocesoExacto, En, Uniforme, Presentes, ContenedoresEn, Servicios, Sigue, Quieto, Pasa, Responde, Fase, Compensa, Adelante, Final
  <1> QED BY <1>1, <1>2, <1>3, <1>4, <1>5 DEF InvInductivo

LEMMA PasoCaer ==
  ASSUME InvInductivo, Caer
  PROVE  InvInductivo'
  <1> USE DEF Gen, Parte, Muta, Otra, Hacia, Orden
  <1>1. TypeOK'
    BY DEF InvInductivo, Caer, TypeOK, Servicios, Respuesta, Sigue, Quieto, Pasa, Responde, Fase, Compensa, Adelante, Final
  <1>2. PublicoCoherente' /\ RespuestaVeraz'
    BY DEF InvInductivo, Caer, TypeOK, PublicoCoherente, RespuestaVeraz, FasesCerradas, FasesDeOrden, AvanceExacto, RetrocesoExacto, ContenedoresExactos, Uniforme, En, ContenedoresEn, Presentes, Sigue, Quieto, Pasa, Responde, Fase, Compensa, Adelante, Final
  <1>3. FasesCerradas' /\ FasesDeOrden'
    BY DEF InvInductivo, Caer, TypeOK, FasesCerradas, FasesDeOrden, Sigue, Quieto, Pasa, Responde, Fase, Compensa, Adelante, Final
  <1>4. AvanceExacto' /\ RetrocesoExacto'
    BY DEF InvInductivo, Caer, TypeOK, AvanceExacto, RetrocesoExacto, FasesDeOrden, En, Uniforme, ContenedoresEn, Sigue, Quieto, Pasa, Responde, Fase, Compensa, Adelante, Final
  <1>5. ContenedoresExactos'
    BY DEF InvInductivo, Caer, TypeOK, ContenedoresExactos, FasesDeOrden, AvanceExacto, RetrocesoExacto, En, Uniforme, Presentes, ContenedoresEn, Servicios, Sigue, Quieto, Pasa, Responde, Fase, Compensa, Adelante, Final
  <1> QED BY <1>1, <1>2, <1>3, <1>4, <1>5 DEF InvInductivo

LEMMA PasoLanzar ==
  ASSUME InvInductivo, NEW o \in Orden, Lanzar(o)
  PROVE  InvInductivo'
  <1> USE DEF Gen, Parte, Muta, Otra, Hacia, Orden
  <1>1. TypeOK'
    <2>1. 1 \in 1 .. NumServicios + 1
      BY NumServiciosAssumption
    <2>2. /\ orden' \in Orden /\ fase' \in Fase /\ intentos' \in SUBSET Muta
          /\ meta' \in Gen /\ respuesta' \in Respuesta
      BY DEF Lanzar, Responde, Respuesta, Fase
    <2>3. candado' \in BOOLEAN
      BY DEF Lanzar, InvInductivo, TypeOK
    <2> QED BY <2>1, <2>2, <2>3 DEF InvInductivo, Lanzar, TypeOK
  <1>2. PublicoCoherente'
    BY DEF InvInductivo, Lanzar, TypeOK, Responde, PublicoCoherente, Uniforme, En, ContenedoresEn
  <1>3. RespuestaVeraz' /\ FasesCerradas' /\ FasesDeOrden'
    BY DEF InvInductivo, Lanzar, TypeOK, Responde, RespuestaVeraz, FasesCerradas, FasesDeOrden,
           Fase, Compensa, Adelante, Final
  <1>4. AvanceExacto' /\ RetrocesoExacto' /\ ContenedoresExactos'
    BY DEF InvInductivo, Lanzar, TypeOK, Responde, AvanceExacto, RetrocesoExacto,
           ContenedoresExactos, Fase, Compensa, Adelante, Final
  <1> QED BY <1>1, <1>2, <1>3, <1>4 DEF InvInductivo

\* A process that dies leaves everything as it was.
LEMMA Quedarse ==
  ASSUME InvInductivo, UNCHANGED vars
  PROVE  InvInductivo'
  BY DEF InvInductivo, vars, TypeOK, PublicoCoherente, RespuestaVeraz, FasesCerradas,
         FasesDeOrden, AvanceExacto, RetrocesoExacto, ContenedoresExactos, Uniforme, En,
         ContenedoresEn, Presentes, Hacia, Otra

LEMMA Inicio == Init => InvInductivo
  <1> SUFFICES ASSUME Init PROVE InvInductivo
    OBVIOUS
  <1> USE DEF Init, Gen, Parte, Muta, Otra, Hacia, Orden
  <1>1. TypeOK
    <2>1. 1 \in 1 .. NumServicios + 1
      BY NumServiciosAssumption
    <2> QED BY <2>1 DEF TypeOK, Fase, Respuesta
  <1>2. PublicoCoherente /\ RespuestaVeraz
    BY DEF PublicoCoherente, RespuestaVeraz, Uniforme, En, ContenedoresEn
  <1>3. FasesCerradas /\ FasesDeOrden /\ AvanceExacto /\ RetrocesoExacto /\ ContenedoresExactos
    BY DEF FasesCerradas, FasesDeOrden, AvanceExacto, RetrocesoExacto, ContenedoresExactos,
           Adelante, Compensa, Final
  <1> QED BY <1>1, <1>2, <1>3 DEF InvInductivo

\* InvInductivo holds in every reachable state: the phases of a command know where
\* each place of the password is (executePostgresPasswordRotation).
THEOREM Invariante == Spec => []InvInductivo
  <1>1. ASSUME InvInductivo, [Next]_vars PROVE InvInductivo'
    BY <1>1, PasoLanzar, PasoPrevio, PasoPrevioFalla, PasoPrevioSoltar, PasoCerrar, PasoMutar,
       PasoVerificar, PasoCompensar, PasoCompensado, PasoPuntero, PasoLeerPuntero, PasoReleer,
       PasoRecrear, PasoRecreados, PasoAceptar, PasoAbrir, PasoRecerrar, PasoAbrirFinal,
       PasoSoltar, PasoLeerCandado, PasoPublico, PasoCaer, Quedarse
       DEF Next, Paso
  <1> QED BY <1>1, Inicio, PTL DEF Spec

\* The public entry never answers with the password of two generations, and is open
\* whenever no command holds the lock.
THEOREM EntradaCoherente == Spec => []PublicoCoherente
  BY Invariante, PTL DEF InvInductivo

\* The answer of a command says what the installation was left with.
THEOREM RespondeLaVerdad == Spec => []RespuestaVeraz
  BY Invariante, PTL DEF InvInductivo

\* After an answer that leaves the entry closed, or the lock on the target, the
\* command that continues is admitted.
THEOREM Continua == Spec => []SiguienteAdmitida
  <1>1. InvInductivo => SiguienteAdmitida
    BY DEF InvInductivo, TypeOK, RespuestaVeraz, SiguienteAdmitida, Admite, Uniforme, En,
           ContenedoresEn, RolesEn, SupavisorEn, Gen, Parte, Servicios, Db, Supavisor
  <1> QED BY <1>1, Invariante, PTL

\* The pointer moves in one step of the commands.
LEMMA SoloPuntero ==
  ASSUME InvInductivo, Next, material'["puntero"] # material["puntero"]
  PROVE  Puntero
  <1>1. material \in [Parte -> Gen]
    BY DEF InvInductivo, TypeOK
  <1>2. \A p \in Muta : \A g : material' # [material EXCEPT ![p] = g]
    BY <1>1 DEF Muta, Parte
  <1>3. \A f \in Compensa \ {"c_fin"} : ParteDe[f] \in Muta
    BY DEF ParteDe, Muta, Compensa
  <1>4. material' # material
    OBVIOUS
  <1>5. ~Mutar
    BY <1>2, <1>4 DEF Mutar, Escribe, Dudosa
  <1>6. ~Compensar
    BY <1>2, <1>3, <1>4 DEF Compensar, Escribe, Dudosa
  <1> QED
    BY <1>4, <1>5, <1>6 DEF Next, Paso, Lanzar, Previo, PrevioFalla, PrevioSoltar, Cerrar,
       Verificar, Compensado, LeerPuntero, Releer, Recrear, Recreados, Aceptar, Abrir,
       Recerrar, AbrirFinal, Soltar, LeerCandado, Publico, Caer, Quieto

LEMMA PasoDelCompromiso ==
  ASSUME InvInductivo, Next, material'["puntero"] # material["puntero"]
  PROVE  ~abierto /\ candado /\ En(material'["puntero"], Muta) /\ UNCHANGED abierto
  <1>1. material \in [Parte -> Gen]
    BY DEF InvInductivo, TypeOK
  <1> QED
    BY <1>1, SoloPuntero DEF InvInductivo, Puntero, Escribe, Dudosa, FasesCerradas,
       FasesDeOrden, AvanceExacto, Adelante, Compensa, En, Muta, Parte, Fase

\* The pointer moves only behind a closed entry, with the rest already there
\* (orchestratePostgresPasswordCutover and its rollback).
THEOREM Compromiso == Spec => PunteroEsCompromiso
  BY Invariante, PasoDelCompromiso, PTL DEF Spec, PunteroEsCompromiso, vars

\* A container is recreated only after the commit, with the password in force.
THEOREM ContenedoresSiguen == Spec => ContenedorTrasCompromiso
  <1>1. ASSUME InvInductivo, Next, NEW s \in Servicios, contenedor'[s] # contenedor[s]
        PROVE  ~abierto /\ contenedor'[s] \in {"ausente", material["puntero"]}
    <2>1. Recrear
      BY <1>1 DEF Next, Paso, Lanzar, Previo, PrevioFalla, PrevioSoltar, Cerrar, Mutar,
         Verificar, Compensar, Compensado, Puntero, LeerPuntero, Releer, Recreados, Aceptar,
         Abrir, Recerrar, AbrirFinal, Soltar, LeerCandado, Publico, Caer, Quieto
    <2>2. ~abierto /\ material["env"] = material["puntero"]
      BY <1>1, <2>1 DEF InvInductivo, Recrear, FasesCerradas, AvanceExacto, En, Parte
    <2>3. contenedor \in [Servicios -> Gen \cup {"ausente"}]
      BY <1>1 DEF InvInductivo, TypeOK
    <2> QED BY <1>1, <2>1, <2>2, <2>3 DEF Recrear
  <1>2. ASSUME InvInductivo, [Next]_vars
        PROVE  [\A s \in Servicios : contenedor'[s] # contenedor[s] =>
                  ~abierto /\ contenedor'[s] \in {"ausente", material["puntero"]}]_vars
    BY <1>1, <1>2
  <1> QED BY <1>2, Invariante, PTL DEF Spec, ContenedorTrasCompromiso

\* Seen from the public address the rotation is one change of generation, made while
\* the service is closed: it implements PublicacionClave.
THEOREM Implementa == Spec => PublicaUnaSola
  <1>1. ASSUME InvInductivo
        PROVE  /\ material["puntero"] \in Gen
               /\ abierto \in BOOLEAN
               /\ abierto => Uniforme(material["puntero"])
    BY <1>1 DEF InvInductivo, TypeOK, PublicoCoherente, Uniforme, En, Parte
  <1>2. Init => P!Init
    <2> SUFFICES ASSUME Init PROVE P!Init
      OBVIOUS
    <2>1. abierto /\ Uniforme(material["puntero"]) /\ material["puntero"] \in Gen
      BY DEF Init, Uniforme, En, ContenedoresEn, Parte, Gen
    <2> QED BY <2>1 DEF P!Init
  <1>3. ASSUME InvInductivo, InvInductivo', [Next]_vars
        PROVE  [P!Next]_<<material["puntero"],
                          IF abierto THEN IF Uniforme(material["puntero"])
                                          THEN material["puntero"] ELSE "mezcla"
                                     ELSE "cerrado">>
    <2>0. abierto' \in BOOLEAN /\ (abierto' => Uniforme(material["puntero"])')
      BY <1>3 DEF InvInductivo, TypeOK, PublicoCoherente, Uniforme, En, Parte
    <2>1. CASE UNCHANGED vars
      BY <2>1 DEF vars, Uniforme, En, ContenedoresEn
    <2>2. CASE Next /\ material'["puntero"] # material["puntero"]
      <3>1. ~abierto /\ ~abierto'
        BY <1>3, <2>2, PasoDelCompromiso
      <3>2. material'["puntero"] \in Gen
        BY <1>3 DEF InvInductivo, TypeOK, Parte
      <3> QED BY <3>1, <3>2 DEF P!Next, P!Cambiar
    <2>3. CASE material'["puntero"] = material["puntero"] /\ abierto'
      BY <2>0, <2>3 DEF P!Next, P!Abrir
    <2>4. CASE material'["puntero"] = material["puntero"] /\ ~abierto'
      BY <2>0, <2>4 DEF P!Next, P!Cerrar
    <2> QED BY <1>3, <2>1, <2>2, <2>3, <2>4
  <1> QED BY <1>2, <1>3, Invariante, PTL DEF Spec, PublicaUnaSola, P!Spec
=============================================================================
