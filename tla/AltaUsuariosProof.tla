-------------------------- MODULE AltaUsuariosProof --------------------------
(***************************************************************************)
(* What AltaUsuarios promises, for any number of calls and any limits.     *)
(* The limits hold because whoever inserts an attempt at now() = n counts, *)
(* under the lock, all those created at n - V or later, also the ones that *)
(* come after n: every window of length V that contains n is among them.   *)
(***************************************************************************)
EXTENDS AltaUsuarios, FiniteSetTheorems, TLAPS

LEMMA TrasIr ==
    ASSUME TypeOK, NEW p \in Peticiones, NEW f \in Fase, Ir(p, f)
    PROVE  /\ proc' \in [Peticiones -> Proc]
           /\ proc'[p].fase = f /\ proc'[p].cierre = proc[p].cierre
           /\ proc'[p].error = proc[p].error /\ proc'[p].resp = proc[p].resp
           /\ proc'[p].solo = proc[p].solo
           /\ \A q \in Peticiones \ {p} : proc'[q] = proc[q]
  BY DEF TypeOK, Ir, Proc

LEMMA TrasACerrar ==
    ASSUME TypeOK, NEW p \in Peticiones, NEW c \in Terminal, NEW e \in Error, ACerrar(p, c, e)
    PROVE  /\ proc' \in [Peticiones -> Proc]
           /\ proc'[p].fase = "cerrar" /\ proc'[p].cierre = c
           /\ proc'[p].error = e /\ proc'[p].resp = proc[p].resp
           /\ proc'[p].solo = proc[p].solo
           /\ \A q \in Peticiones \ {p} : proc'[q] = proc[q]
  BY ZenonT(60) DEF TypeOK, ACerrar, Proc, Fase

LEMMA TrasResponder ==
    ASSUME TypeOK, NEW p \in Peticiones, NEW r \in {"ninguna", "exito", "limite", "fallo"},
           Responder(p, r)
    PROVE  /\ proc' \in [Peticiones -> Proc]
           /\ proc'[p].fase = "fin" /\ proc'[p].resp = r /\ proc'[p].solo = FALSE
           /\ \A q \in Peticiones \ {p} : proc'[q] = proc[q]
<1> DEFINE nuevo == [proc[p] EXCEPT !.fase = "fin", !.ahora = 0, !.cierre = "failed",
                                   !.error = "ninguno", !.solo = FALSE, !.resp = r]
<1>1. proc[p] \in Proc /\ proc' = [proc EXCEPT ![p] = nuevo]
  BY DEF TypeOK, Responder
<1>2. /\ "fin" \in Fase /\ "failed" \in Terminal /\ "ninguno" \in Error
      /\ r \in {"ninguna", "exito", "limite", "fallo"} /\ 0 \in Nat /\ FALSE \in BOOLEAN
  BY DEF Fase, Terminal, Error
<1>3. nuevo \in Proc /\ nuevo.fase = "fin" /\ nuevo.resp = r /\ nuevo.solo = FALSE
  BY <1>1, <1>2 DEF Proc
<1> HIDE DEF nuevo
<1> QED BY <1>1, <1>3 DEF TypeOK

LEMMA TrasDejar ==
    ASSUME TypeOK, NEW p \in Peticiones, NEW r \in {"ninguna", "exito", "limite", "fallo"},
           Dejar(p, r)
    PROVE  /\ proc' \in [Peticiones -> Proc]
           /\ proc'[p].fase = proc[p].fase /\ proc'[p].cierre = proc[p].cierre
           /\ proc'[p].error = proc[p].error /\ proc'[p].resp = r
           /\ proc'[p].solo = TRUE /\ proc[p].solo = FALSE
           /\ \A q \in Peticiones \ {p} : proc'[q] = proc[q]
<1> DEFINE nuevo == [proc[p] EXCEPT !.solo = TRUE, !.resp = r]
<1>1. proc[p] \in Proc /\ proc' = [proc EXCEPT ![p] = nuevo] /\ ~proc[p].solo
  BY DEF TypeOK, Dejar
<1>2. /\ nuevo \in Proc /\ nuevo.fase = proc[p].fase /\ nuevo.cierre = proc[p].cierre
      /\ nuevo.error = proc[p].error /\ nuevo.resp = r /\ nuevo.solo = TRUE
      /\ proc[p].solo = FALSE
  BY <1>1 DEF Proc
<1> HIDE DEF nuevo
<1> QED BY <1>1, <1>2 DEF TypeOK

\* What a caller hears is an answer.
LEMMA TipoOida ==
    ASSUME TypeOK, NEW p \in Peticiones, NEW r \in {"ninguna", "exito", "limite", "fallo"}
    PROVE  Oida(p, r) \in {"ninguna", "exito", "limite", "fallo"}
  BY DEF TypeOK, Proc, Oida

LEMMA TipoCuenta ==
    ASSUME NEW e \in {"no", "viva", "borrada"}, NEW i \in BOOLEAN
    PROVE  [estado |-> e, intacta |-> i] \in Cuenta
  BY DEF Cuenta

\* A call of which nothing changes stays coherent.
LEMMA SigueCoherente ==
    ASSUME Coherente, NEW q \in Peticiones,
           proc'[q] = proc[q], intento'[q] = intento[q], cuenta'[q] = cuenta[q],
           q \in tarde' => q \in tarde, q \in bajas' => q \in bajas
    PROVE  CoherenteDe(q)'
  BY DEF Coherente, CoherenteDe, Anuncio

\* The windows only depend on who was counted, when and for whom.
LEMMA VentanasIguales ==
    ASSUME LimiteRespetado,
           \A q \in Peticiones : intento'[q].estado \in Contado =>
               /\ intento[q].estado \in Contado
               /\ intento'[q].creado = intento[q].creado
               /\ intento'[q].actor = intento[q].actor
    PROVE  LimiteRespetado'
<1> SUFFICES ASSUME NEW t \in 0..MaxTiempo
             PROVE  /\ \A a \in Admins :
                         Cardinality({p \in EnVentana(t, VentanaActor)' : intento'[p].actor = a})
                             <= LimiteActor
                    /\ Cardinality(EnVentana(t, VentanaGlobal)') <= LimiteGlobal
  BY DEF LimiteRespetado
<1>1. ASSUME NEW v PROVE EnVentana(t, v)' \subseteq EnVentana(t, v)
  BY DEF EnVentana
<1>2. ASSUME NEW v PROVE IsFiniteSet(EnVentana(t, v))
  <2>1. EnVentana(t, v) \subseteq Peticiones
    BY DEF EnVentana
  <2> QED BY <2>1, FS_Subset, ConjuntosAssumption
<1>3. ASSUME NEW a \in Admins
      PROVE  Cardinality({p \in EnVentana(t, VentanaActor)' : intento'[p].actor = a})
                 <= LimiteActor
  <2> DEFINE Antes == {p \in EnVentana(t, VentanaActor) : intento[p].actor = a}
             Ahora == {p \in EnVentana(t, VentanaActor)' : intento'[p].actor = a}
  <2>1. Ahora \subseteq Antes
    BY <1>1 DEF EnVentana
  <2>2. IsFiniteSet(Antes)
    <3>1. Antes \subseteq EnVentana(t, VentanaActor)
      OBVIOUS
    <3> QED BY <3>1, <1>2, FS_Subset
  <2>3. Cardinality(Antes) <= LimiteActor
    BY DEF LimiteRespetado
  <2> HIDE DEF Antes, Ahora
  <2>4. Cardinality(Ahora) <= Cardinality(Antes) /\ Cardinality(Antes) \in Nat /\ Cardinality(Ahora) \in Nat
    BY <2>1, <2>2, FS_Subset, FS_CardinalityType
  <2>5. Cardinality(Ahora) <= LimiteActor
    BY <2>3, <2>4, LimitesAssumption
  <2> QED BY <2>5 DEF Ahora
<1>4. Cardinality(EnVentana(t, VentanaGlobal)') <= LimiteGlobal
  <2> DEFINE Antes == EnVentana(t, VentanaGlobal)
             Ahora == EnVentana(t, VentanaGlobal)'
  <2>1. Ahora \subseteq Antes /\ IsFiniteSet(Antes)
    BY <1>1, <1>2
  <2>2. Cardinality(Antes) <= LimiteGlobal
    BY DEF LimiteRespetado
  <2> HIDE DEF Antes, Ahora
  <2>3. Cardinality(Ahora) <= Cardinality(Antes) /\ Cardinality(Antes) \in Nat /\ Cardinality(Ahora) \in Nat
    BY <2>1, FS_Subset, FS_CardinalityType
  <2>4. Cardinality(Ahora) <= LimiteGlobal
    BY <2>2, <2>3, LimitesAssumption
  <2> QED BY <2>4 DEF Ahora
<1> QED BY <1>3, <1>4

LEMMA IniciaBien == Init => InvInductivo
<1> SUFFICES ASSUME Init PROVE InvInductivo
  OBVIOUS
<1>1. TypeOK
  BY DEF Init, TypeOK, Intento, Error, Contado, Terminal, Cuenta, Proc, Fase
<1>2. Coherente
  BY DEF Init, Coherente, CoherenteDe
<1>3. ASSUME NEW t, NEW v PROVE EnVentana(t, v) = {}
  BY DEF Init, EnVentana, Contado, Terminal
<1>4. LimiteRespetado
  <2>1. \A a \in Admins : {p \in {} : intento[p].actor = a} = {}
    OBVIOUS
  <2> QED BY <1>3, <2>1, FS_EmptySet, LimitesAssumption DEF LimiteRespetado
<1> QED BY <1>1, <1>2, <1>4 DEF InvInductivo

LEMMA PasoEmpezar ==
    ASSUME InvInductivo, NEW p \in Peticiones, Empezar(p) PROVE InvInductivo'
<1>0. /\ TypeOK /\ Coherente /\ LimiteRespetado /\ CoherenteDe(p)
      /\ intento[p] \in Intento /\ cuenta[p] \in Cuenta /\ proc[p] \in Proc
  BY DEF InvInductivo, TypeOK, Coherente
<1>a. /\ proc' \in [Peticiones -> Proc]
      /\ proc'[p].fase = "inicio" /\ proc'[p].resp = proc[p].resp /\ proc'[p].solo = proc[p].solo
      /\ \A q \in Peticiones \ {p} : proc'[q] = proc[q]
  <2>1. PICK a \in Admins, c \in Correos :
           proc' = [proc EXCEPT ![p] = [proc[p] EXCEPT
                      !.fase = "inicio", !.actor = a, !.correo = c]]
    BY DEF Empezar
  <2> QED BY <1>0, <2>1 DEF TypeOK, Proc, Fase
<1>1. TypeOK'
  BY <1>0, <1>a DEF TypeOK, Empezar
<1>2. ASSUME NEW q \in Peticiones PROVE CoherenteDe(q)'
  <2>1. CASE q # p
    BY <1>0, <1>a, <2>1, SigueCoherente DEF Empezar, TypeOK
  <2>2. CASE q = p
    BY <1>0, <1>a, <2>2 DEF CoherenteDe, Anuncio, Empezar
  <2> QED BY <2>1, <2>2
<1>3. LimiteRespetado'
  BY <1>0, VentanasIguales DEF Empezar
<1> QED BY <1>1, <1>2, <1>3 DEF InvInductivo, Coherente

LEMMA PasoAutorizarInicio ==
    ASSUME InvInductivo, NEW p \in Peticiones, AutorizarInicio(p) PROVE InvInductivo'
<1>0. /\ TypeOK /\ Coherente /\ LimiteRespetado /\ CoherenteDe(p)
      /\ intento[p] \in Intento /\ cuenta[p] \in Cuenta /\ proc[p] \in Proc
  BY DEF InvInductivo, TypeOK, Coherente
<1>a. /\ proc' \in [Peticiones -> Proc]
      /\ proc'[p].fase = "espera" /\ proc'[p].resp = proc[p].resp /\ proc'[p].solo = proc[p].solo
      /\ \A q \in Peticiones \ {p} : proc'[q] = proc[q]
  BY <1>0 DEF AutorizarInicio, TypeOK, Proc, Fase
<1>1. TypeOK'
  BY <1>0, <1>a DEF TypeOK, AutorizarInicio
<1>2. ASSUME NEW q \in Peticiones PROVE CoherenteDe(q)'
  <2>1. CASE q # p
    BY <1>0, <1>a, <2>1, SigueCoherente DEF AutorizarInicio, TypeOK
  <2>2. CASE q = p
    BY <1>0, <1>a, <2>2 DEF CoherenteDe, Anuncio, AutorizarInicio
  <2> QED BY <2>1, <2>2
<1>3. LimiteRespetado'
  BY <1>0, VentanasIguales DEF AutorizarInicio
<1> QED BY <1>1, <1>2, <1>3 DEF InvInductivo, Coherente

LEMMA PasoRechazarInicio ==
    ASSUME InvInductivo, NEW p \in Peticiones, RechazarInicio(p) PROVE InvInductivo'
<1>0. /\ TypeOK /\ Coherente /\ LimiteRespetado /\ CoherenteDe(p)
      /\ intento[p] \in Intento /\ cuenta[p] \in Cuenta /\ proc[p] \in Proc
  BY DEF InvInductivo, TypeOK, Coherente
<1>a. /\ proc' \in [Peticiones -> Proc]
      /\ proc'[p].fase = "fin" /\ proc'[p].resp = Oida(p, "fallo") /\ proc'[p].solo = FALSE
      /\ \A q \in Peticiones \ {p} : proc'[q] = proc[q]
  BY <1>0, TipoOida, TrasResponder DEF RechazarInicio
<1>1. TypeOK'
  BY <1>0, <1>a DEF TypeOK, RechazarInicio
<1>2. ASSUME NEW q \in Peticiones PROVE CoherenteDe(q)'
  <2>1. CASE q # p
    BY <1>0, <1>a, <2>1, SigueCoherente DEF RechazarInicio, TypeOK
  <2>2. CASE q = p
    BY <1>0, <1>a, <2>2 DEF CoherenteDe, Anuncio, Oida, RechazarInicio
  <2> QED BY <2>1, <2>2
<1>3. LimiteRespetado'
  BY <1>0, VentanasIguales DEF RechazarInicio
<1> QED BY <1>1, <1>2, <1>3 DEF InvInductivo, Coherente

LEMMA PasoPerderInicio ==
    ASSUME InvInductivo, NEW p \in Peticiones, PerderInicio(p) PROVE InvInductivo'
<1>0. /\ TypeOK /\ Coherente /\ LimiteRespetado /\ CoherenteDe(p)
      /\ intento[p] \in Intento /\ cuenta[p] \in Cuenta /\ proc[p] \in Proc
  BY DEF InvInductivo, TypeOK, Coherente
<1>a. /\ proc' \in [Peticiones -> Proc]
      /\ proc'[p].fase = proc[p].fase /\ proc'[p].cierre = proc[p].cierre
      /\ proc'[p].error = proc[p].error /\ proc'[p].solo = TRUE /\ proc[p].solo = FALSE
      /\ proc'[p].resp = "fallo"
      /\ \A q \in Peticiones \ {p} : proc'[q] = proc[q]
  BY <1>0, TrasDejar DEF PerderInicio
<1>1. TypeOK'
  BY <1>0, <1>a DEF TypeOK, PerderInicio
<1>2. ASSUME NEW q \in Peticiones PROVE CoherenteDe(q)'
  <2>1. CASE q # p
    BY <1>0, <1>a, <2>1, SigueCoherente DEF PerderInicio, TypeOK
  <2>2. CASE q = p
    BY <1>0, <1>a, <2>2 DEF CoherenteDe, Anuncio, PerderInicio
  <2> QED BY <2>1, <2>2
<1>3. LimiteRespetado'
  BY <1>0, VentanasIguales DEF PerderInicio
<1> QED BY <1>1, <1>2, <1>3 DEF InvInductivo, Coherente

LEMMA PasoSinConfiguracion ==
    ASSUME InvInductivo, NEW p \in Peticiones, SinConfiguracion(p) PROVE InvInductivo'
<1>0. /\ TypeOK /\ Coherente /\ LimiteRespetado /\ CoherenteDe(p)
      /\ intento[p] \in Intento /\ cuenta[p] \in Cuenta /\ proc[p] \in Proc
  BY DEF InvInductivo, TypeOK, Coherente
<1>a. /\ proc' \in [Peticiones -> Proc]
      /\ proc'[p].fase = "cerrar" /\ proc'[p].resp = proc[p].resp /\ proc'[p].solo = proc[p].solo
      /\ proc'[p].cierre = "failed" /\ proc'[p].error = "configuration_error"
      /\ \A q \in Peticiones \ {p} : proc'[q] = proc[q]
  BY <1>0, TrasACerrar DEF SinConfiguracion, Terminal, Error
<1>1. TypeOK'
  BY <1>0, <1>a DEF TypeOK, SinConfiguracion
<1>2. ASSUME NEW q \in Peticiones PROVE CoherenteDe(q)'
  <2>1. CASE q # p
    BY <1>0, <1>a, <2>1, SigueCoherente DEF SinConfiguracion, TypeOK
  <2>2. CASE q = p
    BY <1>0, <1>a, <2>2 DEF CoherenteDe, Anuncio, SinConfiguracion
  <2> QED BY <2>1, <2>2
<1>3. LimiteRespetado'
  BY <1>0, VentanasIguales DEF SinConfiguracion
<1> QED BY <1>1, <1>2, <1>3 DEF InvInductivo, Coherente

LEMMA PasoCrear ==
    ASSUME InvInductivo, NEW p \in Peticiones, Crear(p) PROVE InvInductivo'
<1>0. /\ TypeOK /\ Coherente /\ LimiteRespetado /\ CoherenteDe(p)
      /\ intento[p] \in Intento /\ cuenta[p] \in Cuenta /\ proc[p] \in Proc
  BY DEF InvInductivo, TypeOK, Coherente
<1>a. /\ proc' \in [Peticiones -> Proc]
      /\ proc'[p].fase = "verificar" /\ proc'[p].resp = proc[p].resp /\ proc'[p].solo = proc[p].solo
      /\ cuenta' \in [Peticiones -> Cuenta] /\ cuenta'[p].estado = "viva"
      /\ \A q \in Peticiones \ {p} : cuenta'[q] = cuenta[q]
      /\ \A q \in Peticiones \ {p} : proc'[q] = proc[q]
  BY <1>0, TrasIr, TipoCuenta DEF Crear, Provisiona, Fase, TypeOK, Cuenta
<1>1. TypeOK'
  BY <1>0, <1>a DEF TypeOK, Crear
<1>2. ASSUME NEW q \in Peticiones PROVE CoherenteDe(q)'
  <2>1. CASE q # p
    BY <1>0, <1>a, <2>1, SigueCoherente DEF Crear, TypeOK
  <2>2. CASE q = p
    BY <1>0, <1>a, <2>2 DEF CoherenteDe, Anuncio, Crear
  <2> QED BY <2>1, <2>2
<1>3. LimiteRespetado'
  BY <1>0, VentanasIguales DEF Crear
<1> QED BY <1>1, <1>2, <1>3 DEF InvInductivo, Coherente

LEMMA PasoAuthRechaza ==
    ASSUME InvInductivo, NEW p \in Peticiones, AuthRechaza(p) PROVE InvInductivo'
<1>0. /\ TypeOK /\ Coherente /\ LimiteRespetado /\ CoherenteDe(p)
      /\ intento[p] \in Intento /\ cuenta[p] \in Cuenta /\ proc[p] \in Proc
  BY DEF InvInductivo, TypeOK, Coherente
<1>a. /\ proc' \in [Peticiones -> Proc]
      /\ proc'[p].fase = "cerrar" /\ proc'[p].resp = proc[p].resp /\ proc'[p].solo = proc[p].solo
      /\ proc'[p].cierre = "failed" /\ proc'[p].error \in {"already_exists", "auth_error"}
      /\ \A q \in Peticiones \ {p} : proc'[q] = proc[q]
  BY <1>0, TrasACerrar DEF AuthRechaza, Terminal, Error
<1>1. TypeOK'
  BY <1>0, <1>a DEF TypeOK, AuthRechaza
<1>2. ASSUME NEW q \in Peticiones PROVE CoherenteDe(q)'
  <2>1. CASE q # p
    BY <1>0, <1>a, <2>1, SigueCoherente DEF AuthRechaza, TypeOK
  <2>2. CASE q = p
    BY <1>0, <1>a, <2>2 DEF CoherenteDe, Anuncio, AuthRechaza
  <2> QED BY <2>1, <2>2
<1>3. LimiteRespetado'
  BY <1>0, VentanasIguales DEF AuthRechaza
<1> QED BY <1>1, <1>2, <1>3 DEF InvInductivo, Coherente

LEMMA PasoAuthIncierta ==
    ASSUME InvInductivo, NEW p \in Peticiones, AuthIncierta(p) PROVE InvInductivo'
<1>0. /\ TypeOK /\ Coherente /\ LimiteRespetado /\ CoherenteDe(p)
      /\ intento[p] \in Intento /\ cuenta[p] \in Cuenta /\ proc[p] \in Proc
  BY DEF InvInductivo, TypeOK, Coherente
<1>a. /\ proc' \in [Peticiones -> Proc]
      /\ proc'[p].fase = "cerrar" /\ proc'[p].resp = proc[p].resp /\ proc'[p].solo = proc[p].solo
      /\ proc'[p].cierre = "failed" /\ proc'[p].error = "auth_error"
      /\ cuenta' \in [Peticiones -> Cuenta] /\ tarde' \in SUBSET Peticiones
      /\ tarde' \ {p} = tarde \ {p}
      /\ \A q \in Peticiones \ {p} : cuenta'[q] = cuenta[q]
      /\ \A q \in Peticiones \ {p} : proc'[q] = proc[q]
  <2>1. ACerrar(p, "failed", "auth_error")
    BY DEF AuthIncierta
  <2>2. CASE Provisiona(p) /\ UNCHANGED tarde
    BY <1>0, <2>1, <2>2, TrasACerrar, TipoCuenta DEF Provisiona, TypeOK, Terminal, Error
  <2>3. CASE UNCHANGED cuenta /\ tarde' = tarde \cup {p}
    BY <1>0, <2>1, <2>3, TrasACerrar DEF TypeOK, Terminal, Error
  <2> QED BY <2>2, <2>3 DEF AuthIncierta
<1>1. TypeOK'
  BY <1>0, <1>a DEF TypeOK, AuthIncierta
<1>2. ASSUME NEW q \in Peticiones PROVE CoherenteDe(q)'
  <2>1. CASE q # p
    BY <1>0, <1>a, <2>1, SigueCoherente DEF AuthIncierta, TypeOK
  <2>2. CASE q = p
    BY <1>0, <1>a, <2>2 DEF CoherenteDe, Anuncio, AuthIncierta, Terminal
  <2> QED BY <2>1, <2>2
<1>3. LimiteRespetado'
  BY <1>0, VentanasIguales DEF AuthIncierta
<1> QED BY <1>1, <1>2, <1>3 DEF InvInductivo, Coherente

LEMMA PasoVerificar ==
    ASSUME InvInductivo, NEW p \in Peticiones, Verificar(p) PROVE InvInductivo'
<1>0. /\ TypeOK /\ Coherente /\ LimiteRespetado /\ CoherenteDe(p)
      /\ intento[p] \in Intento /\ cuenta[p] \in Cuenta /\ proc[p] \in Proc
  BY DEF InvInductivo, TypeOK, Coherente
<1>a. /\ proc' \in [Peticiones -> Proc]
      /\ proc'[p].fase = "cerrar" /\ proc'[p].resp = proc[p].resp /\ proc'[p].solo = proc[p].solo
      /\ proc'[p].cierre = "succeeded" /\ proc'[p].error = "ninguno"
      /\ \A q \in Peticiones \ {p} : proc'[q] = proc[q]
  BY <1>0, TrasACerrar DEF Verificar, Terminal, Error
<1>1. TypeOK'
  BY <1>0, <1>a DEF TypeOK, Verificar
<1>2. ASSUME NEW q \in Peticiones PROVE CoherenteDe(q)'
  <2>1. CASE q # p
    BY <1>0, <1>a, <2>1, SigueCoherente DEF Verificar, TypeOK
  <2>2. CASE q = p
    BY <1>0, <1>a, <2>2 DEF CoherenteDe, Anuncio, Verificar
  <2> QED BY <2>1, <2>2
<1>3. LimiteRespetado'
  BY <1>0, VentanasIguales DEF Verificar
<1> QED BY <1>1, <1>2, <1>3 DEF InvInductivo, Coherente

LEMMA PasoNoVerifica ==
    ASSUME InvInductivo, NEW p \in Peticiones, NoVerifica(p) PROVE InvInductivo'
<1>0. /\ TypeOK /\ Coherente /\ LimiteRespetado /\ CoherenteDe(p)
      /\ intento[p] \in Intento /\ cuenta[p] \in Cuenta /\ proc[p] \in Proc
  BY DEF InvInductivo, TypeOK, Coherente
<1>a. /\ proc' \in [Peticiones -> Proc]
      /\ proc'[p].fase = "compensar" /\ proc'[p].resp = proc[p].resp
      /\ proc'[p].solo = proc[p].solo
      /\ \A q \in Peticiones \ {p} : proc'[q] = proc[q]
  BY <1>0, TrasIr DEF NoVerifica, Fase
<1>1. TypeOK'
  BY <1>0, <1>a DEF TypeOK, NoVerifica
<1>2. ASSUME NEW q \in Peticiones PROVE CoherenteDe(q)'
  <2>1. CASE q # p
    BY <1>0, <1>a, <2>1, SigueCoherente DEF NoVerifica, TypeOK
  <2>2. CASE q = p
    BY <1>0, <1>a, <2>2 DEF CoherenteDe, Anuncio, NoVerifica
  <2> QED BY <2>1, <2>2
<1>3. LimiteRespetado'
  BY <1>0, VentanasIguales DEF NoVerifica
<1> QED BY <1>1, <1>2, <1>3 DEF InvInductivo, Coherente

LEMMA PasoCompensar ==
    ASSUME InvInductivo, NEW p \in Peticiones, Compensar(p) PROVE InvInductivo'
<1>0. /\ TypeOK /\ Coherente /\ LimiteRespetado /\ CoherenteDe(p)
      /\ intento[p] \in Intento /\ cuenta[p] \in Cuenta /\ proc[p] \in Proc
  BY DEF InvInductivo, TypeOK, Coherente
<1>a. /\ proc' \in [Peticiones -> Proc]
      /\ proc'[p].fase = "cerrar" /\ proc'[p].resp = proc[p].resp /\ proc'[p].solo = proc[p].solo
      /\ cuenta' \in [Peticiones -> Cuenta]
      /\ \A q \in Peticiones \ {p} : cuenta'[q] = cuenta[q]
      /\ bajas' \in SUBSET Peticiones /\ bajas' \ {p} = bajas \ {p}
      /\ \/ /\ proc'[p].cierre = "failed" /\ proc'[p].error = "provisioning_error"
            /\ cuenta'[p].estado = "borrada" /\ bajas' = bajas
         \/ /\ proc'[p].cierre = "compensation_failed"
            /\ \/ cuenta'[p].estado = "borrada" /\ bajas' = bajas
               \/ cuenta' = cuenta
      /\ \A q \in Peticiones \ {p} : proc'[q] = proc[q]
  <2>1. CASE cuenta' = Borrada(p) /\ UNCHANGED bajas
    <3>1. /\ cuenta' \in [Peticiones -> Cuenta] /\ cuenta'[p].estado = "borrada"
          /\ \A q \in Peticiones \ {p} : cuenta'[q] = cuenta[q]
      BY <1>0, <2>1 DEF Borrada, TypeOK, Cuenta
    <3>2. \/ ACerrar(p, "failed", "provisioning_error")
          \/ ACerrar(p, "compensation_failed", "provisioning_compensation_failed")
      BY DEF Compensar
    <3> QED BY <1>0, <2>1, <3>1, <3>2, TrasACerrar DEF TypeOK, Terminal, Error
  <2>2. CASE /\ UNCHANGED cuenta /\ bajas' = bajas \cup {p}
             /\ ACerrar(p, "compensation_failed", "provisioning_compensation_failed")
    BY <1>0, <2>2, TrasACerrar DEF TypeOK, Terminal, Error
  <2> QED BY <2>1, <2>2 DEF Compensar
<1>1. TypeOK'
  BY <1>0, <1>a DEF TypeOK, Compensar
<1>2. ASSUME NEW q \in Peticiones PROVE CoherenteDe(q)'
  <2>1. CASE q # p
    BY <1>0, <1>a, <2>1, SigueCoherente DEF Compensar, TypeOK
  <2>2. CASE q = p
    BY <1>0, <1>a, <2>2 DEF CoherenteDe, Anuncio, Compensar
  <2> QED BY <2>1, <2>2
<1>3. LimiteRespetado'
  BY <1>0, VentanasIguales DEF Compensar
<1> QED BY <1>1, <1>2, <1>3 DEF InvInductivo, Coherente

LEMMA PasoBorrarTarde ==
    ASSUME InvInductivo, NEW p \in Peticiones, BorrarTarde(p) PROVE InvInductivo'
<1>0. TypeOK /\ Coherente /\ LimiteRespetado /\ CoherenteDe(p) /\ proc[p] \in Proc
  BY DEF InvInductivo, TypeOK, Coherente
<1>a. /\ cuenta' \in [Peticiones -> Cuenta] /\ cuenta'[p].estado = "borrada"
      /\ \A q \in Peticiones \ {p} : cuenta'[q] = cuenta[q]
  BY <1>0 DEF BorrarTarde, Borrada, TypeOK, Cuenta
<1>1. TypeOK'
  BY <1>0, <1>a DEF TypeOK, BorrarTarde
<1>2. ASSUME NEW q \in Peticiones PROVE CoherenteDe(q)'
  <2>1. CASE q # p
    BY <1>0, <1>a, <2>1, SigueCoherente DEF BorrarTarde
  <2>2. CASE q = p
    BY <1>0, <1>a, <2>2 DEF CoherenteDe, Anuncio, BorrarTarde
  <2> QED BY <2>1, <2>2
<1>3. LimiteRespetado'
  BY <1>0, VentanasIguales DEF BorrarTarde
<1> QED BY <1>1, <1>2, <1>3 DEF InvInductivo, Coherente

LEMMA PasoCerrar ==
    ASSUME InvInductivo, NEW p \in Peticiones, Cerrar(p) PROVE InvInductivo'
<1>0. /\ TypeOK /\ Coherente /\ LimiteRespetado /\ CoherenteDe(p)
      /\ intento[p] \in Intento /\ cuenta[p] \in Cuenta /\ proc[p] \in Proc
  BY DEF InvInductivo, TypeOK, Coherente
<1>a. /\ proc' \in [Peticiones -> Proc]
      /\ proc'[p].fase = "fin" /\ proc'[p].resp = Oida(p, Anuncio(p)) /\ proc'[p].solo = FALSE
      /\ intento' \in [Peticiones -> Intento]
      /\ intento'[p].estado = proc[p].cierre /\ intento'[p].error = proc[p].error
      /\ intento'[p].actor = intento[p].actor /\ intento'[p].creado = intento[p].creado
      /\ \A q \in Peticiones \ {p} : intento'[q] = intento[q]
      /\ \A q \in Peticiones \ {p} : proc'[q] = proc[q]
  <2>1. Anuncio(p) \in {"ninguna", "exito", "limite", "fallo"}
    BY DEF Anuncio
  <2>2. Responder(p, Oida(p, Anuncio(p))) /\ Oida(p, Anuncio(p)) \in {"ninguna", "exito", "limite", "fallo"}
    BY <1>0, <2>1, TipoOida DEF Cerrar
  <2>3. proc[p].cierre \in Terminal /\ proc[p].error \in Error
    BY <1>0 DEF Proc
  <2>4. /\ intento' \in [Peticiones -> Intento]
        /\ intento'[p].estado = proc[p].cierre /\ intento'[p].error = proc[p].error
        /\ intento'[p].actor = intento[p].actor /\ intento'[p].creado = intento[p].creado
        /\ \A q \in Peticiones \ {p} : intento'[q] = intento[q]
    BY <1>0, <2>3 DEF TypeOK, Intento, Contado, Cerrar
  <2> QED BY <1>0, <2>2, <2>4, TrasResponder
<1>1. TypeOK'
  BY <1>0, <1>a DEF TypeOK, Cerrar
<1>2. ASSUME NEW q \in Peticiones PROVE CoherenteDe(q)'
  <2>1. CASE q # p
    BY <1>0, <1>a, <2>1, SigueCoherente DEF Cerrar, TypeOK
  <2>2. CASE q = p
    <3>1. /\ proc[p].fase = "cerrar" /\ proc[p].cierre \in Terminal
          /\ UNCHANGED <<cuenta, tarde, bajas>>
      BY <1>0 DEF Cerrar, Proc
    <3>2. proc'[p].resp \in {"ninguna", Anuncio(p)}
      BY <1>0, <1>a, <3>1 DEF CoherenteDe, Oida
    <3> QED BY <1>0, <1>a, <2>2, <3>1, <3>2 DEF CoherenteDe, Anuncio, Terminal
  <2> QED BY <2>1, <2>2
<1>3. LimiteRespetado'
  <2>1. intento[p].estado = "pending"
    BY DEF Cerrar
  <2> QED BY <1>0, <1>a, <2>1, VentanasIguales DEF Contado
<1> QED BY <1>1, <1>2, <1>3 DEF InvInductivo, Coherente

LEMMA PasoPerderCierre ==
    ASSUME InvInductivo, NEW p \in Peticiones, PerderCierre(p) PROVE InvInductivo'
<1>0. /\ TypeOK /\ Coherente /\ LimiteRespetado /\ CoherenteDe(p)
      /\ intento[p] \in Intento /\ cuenta[p] \in Cuenta /\ proc[p] \in Proc
  BY DEF InvInductivo, TypeOK, Coherente
<1>a. /\ proc' \in [Peticiones -> Proc]
      /\ proc'[p].fase = proc[p].fase /\ proc'[p].cierre = proc[p].cierre
      /\ proc'[p].error = proc[p].error /\ proc'[p].solo = TRUE /\ proc[p].solo = FALSE
      /\ proc'[p].resp = Anuncio(p) /\ Anuncio(p) \in {"exito", "fallo"}
      /\ \A q \in Peticiones \ {p} : proc'[q] = proc[q]
  BY <1>0, TrasDejar DEF PerderCierre, Anuncio
<1>1. TypeOK'
  BY <1>0, <1>a DEF TypeOK, PerderCierre
<1>2. ASSUME NEW q \in Peticiones PROVE CoherenteDe(q)'
  <2>1. CASE q # p
    BY <1>0, <1>a, <2>1, SigueCoherente DEF PerderCierre, TypeOK
  <2>2. CASE q = p
    BY <1>0, <1>a, <2>2 DEF CoherenteDe, Anuncio, PerderCierre
  <2> QED BY <2>1, <2>2
<1>3. LimiteRespetado'
  BY <1>0, VentanasIguales DEF PerderCierre
<1> QED BY <1>1, <1>2, <1>3 DEF InvInductivo, Coherente

LEMMA PasoMorir ==
    ASSUME InvInductivo, NEW p \in Peticiones, Morir(p) PROVE InvInductivo'
<1>0. /\ TypeOK /\ Coherente /\ LimiteRespetado /\ CoherenteDe(p)
      /\ intento[p] \in Intento /\ cuenta[p] \in Cuenta /\ proc[p] \in Proc
  BY DEF InvInductivo, TypeOK, Coherente
<1>a. /\ proc' \in [Peticiones -> Proc] /\ proc'[p].resp = "ninguna"
      /\ \/ /\ proc[p].fase \in {"inicio", "espera", "cerrar"} /\ proc'[p].fase = proc[p].fase
            /\ proc'[p].cierre = proc[p].cierre /\ proc'[p].error = proc[p].error
            /\ proc'[p].solo = TRUE /\ UNCHANGED <<tarde, bajas>>
         \/ /\ proc[p].fase \in {"crear", "verificar", "compensar"}
            /\ proc'[p].fase = "fin" /\ proc'[p].solo = FALSE
            /\ tarde' = (IF proc[p].fase = "crear" THEN tarde \cup {p} ELSE tarde)
            /\ bajas' = (IF proc[p].fase = "compensar" THEN bajas \cup {p} ELSE bajas)
      /\ \A q \in Peticiones \ {p} : proc'[q] = proc[q]
  BY <1>0, TrasResponder, TrasDejar DEF Morir
<1>b. /\ UNCHANGED <<reloj, intento, cuenta>>
      /\ tarde' \in SUBSET Peticiones /\ tarde' \ {p} = tarde \ {p}
      /\ bajas' \in SUBSET Peticiones /\ bajas' \ {p} = bajas \ {p}
  BY <1>0, <1>a DEF Morir, TypeOK
<1>1. TypeOK'
  BY <1>0, <1>a, <1>b DEF TypeOK
<1>2. ASSUME NEW q \in Peticiones PROVE CoherenteDe(q)'
  <2>1. CASE q # p
    BY <1>0, <1>a, <1>b, <2>1, SigueCoherente DEF TypeOK
  <2>2. CASE q = p
    BY <1>0, <1>a, <1>b, <2>2 DEF CoherenteDe, Anuncio
  <2> QED BY <2>1, <2>2
<1>3. LimiteRespetado'
  BY <1>0, <1>b, VentanasIguales
<1> QED BY <1>1, <1>2, <1>3 DEF InvInductivo, Coherente

\* Who inserts an attempt counts every window that contains it.
LEMMA ReservarRespeta ==
    ASSUME TypeOK, LimiteRespetado, NEW p \in Peticiones, Reservar(p)
    PROVE  LimiteRespetado'
<1>0. /\ proc[p] \in Proc /\ proc[p].ahora \in Nat
      /\ \A q \in Peticiones : intento[q] \in Intento /\ intento[q].creado \in Nat
  BY DEF TypeOK, Proc, Intento
<1> DEFINE limitado == \/ Cardinality(DelActor(p)) >= LimiteActor
                       \/ Cardinality(DeTodos(p)) >= LimiteGlobal
           fila == [estado |-> IF limitado THEN "rate_limited" ELSE "pending",
                    error |-> "ninguno", actor |-> proc[p].actor, creado |-> proc[p].ahora]
<1>1. intento' = [intento EXCEPT ![p] = fila]
  BY DEF Reservar
<1>2. /\ limitado => fila.estado = "rate_limited"
      /\ fila.actor = proc[p].actor /\ fila.creado = proc[p].ahora
  <2> HIDE DEF limitado
  <2> QED OBVIOUS
<1> HIDE DEF fila
<1>3. /\ intento'[p] = fila
      /\ \A q \in Peticiones \ {p} : intento'[q] = intento[q]
  BY <1>1 DEF TypeOK
<1>4. CASE limitado
  <2>1. fila.estado \notin Contado
    BY <1>2, <1>4 DEF Contado, Terminal
  <2> QED BY <1>3, <2>1, VentanasIguales
<1>5. CASE ~limitado
  <2>0. IsFiniteSet(DelActor(p)) /\ IsFiniteSet(DeTodos(p))
    <3>1. DelActor(p) \subseteq Peticiones /\ DeTodos(p) \subseteq Peticiones
      BY DEF DelActor, DeTodos
    <3> QED BY <3>1, FS_Subset, ConjuntosAssumption
  <2>1. /\ Cardinality(DelActor(p)) \in Nat /\ Cardinality(DelActor(p)) + 1 <= LimiteActor
        /\ Cardinality(DeTodos(p)) \in Nat /\ Cardinality(DeTodos(p)) + 1 <= LimiteGlobal
    BY <1>5, <2>0, FS_CardinalityType, LimitesAssumption
  <2>2. ASSUME NEW S, NEW T, NEW n \in Nat, IsFiniteSet(T), Cardinality(T) + 1 <= n,
               S \subseteq T \cup {p}
        PROVE  Cardinality(S) <= n
    <3>1. /\ IsFiniteSet(T \cup {p}) /\ Cardinality(T) \in Nat
          /\ Cardinality(T \cup {p}) = IF p \in T THEN Cardinality(T) ELSE Cardinality(T) + 1
      BY <2>2, FS_AddElement, FS_CardinalityType
    <3>2. /\ IsFiniteSet(S) /\ Cardinality(S) \in Nat
          /\ Cardinality(S) <= Cardinality(T \cup {p})
      BY <2>2, <3>1, FS_Subset, FS_CardinalityType
    <3> QED BY <2>2, <3>1, <3>2
  <2>3. ASSUME NEW S, NEW T, NEW n \in Nat, IsFiniteSet(T), Cardinality(T) <= n, S \subseteq T
        PROVE  Cardinality(S) <= n
    <3>1. Cardinality(S) <= Cardinality(T) /\ Cardinality(S) \in Nat /\ Cardinality(T) \in Nat
      BY <2>3, FS_Subset, FS_CardinalityType
    <3> QED BY <2>3, <3>1
  <2> SUFFICES ASSUME NEW t \in 0..MaxTiempo
               PROVE  /\ \A a \in Admins :
                           Cardinality({q \in EnVentana(t, VentanaActor)' : intento'[q].actor = a})
                               <= LimiteActor
                      /\ Cardinality(EnVentana(t, VentanaGlobal)') <= LimiteGlobal
    BY DEF LimiteRespetado
  <2>4. ASSUME NEW v PROVE IsFiniteSet(EnVentana(t, v)) /\ EnVentana(t, v) \subseteq Peticiones
    <3>1. EnVentana(t, v) \subseteq Peticiones
      BY DEF EnVentana
    <3> QED BY <3>1, FS_Subset, ConjuntosAssumption
  <2>5. ASSUME NEW a \in Admins
        PROVE  Cardinality({q \in EnVentana(t, VentanaActor)' : intento'[q].actor = a})
                   <= LimiteActor
    <3> DEFINE S == {q \in EnVentana(t, VentanaActor)' : intento'[q].actor = a}
               T == {q \in EnVentana(t, VentanaActor) : intento[q].actor = a}
    <3>1. CASE p \in S
      <4>1. proc[p].ahora \in t..(t + VentanaActor) /\ proc[p].actor = a
        BY <1>2, <1>3, <3>1 DEF EnVentana
      <4>2. \A q \in S \ {p} : q \in DelActor(p)
        BY <1>0, <1>3, <4>1, LimitesAssumption DEF EnVentana, DelActor
      <4>3. S \subseteq DelActor(p) \cup {p}
        BY <4>2
      <4> HIDE DEF S
      <4>4. Cardinality(S) <= LimiteActor
        BY <2>0, <2>1, <2>2, <4>3, LimitesAssumption
      <4> QED BY <4>4 DEF S
    <3>2. CASE p \notin S
      <4>1. S \subseteq T
        BY <1>3, <3>2 DEF EnVentana
      <4>2. T \subseteq EnVentana(t, VentanaActor)
        OBVIOUS
      <4>3. IsFiniteSet(T)
        BY <2>4, <4>2, FS_Subset
      <4>4. Cardinality(T) <= LimiteActor
        BY DEF LimiteRespetado
      <4> HIDE DEF S, T
      <4>5. Cardinality(S) <= LimiteActor
        BY <2>3, <4>1, <4>3, <4>4, LimitesAssumption
      <4> QED BY <4>5 DEF S
    <3> QED BY <3>1, <3>2
  <2>6. Cardinality(EnVentana(t, VentanaGlobal)') <= LimiteGlobal
    <3> DEFINE S == EnVentana(t, VentanaGlobal)'
               T == EnVentana(t, VentanaGlobal)
    <3>1. CASE p \in S
      <4>1. proc[p].ahora \in t..(t + VentanaGlobal)
        BY <1>2, <1>3, <3>1 DEF EnVentana
      <4>2. \A q \in S \ {p} : q \in DeTodos(p)
        BY <1>0, <1>3, <4>1, LimitesAssumption DEF EnVentana, DeTodos
      <4>3. S \subseteq DeTodos(p) \cup {p}
        BY <4>2
      <4> HIDE DEF S
      <4>4. Cardinality(S) <= LimiteGlobal
        BY <2>0, <2>1, <2>2, <4>3, LimitesAssumption
      <4> QED BY <4>4 DEF S
    <3>2. CASE p \notin S
      <4>1. S \subseteq T
        BY <1>3, <3>2 DEF EnVentana
      <4>2. Cardinality(T) <= LimiteGlobal
        BY DEF LimiteRespetado
      <4>3. IsFiniteSet(T)
        BY <2>4
      <4> HIDE DEF S, T
      <4>4. Cardinality(S) <= LimiteGlobal
        BY <2>3, <4>1, <4>2, <4>3, LimitesAssumption
      <4> QED BY <4>4 DEF S
    <3> QED BY <3>1, <3>2
  <2> QED BY <2>5, <2>6
<1> QED BY <1>4, <1>5

LEMMA PasoReservar ==
    ASSUME InvInductivo, NEW p \in Peticiones, Reservar(p) PROVE InvInductivo'
<1>0. /\ TypeOK /\ Coherente /\ LimiteRespetado /\ CoherenteDe(p)
      /\ intento[p] \in Intento /\ cuenta[p] \in Cuenta /\ proc[p] \in Proc
  BY DEF InvInductivo, TypeOK, Coherente
<1>a. /\ proc' \in [Peticiones -> Proc]
      /\ intento' \in [Peticiones -> Intento]
      /\ \/ /\ intento'[p].estado = "pending" /\ proc'[p].fase = "crear"
            /\ proc[p].solo = FALSE /\ proc'[p].resp = proc[p].resp
         \/ /\ intento'[p].estado = "pending" /\ proc'[p].fase = "fin"
            /\ proc[p].solo = TRUE /\ proc'[p].resp = proc[p].resp
         \/ /\ intento'[p].estado = "rate_limited" /\ proc'[p].fase = "fin"
            /\ proc'[p].resp = Oida(p, "limite")
      /\ proc'[p].solo = FALSE
      /\ \A q \in Peticiones \ {p} : intento'[q] = intento[q]
      /\ \A q \in Peticiones \ {p} : proc'[q] = proc[q]
  <2> DEFINE limitado == \/ Cardinality(DelActor(p)) >= LimiteActor
                         \/ Cardinality(DeTodos(p)) >= LimiteGlobal
             fila == [estado |-> IF limitado THEN "rate_limited" ELSE "pending",
                      error |-> "ninguno", actor |-> proc[p].actor, creado |-> proc[p].ahora]
  <2>1. /\ intento' = [intento EXCEPT ![p] = fila]
        /\ IF limitado \/ proc[p].solo THEN Responder(p, Oida(p, "limite")) ELSE Ir(p, "crear")
    BY DEF Reservar
  <2>2. fila \in Intento /\ fila.estado = (IF limitado THEN "rate_limited" ELSE "pending")
    BY <1>0 DEF Intento, Contado, Error, Proc
  <2> HIDE DEF limitado, fila
  <2>3. /\ intento' \in [Peticiones -> Intento] /\ intento'[p] = fila
        /\ \A q \in Peticiones \ {p} : intento'[q] = intento[q]
    BY <1>0, <2>1, <2>2 DEF TypeOK
  <2>4. proc[p].solo \in BOOLEAN /\ (proc[p].solo => Oida(p, "limite") = proc[p].resp)
    BY <1>0 DEF Proc, Oida
  <2>5. CASE Ir(p, "crear") /\ ~(limitado \/ proc[p].solo)
    BY <1>0, <2>2, <2>3, <2>4, <2>5, TrasIr DEF Fase
  <2>6. CASE Responder(p, Oida(p, "limite")) /\ (limitado \/ proc[p].solo)
    <3>1. /\ proc' \in [Peticiones -> Proc]
          /\ proc'[p].fase = "fin" /\ proc'[p].resp = Oida(p, "limite") /\ proc'[p].solo = FALSE
          /\ \A q \in Peticiones \ {p} : proc'[q] = proc[q]
      BY <1>0, <2>6, TipoOida, TrasResponder
    <3> QED BY <2>2, <2>3, <2>4, <2>6, <3>1
  <2> QED BY <2>1, <2>5, <2>6
<1>1. TypeOK'
  BY <1>0, <1>a DEF TypeOK, Reservar
<1>2. ASSUME NEW q \in Peticiones PROVE CoherenteDe(q)'
  <2>1. CASE q # p
    BY <1>0, <1>a, <2>1, SigueCoherente DEF Reservar, TypeOK
  <2>2. CASE q = p
    BY <1>0, <1>a, <2>2 DEF CoherenteDe, Anuncio, Oida, Reservar
  <2> QED BY <2>1, <2>2
<1>3. LimiteRespetado'
  BY <1>0, ReservarRespeta
<1> QED BY <1>1, <1>2, <1>3 DEF InvInductivo, Coherente

LEMMA PasoLlegarTarde ==
    ASSUME InvInductivo, NEW p \in Peticiones, LlegarTarde(p) PROVE InvInductivo'
<1>0. TypeOK /\ Coherente /\ LimiteRespetado /\ CoherenteDe(p) /\ proc[p] \in Proc
  BY DEF InvInductivo, TypeOK, Coherente
<1>a. /\ cuenta' \in [Peticiones -> Cuenta] /\ cuenta'[p].estado = "viva"
      /\ \A q \in Peticiones \ {p} : cuenta'[q] = cuenta[q]
  BY <1>0, TipoCuenta DEF LlegarTarde, Provisiona, TypeOK, Cuenta
<1>1. TypeOK'
  BY <1>0, <1>a DEF TypeOK, LlegarTarde
<1>2. ASSUME NEW q \in Peticiones PROVE CoherenteDe(q)'
  <2>1. CASE q # p
    BY <1>0, <1>a, <2>1, SigueCoherente DEF LlegarTarde
  <2>2. CASE q = p
    BY <1>0, <1>a, <2>2 DEF CoherenteDe, Anuncio, LlegarTarde
  <2> QED BY <2>1, <2>2
<1>3. LimiteRespetado'
  BY <1>0, VentanasIguales DEF LlegarTarde
<1> QED BY <1>1, <1>2, <1>3 DEF InvInductivo, Coherente

LEMMA PasoTocarPerfil ==
    ASSUME InvInductivo, NEW p \in Peticiones, TocarPerfil(p) PROVE InvInductivo'
<1>0. TypeOK /\ Coherente /\ LimiteRespetado /\ CoherenteDe(p) /\ cuenta[p] \in Cuenta
  BY DEF InvInductivo, TypeOK, Coherente
<1>a. /\ cuenta' \in [Peticiones -> Cuenta] /\ cuenta'[p].estado = cuenta[p].estado
      /\ \A q \in Peticiones \ {p} : cuenta'[q] = cuenta[q]
  BY <1>0 DEF TocarPerfil, TypeOK, Cuenta
<1>1. TypeOK'
  BY <1>0, <1>a DEF TypeOK, TocarPerfil
<1>2. ASSUME NEW q \in Peticiones PROVE CoherenteDe(q)'
  <2>1. CASE q # p
    BY <1>0, <1>a, <2>1, SigueCoherente DEF TocarPerfil
  <2>2. CASE q = p
    BY <1>0, <1>a, <2>2 DEF CoherenteDe, Anuncio, TocarPerfil
  <2> QED BY <2>1, <2>2
<1>3. LimiteRespetado'
  BY <1>0, VentanasIguales DEF TocarPerfil
<1> QED BY <1>1, <1>2, <1>3 DEF InvInductivo, Coherente

LEMMA PasoEntorno ==
    ASSUME InvInductivo, Avanzar \/ UNCHANGED vars PROVE InvInductivo'
<1>0. TypeOK /\ Coherente /\ LimiteRespetado
  BY DEF InvInductivo
<1>a. UNCHANGED <<intento, cuenta, proc, tarde, bajas>> /\ reloj' \in Nat
  BY <1>0 DEF Avanzar, vars, TypeOK
<1>1. TypeOK'
  BY <1>0, <1>a DEF TypeOK
<1>2. Coherente'
  BY <1>0, <1>a, SigueCoherente DEF Coherente
<1>3. LimiteRespetado'
  BY <1>0, <1>a, VentanasIguales
<1> QED BY <1>1, <1>2, <1>3 DEF InvInductivo

LEMMA PasoInductivo == InvInductivo /\ [Next]_vars => InvInductivo'
<1> SUFFICES ASSUME InvInductivo, [Next]_vars PROVE InvInductivo'
  OBVIOUS
<1>1. CASE Avanzar \/ UNCHANGED vars
  BY <1>1, PasoEntorno
<1>2. ASSUME NEW p \in Peticiones, CrearUsuario(p) PROVE InvInductivo'
  BY <1>2, PasoEmpezar, PasoAutorizarInicio, PasoRechazarInicio, PasoPerderInicio,
     PasoReservar, PasoSinConfiguracion, PasoCrear, PasoAuthRechaza, PasoAuthIncierta,
     PasoVerificar, PasoNoVerifica, PasoCompensar, PasoCerrar, PasoPerderCierre, PasoMorir
     DEF CrearUsuario
<1>3. ASSUME NEW p \in Peticiones, LlegarTarde(p) \/ BorrarTarde(p) \/ TocarPerfil(p)
      PROVE  InvInductivo'
  BY <1>3, PasoLlegarTarde, PasoBorrarTarde, PasoTocarPerfil
<1> QED BY <1>1, <1>2, <1>3 DEF Next

\* The inductive invariant holds in every reachable state.
THEOREM Invariante == Spec => []InvInductivo
  BY IniciaBien, PasoInductivo, PTL DEF Spec

\* The limits of attempts hold of every window, for any number of callers that reach the
\* lock in an order other than that of their now().
THEOREM LimiteSiempreRespetado == Spec => []LimiteRespetado
<1>1. InvInductivo => LimiteRespetado
  BY DEF InvInductivo
<1> QED BY <1>1, Invariante, PTL

------------------------------------------------------------------------------
\* What is seen of one attempt.
Visto(p) == IF intento[p].estado = "failed" /\ intento[p].error = "auth_error" THEN "duda"
                                                                             ELSE intento[p].estado
\* The part of LlegaUnaVez that Coherente does not say already.
LlegaUnaVezDe(p) ==
    /\ p \in tarde => cuenta[p].estado = "no" /\ Visto(p) \in {"pending", "duda"}
    /\ \/ proc[p].fase = "cerrar" /\ proc[p].cierre = "compensation_failed"
       \/ intento[p].estado = "compensation_failed"
       => cuenta[p].estado # "no"

LEMMA UnaVez ==
    ASSUME Coherente
    PROVE  LlegaUnaVez <=> \A p \in Peticiones : LlegaUnaVezDe(p)
  BY DEF LlegaUnaVez, LlegaUnaVezDe, Registro, Visto, Coherente, CoherenteDe

LEMMA LoVisto == Registro = [p \in Peticiones |-> Visto(p)]
  BY DEF Registro, Visto

\* What a step that touches one attempt leaves of the others.
Aislado(p) == \A q \in Peticiones \ {p} :
    /\ proc'[q] = proc[q] /\ intento'[q] = intento[q] /\ cuenta'[q] = cuenta[q]
    /\ q \in tarde' => q \in tarde

LEMMA SigueUnaVez ==
    ASSUME Coherente, Coherente', LlegaUnaVez, NEW p \in Peticiones, Aislado(p), LlegaUnaVezDe(p)'
    PROVE  LlegaUnaVez'
<1>1. \A q \in Peticiones \ {p} : LlegaUnaVezDe(q)'
  BY UnaVez DEF Aislado, LlegaUnaVezDe, Visto
<1>2. \A q \in Peticiones : LlegaUnaVezDe(q)'
  BY <1>1
<1> QED BY <1>2 DEF LlegaUnaVez, LlegaUnaVezDe, Registro, Visto, Coherente, CoherenteDe

LEMMA CambiaRegistro ==
    ASSUME NEW p \in Peticiones, Aislado(p), NEW v, Visto(p)' = v
    PROVE  Registro' = [Registro EXCEPT ![p] = v] /\ Registro[p] = Visto(p)
  BY DEF Aislado, Registro, Visto
LEMMA CambiaCuentas ==
    ASSUME NEW p \in Peticiones, Aislado(p), NEW v, cuenta'[p].estado = v
    PROVE  Cuentas' = [Cuentas EXCEPT ![p] = v] /\ Cuentas[p] = cuenta[p].estado
  BY DEF Aislado, Cuentas
LEMMA CambiaAvisos ==
    ASSUME NEW p \in Peticiones, Aislado(p), NEW v, proc'[p].resp = v
    PROVE  Avisos' = [Avisos EXCEPT ![p] = v] /\ Avisos[p] = proc[p].resp
  BY DEF Aislado, Avisos
LEMMA MismoRegistro ==
    ASSUME NEW p \in Peticiones, Aislado(p), intento'[p] = intento[p]
    PROVE  Registro' = Registro /\ Registro[p] = Visto(p)
  BY DEF Aislado, Registro, Visto
LEMMA MismasCuentas ==
    ASSUME NEW p \in Peticiones, Aislado(p), cuenta'[p].estado = cuenta[p].estado
    PROVE  Cuentas' = Cuentas /\ Cuentas[p] = cuenta[p].estado
  BY DEF Aislado, Cuentas
LEMMA MismosAvisos ==
    ASSUME NEW p \in Peticiones, Aislado(p), proc'[p].resp = proc[p].resp
    PROVE  Avisos' = Avisos /\ Avisos[p] = proc[p].resp
  BY DEF Aislado, Avisos

LEMMA DeUno ==
    ASSUME InvInductivo, LlegaUnaVez, NEW p \in Peticiones
    PROVE  /\ TypeOK /\ Coherente /\ CoherenteDe(p) /\ LlegaUnaVezDe(p)
           /\ proc[p] \in Proc /\ intento[p] \in Intento /\ cuenta[p] \in Cuenta
  BY UnaVez DEF InvInductivo, Coherente, TypeOK

\* The call goes on and nothing is seen of it.
LEMMA AvanzarAltas ==
    ASSUME InvInductivo, Coherente', LlegaUnaVez, NEW p \in Peticiones,
           Empezar(p) \/ AutorizarInicio(p) \/ SinConfiguracion(p) \/ AuthRechaza(p)
           \/ Verificar(p) \/ NoVerifica(p)
    PROVE  LlegaUnaVez' /\ UNCHANGED A!vars
<1>0. TypeOK /\ Coherente /\ CoherenteDe(p) /\ LlegaUnaVezDe(p) /\ proc[p] \in Proc
  BY DeUno
<1>1. UNCHANGED <<intento, cuenta, tarde>>
  BY DEF Empezar, AutorizarInicio, SinConfiguracion, AuthRechaza, Verificar, NoVerifica
<1>2. CASE Empezar(p) \/ AutorizarInicio(p)
  <2>1. /\ proc'[p].fase \in {"inicio", "espera"} /\ proc'[p].resp = proc[p].resp
        /\ \A q \in Peticiones \ {p} : proc'[q] = proc[q]
    <3>1. CASE Empezar(p)
      <4>1. PICK a \in Admins, c \in Correos :
               proc' = [proc EXCEPT ![p] = [proc[p] EXCEPT
                          !.fase = "inicio", !.actor = a, !.correo = c]]
        BY <3>1 DEF Empezar
      <4> QED BY <1>0, <4>1 DEF TypeOK, Proc
    <3>2. CASE AutorizarInicio(p)
      BY <1>0, <3>2 DEF AutorizarInicio, TypeOK, Proc
    <3> QED BY <1>2, <3>1, <3>2
  <2>2. Aislado(p) /\ LlegaUnaVezDe(p)'
    BY <1>0, <1>1, <2>1 DEF Aislado, LlegaUnaVezDe, Visto
  <2> QED BY <1>0, <1>1, <2>1, <2>2, SigueUnaVez, MismoRegistro, MismasCuentas, MismosAvisos DEF A!vars
<1>3. CASE SinConfiguracion(p) \/ AuthRechaza(p) \/ Verificar(p)
  <2>1. PICK c \in {"failed", "succeeded"}, e \in Error : ACerrar(p, c, e)
    BY <1>3 DEF SinConfiguracion, AuthRechaza, Verificar, Error
  <2>2. /\ proc'[p].cierre # "compensation_failed" /\ proc'[p].resp = proc[p].resp
        /\ \A q \in Peticiones \ {p} : proc'[q] = proc[q]
    BY <1>0, <2>1, TrasACerrar DEF Terminal
  <2>3. Aislado(p) /\ LlegaUnaVezDe(p)'
    BY <1>0, <1>1, <2>2 DEF Aislado, LlegaUnaVezDe, Visto
  <2> QED BY <1>0, <1>1, <2>2, <2>3, SigueUnaVez, MismoRegistro, MismasCuentas, MismosAvisos DEF A!vars
<1>4. CASE NoVerifica(p)
  <2>1. /\ proc'[p].fase = "compensar" /\ proc'[p].resp = proc[p].resp
        /\ \A q \in Peticiones \ {p} : proc'[q] = proc[q]
    BY <1>0, <1>4, TrasIr DEF NoVerifica, Fase
  <2>2. Aislado(p) /\ LlegaUnaVezDe(p)'
    BY <1>0, <1>1, <2>1 DEF Aislado, LlegaUnaVezDe, Visto
  <2> QED BY <1>0, <1>1, <2>1, <2>2, SigueUnaVez, MismoRegistro, MismasCuentas, MismosAvisos DEF A!vars
<1> QED BY <1>2, <1>3, <1>4

\* Whoever asks is told that it failed, once.
LEMMA RechazarAltas ==
    ASSUME InvInductivo, Coherente', LlegaUnaVez, NEW p \in Peticiones,
           RechazarInicio(p) \/ PerderInicio(p)
    PROVE  LlegaUnaVez' /\ (A!Rechazar(p) \/ UNCHANGED A!vars)
<1>0. TypeOK /\ Coherente /\ CoherenteDe(p) /\ LlegaUnaVezDe(p) /\ proc[p] \in Proc
  BY DeUno
<1>1. /\ UNCHANGED <<intento, cuenta, tarde>>
      /\ proc[p].fase \in {"inicio", "espera"} /\ intento[p].estado = "no"
      /\ proc[p].solo \/ proc[p].resp = "ninguna"
  BY <1>0 DEF RechazarInicio, PerderInicio, CoherenteDe
<1>2. /\ proc'[p].fase # "cerrar" /\ \A q \in Peticiones \ {p} : proc'[q] = proc[q]
      /\ \/ proc[p].resp = "ninguna" /\ proc'[p].resp = "fallo"
         \/ proc'[p].resp = proc[p].resp
  <2>1. CASE RechazarInicio(p)
    BY <1>0, <1>1, <2>1, TipoOida, TrasResponder DEF RechazarInicio, Oida
  <2>2. CASE PerderInicio(p)
    BY <1>0, <1>1, <2>2, TrasDejar DEF PerderInicio
  <2> QED BY <2>1, <2>2
<1>3. Aislado(p) /\ LlegaUnaVezDe(p)'
  BY <1>0, <1>1, <1>2 DEF Aislado, LlegaUnaVezDe, Visto
<1>4. Registro' = Registro /\ Registro[p] = "no" /\ Cuentas' = Cuentas
  BY <1>1, <1>3, MismoRegistro, MismasCuentas DEF Visto
<1>5. LlegaUnaVez'
  BY <1>0, <1>3, SigueUnaVez
<1>6. CASE proc[p].resp = "ninguna" /\ proc'[p].resp = "fallo"
  <2>1. Avisos[p] = "ninguna" /\ Avisos' = [Avisos EXCEPT ![p] = "fallo"]
    BY <1>3, <1>6, CambiaAvisos
  <2> QED BY <1>4, <1>5, <2>1 DEF A!Rechazar, A!Avisar
<1>7. CASE proc'[p].resp = proc[p].resp
  BY <1>3, <1>4, <1>5, <1>7, MismosAvisos DEF A!vars
<1> QED BY <1>2, <1>6, <1>7

\* An attempt enters the record, or is refused by a limit, once.
LEMMA ReservarAltas ==
    ASSUME InvInductivo, Coherente', LlegaUnaVez, NEW p \in Peticiones, Reservar(p)
    PROVE  LlegaUnaVez' /\ (A!Limitar(p) \/ A!Admitir(p))
<1>0. TypeOK /\ Coherente /\ CoherenteDe(p) /\ LlegaUnaVezDe(p) /\ proc[p] \in Proc
  BY DeUno
<1>1. /\ UNCHANGED <<cuenta, tarde>> /\ intento[p].estado = "no" /\ p \notin tarde
      /\ proc[p].resp \in {"ninguna", "fallo"}
      /\ proc[p].solo \/ proc[p].resp = "ninguna"
  BY <1>0 DEF Reservar, CoherenteDe
<1>2. /\ \A q \in Peticiones \ {p} : intento'[q] = intento[q]
      /\ \/ /\ intento'[p].estado = "pending"
            /\ Ir(p, "crear") \/ (proc[p].solo /\ Responder(p, Oida(p, "limite")))
         \/ intento'[p].estado = "rate_limited" /\ Responder(p, Oida(p, "limite"))
  BY <1>0 DEF Reservar, TypeOK
<1>3. /\ proc[p].solo => Oida(p, "limite") = proc[p].resp
      /\ ~proc[p].solo => Oida(p, "limite") = "limite"
  BY DEF Oida
<1>4. /\ \A q \in Peticiones \ {p} : proc'[q] = proc[q]
      /\ proc'[p].fase \in {"crear", "fin"}
      /\ \/ intento'[p].estado = "pending" /\ proc'[p].resp = proc[p].resp
         \/ /\ intento'[p].estado = "rate_limited"
            /\ \/ proc'[p].resp = proc[p].resp
               \/ proc[p].resp = "ninguna" /\ proc'[p].resp = "limite"
  <2>1. CASE Ir(p, "crear") /\ intento'[p].estado = "pending"
    BY <1>0, <2>1, TrasIr DEF Fase
  <2>2. CASE Responder(p, Oida(p, "limite"))
    <3>1. /\ proc'[p].fase = "fin" /\ proc'[p].resp = Oida(p, "limite")
          /\ \A q \in Peticiones \ {p} : proc'[q] = proc[q]
      BY <1>0, <2>2, TipoOida, TrasResponder
    <3>2. CASE proc[p].solo
      BY <1>2, <1>3, <3>1, <3>2
    <3>3. CASE ~proc[p].solo /\ intento'[p].estado = "rate_limited"
      BY <1>1, <1>3, <3>1, <3>3
    <3>4. CASE ~proc[p].solo /\ intento'[p].estado = "pending"
      <4>1. Ir(p, "crear")
        BY <1>2, <3>4
      <4> QED BY <1>0, <3>4, <4>1, TrasIr DEF Fase
    <3> QED BY <1>2, <3>2, <3>3, <3>4
  <2> QED BY <1>2, <2>1, <2>2
<1>5. Aislado(p) /\ LlegaUnaVezDe(p)'
  BY <1>1, <1>2, <1>4 DEF Aislado, LlegaUnaVezDe
<1>6. Visto(p) = "no" /\ Visto(p)' = intento'[p].estado
  BY <1>1, <1>4 DEF Visto
<1>7. /\ Registro[p] = "no" /\ Registro' = [Registro EXCEPT ![p] = intento'[p].estado]
      /\ Cuentas' = Cuentas /\ Avisos[p] = proc[p].resp
      /\ Avisos' = [Avisos EXCEPT ![p] = proc'[p].resp]
  BY <1>1, <1>5, <1>6, CambiaRegistro, CambiaAvisos, MismasCuentas
<1>8. proc'[p].resp = proc[p].resp => Avisos' = Avisos
  BY <1>5, MismosAvisos
<1>9. LlegaUnaVez'
  BY <1>0, <1>5, SigueUnaVez
<1>10. CASE intento'[p].estado = "pending" /\ proc'[p].resp = proc[p].resp
  BY <1>1, <1>7, <1>8, <1>9, <1>10 DEF A!Admitir, A!Callada
<1>11. CASE intento'[p].estado = "rate_limited" /\ proc'[p].resp = proc[p].resp
  BY <1>1, <1>7, <1>8, <1>9, <1>11 DEF A!Limitar, A!Callada
<1>12. CASE /\ intento'[p].estado = "rate_limited"
            /\ proc[p].resp = "ninguna" /\ proc'[p].resp = "limite"
  BY <1>7, <1>9, <1>12 DEF A!Limitar, A!Avisar
<1> QED BY <1>4, <1>10, <1>11, <1>12

\* Auth gives the account in time, without saying so, or late.
LEMMA NacerAltas ==
    ASSUME InvInductivo, Coherente', LlegaUnaVez, NEW p \in Peticiones,
           Crear(p) \/ AuthIncierta(p) \/ LlegarTarde(p)
    PROVE  LlegaUnaVez' /\ (A!Nacer(p) \/ UNCHANGED A!vars)
<1>0. TypeOK /\ Coherente /\ CoherenteDe(p) /\ LlegaUnaVezDe(p)
  BY DeUno
<1>1. cuenta[p].estado = "no" /\ Visto(p) \in {"pending", "duda"} /\ UNCHANGED intento
  BY <1>0 DEF Crear, AuthIncierta, LlegarTarde, CoherenteDe, LlegaUnaVezDe, Visto
<1>2. /\ proc'[p].resp = proc[p].resp /\ \A q \in Peticiones \ {p} : proc'[q] = proc[q]
      /\ proc'[p].fase = "cerrar" /\ proc'[p].cierre = "compensation_failed" => LlegarTarde(p)
  <2>1. CASE Crear(p)
    BY <1>0, <2>1, TrasIr DEF Crear, Fase
  <2>2. CASE AuthIncierta(p)
    BY <1>0, <2>2, TrasACerrar DEF AuthIncierta, Terminal, Error
  <2>3. CASE LlegarTarde(p)
    BY <2>3 DEF LlegarTarde
  <2> QED BY <2>1, <2>2, <2>3
<1>3. /\ \A q \in Peticiones \ {p} : cuenta'[q] = cuenta[q] /\ (q \in tarde' => q \in tarde)
      /\ \/ cuenta'[p].estado = "viva" /\ p \notin tarde'
         \/ cuenta'[p] = cuenta[p] /\ AuthIncierta(p)
  BY <1>0, <1>1 DEF Crear, AuthIncierta, LlegarTarde, Provisiona, TypeOK, CoherenteDe
<1>4. Aislado(p)
  BY <1>1, <1>2, <1>3 DEF Aislado
<1>5. LlegaUnaVezDe(p)'
  BY <1>0, <1>1, <1>2, <1>3 DEF LlegaUnaVezDe, Visto, LlegarTarde, AuthIncierta, CoherenteDe
<1>6. Registro' = Registro /\ Registro[p] \in {"pending", "duda"} /\ Avisos' = Avisos
  BY <1>1, <1>2, <1>4, MismoRegistro, MismosAvisos
<1>7. CASE cuenta'[p].estado = "viva"
  BY <1>0, <1>1, <1>4, <1>5, <1>6, <1>7, SigueUnaVez, CambiaCuentas DEF A!Nacer
<1>8. CASE cuenta'[p] = cuenta[p]
  BY <1>0, <1>4, <1>5, <1>6, <1>8, SigueUnaVez, MismasCuentas DEF A!vars
<1> QED BY <1>3, <1>7, <1>8

\* An account is withdrawn in time, without Auth saying so, or late.
LEMMA RetirarAltas ==
    ASSUME InvInductivo, Coherente', LlegaUnaVez, NEW p \in Peticiones,
           Compensar(p) \/ BorrarTarde(p)
    PROVE  LlegaUnaVez' /\ (A!Retirar(p) \/ UNCHANGED A!vars)
<1>0. TypeOK /\ Coherente /\ CoherenteDe(p) /\ LlegaUnaVezDe(p) /\ cuenta[p] \in Cuenta
  BY DeUno
<1>1. /\ cuenta[p].estado = "viva" /\ p \notin tarde /\ proc[p].resp # "exito"
      /\ intento[p].estado \in {"pending", "compensation_failed"} /\ UNCHANGED <<intento, tarde>>
  BY <1>0 DEF Compensar, BorrarTarde, CoherenteDe, LlegaUnaVezDe
<1>2. proc'[p].resp = proc[p].resp /\ \A q \in Peticiones \ {p} : proc'[q] = proc[q]
  <2>1. CASE Compensar(p)
    BY <1>0, <2>1, TrasACerrar DEF Compensar, Terminal, Error
  <2>2. CASE BorrarTarde(p)
    BY <2>2 DEF BorrarTarde
  <2> QED BY <2>1, <2>2
<1>3. /\ \A q \in Peticiones \ {p} : cuenta'[q] = cuenta[q]
      /\ cuenta'[p].estado = "borrada" \/ cuenta'[p] = cuenta[p]
  BY <1>0 DEF Compensar, BorrarTarde, Borrada, TypeOK, Cuenta
<1>4. Aislado(p) /\ LlegaUnaVezDe(p)'
  BY <1>1, <1>2, <1>3 DEF Aislado, LlegaUnaVezDe
<1>5. /\ Registro' = Registro /\ Registro[p] \in {"pending", "compensation_failed"}
      /\ Avisos' = Avisos /\ Avisos[p] # "exito"
  BY <1>1, <1>2, <1>4, MismoRegistro, MismosAvisos DEF Visto
<1>6. CASE cuenta'[p].estado = "borrada"
  BY <1>0, <1>1, <1>4, <1>5, <1>6, SigueUnaVez, CambiaCuentas DEF A!Retirar
<1>7. CASE cuenta'[p] = cuenta[p]
  BY <1>0, <1>4, <1>5, <1>7, SigueUnaVez, MismasCuentas DEF A!vars
<1> QED BY <1>3, <1>6, <1>7

\* How the attempt of p is seen once it is closed.
Final(p) == IF proc[p].cierre = "failed" /\ proc[p].error = "auth_error" THEN "duda"
                                                                        ELSE proc[p].cierre

\* What an attempt is going to be closed with is true of its account.
LEMMA FinalCierto ==
    ASSUME InvInductivo, LlegaUnaVez, NEW p \in Peticiones,
           proc[p].fase = "cerrar"
    PROVE  /\ Final(p) \in {"succeeded", "failed", "compensation_failed", "duda"}
           /\ proc[p].cierre \in Terminal /\ intento[p].estado = "pending"
           /\ proc[p].resp \in {"ninguna", Anuncio(p)}
           /\ proc[p].solo \/ proc[p].resp = "ninguna"
           /\ p \in tarde => Final(p) = "duda"
           /\ Registro[p] = "pending" /\ A!Cierto(p, Final(p))
           /\ A!Anuncio(Final(p)) = Anuncio(p)
<1>0. CoherenteDe(p) /\ LlegaUnaVezDe(p) /\ proc[p] \in Proc
  BY DeUno
<1>1. /\ proc[p].cierre \in Terminal /\ intento[p].estado = "pending"
      /\ proc[p].resp \in {"ninguna", Anuncio(p)} /\ (proc[p].solo \/ proc[p].resp = "ninguna")
  BY <1>0 DEF CoherenteDe, Proc
<1>2. /\ Final(p) \in {"succeeded", "failed", "compensation_failed", "duda"}
      /\ A!Anuncio(Final(p)) = Anuncio(p)
  BY <1>1 DEF Final, Terminal, Anuncio, A!Anuncio
<1>3. /\ Final(p) = "succeeded" => cuenta[p].estado = "viva"
      /\ Final(p) = "failed" => cuenta[p].estado # "viva"
      /\ Final(p) = "compensation_failed" => cuenta[p].estado # "no"
      /\ p \in tarde => Final(p) = "duda"
  BY <1>0, <1>1 DEF Final, CoherenteDe, LlegaUnaVezDe, Terminal
<1>4. Registro[p] = "pending" /\ Cuentas[p] = cuenta[p].estado
  BY <1>1 DEF Registro, Cuentas
<1> QED BY <1>1, <1>2, <1>3, <1>4 DEF A!Cierto

LEMMA CerrarAltas ==
    ASSUME InvInductivo, Coherente', LlegaUnaVez, NEW p \in Peticiones, Cerrar(p)
    PROVE  LlegaUnaVez' /\ A!Cerrar(p, Final(p))
<1>0. TypeOK /\ Coherente /\ CoherenteDe(p) /\ LlegaUnaVezDe(p) /\ intento[p] \in Intento
  BY DeUno
<1>1. UNCHANGED <<cuenta, tarde>> /\ proc[p].fase = "cerrar"
  BY DEF Cerrar
<1>2. /\ proc'[p].fase = "fin" /\ \A q \in Peticiones \ {p} : proc'[q] = proc[q]
      /\ \/ proc[p].resp = "ninguna" /\ proc'[p].resp = Anuncio(p)
         \/ proc'[p].resp = proc[p].resp
  <2>1. Anuncio(p) \in {"ninguna", "exito", "limite", "fallo"}
    BY DEF Anuncio
  <2>2. /\ proc'[p].fase = "fin" /\ proc'[p].resp = Oida(p, Anuncio(p))
        /\ \A q \in Peticiones \ {p} : proc'[q] = proc[q]
    BY <1>0, <2>1, TipoOida, TrasResponder DEF Cerrar
  <2> QED BY <1>1, <2>2, FinalCierto DEF Oida
<1>3. /\ \A q \in Peticiones \ {p} : intento'[q] = intento[q]
      /\ intento'[p].estado = proc[p].cierre /\ intento'[p].error = proc[p].error
  BY <1>0 DEF Cerrar, TypeOK, Intento
<1>4. Aislado(p) /\ Visto(p)' = Final(p)
  BY <1>1, <1>2, <1>3 DEF Aislado, Visto, Final
<1>5. LlegaUnaVezDe(p)'
  BY <1>0, <1>1, <1>2, <1>3, <1>4, FinalCierto DEF LlegaUnaVezDe
<1>6. /\ Registro' = [Registro EXCEPT ![p] = Final(p)] /\ Cuentas' = Cuentas
      /\ Avisos[p] = proc[p].resp /\ Avisos' = [Avisos EXCEPT ![p] = proc'[p].resp]
      /\ proc'[p].resp = proc[p].resp => Avisos' = Avisos
  BY <1>1, <1>4, CambiaRegistro, MismasCuentas, CambiaAvisos, MismosAvisos
<1>7. A!Cerrar(p, Final(p))
  BY <1>1, <1>2, <1>6, FinalCierto DEF A!Cerrar, A!Avisar
<1> QED BY <1>0, <1>4, <1>5, <1>7, SigueUnaVez

LEMMA AnunciarAltas ==
    ASSUME InvInductivo, Coherente', LlegaUnaVez, NEW p \in Peticiones, PerderCierre(p)
    PROVE  LlegaUnaVez' /\ A!Anunciar(p, Final(p))
<1>0. TypeOK /\ Coherente /\ CoherenteDe(p) /\ LlegaUnaVezDe(p)
  BY DeUno
<1>1. UNCHANGED <<intento, cuenta, tarde>> /\ proc[p].fase = "cerrar"
  BY DEF PerderCierre
<1>2. /\ proc[p].resp = "ninguna" /\ proc'[p].resp = Anuncio(p)
      /\ proc'[p].cierre = proc[p].cierre /\ \A q \in Peticiones \ {p} : proc'[q] = proc[q]
  <2>1. Anuncio(p) \in {"ninguna", "exito", "limite", "fallo"}
    BY DEF Anuncio
  <2> QED BY <1>0, <1>1, <2>1, TrasDejar, FinalCierto DEF PerderCierre
<1>3. Aislado(p) /\ LlegaUnaVezDe(p)'
  BY <1>0, <1>1, <1>2 DEF Aislado, LlegaUnaVezDe, Visto
<1>4. /\ Registro' = Registro /\ Cuentas' = Cuentas
      /\ Avisos[p] = "ninguna" /\ Avisos' = [Avisos EXCEPT ![p] = Anuncio(p)]
  BY <1>1, <1>2, <1>3, MismoRegistro, MismasCuentas, CambiaAvisos
<1>5. A!Anunciar(p, Final(p))
  BY <1>1, <1>4, FinalCierto DEF A!Anunciar, A!Avisar
<1> QED BY <1>0, <1>3, <1>5, SigueUnaVez

LEMMA MorirAltas ==
    ASSUME InvInductivo, Coherente', LlegaUnaVez, NEW p \in Peticiones, Morir(p)
    PROVE  LlegaUnaVez' /\ UNCHANGED A!vars
<1>0. TypeOK /\ Coherente /\ CoherenteDe(p) /\ LlegaUnaVezDe(p) /\ proc[p] \in Proc
  BY DeUno
<1>1. UNCHANGED <<intento, cuenta>> /\ proc[p].resp = "ninguna"
  BY <1>0 DEF Morir, Dejar, CoherenteDe
<1>2. /\ proc'[p].resp = "ninguna" /\ \A q \in Peticiones \ {p} : proc'[q] = proc[q]
      /\ \/ /\ proc'[p].fase = proc[p].fase /\ proc'[p].cierre = proc[p].cierre
            /\ UNCHANGED tarde
         \/ /\ proc'[p].fase = "fin"
            /\ tarde' = (IF proc[p].fase = "crear" THEN tarde \cup {p} ELSE tarde)
  BY <1>0, TrasResponder, TrasDejar DEF Morir
<1>3. Aislado(p)
  BY <1>1, <1>2 DEF Aislado
<1>4. LlegaUnaVezDe(p)'
  BY <1>0, <1>1, <1>2 DEF LlegaUnaVezDe, Visto, CoherenteDe
<1> QED BY <1>0, <1>1, <1>2, <1>3, <1>4, SigueUnaVez, MismoRegistro, MismasCuentas, MismosAvisos
        DEF A!vars

LEMMA EntornoAltas ==
    ASSUME InvInductivo, LlegaUnaVez,
           (\E p \in Peticiones : TocarPerfil(p)) \/ Avanzar \/ UNCHANGED vars
    PROVE  LlegaUnaVez' /\ UNCHANGED A!vars
<1>1. /\ UNCHANGED <<intento, proc, tarde, bajas>>
      /\ \A q \in Peticiones : cuenta'[q].estado = cuenta[q].estado
  BY DEF InvInductivo, TypeOK, Cuenta, TocarPerfil, Avanzar, vars
<1>2. Registro' = Registro /\ Cuentas' = Cuentas /\ Avisos' = Avisos
  BY <1>1 DEF Registro, Cuentas, Avisos
<1>3. LlegaUnaVez'
  BY <1>1, <1>2 DEF LlegaUnaVez
<1> QED BY <1>2, <1>3 DEF A!vars

LEMMA PasoAltas ==
    ASSUME InvInductivo, LlegaUnaVez, [Next]_vars
    PROVE  LlegaUnaVez' /\ [A!Next]_(A!vars)
<1>0. Coherente'
  BY PasoInductivo DEF InvInductivo
<1>1. ASSUME NEW p \in Peticiones, CrearUsuario(p) \/ LlegarTarde(p) \/ BorrarTarde(p)
      PROVE  LlegaUnaVez' /\ [A!Next]_(A!vars)
  <2>1. /\ LlegaUnaVez'
        /\ \/ A!Rechazar(p) \/ A!Limitar(p) \/ A!Admitir(p) \/ A!Nacer(p) \/ A!Retirar(p)
           \/ proc[p].fase = "cerrar" /\ (A!Cerrar(p, Final(p)) \/ A!Anunciar(p, Final(p)))
           \/ UNCHANGED A!vars
    <3>1. Cerrar(p) \/ PerderCierre(p) => proc[p].fase = "cerrar"
      BY DEF Cerrar, PerderCierre
    <3> QED BY <1>0, <1>1, <3>1, AvanzarAltas, RechazarAltas, ReservarAltas, NacerAltas,
               RetirarAltas, CerrarAltas, AnunciarAltas, MorirAltas DEF CrearUsuario
  <2>2. proc[p].fase = "cerrar" =>
           Final(p) \in {"succeeded", "failed", "compensation_failed", "duda"}
    BY FinalCierto
  <2> QED BY <2>1, <2>2 DEF A!Next
<1>2. CASE (\E p \in Peticiones : TocarPerfil(p)) \/ Avanzar \/ UNCHANGED vars
  BY <1>2, EntornoAltas
<1> QED BY <1>1, <1>2 DEF Next

LEMMA InicioAltas == Init => LlegaUnaVez /\ A!Init
  BY DEF Init, LlegaUnaVez, A!Init, Registro, Cuentas, Avisos

\* No creation arrives twice, nor after an attempt was closed as certain, and no deletion
\* reaches an account that somebody was promised.
THEOREM SiempreLlegaUnaVez == Spec => []LlegaUnaVez
<1>1. InvInductivo /\ LlegaUnaVez /\ [Next]_vars => LlegaUnaVez'
  BY PasoAltas
<1> QED BY <1>1, InicioAltas, Invariante, PTL DEF Spec

\* What the attempt and the answer say of the account is true, whatever is lost, late or
\* interrupted.
THEOREM RegistroSiempreVeraz == Spec => []RegistroVeraz
<1>1. InvInductivo /\ LlegaUnaVez => RegistroVeraz
  <2> SUFFICES ASSUME InvInductivo, LlegaUnaVez, NEW p \in Peticiones
               PROVE  /\ intento[p].estado = "succeeded" \/ proc[p].resp = "exito" =>
                            cuenta[p].estado = "viva"
                      /\ /\ cuenta[p].estado = "viva"
                         /\ intento[p].estado \notin {"pending", "succeeded"}
                         => \/ intento[p].error = "auth_error"
                            \/ intento[p].estado = "compensation_failed"
                      /\ proc[p].resp = "limite" => cuenta[p].estado = "no"
                      /\ intento[p].estado = "compensation_failed" => cuenta[p].estado # "no"
    BY DEF RegistroVeraz
  <2>1. CoherenteDe(p) /\ intento[p].estado \in {"no", "rate_limited"} \cup Contado
    BY DEF InvInductivo, Coherente, TypeOK, Intento
  <2> QED BY <2>1 DEF CoherenteDe, LlegaUnaVez, Contado, Terminal
<1> QED BY <1>1, Invariante, SiempreLlegaUnaVez, PTL

\* To whoever asks and whoever audits, each creation is the one Altas tells, although what
\* was asked of the database or of Auth may be done after its caller was answered: one
\* account at most, never back, never withdrawn once a success was told or recorded.
THEOREM ImplementaAltas == Spec => AltasSpec
<1>1. InvInductivo /\ LlegaUnaVez /\ [Next]_vars => [A!Next]_(A!vars)
  BY PasoAltas
<1> QED BY <1>1, InicioAltas, Invariante, SiempreLlegaUnaVez, PTL DEF Spec, AltasSpec, A!Spec
=============================================================================
