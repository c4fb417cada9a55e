----------------------------- MODULE AltaUsuarios -----------------------------
(***************************************************************************)
(* The creation of an internal user: an attempt is recorded under the      *)
(* limits, the account is created in Auth, whose trigger inserts the       *)
(* profile in the same transaction, the profile is read back and, if it is *)
(* not the one asked for, the account is deleted again.  Four services     *)
(* answer over a network; the attempt keeps what the last of them heard.   *)
(* Whoever gets no answer goes on or answers, and what he asked for may    *)
(* still be done at any later moment, or never: a request that is refused  *)
(* without saying so is one that never is.  Every call asks again whether  *)
(* the administrator still is one; he may stop being it at any moment, so  *)
(* each step of them has the outcome in which it is refused.               *)
(*                                                                         *)
(* A request makes one attempt and asks for one account at most, so both   *)
(* are named after it.                                                     *)
(***************************************************************************)
EXTENDS Integers, FiniteSets

CONSTANTS
    Peticiones,     \* calls of createInternalUser
    Admins,         \* administrators that may call
    Correos,        \* addresses of the new users
    Nadie,          \* no caller, no address
    LimiteActor, LimiteGlobal,      \* attempts admitted in a window, 5 and 20
    VentanaActor, VentanaGlobal,    \* length of the windows, 10 and 60 minutes
    MaxTiempo       \* bound of the clock

ASSUME LimitesAssumption ==
    /\ LimiteActor \in Nat \ {0} /\ LimiteGlobal \in Nat \ {0}
    /\ VentanaActor \in Nat /\ VentanaGlobal \in Nat /\ MaxTiempo \in Nat
ASSUME ConjuntosAssumption ==
    IsFiniteSet(Peticiones) /\ Nadie \notin Admins /\ Nadie \notin Correos

VARIABLES
    reloj,      \* now() of a transaction that starts now
    intento,    \* rows of private.internal_user_creation_audit
    cuenta,     \* accounts of Auth with their profile
    proc,       \* the calls, in the server
    tarde,      \* creations asked of Auth that nobody waits for any more and may still arrive
    bajas       \* the same of deletions

vars == <<reloj, intento, cuenta, proc, tarde, bajas>>

\* auth_error stands for invalid_auth_response and unexpected_error too.
Error == {"already_exists", "auth_error", "configuration_error", "provisioning_error",
          "provisioning_compensation_failed", "ninguno"}
Terminal == {"succeeded", "failed", "compensation_failed"}
Contado == {"pending"} \cup Terminal
Intento == [estado : {"no", "rate_limited"} \cup Contado, error : Error,
            actor : Admins \cup {Nadie}, creado : Nat]

\* intacta: the profile is as the trigger inserted it.
Cuenta == [estado : {"no", "viva", "borrada"}, intacta : BOOLEAN]

Fase == {"nueva", "inicio", "espera", "crear", "verificar", "compensar", "cerrar", "fin"}
\* cierre, error: what the attempt will be closed with.  solo: nobody waits any more for the
\* begin (inicio, espera) or the complete (cerrar) that is in the database or on its way.
Proc == [fase : Fase, actor : Admins \cup {Nadie}, correo : Correos \cup {Nadie},
         ahora : Nat, cierre : Terminal, error : Error, solo : BOOLEAN,
         resp : {"ninguna", "exito", "limite", "fallo"}]

TypeOK ==
    /\ reloj \in Nat
    /\ intento \in [Peticiones -> Intento]
    /\ cuenta \in [Peticiones -> Cuenta]
    /\ proc \in [Peticiones -> Proc]
    /\ tarde \in SUBSET Peticiones /\ bajas \in SUBSET Peticiones

Init ==
    /\ reloj = 0 /\ tarde = {} /\ bajas = {}
    /\ intento = [p \in Peticiones |->
                    [estado |-> "no", error |-> "ninguno", actor |-> Nadie, creado |-> 0]]
    /\ cuenta = [p \in Peticiones |-> [estado |-> "no", intacta |-> FALSE]]
    /\ proc = [p \in Peticiones |->
                 [fase |-> "nueva", actor |-> Nadie, correo |-> Nadie, ahora |-> 0,
                  cierre |-> "failed", error |-> "ninguno", solo |-> FALSE,
                  resp |-> "ninguna"]]
------------------------------------------------------------------------------
(* The attempt and its limits. *)

Ir(p, f) == proc' = [proc EXCEPT ![p].fase = f]
\* The locals of the call end with it.
Responder(p, r) ==
    proc' = [proc EXCEPT ![p] = [@ EXCEPT !.fase = "fin", !.ahora = 0, !.cierre = "failed",
                                          !.error = "ninguno", !.solo = FALSE, !.resp = r]]
\* The call is given up with this answer, or with none, and left alone.
Dejar(p, r) == ~proc[p].solo /\ proc' = [proc EXCEPT ![p] = [@ EXCEPT !.solo = TRUE, !.resp = r]]
\* What the caller has heard once the answer r comes.
Oida(p, r) == IF proc[p].solo THEN proc[p].resp ELSE r
ACerrar(p, c, e) ==
    proc' = [proc EXCEPT ![p] = [@ EXCEPT !.fase = "cerrar", !.cierre = c, !.error = e]]

Empezar(p) ==
    /\ proc[p].fase = "nueva"
    /\ \E a \in Admins, c \in Correos :
         proc' = [proc EXCEPT ![p] = [@ EXCEPT !.fase = "inicio", !.actor = a, !.correo = c]]
    /\ UNCHANGED <<reloj, intento, cuenta, tarde, bajas>>

\* begin_internal_user_creation_attempt reads now() and accepts its caller; then it may wait
\* for the lock.
AutorizarInicio(p) ==
    /\ proc[p].fase = "inicio"
    /\ proc' = [proc EXCEPT ![p] = [@ EXCEPT !.fase = "espera", !.ahora = reloj]]
    /\ UNCHANGED <<reloj, intento, cuenta, tarde, bajas>>

\* The caller or the call is refused.
RechazarInicio(p) ==
    /\ proc[p].fase \in {"inicio", "espera"}
    /\ Responder(p, Oida(p, "fallo"))
    /\ UNCHANGED <<reloj, intento, cuenta, tarde, bajas>>

\* beginCreationAttempt has no answer and its caller is told that it failed; the call may
\* never be made, be made later, or have been made.
PerderInicio(p) ==
    /\ proc[p].fase \in {"inicio", "espera"}
    /\ Dejar(p, "fallo")
    /\ UNCHANGED <<reloj, intento, cuenta, tarde, bajas>>

\* Mutant: an attempt that failed is not counted.
DelActorSinFallos(p) ==
    {q \in Peticiones : /\ intento[q].estado \in {"pending", "succeeded"}
                        /\ intento[q].actor = proc[p].actor
                        /\ intento[q].creado >= proc[p].ahora - VentanaActor}

DelActor(p) ==
    {q \in Peticiones : /\ intento[q].estado \in Contado
                        /\ intento[q].actor = proc[p].actor
                        /\ intento[q].creado >= proc[p].ahora - VentanaActor}
DeTodos(p) ==
    {q \in Peticiones : /\ intento[q].estado \in Contado
                        /\ intento[q].creado >= proc[p].ahora - VentanaGlobal}

\* Under the advisory lock, whether somebody waits for it or not.
Reservar(p) ==
    /\ proc[p].fase = "espera"
    /\ LET limitado == \/ Cardinality(DelActor(p)) >= LimiteActor
                       \/ Cardinality(DeTodos(p)) >= LimiteGlobal
       IN /\ intento' = [intento EXCEPT ![p] =
                           [estado |-> IF limitado THEN "rate_limited" ELSE "pending",
                            error |-> "ninguno", actor |-> proc[p].actor,
                            creado |-> proc[p].ahora]]
          /\ IF limitado \/ proc[p].solo THEN Responder(p, Oida(p, "limite")) ELSE Ir(p, "crear")
    /\ UNCHANGED <<reloj, cuenta, tarde, bajas>>

\* createAdminClient has no configuration.
SinConfiguracion(p) ==
    /\ proc[p].fase = "crear"
    /\ ACerrar(p, "failed", "configuration_error")
    /\ UNCHANGED <<reloj, intento, cuenta, tarde, bajas>>
------------------------------------------------------------------------------
(* The account. *)

Duplicado(p) == \E q \in Peticiones : cuenta[q].estado = "viva" /\ proc[q].correo = proc[p].correo

\* auth.users takes the row and the trigger its profile.
Provisiona(p) ==
    /\ ~Duplicado(p)
    /\ cuenta' = [cuenta EXCEPT ![p] = [estado |-> "viva", intacta |-> TRUE]]

\* Auth creates the account and says so.
Crear(p) ==
    /\ proc[p].fase = "crear"
    /\ Provisiona(p)
    /\ Ir(p, "verificar")
    /\ UNCHANGED <<reloj, intento, tarde, bajas>>

\* Auth refuses the account: the address is taken, the trigger raises, the password is weak.
AuthRechaza(p) ==
    /\ proc[p].fase = "crear"
    /\ \/ Duplicado(p) /\ ACerrar(p, "failed", "already_exists")
       \/ ACerrar(p, "failed", "auth_error")
    /\ UNCHANGED <<reloj, intento, cuenta, tarde, bajas>>

\* Mutant: no answer is taken for a refusal.
AuthInciertaRechazada(p) ==
    /\ proc[p].fase = "crear"
    /\ \/ Provisiona(p) /\ UNCHANGED tarde
       \/ UNCHANGED cuenta /\ tarde' = tarde \cup {p}
    /\ ACerrar(p, "failed", "already_exists")
    /\ UNCHANGED <<reloj, intento, bajas>>

\* No answer, or one without the user; whether there is an account is not known, and the
\* request may even arrive later.
AuthIncierta(p) ==
    /\ proc[p].fase = "crear"
    /\ \/ Provisiona(p) /\ UNCHANGED tarde
       \/ UNCHANGED cuenta /\ tarde' = tarde \cup {p}
    /\ ACerrar(p, "failed", "auth_error")
    /\ UNCHANGED <<reloj, intento, bajas>>

LlegarTarde(p) ==
    /\ p \in tarde
    /\ Provisiona(p)
    /\ tarde' = tarde \ {p}
    /\ UNCHANGED <<reloj, intento, proc, bajas>>

\* verifyProvisionedProfile
Verificar(p) ==
    /\ proc[p].fase = "verificar"
    /\ cuenta[p].intacta
    /\ ACerrar(p, "succeeded", "ninguno")
    /\ UNCHANGED <<reloj, intento, cuenta, tarde, bajas>>

\* The profile is another one, cannot be read, or the reading fails.
NoVerifica(p) ==
    /\ proc[p].fase = "verificar"
    /\ Ir(p, "compensar")
    /\ UNCHANGED <<reloj, intento, cuenta, tarde, bajas>>

Borrada(p) == [cuenta EXCEPT ![p].estado = "borrada"]

\* Mutant: whatever deleteUser answers, the failure is closed as compensated.
CompensarSinMirar(p) ==
    /\ proc[p].fase = "compensar"
    /\ \/ cuenta' = Borrada(p) /\ UNCHANGED bajas
       \/ UNCHANGED cuenta /\ bajas' = bajas \cup {p}
    /\ ACerrar(p, "failed", "provisioning_error")
    /\ UNCHANGED <<reloj, intento, tarde>>

\* compensateCreatedAuthUser: the account is deleted with its profile and Auth says so, or
\* it does not; then the account is deleted already, or it may be later.
Compensar(p) ==
    /\ proc[p].fase = "compensar"
    /\ \/ /\ cuenta' = Borrada(p) /\ UNCHANGED bajas
          /\ \/ ACerrar(p, "failed", "provisioning_error")
             \/ ACerrar(p, "compensation_failed", "provisioning_compensation_failed")
       \/ /\ UNCHANGED cuenta /\ bajas' = bajas \cup {p}
          /\ ACerrar(p, "compensation_failed", "provisioning_compensation_failed")
    /\ UNCHANGED <<reloj, intento, tarde>>

BorrarTarde(p) ==
    /\ p \in bajas
    /\ cuenta' = Borrada(p)
    /\ bajas' = bajas \ {p}
    /\ UNCHANGED <<reloj, intento, proc, tarde>>

Anuncio(p) == IF proc[p].cierre = "succeeded" THEN "exito" ELSE "fallo"

\* complete_internal_user_creation_attempt commits, and its caller, if he still waits, is told.
Cerrar(p) ==
    /\ proc[p].fase = "cerrar" /\ intento[p].estado = "pending"
    /\ intento' = [intento EXCEPT ![p] = [@ EXCEPT !.estado = proc[p].cierre,
                                                !.error = proc[p].error]]
    /\ Responder(p, Oida(p, Anuncio(p)))
    /\ UNCHANGED <<reloj, cuenta, tarde, bajas>>

\* completeCreationAttempt has no answer, or an error: its caller is told the same.
PerderCierre(p) ==
    /\ proc[p].fase = "cerrar"
    /\ Dejar(p, Anuncio(p))
    /\ UNCHANGED <<reloj, intento, cuenta, tarde, bajas>>

\* The server dies; what it had asked for may still be done.
Morir(p) ==
    /\ \/ /\ proc[p].fase \in {"inicio", "espera", "cerrar"}
          /\ Dejar(p, "ninguna") /\ UNCHANGED <<tarde, bajas>>
       \/ /\ proc[p].fase \in {"crear", "verificar", "compensar"}
          /\ Responder(p, "ninguna")
          /\ tarde' = IF proc[p].fase = "crear" THEN tarde \cup {p} ELSE tarde
          /\ bajas' = IF proc[p].fase = "compensar" THEN bajas \cup {p} ELSE bajas
    /\ UNCHANGED <<reloj, intento, cuenta>>
------------------------------------------------------------------------------
\* An administrator edits the profile, or its user changes the temporary password.
TocarPerfil(p) ==
    /\ cuenta[p].estado = "viva" /\ cuenta[p].intacta
    /\ cuenta' = [cuenta EXCEPT ![p].intacta = FALSE]
    /\ UNCHANGED <<reloj, intento, proc, tarde, bajas>>

Avanzar ==
    /\ reloj < MaxTiempo
    /\ reloj' = reloj + 1
    /\ UNCHANGED <<intento, cuenta, proc, tarde, bajas>>

CrearUsuario(p) ==
    \/ Empezar(p) \/ AutorizarInicio(p) \/ RechazarInicio(p) \/ PerderInicio(p) \/ Reservar(p)
    \/ SinConfiguracion(p) \/ Crear(p) \/ AuthRechaza(p) \/ AuthIncierta(p)
    \/ Verificar(p) \/ NoVerifica(p) \/ Compensar(p) \/ Cerrar(p) \/ PerderCierre(p) \/ Morir(p)
Next ==
    \/ \E p \in Peticiones : CrearUsuario(p) \/ LlegarTarde(p) \/ BorrarTarde(p) \/ TocarPerfil(p)
    \/ Avanzar
Spec == Init /\ [][Next]_vars
------------------------------------------------------------------------------
(* Properties *)

EnVentana(t, v) ==
    {p \in Peticiones : intento[p].estado \in Contado /\ intento[p].creado \in t..(t + v)}

\* No window, wherever it starts, has more attempts than its limit, although now() is that
\* of the start of a transaction and they reach the lock in another order.
LimiteRespetado ==
    \A t \in 0..MaxTiempo :
      /\ \A a \in Admins :
           Cardinality({p \in EnVentana(t, VentanaActor) : intento[p].actor = a}) <= LimiteActor
      /\ Cardinality(EnVentana(t, VentanaGlobal)) <= LimiteGlobal

\* What the attempt and the answer say of the account: a success has it; a refusal and a
\* compensated failure have left none; one that could not be compensated had it; only a
\* lost answer of Auth may leave one behind an attempt that failed.
RegistroVeraz ==
    \A p \in Peticiones :
      /\ intento[p].estado = "succeeded" \/ proc[p].resp = "exito" => cuenta[p].estado = "viva"
      /\ /\ cuenta[p].estado = "viva" /\ intento[p].estado \notin {"pending", "succeeded"}
         => \/ intento[p].error = "auth_error"
            \/ intento[p].estado = "compensation_failed"
      /\ proc[p].resp = "limite" => cuenta[p].estado = "no"
      /\ intento[p].estado = "compensation_failed" => cuenta[p].estado # "no"

\* The inductive invariant: an account that may still appear or be deleted belongs to a
\* call that has not closed its attempt, or to one that closed it without an answer.
CoherenteDe(p) ==
    /\ proc[p].fase \in {"nueva", "inicio", "espera"} =>
         /\ intento[p].estado = "no" /\ cuenta[p].estado = "no"
         /\ proc[p].resp \in {"ninguna", "fallo"}
    /\ proc[p].fase \in {"crear", "verificar", "compensar", "cerrar"} =>
         intento[p].estado = "pending"
    /\ proc[p].fase = "crear" => cuenta[p].estado = "no"
    /\ proc[p].fase \in {"verificar", "compensar"} => cuenta[p].estado = "viva"
    /\ proc[p].fase \in {"nueva", "inicio", "espera", "crear", "verificar", "compensar"} =>
         p \notin tarde \cup bajas
    /\ proc[p].fase = "cerrar" =>
         /\ proc[p].cierre = "succeeded" => cuenta[p].estado = "viva"
         /\ proc[p].cierre = "failed" /\ proc[p].error # "auth_error" =>
              cuenta[p].estado # "viva" /\ p \notin tarde
         /\ proc[p].cierre # "compensation_failed" => p \notin bajas
         /\ proc[p].resp \in {"ninguna", Anuncio(p)}
    /\ intento[p].estado \in {"no", "rate_limited"} =>
         cuenta[p].estado = "no" /\ p \notin tarde
    /\ intento[p].estado = "failed" /\ intento[p].error # "auth_error" =>
         cuenta[p].estado # "viva" /\ p \notin tarde
    /\ intento[p].estado = "succeeded" => cuenta[p].estado = "viva"
    /\ p \in bajas => /\ cuenta[p].estado = "viva" /\ proc[p].resp # "exito"
                      /\ intento[p].estado \in {"pending", "compensation_failed"}
    /\ proc[p].solo => proc[p].fase \in {"inicio", "espera", "cerrar"}
    /\ proc[p].resp # "ninguna" => proc[p].fase = "fin" \/ proc[p].solo
    /\ proc[p].resp = "exito" => /\ cuenta[p].estado = "viva"
                                /\ intento[p].estado \in {"pending", "succeeded"}
    /\ proc[p].resp = "limite" => intento[p].estado = "rate_limited"
Coherente == \A p \in Peticiones : CoherenteDe(p)
InvInductivo == TypeOK /\ Coherente /\ LimiteRespetado
------------------------------------------------------------------------------
\* What the audit and the accounts of Auth show of each attempt.
Registro == [p \in Peticiones |->
    IF intento[p].estado = "failed" /\ intento[p].error = "auth_error" THEN "duda"
                                                                      ELSE intento[p].estado]
Cuentas == [p \in Peticiones |-> cuenta[p].estado]
Avisos == [p \in Peticiones |-> proc[p].resp]

\* A creation that may still arrive is of an attempt that is open or in doubt and has had
\* no account; a deletion, of one that is open or not compensated, whose account nobody was
\* promised; and what could not be compensated existed.
LlegaUnaVez ==
    \A p \in Peticiones :
        /\ p \in tarde => cuenta[p].estado = "no" /\ Registro[p] \in {"pending", "duda"}
        /\ p \in bajas => /\ cuenta[p].estado = "viva" /\ proc[p].resp # "exito"
                          /\ Registro[p] \in {"pending", "compensation_failed"}
        /\ \/ proc[p].fase = "cerrar" /\ proc[p].cierre = "compensation_failed"
           \/ intento[p].estado = "compensation_failed"
           => cuenta[p].estado # "no"

\* To whoever asks and whoever audits, a creation is what Altas says, whatever is lost,
\* late or interrupted: one account at most, never back once it is withdrawn, never
\* withdrawn once a success was told or recorded, none that appears after an attempt was
\* closed as certain, and a record that agrees with what was told before it.
\* createInternalUser with begin_ and complete_internal_user_creation_attempt.
A == INSTANCE Altas WITH registro <- Registro, cuenta <- Cuentas, aviso <- Avisos
AltasSpec == A!Spec
==============================================================================
