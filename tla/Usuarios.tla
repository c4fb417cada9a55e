------------------------------- MODULE Usuarios -------------------------------
(***************************************************************************)
(* Internal users: who is an administrator, who may operate, and whether   *)
(* the password kept by Supabase Auth is the user's own or a temporary one *)
(* an administrator chose.  The database and Auth share no transaction, so *)
(* a change that needs both is a protocol of the web server:               *)
(*   - resetInternalUserPassword: begin (which blocks the user), Auth,     *)
(*     complete, each with one retry, and a read of the attempt when the   *)
(*     answers were lost;                                                  *)
(*   - completeInitialPasswordChange: Auth, then the function that lifts   *)
(*     must_change_password, with one retry;                               *)
(*   - updateInternalUser: read and checks, then one UPDATE, whose policy  *)
(*     reads the snapshot of the statement and whose trigger reads after   *)
(*     taking a lock.                                                      *)
(* A call may fail before it takes effect or lose its answer after; it is  *)
(* never executed later.  Processes may die between any two steps.         *)
(***************************************************************************)
EXTENDS Naturals, FiniteSets

CONSTANTS
    Usuarios,
    Administradores,    \* administrators who operate at the start
    ConTemporal,        \* users created and not yet through the first change
    AdminConTemporal,   \* those of them who are administrators
    Editores,           \* users who edit others during the run
    Intentos,           \* invocations of resetInternalUserPassword, by attempt id
    Propia, Alta,       \* whose password it is: the user's, that of the creation
    Nadie               \* no user, no edit

ASSUME UsuariosAssumption ==
    /\ Administradores \subseteq Usuarios /\ ConTemporal \subseteq Usuarios
    /\ Editores \subseteq Usuarios /\ AdminConTemporal \subseteq ConTemporal
    /\ Administradores # {} /\ Administradores \cap ConTemporal = {}
    /\ Nadie \notin Usuarios
    /\ Propia \notin Intentos /\ Alta \notin Intentos /\ Propia # Alta

VARIABLES
    perfil,     \* perfiles: role, is_active, must_change_password
    clave,      \* whose choice the password in Auth is
    intento,    \* the attempt: who resets whom, and its row of the audit
    proc,       \* the invocation of each attempt
    cambio,     \* the invocation of completeInitialPasswordChange of each user
    edicion,    \* the invocation of updateInternalUser of each user
    aplicados,  \* history: attempts whose password reached Auth
    cruzados    \* history: users whose own completion crossed a reset of them

vars == <<perfil, clave, intento, proc, cambio, edicion, aplicados, cruzados>>

Perfil == [admin : BOOLEAN, activo : BOOLEAN, debe : BOOLEAN]
EstadoIntento ==
    {"ninguno", "pending", "succeeded", "failed", "rate_limited", "attention_required"}
Intento == [actor : Usuarios \cup {Nadie}, objetivo : Usuarios \cup {Nadie},
            estado : EstadoIntento, activo : BOOLEAN, debe : BOOLEAN]

\* The calls that close an attempt, and the reads that confirm them.
Cierre == {"exito", "falla", "reversion", "atencion"}
Lectura == {"lee_exito", "lee_falla", "lee_reversion"}
Fase == {"libre", "inicio", "dentro", "recuperar", "auth", "fin"} \cup Cierre \cup Lectura
Resultado == {"ninguno", "exito", "sin_cambio", "revisar", "error"}
Proc == [fase : Fase, vuelta : {1, 2}, resultado : Resultado]
Edicion == [objetivo : Usuarios, admin : BOOLEAN, activo : BOOLEAN,
            fase : {"revisada", "sentencia"}]

TypeOK ==
    /\ perfil \in [Usuarios -> Perfil]
    /\ clave \in [Usuarios -> {Propia, Alta} \cup Intentos]
    /\ intento \in [Intentos -> Intento]
    /\ proc \in [Intentos -> Proc]
    /\ cambio \in [Usuarios -> {"nada", "listo", "rpc1", "rpc2"}]
    /\ edicion \in [Usuarios -> Edicion \cup {Nadie}]
    /\ aplicados \subseteq Intentos /\ cruzados \subseteq Usuarios
    /\ \A a \in Intentos : proc[a].fase # "libre" =>
          intento[a].actor # Nadie /\ intento[a].objetivo # Nadie

\* A new profile is active and must change its password; the others operate.
Init ==
    /\ perfil = [u \in Usuarios |->
          [admin |-> u \in Administradores \cup AdminConTemporal,
           activo |-> TRUE, debe |-> u \in ConTemporal]]
    /\ clave = [u \in Usuarios |-> IF u \in ConTemporal THEN Alta ELSE Propia]
    /\ intento = [a \in Intentos |->
          [actor |-> Nadie, objetivo |-> Nadie, estado |-> "ninguno",
           activo |-> FALSE, debe |-> FALSE]]
    /\ proc = [a \in Intentos |-> [fase |-> "libre", vuelta |-> 1, resultado |-> "ninguno"]]
    /\ cambio = [u \in Usuarios |-> "nada"]
    /\ edicion = [u \in Usuarios |-> Nadie]
    /\ aplicados = {} /\ cruzados = {}

-----------------------------------------------------------------------------
(* Who may do what.                                                        *)

AdminActivo(u) == perfil[u].admin /\ perfil[u].activo
Operativo(u) == perfil[u].activo /\ ~perfil[u].debe
AdminOperativo(u) == perfil[u].admin /\ Operativo(u)
Bloqueado(u) == ~perfil[u].activo /\ perfil[u].debe

\* Mutant: the count of the administrators that remain includes the one who goes.
IntegridadAdminInclusiva(u, v, admin, activo) ==
    AdminActivo(v) /\ ~(admin /\ activo) => u # v /\ \E w \in Usuarios : AdminActivo(w)

\* The trigger of every UPDATE of role or is_active, under its lock: u turns v
\* into admin and activo.  Nobody degrades himself, nor the last one.
IntegridadAdmin(u, v, admin, activo) ==
    AdminActivo(v) /\ ~(admin /\ activo) =>
        u # v /\ \E w \in Usuarios \ {v} : AdminActivo(w)

-----------------------------------------------------------------------------
(* resetInternalUserPassword: begin.                                       *)

En(a, fase) == proc[a].fase = fase
Pasa(a, fase) == proc' = [proc EXCEPT ![a].fase = fase, ![a].vuelta = 1]
Acaba(a, r) == proc' = [proc EXCEPT ![a].fase = "fin", ![a].resultado = r]

Empezar(a, u, v) ==
    /\ En(a, "libre") /\ u # v
    /\ AdminOperativo(u)
    /\ intento' = [intento EXCEPT ![a].actor = u, ![a].objetivo = v]
    /\ Pasa(a, "inicio")
    /\ UNCHANGED <<perfil, clave, cambio, edicion, aplicados, cruzados>>

\* No usable answer: the call is made again with the same id, then the state is read.
SinRespuestaDeInicio(a) ==
    \/ /\ proc[a].vuelta = 1
       /\ proc' = [proc EXCEPT ![a].fase = "inicio", ![a].vuelta = 2]
    \/ /\ proc[a].vuelta = 2
       /\ Pasa(a, "recuperar")

\* The function checks its caller before it waits for its locks.
AutorizarInicio(a) ==
    /\ En(a, "inicio")
    /\ \/ AdminOperativo(intento[a].actor) /\ proc' = [proc EXCEPT ![a].fase = "dentro"]
       \/ ~AdminOperativo(intento[a].actor) /\ Acaba(a, "error")
       \/ SinRespuestaDeInicio(a)
    /\ UNCHANGED <<perfil, clave, intento, cambio, edicion, aplicados, cruzados>>

Responde(a, siguiente) == siguiente \/ SinRespuestaDeInicio(a)

\* Mutant: nobody looks whether another attempt is pending.
OtroPendienteNunca(a) == FALSE

OtroPendiente(a) ==
    \E b \in Intentos \ {a} :
        intento[b].estado = "pending" /\ intento[b].objetivo = intento[a].objetivo

\* The first call that arrives: it records the profile and blocks the user.
ReservarIntento(a) ==
    LET v == intento[a].objetivo IN
    /\ En(a, "dentro") /\ intento[a].estado = "ninguno" /\ ~OtroPendiente(a)
    /\ IntegridadAdmin(intento[a].actor, v, perfil[v].admin, FALSE)
    /\ intento' = [intento EXCEPT ![a].estado = "pending",
                                  ![a].activo = perfil[v].activo, ![a].debe = perfil[v].debe]
    /\ perfil' = [perfil EXCEPT ![v].activo = FALSE, ![v].debe = TRUE]
    /\ Responde(a, Pasa(a, "auth"))
    /\ UNCHANGED <<clave, cambio, edicion, aplicados, cruzados>>

\* A limit of attempts of the actor, of the user or of everybody was reached.
LimitarIntento(a) ==
    LET v == intento[a].objetivo IN
    /\ En(a, "dentro") /\ intento[a].estado = "ninguno" /\ ~OtroPendiente(a)
    /\ intento' = [intento EXCEPT ![a].estado = "rate_limited",
                                  ![a].activo = perfil[v].activo, ![a].debe = perfil[v].debe]
    /\ Responde(a, Acaba(a, "error"))
    /\ UNCHANGED <<perfil, clave, cambio, edicion, aplicados, cruzados>>

\* The call that finds its own row, refused otherwise, or stopped by the trigger.
RepetirInicio(a) ==
    LET v == intento[a].objetivo IN
    /\ En(a, "dentro")
    /\ \/ /\ intento[a].estado = "pending" /\ Bloqueado(v)
          /\ Responde(a, Pasa(a, "auth"))
       \/ /\ intento[a].estado = "pending" /\ ~Bloqueado(v)
          /\ SinRespuestaDeInicio(a)
       \/ /\ \/ intento[a].estado = "rate_limited"
             \/ intento[a].estado = "ninguno" /\ OtroPendiente(a)
          /\ Responde(a, Acaba(a, "error"))
       \/ /\ intento[a].estado = "ninguno" /\ ~OtroPendiente(a)
          /\ ~IntegridadAdmin(intento[a].actor, v, perfil[v].admin, FALSE)
          /\ SinRespuestaDeInicio(a)
    /\ UNCHANGED <<perfil, clave, intento, cambio, edicion, aplicados, cruzados>>

\* recoverUnconfirmedBegin: what is read decides whether there is something to undo.
Recuperar(a) ==
    /\ En(a, "recuperar")
    /\ \/ Acaba(a, "revisar")
       \/ /\ intento[a].estado = "pending" /\ Bloqueado(intento[a].objetivo)
          /\ Pasa(a, "reversion")
       \/ /\ ~(intento[a].estado = "pending" /\ Bloqueado(intento[a].objetivo))
          /\ Acaba(a, "error")
    /\ UNCHANGED <<perfil, clave, intento, cambio, edicion, aplicados, cruzados>>

-----------------------------------------------------------------------------
(* resetInternalUserPassword: Auth.                                        *)

\* Auth refuses, or the server gives up before it asks: nothing changed.
AuthRechaza(a) ==
    /\ En(a, "auth")
    /\ Pasa(a, "falla")
    /\ UNCHANGED <<perfil, clave, intento, cambio, edicion, aplicados, cruzados>>

AuthAplica(a) ==
    /\ En(a, "auth")
    /\ clave' = [clave EXCEPT ![intento[a].objetivo] = a]
    /\ aplicados' = aplicados \cup {a}
    /\ Pasa(a, "exito")
    /\ UNCHANGED <<perfil, intento, cambio, edicion, cruzados>>

\* Mutant: an answer that says nothing is taken for a refusal.
AuthInciertaRechazada(a) ==
    /\ En(a, "auth")
    /\ clave' = [clave EXCEPT ![intento[a].objetivo] = a]
    /\ aplicados' = aplicados \cup {a}
    /\ Pasa(a, "falla")
    /\ UNCHANGED <<perfil, intento, cambio, edicion, cruzados>>

\* A timeout, a 5xx, a lost or an odd answer: the password may be the new one.
AuthIncierta(a) ==
    /\ En(a, "auth")
    /\ \/ UNCHANGED <<clave, aplicados>>
       \/ /\ clave' = [clave EXCEPT ![intento[a].objetivo] = a]
          /\ aplicados' = aplicados \cup {a}
    /\ Pasa(a, "atencion")
    /\ UNCHANGED <<perfil, intento, cambio, edicion, cruzados>>

-----------------------------------------------------------------------------
(* resetInternalUserPassword: complete.                                    *)

EstadoFinal(fase) ==
    CASE fase = "exito" -> "succeeded"
      [] fase \in {"falla", "reversion"} -> "failed"
      [] fase = "atencion" -> "attention_required"

ActivoFinal(a, final) == final # "attention_required" /\ intento[a].activo
DebeFinal(a, final) == final = "failed" => intento[a].debe

PerfilFinal(a, final) ==
    [perfil EXCEPT ![intento[a].objetivo].activo = ActivoFinal(a, final),
                   ![intento[a].objetivo].debe = DebeFinal(a, final)]

\* What the service does with the answer of complete; it calls it twice at most.
TrasCierre(a, confirmado) ==
    LET fase == proc[a].fase IN
    \/ confirmado /\ fase = "exito" /\ Acaba(a, "exito")
    \/ ~confirmado /\ proc[a].vuelta = 1 /\ proc' = [proc EXCEPT ![a].vuelta = 2]
    \/ /\ confirmado \/ proc[a].vuelta = 2
       /\ \/ fase = "exito" /\ ~confirmado /\ Pasa(a, "lee_exito")
          \/ fase = "falla" /\ Pasa(a, "lee_falla")
          \/ fase = "reversion" /\ Pasa(a, "lee_reversion")
          \/ fase = "atencion" /\ Acaba(a, "revisar")

\* Mutant: a call repeated after its answer was lost is applied again.
CerrarOtraVez(a) ==
    LET final == EstadoFinal(proc[a].fase) IN
    /\ proc[a].fase \in Cierre
    /\ IntegridadAdmin(intento[a].actor, intento[a].objetivo,
                       perfil[intento[a].objetivo].admin, ActivoFinal(a, final))
    /\ perfil' = PerfilFinal(a, final)
    /\ intento' = [intento EXCEPT ![a].estado = final]
    /\ \E recibida \in BOOLEAN : TrasCierre(a, recibida)
    /\ UNCHANGED <<clave, cambio, edicion, aplicados, cruzados>>

\* Mutant: the user returns with the mark he had, whatever Auth did.
CerrarConMarcaPrevia(a) ==
    LET final == EstadoFinal(proc[a].fase)  v == intento[a].objetivo IN
    /\ proc[a].fase \in Cierre /\ intento[a].estado = "pending"
    /\ IntegridadAdmin(intento[a].actor, v, perfil[v].admin, ActivoFinal(a, final))
    /\ perfil' = [PerfilFinal(a, final) EXCEPT ![v].debe = intento[a].debe]
    /\ intento' = [intento EXCEPT ![a].estado = final]
    /\ \E recibida \in BOOLEAN : TrasCierre(a, recibida)
    /\ UNCHANGED <<clave, cambio, edicion, aplicados, cruzados>>

Cerrar(a) ==
    LET final == EstadoFinal(proc[a].fase)  v == intento[a].objetivo IN
    /\ proc[a].fase \in Cierre /\ intento[a].estado = "pending"
    /\ IntegridadAdmin(intento[a].actor, v, perfil[v].admin, ActivoFinal(a, final))
    /\ perfil' = PerfilFinal(a, final)
    /\ intento' = [intento EXCEPT ![a].estado = final]
    /\ \E recibida \in BOOLEAN : TrasCierre(a, recibida)
    /\ UNCHANGED <<clave, cambio, edicion, aplicados, cruzados>>

\* The call that is lost, stopped by the trigger, or finds the attempt closed:
\* with the same status it is confirmed, with another it is refused.
CerrarSinEfecto(a) ==
    /\ proc[a].fase \in Cierre
    /\ \/ TrasCierre(a, FALSE)
       \/ intento[a].estado = EstadoFinal(proc[a].fase) /\ TrasCierre(a, TRUE)
    /\ UNCHANGED <<perfil, clave, intento, cambio, edicion, aplicados, cruzados>>

\* The audit and the profile tell the same: what the server requires of a read.
Coherente(a, final) ==
    LET v == intento[a].objetivo IN
    /\ intento[a].estado = final
    /\ perfil[v].activo = ActivoFinal(a, final)
    /\ perfil[v].debe = DebeFinal(a, final)

\* A read that fails confirms nothing.
Confirmar(a) ==
    /\ \/ En(a, "lee_exito") /\ Coherente(a, "succeeded") /\ Acaba(a, "exito")
       \/ En(a, "lee_exito") /\ Pasa(a, "atencion")
       \/ En(a, "lee_falla") /\ Coherente(a, "failed") /\ Acaba(a, "sin_cambio")
       \/ En(a, "lee_falla") /\ Pasa(a, "atencion")
       \/ En(a, "lee_reversion") /\ Coherente(a, "failed") /\ Acaba(a, "error")
       \/ En(a, "lee_reversion") /\ ~Coherente(a, "failed") /\ Pasa(a, "atencion")
       \/ En(a, "lee_reversion") /\ Acaba(a, "revisar")
    /\ UNCHANGED <<perfil, clave, intento, cambio, edicion, aplicados, cruzados>>

\* The server stops, or the platform cuts the request short.
Morir(a) ==
    /\ proc[a].fase \notin {"libre", "fin"}
    /\ Acaba(a, "ninguno")
    /\ UNCHANGED <<perfil, clave, intento, cambio, edicion, aplicados, cruzados>>

Restablecer(a) ==
    \/ \E u, v \in Usuarios : Empezar(a, u, v)
    \/ AutorizarInicio(a) \/ ReservarIntento(a) \/ LimitarIntento(a) \/ RepetirInicio(a)
    \/ Recuperar(a)
    \/ AuthRechaza(a) \/ AuthAplica(a) \/ AuthIncierta(a)
    \/ Cerrar(a) \/ CerrarSinEfecto(a) \/ Confirmar(a)
    \/ Morir(a)

-----------------------------------------------------------------------------
(* completeInitialPasswordChange.                                          *)

EmpezarCambio(u) ==
    /\ cambio[u] = "nada"
    /\ perfil[u].activo /\ perfil[u].debe
    /\ cambio' = [cambio EXCEPT ![u] = "listo"]
    /\ UNCHANGED <<perfil, clave, intento, proc, edicion, aplicados, cruzados>>

\* Auth takes the user's own password; an odd answer ends the change here.
CambiarClave(u) ==
    /\ cambio[u] = "listo"
    /\ clave' = [clave EXCEPT ![u] = Propia]
    /\ \E s \in {"rpc1", "nada"} : cambio' = [cambio EXCEPT ![u] = s]
    /\ UNCHANGED <<perfil, intento, proc, edicion, aplicados, cruzados>>

SinConfirmarCambio(u) ==
    cambio' = [cambio EXCEPT ![u] = IF cambio[u] = "rpc1" THEN "rpc2" ELSE "nada"]

\* A reset of u holds the account, or has already changed its password.
ReseteoDe(u) ==
    \/ clave[u] # Propia
    \/ \E a \in Intentos : intento[a].objetivo = u /\ intento[a].estado = "pending"

\* The function locks the profile, asks that it be active and lifts the mark.
CompletarCambio(u) ==
    /\ cambio[u] \in {"rpc1", "rpc2"}
    /\ perfil[u].activo
    /\ perfil' = [perfil EXCEPT ![u].debe = FALSE]
    /\ cruzados' = IF perfil[u].debe /\ ReseteoDe(u) THEN cruzados \cup {u} ELSE cruzados
    /\ cambio' = [cambio EXCEPT ![u] = "nada"] \/ SinConfirmarCambio(u)
    /\ UNCHANGED <<clave, intento, proc, edicion, aplicados>>

\* The call is lost or refused; or the change ends, refused by Auth or cut short.
CambioSinEfecto(u) ==
    /\ cambio[u] # "nada"
    /\ \/ cambio[u] \in {"rpc1", "rpc2"} /\ SinConfirmarCambio(u)
       \/ cambio' = [cambio EXCEPT ![u] = "nada"]
    /\ UNCHANGED <<perfil, clave, intento, proc, edicion, aplicados, cruzados>>

CambiarInicial(u) ==
    EmpezarCambio(u) \/ CambiarClave(u) \/ CompletarCambio(u) \/ CambioSinEfecto(u)

-----------------------------------------------------------------------------
(* updateInternalUser.                                                     *)

\* What the server asks after reading: nobody degrades himself, and another
\* operating administrator must be left.
EdicionPermitida(u, v, admin, activo) ==
    /\ u = v => admin /\ activo
    /\ AdminOperativo(v) /\ ~(admin /\ activo) =>
          Cardinality({w \in Usuarios : AdminOperativo(w)}) > 1

RevisarEdicion(u, v, admin, activo) ==
    /\ edicion[u] = Nadie /\ AdminOperativo(u)
    /\ EdicionPermitida(u, v, admin, activo)
    /\ edicion' = [edicion EXCEPT ![u] =
          [objetivo |-> v, admin |-> admin, activo |-> activo, fase |-> "revisada"]]
    /\ UNCHANGED <<perfil, clave, intento, proc, cambio, aplicados, cruzados>>

\* The UPDATE starts: its policy reads the snapshot of the statement.
EmpezarUpdate(u) ==
    /\ edicion[u] # Nadie /\ edicion[u].fase = "revisada" /\ AdminOperativo(u)
    /\ edicion' = [edicion EXCEPT ![u].fase = "sentencia"]
    /\ UNCHANGED <<perfil, clave, intento, proc, cambio, aplicados, cruzados>>

\* It has the row: its trigger decides and it commits.
Escribir(u) ==
    LET e == edicion[u] IN
    /\ e # Nadie /\ e.fase = "sentencia"
    /\ IntegridadAdmin(u, e.objetivo, e.admin, e.activo)
    /\ perfil' = [perfil EXCEPT ![e.objetivo].admin = e.admin, ![e.objetivo].activo = e.activo]
    /\ edicion' = [edicion EXCEPT ![u] = Nadie]
    /\ UNCHANGED <<clave, intento, proc, cambio, aplicados, cruzados>>

\* Refused by the policy or the trigger, or never sent.
AbandonarEdicion(u) ==
    /\ edicion[u] # Nadie
    /\ edicion' = [edicion EXCEPT ![u] = Nadie]
    /\ UNCHANGED <<perfil, clave, intento, proc, cambio, aplicados, cruzados>>

Editar(u) ==
    \/ \E v \in Usuarios, admin, activo \in BOOLEAN : RevisarEdicion(u, v, admin, activo)
    \/ EmpezarUpdate(u) \/ Escribir(u) \/ AbandonarEdicion(u)

Next ==
    \/ \E a \in Intentos : Restablecer(a)
    \/ \E u \in Usuarios : CambiarInicial(u)
    \/ \E u \in Editores : Editar(u)

Spec == Init /\ [][Next]_vars

-----------------------------------------------------------------------------
(* Properties.                                                             *)

\* Whatever edits, resets and returns from a reset cross, there is an active
\* administrator.
SiempreUnAdmin == \E u \in Usuarios : AdminActivo(u)

\* What one attempt must not tell.
Veraz(a) ==
    /\ proc[a].resultado = "exito" => intento[a].estado = "succeeded"
    /\ proc[a].resultado = "sin_cambio" => intento[a].estado = "failed"
    /\ intento[a].estado = "succeeded" => a \in aplicados
    /\ intento[a].estado = "failed" => a \notin aplicados

\* The server tells the truth about Auth: it announces a success only of an
\* attempt that is closed as succeeded and whose password arrived, and says that
\* nothing changed only when nothing did.  No attempt is closed as failed after
\* Auth took its password.
RespuestaVeraz == \A a \in Intentos : Veraz(a)

\* Two administrators never hold the same user blocked: the second would record
\* the block of the first as the state to return to.
UnPendientePorObjetivo ==
    \A a, b \in Intentos :
        intento[a].estado = "pending" /\ intento[b].estado = "pending"
            /\ intento[a].objetivo = intento[b].objetivo => a = b

\* A user with a temporary password must change it, whoever chose it and wherever
\* the reset stopped.  The only way out is the completion of his own earlier
\* change, when it lands on a reset: no edit, retry, crash or lost answer is another.
TemporalBloqueaSalvoCruce ==
    \A u \in Usuarios : clave[u] # Propia => perfil[u].debe \/ u \in cruzados

\* A user who chose his password is sent to change it again only by an attempt
\* that begins or is closed in that step: a call of complete repeated because its
\* answer was lost does not touch him.
MarcaSoloPorIntento ==
    [][\A u \in Usuarios :
          ~perfil[u].debe /\ perfil'[u].debe =>
              \E a \in Intentos :
                  intento[a].objetivo = u /\ intento'[a].estado # intento[a].estado]_vars

AntesDeAuth == {"libre", "inicio", "dentro", "recuperar", "auth"}
Deshaciendo == {"falla", "reversion", "lee_falla", "lee_reversion"}

\* Where the invocation is tells what its row says and what Auth took.
FaseCoherente(a) ==
    LET fase == proc[a].fase  estado == intento[a].estado IN
    /\ fase \in AntesDeAuth \cup Deshaciendo => a \notin aplicados
    /\ fase = "libre" => estado = "ninguno"
    /\ fase \in {"inicio", "dentro", "recuperar"} =>
          estado \in {"ninguno", "pending", "rate_limited"}
    /\ fase = "auth" => estado = "pending"
    /\ fase \in {"exito", "lee_exito"} =>
          a \in aplicados /\ estado \in {"pending", "succeeded"}
    /\ fase \in Deshaciendo => estado \in {"pending", "failed"}
    /\ proc[a].resultado # "ninguno" => fase = "fin"

ProtocoloCoherente == \A a \in Intentos : FaseCoherente(a)

\* A pending attempt keeps the mark, and remembers one it may return to.
MarcaDePendiente ==
    \A a \in Intentos :
        LET v == intento[a].objetivo IN
        intento[a].estado = "pending" =>
            /\ perfil[v].debe \/ v \in cruzados
            /\ a \notin aplicados /\ clave[v] # Propia => intento[a].debe \/ v \in cruzados

\* The invariant of the proof.
InvInductivo ==
    /\ TypeOK /\ ProtocoloCoherente /\ UnPendientePorObjetivo /\ MarcaDePendiente
    /\ RespuestaVeraz /\ TemporalBloqueaSalvoCruce /\ SiempreUnAdmin

\* What is seen of the resets: the audit, the user each one holds since it was recorded,
\* and what its answer says of the password (an error, or a request to look, says nothing).
Estados == [a \in Intentos |-> intento[a].estado]
Retenidos == [a \in Intentos |->
    IF intento[a].estado \in {"ninguno", "rate_limited"} THEN Nadie ELSE intento[a].objetivo]
Anuncios == [a \in Intentos |->
    IF proc[a].resultado \in {"exito", "sin_cambio"} THEN proc[a].resultado ELSE "ninguno"]

\* To whoever asks and whoever audits, a reset is what Reseteo says: it holds its user
\* alone, Auth takes its password once and only before it is closed, it is closed once
\* and truly, and the announcement agrees, whatever calls were lost or repeated.
\* resetInternalUserPassword with begin_ and complete_internal_user_password_reset.
R == INSTANCE Reseteo WITH
        estado <- Estados, retiene <- Retenidos, anuncio <- Anuncios
ReseteoSpec == R!Spec

\* docs/USERS_MANAGEMENT_MODEL.md: must_change_password blocks whoever keeps a
\* temporary password.
TemporalBloquea == \A u \in Usuarios : clave[u] # Propia => perfil[u].debe

\* src/lib/usuarios/README.md: the system keeps an operating administrator.
SiempreUnOperativo == \E u \in Usuarios : AdminOperativo(u)
=============================================================================
