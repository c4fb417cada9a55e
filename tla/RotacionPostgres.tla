--------------------------- MODULE RotacionPostgres ---------------------------
(***************************************************************************)
(* The rotation of the PostgreSQL password of the self-hosted installation *)
(* (scripts/operations/postgres-password-*.mjs): the commands cutover,     *)
(* rollback, rollback-resume and target-finalize of one pair of            *)
(* generations.  The password lives in five places no transaction joins:   *)
(* the manager credential of Supavisor, the roles of the database, the     *)
(* environment file, the pointer of the registry of secrets, and the       *)
(* environment each running container was created with.  A command changes *)
(* them one by one, with the public entry (nginx) closed and the lock of   *)
(* the registry held.                                                      *)
(*                                                                         *)
(* Every call to docker, SQL or the file system may fail before its effect *)
(* or after it; a check tells the truth or fails.  The process may die     *)
(* between any two steps; what it leaves is what the next command finds.   *)
(* An operator runs one command at a time.                                 *)
(***************************************************************************)
EXTENDS Integers

CONSTANT NumServicios   \* the services recreated, in order: 1 is db, 2 supavisor

ASSUME NumServiciosAssumption == NumServicios \in Nat /\ NumServicios >= 2

VARIABLES
    material,    \* the generation each place of the password holds
    contenedor,  \* the generation each container was created with
    abierto,     \* nginx is running
    candado,     \* the operation lock of this target is present
    orden,       \* the command that runs, or ran last
    fase,        \* where it is
    intentos,    \* the changes it has attempted
    turno,       \* the next service it recreates
    meta,        \* the generation it means to leave published
    respuesta    \* what the last command answered

vars == <<material, contenedor, abierto, candado, orden, fase, intentos, turno,
          meta, respuesta>>

Gen == {"origen", "destino"}
Otra(g) == IF g = "origen" THEN "destino" ELSE "origen"

Parte == {"supavisor", "roles", "env", "puntero"}
Servicios == 1 .. NumServicios
Db == 1
Supavisor == 2

Orden == {"cutover", "rollback", "rollback-resume", "target-finalize"}

\* The generation a command moves the installation to.
Hacia(o) == IF o \in {"cutover", "target-finalize"} THEN "destino" ELSE "origen"

Muta == {"supavisor", "roles", "env"}
Compensa == {"c_env", "c_roles", "c_roles_ver", "c_supavisor", "c_supavisor_ver", "c_fin"}
Fase == {"ninguna", "previo", "previo_falla", "previo_soltar", "cerrar", "roles_ver",
         "env_ver", "puntero", "leer_puntero", "releer", "recrear", "aceptar", "abrir",
         "abrir_final", "recerrar", "soltar", "leer_candado", "publico"}
        \cup Muta \cup Compensa

\* The answers, without the prefix each command gives them: RESTORED is
\* FAILED_SOURCE_RESTORED and ROLLBACK_FAILED_TARGET_RESTORED, COMMITTED is
\* COMMITTED_REQUIRES_TRACKED_ROLLBACK and ROLLBACK_COMMITTED_RECOVERY_INCOMPLETE.
Respuesta == {"ninguna", "LOCK_ACQUISITION_UNVERIFIED", "PREFLIGHT_FAILED",
              "NOT_ACCEPTED", "MAINTENANCE_STATE_UNVERIFIED", "COMPENSATION_FAILED",
              "RESTORED", "SECRET_STATE_UNVERIFIED", "COMMITTED", "MAINTENANCE_CLOSED",
              "LOCK_RETAINED", "LOCK_STATE_UNVERIFIED", "PUBLIC_UNVERIFIED", "COMPLETE"}

TypeOK ==
    /\ material \in [Parte -> Gen]
    /\ contenedor \in [Servicios -> Gen \cup {"ausente"}]
    /\ abierto \in BOOLEAN /\ candado \in BOOLEAN
    /\ orden \in Orden /\ fase \in Fase
    /\ intentos \in SUBSET Muta
    /\ turno \in 1 .. NumServicios + 1
    /\ meta \in Gen /\ respuesta \in Respuesta

Init ==
    /\ material = [p \in Parte |-> "origen"]
    /\ contenedor = [s \in Servicios |-> "origen"]
    /\ abierto = TRUE /\ candado = FALSE
    /\ orden = "cutover" /\ fase = "ninguna" /\ intentos = {} /\ turno = 1
    /\ meta = "origen" /\ respuesta = "ninguna"

-----------------------------------------------------------------------------
(* What the checks of the commands find. *)

En(g, partes) == \A p \in partes : material[p] = g
Presentes == \A s \in Servicios : contenedor[s] # "ausente"
ContenedoresEn(g) == \A s \in Servicios : contenedor[s] = g
Uniforme(g) == En(g, Parte) /\ ContenedoresEn(g)

\* A role, then the manager, logs in with the password of g.
RolesEn(g) == material["roles"] = g /\ contenedor[Db] # "ausente"
SupavisorEn(g) ==
    RolesEn(g) /\ material["supavisor"] = g /\ contenedor[Supavisor] # "ausente"

\* The service through which a place of the password is changed is there.
Alcanzable(p) ==
    /\ p = "roles" => contenedor[Db] # "ausente"
    /\ p = "supavisor" => contenedor[Supavisor] # "ausente"

\* Mutant: the target is accepted by its secrets, whatever the containers run with.
AdmiteSinContenedores(o) ==
    CASE o = "cutover" -> Uniforme("origen") /\ abierto
      [] o = "rollback" -> /\ En("destino", Parte) /\ ~abierto
                           /\ Presentes /\ ~ContenedoresEn("destino")
      [] o = "rollback-resume" -> /\ En("origen", {"puntero", "env"}) /\ ~abierto
                                  /\ RolesEn("origen") /\ SupavisorEn("origen")
      [] o = "target-finalize" -> En("destino", Parte)

\* Mutant: the finalizer asks for a closed entry, as the acceptance of a cutover does.
AdmiteCerrada(o) ==
    CASE o = "cutover" -> Uniforme("origen") /\ abierto
      [] o = "rollback" -> /\ En("destino", Parte) /\ ~abierto
                           /\ Presentes /\ ~ContenedoresEn("destino")
      [] o = "rollback-resume" -> /\ En("origen", {"puntero", "env"}) /\ ~abierto
                                  /\ RolesEn("origen") /\ SupavisorEn("origen")
      [] o = "target-finalize" -> Uniforme("destino") /\ ~abierto

\* The rollback admits a target that is known not to be accepted: an answer that
\* cannot be obtained is not one.
Admite(o) ==
    CASE o = "cutover" -> Uniforme("origen") /\ abierto
      [] o = "rollback" -> /\ En("destino", Parte) /\ ~abierto
                           /\ Presentes /\ ~ContenedoresEn("destino")
      [] o = "rollback-resume" -> /\ En("origen", {"puntero", "env"}) /\ ~abierto
                                  /\ RolesEn("origen") /\ SupavisorEn("origen")
      [] o = "target-finalize" -> Uniforme("destino")

-----------------------------------------------------------------------------
(* The steps of a command. *)

Pasa(f) == fase' = f /\ UNCHANGED respuesta
Responde(r) == fase' = "ninguna" /\ respuesta' = r

Escribe(p, g) == Alcanzable(p) /\ material' = [material EXCEPT ![p] = g]
Dudosa(p, g) == Escribe(p, g) \/ UNCHANGED material

\* Everything but what the named steps change.
Sigue == UNCHANGED <<orden, meta>>
Quieto == UNCHANGED <<material, contenedor, abierto, candado>>

\* executePostgresPasswordRotation: cutover takes the lock, the others need it.
Lanzar(o) ==
    /\ fase = "ninguna"
    /\ orden' = o /\ meta' = Hacia(o) /\ intentos' = {} /\ turno' = 1
    /\ \/ /\ o = "cutover" /\ ~candado
          /\ \/ candado' = TRUE /\ fase' = "previo" /\ respuesta' = "ninguna"
             \/ candado' \in BOOLEAN /\ Responde("LOCK_ACQUISITION_UNVERIFIED")
       \/ /\ o # "cutover" /\ candado
          /\ fase' = "previo" /\ respuesta' = "ninguna" /\ UNCHANGED candado
    /\ UNCHANGED <<material, contenedor, abierto>>

TrasPrevio ==
    CASE orden = "cutover" -> "cerrar"
      [] orden = "rollback" -> "supavisor"
      [] orden = "rollback-resume" -> "recrear"
      [] orden = "target-finalize" -> "abrir_final"

Previo ==
    /\ fase = "previo"
    /\ \/ Admite(orden) /\ Pasa(TrasPrevio)
       \/ orden = "cutover" /\ Pasa("previo_falla")
       \/ orden \in {"rollback", "rollback-resume"} /\ Responde("PREFLIGHT_FAILED")
       \/ orden = "target-finalize" /\ Responde("NOT_ACCEPTED")
    /\ UNCHANGED <<intentos, turno>> /\ Quieto /\ Sigue

\* finalizePreflightFailure: the lock goes only if the source answers in public.
PrevioFalla ==
    /\ fase = "previo_falla"
    /\ \/ Uniforme("origen") /\ abierto /\ Pasa("previo_soltar")
       \/ Responde("PREFLIGHT_FAILED")
    /\ UNCHANGED <<intentos, turno>> /\ Quieto /\ Sigue

PrevioSoltar ==
    /\ fase = "previo_soltar"
    /\ candado' \in {candado, FALSE} /\ Responde("PREFLIGHT_FAILED")
    /\ UNCHANGED <<material, contenedor, abierto, intentos, turno>> /\ Sigue

Cerrar ==
    /\ fase = "cerrar"
    /\ \/ abierto' = FALSE /\ Pasa("supavisor")
       \/ abierto' \in {abierto, FALSE} /\ Responde("MAINTENANCE_STATE_UNVERIFIED")
    /\ UNCHANGED <<material, contenedor, candado, intentos, turno>> /\ Sigue

\* A change is noted as attempted before it is made.
TrasMutar == [supavisor |-> "roles", roles |-> "roles_ver", env |-> "env_ver"]

\* Mutant: the change is noted once it is known to be made.
MutarSinNota ==
    /\ fase \in Muta
    /\ \/ /\ Escribe(fase, Hacia(orden)) /\ Pasa(TrasMutar[fase])
          /\ intentos' = intentos \cup {fase}
       \/ Dudosa(fase, Hacia(orden)) /\ Pasa("c_env") /\ UNCHANGED intentos
    /\ UNCHANGED <<contenedor, abierto, candado, turno>> /\ Sigue

\* Mutant: a change that fails is passed over.
MutarSinError ==
    /\ fase \in Muta
    /\ intentos' = intentos \cup {fase}
    /\ Dudosa(fase, Hacia(orden)) /\ Pasa(TrasMutar[fase])
    /\ UNCHANGED <<contenedor, abierto, candado, turno>> /\ Sigue

Mutar ==
    /\ fase \in Muta
    /\ intentos' = intentos \cup {fase}
    /\ \/ Escribe(fase, Hacia(orden)) /\ Pasa(TrasMutar[fase])
       \/ Dudosa(fase, Hacia(orden)) /\ Pasa("c_env")
    /\ UNCHANGED <<contenedor, abierto, candado, turno>> /\ Sigue

\* Mutant: the services are recreated before the pointer moves.
VerificarSinPuntero ==
    /\ \/ fase = "roles_ver" /\ RolesEn(Hacia(orden)) /\ Pasa("env")
       \/ fase = "env_ver" /\ material["env"] = Hacia(orden) /\ Pasa("recrear")
       \/ fase \in {"roles_ver", "env_ver"} /\ Pasa("c_env")
    /\ UNCHANGED <<intentos, turno>> /\ Quieto /\ Sigue

Verificar ==
    /\ \/ fase = "roles_ver" /\ RolesEn(Hacia(orden)) /\ Pasa("env")
       \/ fase = "env_ver" /\ material["env"] = Hacia(orden) /\ Pasa("puntero")
       \/ fase \in {"roles_ver", "env_ver"} /\ Pasa("c_env")
    /\ UNCHANGED <<intentos, turno>> /\ Quieto /\ Sigue

-----------------------------------------------------------------------------
(* Compensation: what was attempted goes back, the environment first.      *)

TrasCompensar == [c_env |-> "c_roles", c_roles |-> "c_roles_ver",
                  c_roles_ver |-> "c_supavisor", c_supavisor |-> "c_supavisor_ver",
                  c_supavisor_ver |-> "c_fin"]
ParteDe == [c_env |-> "env", c_roles |-> "roles", c_roles_ver |-> "roles",
            c_supavisor |-> "supavisor", c_supavisor_ver |-> "supavisor"]

\* Mutant: a check that fails does not stop the compensation.
CompensarSinVerificar ==
    /\ fase \in Compensa \ {"c_fin"}
    /\ LET p == ParteDe[fase]  vuelta == Otra(Hacia(orden))
       IN \/ p \notin intentos /\ Pasa(TrasCompensar[fase]) /\ UNCHANGED material
          \/ /\ p \in intentos /\ fase \in {"c_env", "c_roles", "c_supavisor"}
             /\ Dudosa(p, vuelta) /\ Pasa(TrasCompensar[fase])
          \/ /\ p \in intentos /\ fase \in {"c_roles_ver", "c_supavisor_ver"}
             /\ Pasa(TrasCompensar[fase]) /\ UNCHANGED material
    /\ UNCHANGED <<contenedor, abierto, candado, intentos, turno>> /\ Sigue

Compensar ==
    /\ fase \in Compensa \ {"c_fin"}
    /\ LET p == ParteDe[fase]  vuelta == Otra(Hacia(orden))
       IN \/ p \notin intentos /\ Pasa(TrasCompensar[fase]) /\ UNCHANGED material
          \/ /\ p \in intentos /\ fase \in {"c_env", "c_roles", "c_supavisor"}
             /\ \/ Escribe(p, vuelta) /\ Pasa(TrasCompensar[fase])
                \/ Dudosa(p, vuelta) /\ Responde("COMPENSATION_FAILED")
          \/ /\ p \in intentos /\ fase \in {"c_roles_ver", "c_supavisor_ver"}
             /\ \/ /\ IF fase = "c_roles_ver" THEN RolesEn(vuelta) ELSE SupavisorEn(vuelta)
                   /\ Pasa(TrasCompensar[fase])
                \/ Responde("COMPENSATION_FAILED")
             /\ UNCHANGED material
    /\ UNCHANGED <<contenedor, abierto, candado, intentos, turno>> /\ Sigue

\* A cutover undone opens again; a rollback undone leaves the target contained.
Compensado ==
    /\ fase = "c_fin"
    /\ \/ /\ En(Otra(Hacia(orden)), {"env", "puntero"})
          /\ meta' = Otra(Hacia(orden))
          /\ \/ orden = "cutover" /\ Presentes /\ ~abierto /\ Pasa("abrir")
             \/ orden = "rollback" /\ Responde("RESTORED")
       \/ Responde("COMPENSATION_FAILED") /\ UNCHANGED meta
    /\ UNCHANGED <<intentos, turno, orden>> /\ Quieto

-----------------------------------------------------------------------------
(* The pointer commits; the containers follow it.                          *)

\* The new pointer is read back, and read again after a replacement that failed.
Puntero ==
    /\ fase = "puntero"
    /\ \/ Escribe("puntero", Hacia(orden)) /\ Pasa("releer")
       \/ Dudosa("puntero", Hacia(orden)) /\ Pasa("leer_puntero")
    /\ UNCHANGED <<contenedor, abierto, candado, intentos, turno>> /\ Sigue

LeerPuntero ==
    /\ fase = "leer_puntero"
    /\ \/ material["puntero"] # Hacia(orden) /\ Pasa("c_env")
       \/ /\ material["puntero"] = Hacia(orden)
          /\ IF orden = "cutover" THEN Responde("COMMITTED") ELSE Pasa("releer")
       \/ Responde("SECRET_STATE_UNVERIFIED")
    /\ UNCHANGED <<intentos, turno>> /\ Quieto /\ Sigue

Releer ==
    /\ fase = "releer"
    /\ \/ material["puntero"] = Hacia(orden) /\ Pasa("recrear")
       \/ Responde("SECRET_STATE_UNVERIFIED")
    /\ UNCHANGED <<intentos, turno>> /\ Quieto /\ Sigue

\* docker compose creates the container with what the environment file holds then; a
\* recreation that fails may have removed it.  The container must be healthy, new
\* and free of the other password.
Recrear ==
    /\ fase = "recrear" /\ turno \in Servicios
    /\ \/ /\ material["env"] = Hacia(orden)
          /\ contenedor' = [contenedor EXCEPT ![turno] = material["env"]]
          /\ turno' = turno + 1 /\ Pasa("recrear")
       \/ /\ \E c \in {contenedor[turno], "ausente", material["env"]} :
                contenedor' = [contenedor EXCEPT ![turno] = c]
          /\ Responde("COMMITTED") /\ UNCHANGED turno
    /\ UNCHANGED <<material, abierto, candado, intentos>> /\ Sigue

Recreados ==
    /\ fase = "recrear" /\ turno = NumServicios + 1
    /\ Pasa("aceptar") \/ Responde("COMMITTED")
    /\ UNCHANGED <<intentos, turno>> /\ Quieto /\ Sigue

Aceptar ==
    /\ fase = "aceptar"
    /\ \/ Uniforme(Hacia(orden)) /\ ~abierto /\ Pasa("abrir")
       \/ Responde("COMMITTED")
    /\ UNCHANGED <<intentos, turno>> /\ Quieto /\ Sigue

-----------------------------------------------------------------------------
(* The end: the public entry, the lock, and a last look from outside.      *)

Abrir ==
    /\ fase = "abrir"
    /\ \/ abierto' = TRUE /\ Pasa("soltar")
       \/ abierto' \in {abierto, TRUE} /\ Pasa("recerrar")
    /\ UNCHANGED <<material, contenedor, candado, intentos, turno>> /\ Sigue

Recerrar ==
    /\ fase = "recerrar"
    /\ \/ abierto' = FALSE /\ Responde("MAINTENANCE_CLOSED")
       \/ abierto' \in {abierto, FALSE} /\ Responde("MAINTENANCE_STATE_UNVERIFIED")
    /\ UNCHANGED <<material, contenedor, candado, intentos, turno>> /\ Sigue

\* finalizeAcceptedTarget opens what it finds closed, and does not close it again.
AbrirFinal ==
    /\ fase = "abrir_final"
    /\ \/ abierto' = TRUE /\ Pasa("soltar")
       \/ ~abierto /\ abierto' = FALSE /\ Responde("MAINTENANCE_CLOSED")
       \/ abierto' \in {abierto, TRUE} /\ Responde("MAINTENANCE_STATE_UNVERIFIED")
    /\ UNCHANGED <<material, contenedor, candado, intentos, turno>> /\ Sigue

Soltar ==
    /\ fase = "soltar"
    /\ candado' \in {candado, FALSE} /\ Pasa("leer_candado")
    /\ UNCHANGED <<material, contenedor, abierto, intentos, turno>> /\ Sigue

LeerCandado ==
    /\ fase = "leer_candado"
    /\ \/ ~candado /\ Pasa("publico")
       \/ candado /\ Responde("LOCK_RETAINED")
       \/ Responde("LOCK_STATE_UNVERIFIED")
    /\ UNCHANGED <<intentos, turno>> /\ Quieto /\ Sigue

Publico ==
    /\ fase = "publico"
    /\ \/ /\ Uniforme(meta) /\ abierto
          /\ Responde(IF meta = Hacia(orden) THEN "COMPLETE" ELSE "RESTORED")
       \/ Responde("PUBLIC_UNVERIFIED")
    /\ UNCHANGED <<intentos, turno>> /\ Quieto /\ Sigue

Caer ==
    /\ fase # "ninguna" /\ fase' = "ninguna" /\ respuesta' = "ninguna"
    /\ UNCHANGED <<intentos, turno>> /\ Quieto /\ Sigue

Paso ==
    \/ Previo \/ PrevioFalla \/ PrevioSoltar \/ Cerrar \/ Mutar \/ Verificar
    \/ Compensar \/ Compensado \/ Puntero \/ LeerPuntero \/ Releer \/ Recrear
    \/ Recreados \/ Aceptar \/ Abrir \/ Recerrar \/ AbrirFinal \/ Soltar
    \/ LeerCandado \/ Publico

Next == (\E o \in Orden : Lanzar(o)) \/ Paso \/ Caer

Spec == Init /\ [][Next]_vars

-----------------------------------------------------------------------------
(* What the rotation promises.                                             *)

\* Whoever reaches the public entry finds every place of the password, and
\* every container, on one generation; and while no command holds the lock the
\* entry is open.
PublicoCoherente ==
    /\ abierto => \E g \in Gen : Uniforme(g)
    /\ ~candado => abierto

\* An answer tells the operator what the installation is really left with.
RespuestaVeraz ==
    LET h == Hacia(orden) IN
    /\ respuesta = "COMPLETE" => Uniforme(h) /\ abierto /\ ~candado
    /\ respuesta = "RESTORED" =>
          \/ Uniforme(Otra(h)) /\ abierto /\ ~candado
          \/ orden = "rollback" /\ En(Otra(h), Parte) /\ ~abierto /\ candado
    /\ respuesta = "COMMITTED" => En(h, Parte) /\ ~abierto /\ candado
    /\ respuesta = "MAINTENANCE_CLOSED" => Uniforme(meta) /\ ~abierto /\ candado
    /\ respuesta = "LOCK_RETAINED" => Uniforme(meta) /\ abierto /\ candado
    /\ respuesta = "COMPENSATION_FAILED" =>
          material["puntero"] = Otra(h) /\ ~abierto /\ candado

\* The pointer is the commit: it moves to a generation only when Supavisor, the
\* roles and the environment already hold it, behind a closed entry.
PunteroEsCompromiso ==
    [][material'["puntero"] # material["puntero"] =>
         ~abierto /\ candado /\ En(material'["puntero"], Muta)]_vars

\* A container is never created with a password that is not the one in force.
ContenedorTrasCompromiso ==
    [][\A s \in Servicios : contenedor'[s] # contenedor[s] =>
         ~abierto /\ contenedor'[s] \in {"ausente", material["puntero"]}]_vars

\* After an answer that names a next command, that command is admitted: what
\* the maintenance left closed can be opened, and a lock left on the target released.
SiguienteAdmitida ==
    /\ respuesta = "MAINTENANCE_CLOSED" =>
          Admite("target-finalize") \/ Admite("rollback-resume")
    /\ respuesta = "LOCK_RETAINED" /\ meta = "destino" => Admite("target-finalize")

\* After the commit a failure asks for a rollback, which the next command must be
\* able to begin, unless the target turns out to be complete.
CompromisoReversible ==
    respuesta = "COMMITTED" /\ orden = "cutover" =>
        Admite("rollback") \/ Admite("target-finalize")

\* What every phase knows.
Adelante == Muta \cup {"roles_ver", "env_ver", "puntero"}
Final == {"abrir", "recerrar", "soltar", "leer_candado", "publico"}

\* The entry and the lock.
FasesCerradas ==
    /\ fase \in Adelante \cup Compensa \cup {"leer_puntero", "releer", "recrear", "aceptar"} =>
          ~abierto
    /\ fase \in {"previo_soltar", "soltar", "leer_candado", "publico"} => abierto
    /\ fase \in Fase \ {"ninguna", "leer_candado", "publico"} => candado
    /\ fase = "publico" => ~candado
    /\ fase # "ninguna" => respuesta = "ninguna"

\* The command that is in each phase, and where it is going.
FasesDeOrden ==
    /\ fase \in {"cerrar", "previo_falla", "previo_soltar"} => orden = "cutover"
    /\ fase \in Adelante \cup Compensa \cup {"leer_puntero", "releer"} =>
          orden \in {"cutover", "rollback"}
    /\ fase \in {"recrear", "aceptar", "abrir", "recerrar"} => orden # "target-finalize"
    /\ fase = "abrir_final" => orden = "target-finalize"
    /\ fase \in Fase \ ({"ninguna"} \cup Final) => meta = Hacia(orden)

\* Where the password is while the changes go forward.
AvanceExacto ==
    LET h == Hacia(orden) IN
    /\ fase = "cerrar" => Uniforme("origen")
    /\ fase \in Adelante => \A p \in Parte : material[p] = IF p \in intentos THEN h ELSE Otra(h)
    /\ fase \in {"previo", "cerrar", "supavisor"} => intentos = {}
    /\ fase \in Fase \ ({"ninguna", "recrear", "aceptar"} \cup Final) => turno = 1
    /\ fase = "roles" => intentos = {"supavisor"}
    /\ fase \in {"roles_ver", "env"} => intentos = {"supavisor", "roles"}
    /\ fase \in {"env_ver", "puntero", "leer_puntero"} => intentos = Muta
    /\ fase = "leer_puntero" => En(h, Muta)
    /\ fase \in {"releer", "recrear", "aceptar"} => En(h, Parte)

\* And while they go back: what was not attempted never moved.
RetrocesoExacto ==
    LET o == Otra(Hacia(orden)) IN
    fase \in Compensa =>
        /\ \A p \in Parte \ intentos : material[p] = o
        /\ fase # "c_env" => material["env"] = o
        /\ fase \in {"c_roles_ver", "c_supavisor", "c_supavisor_ver", "c_fin"} =>
              material["roles"] = o
        /\ fase \in {"c_supavisor_ver", "c_fin"} => material["supavisor"] = o

\* The containers: none changes before the commit, and after it they follow in order.
ContenedoresExactos ==
    /\ fase \in Adelante \cup Compensa \cup {"leer_puntero", "releer"} =>
          Presentes /\ (orden = "cutover" => ContenedoresEn("origen"))
    /\ fase = "recrear" => \A s \in Servicios : s < turno => contenedor[s] = Hacia(orden)
    /\ fase \in Final \cup {"abrir_final"} => Uniforme(meta)

InvInductivo ==
    /\ TypeOK /\ PublicoCoherente /\ RespuestaVeraz /\ FasesCerradas /\ FasesDeOrden
    /\ AvanceExacto /\ RetrocesoExacto /\ ContenedoresExactos

\* The abstract publication this rotation implements.
P == INSTANCE PublicacionClave WITH
        Generaciones <- Gen, Cerrado <- "cerrado", vigente <- material["puntero"],
        publicado <- IF abierto
                     THEN IF Uniforme(material["puntero"]) THEN material["puntero"] ELSE "mezcla"
                     ELSE "cerrado"
PublicaUnaSola == P!Spec
=============================================================================
