# Godel: verification project

Godel is the operations system of Godel Diseño, a design and printing business: a public site where anybody
asks for a job (a *solicitud*) and sends files, and an internal dashboard where the team turns
solicitudes into orders (*pedidos*), splits them into tasks, collects payments and delivers. It is a
Next.js application over a self-hosted Supabase: PostgreSQL behind PostgREST, Auth and Storage.

This directory holds TLA+ models of the parts of it whose correctness depends on order: what several
people, browsers, retries and maintenance jobs do to the same rows and objects at once, and what the
commands that operate a self-hosted installation leave behind when they fail half way. Every model is
translated from the SQL, TypeScript and operation scripts of the repository; `PROJECT.json` gives, for
each definition, the lines it stands for. TLC checks each model on small instances and TLAPS proves its
safety properties for every value of the constants.

Names of files below are relative to the root of the repository. The migrations are called by their
numbers: 01 `core_schema`, 02 `security_rls_grants`, 03 `business_rpcs`, 04 `storage`, 05
`auth_admin_user_lifecycle`, 06 `final_hardening` (`supabase/migrations/`).

## 1. How the system works, as far as concurrency goes

- The web server keeps no state. A request reads rows through PostgREST, decides, and calls one
  function or statement; between its calls anything may happen. Most `src/lib/<area>` services are of
  this form, and the check they make first is advice: the one that counts is made again in the
  database.
- Each call to PostgREST is one transaction at READ COMMITTED. A `SECURITY DEFINER` function that
  locks the row it is about (`FOR UPDATE`) before it reads anything is atomic with respect to the
  others that lock it; every statement of a function that does not, sees its own snapshot.
- A row level policy is evaluated with the snapshot of its statement; a `BEFORE` trigger runs later,
  after the row was locked, and its queries have snapshots of their own.
- Auth and Storage are services with their own state. A change that needs them and the database is
  a protocol of several calls, each of which may fail or lose its answer, driven by a process that may
  die. Nothing resumes such a process.
- Browsers send the bytes of a file straight to Storage, under a signature or a policy.
- Foreign keys lock: an insert that refers to a row waits for whoever holds that row `FOR UPDATE`.
- `now()` is the start of the transaction. Callers that wait for an advisory lock reach it in another
  order than their `now()`.
- The operation scripts are run by hand on the host. Each is a sequence of docker, SQL and file system
  calls; a lock is a file or a directory created exclusively, which nobody removes for a command that
  died. Most read the state before they ask for the lock.

## 2. Inventory

For each component: state; operations; what it interacts with; what is hard; what makes it correct.

**Upload control plane** (03, 04, `src/lib/storage`, `PublicSolicitudUploadQueue.tsx`). State:
`archivo_carga_sesiones`, `archivo_carga_items`, `archivos`, the objects in the bucket and the
signatures handed out, the queue of each browser. Operations: reserve (public, internal), sign,
transfer, finalize (public, internal), maintenance (expire sessions, list candidates, delete
objects). Interacts with solicitudes (conversion moves their files) and pedidos (the status gives the
category). Hard: signatures outlive sessions; finalize races finalize, conversion and maintenance;
`SKIP LOCKED`; answers are lost; Storage deletes in part. Correct if metadata, sessions and objects
agree, nothing is duplicated, and what is abandoned is finally removed.

**Pedidos: status, tasks, price, payments** (03, 02, 01, `src/lib/pedidos`,
`apply-task-template-to-pedido.ts`). State: `pedidos`, `pedido_tareas`, `pedido_pagos`,
`pedido_trabajadores`. Operations: create, change status, change data and price, change payments,
create, delete and edit tasks, apply a template. Hard: an edit of a task is a read and a
later write of all columns; status rules depend on rows other requests change; access can be lost
on the way. Correct if status, tasks and payments always tell the same story.

**Internal users** (05, 01, 02, `src/lib/usuarios`, `src/lib/auth`). State: `perfiles`, the audits
of creations and of resets, the accounts of Auth. Operations: create a user, first change of
password, reset by an administrator, edit role and activity. Hard: database and Auth share no
transaction; every call may be lost; two administrators act on each other; windows of attempts.
Correct if a temporary password never operates, answers are true, and an administrator remains.

**Solicitudes and conversion** (03, `src/lib/solicitudes`, `create-pedido-from-solicitud.ts`). State:
`solicitudes`. Operations: create in public, start review, change status, associate or create a
client, convert. Hard: a conversion asked for twice; a client created twice; data changed
between the form and the conversion. Correct if a solicitud becomes at most one pedido, with its
client and its files.

**Worker assignment** (01, 02, `assign-` and `remove-internal-pedido-worker.ts`). State:
`pedido_trabajadores`. Hard: the profile is deactivated while it is assigned. Correct if only who is
active and assigned can act.

**Task templates** (`src/lib/task-templates`). State: `trabajo_plantillas`,
`trabajo_plantilla_tareas`. Hard: reordering is a series of UPDATEs without a transaction.
Correct if every order anybody sees is a total one.

**Order numbers and public references** (01). State: `pedido_contadores`, unique references. Hard:
a counter per year incremented by concurrent inserts; random references that collide.

**Limits of attempts** (05). State: the rows of the audits in a window. Hard: a count of rows by a
`now()` that is the start of each transaction, under an advisory lock.

**History and comments**, **public tracking**, **service catalogue**, **clients**, **dashboard and
listings**, **interface, sessions and proxy**: append-only rows, reads, or rows without rules across
rows.

**Secrets of the host** (`scripts/operations/secret-generation.mjs`, `rotate-*.mjs`,
`postgres-password-*.mjs`, `ec-signing-key-*.mjs`). State: immutable generations of secrets and the
pointer to the current one, the two environment files, the lock `.operation.lock`, the roles of the
database and the credential of its pooler, and the environment every running container was created
with. Operations: bootstrap, import, the rotations and their rollbacks, resumptions and
finalizations. Hard: no transaction joins these places; commands read before they lock; containers
are recreated one by one; any call may fail after its effect. Correct if the service never runs on a
mixture, answers say what was left, and there is a command that goes on from there.

**Backup and restore** (`backup-selfhosted.mjs`, `restore-selfhosted.mjs`). State: a directory lock,
the same lock of the registry, the volumes, the backups and their manifests, the services that run.
Hard: parts copied and replaced one after another while users write and passwords rotate; a failure
after the first replacement has no way back. Correct if what verifies is of one instant and
nothing is served over half a restore.

**Updates and bootstrap of a host** (`supabase-update-*`, `clean-host-*`): rehearsals over a
disposable copy; sequences of checks.

The hazards this survey found, each at its line and with the properties that watch it, are listed in
`PROJECT.json`.

## 3. The modules

| module | what it is |
|---|---|
| `EstadosDominio` | the status graphs of solicitudes and pedidos and the file category of each status; shared |
| `EntregaArchivos` | abstract: what the upload plane promises about each file |
| `Cargas` | the upload control plane, with the moves of solicitudes and pedidos that interfere |
| `CicloPedido` | abstract: the life of a pedido as its status announces it |
| `Pedidos` | one pedido: status, tasks, price, payments, and the edits and calls in flight |
| `Ventanilla` | abstract: deals and the book of pedidos, each act over at once |
| `Solicitudes` | from the request of a client to a numbered pedido |
| `Reseteo` | abstract: what a reset of a password promises to who asks and who audits |
| `Usuarios` | profiles and passwords: reset, first change, edition |
| `Altas` | abstract: what the creation of a user promises to who asks and who audits |
| `AltaUsuarios` | creation of a user: limits, account, verification, compensation |
| `PublicacionClave` | abstract: closed, or answering whole with what is in force |
| `RotacionPostgres` | rotation of the database password with rollback, resumption and finalization |
| `Generaciones` | the registry of secrets and the ten commands that change it |
| `RotacionFirma` | the four stages of the signing key, with containers recreated outside the lock |
| `Instalacion` | abstract: an installation whose data are always one instant |
| `Copias` | backup and restore |
| `<Module>Proof` | theorems and proofs of each component (`PedidosProof`: of Pedidos and of Solicitudes, whose transactions open pedidos) |
| `MC<Module>` (+ `.cfg`) | the instances TLC explores |

Definitions keep the names of the code, in Spanish as most of them are there. An operator whose
comment begins with *Mutant* is a variant of the next definition with a plausible bug in it; no
specification uses it. Each property is tied in `PROJECT.json` to one of them, and TLC finds the
property violated when the variant takes the place of the definition.

### Cargas

*State and code.* `sesEstado, sesSol, sesPed, vence` are the columns of `archivo_carga_sesiones`;
`itEstado, itVis, itArchivo` those of `archivo_carga_items`; `archivos` the rows of that table;
`objeto` and `firma` are Storage (absent, as declared, or different from the declaration; end of the
signature); `cliente` is the entry of the browser's queue; `petFase, petItem, petHora` are
finalize transactions in flight with their `now()`; `candidatos` the paths that the maintenances under
way have listed and not deleted yet; `solEstado, solPedido, pedEstado, acceso` the domain.

*Actions.* One per function at the point it commits, since each locks the session first. The exception
is `finalizar_carga_publica`: it reads the solicitud without a lock, and its insert waits on the foreign
key while a conversion holds the solicitud; so it is `ComprobarPublica` and `IncorporarPublica`, holding
the session in between (`Bloqueada`), and everything that wants the session waits or skips it.
`reconciliar_cargas_expiradas` and the deletion in Storage are two actions (`Reconciliar`,
`BorrarObjetos`), the second deleting any part of the candidates; several maintenances may be between
the two.

*Abstracted.* Names, types and sizes (one object matches its declaration or does not), tokens (one
holder), TUS chunks (the last one is `LlegarObjeto`), ties of expiry (any order).

### EntregaArchivos

An item is offered, and then incorporated once with its content present, or discarded, for ever. The
refinement mapping reads it off the tables: `Destinos` from the status of the items, `Filas` from
`archivos`, `Contenidos` from the bucket. Sessions, clocks, signatures and requests disappear.

### Pedidos

*State and code.* `estado, flujo` of `pedidos`; `total, pagado` of `pedido_pagos` (cash and transfer
added up; no rule tells them apart); `tareas`, each row, or that there is none yet, or that it was
deleted (identifiers are never used again); `acceso`, who is active and can access the pedido;
`petTarea, petCopia`, an edit between its read and its write, with the row it read; `petLlamada`, a call
that passed its test of access and waits for its lock.

*Actions.* `actualizar_estado_pedido` and the template ask who calls after they lock the pedido, and are
one action, refusals included in the guard; so are creating and deleting a task, statements whose policy
(`can_manage_pedido_tasks`) takes the same lock. `actualizar_datos_pedido`, `actualizar_pago_pedido` and
the creation ask before they wait and never again: each is `Admitir` and, under the lock,
`ActualizarDatos`, `ActualizarPago` or `CrearPedido` (`Ejecutar`), which do not look at `acceso`, or
`Abandonar`, when they are refused or lost. `updatePedidoTask` is `LeerTarea` and one of
`CambiarTitulo`, `RegistrarAvance`, `Completar`, `Reabrir`, all of which write every column from the
copy (`FilaEscrita`), or `Abandonar`. `ensurePedidoReviewStarted` is `CambiarEstado` to `en_revision`.

*Abstracted.* One pedido, since no statement touches two. A title is the number in it. A simple task
has target 0. The CHECK constraints are not guards: that no write needs to be refused by them is
the property `RestriccionesDeTarea`. `sort_order`, dates and texts are left out.

### CicloPedido

What a status means to a reader: ready means finished, delivered means finished and paid, and
what is finished stays so until the pedido goes back to production. `terminado` and `saldado` are what
the mapping computes from tasks and payments.

### Solicitudes

*State and code.* `solicitud` and `pedido` are the committed rows (status, client, the pedido or
solicitud of each other, public reference; year and number of a pedido), `clientes` those that exist,
`contador` the rows of `pedido_contadores`, `hoy` the year of `current_business_date()`, and `tx` the
transaction each call has open, with what it has locked or inserted. The history variable `cruces`,
read by no guard, holds the references that a solicitud and a pedido were taking at once.

*Actions.* The functions that insert are split where another transaction gets in. A public request
draws a reference (`Solicitar`), passes the trigger that looks for it in `pedidos`
(`ComprobarSolicitud`), waits for the unique key (`InsertarSolicitud`) or draws another (`Reintentar`), and
commits. A pedido opened by hand or by a conversion, which locks its solicitud, waits for the counter of
its year (`Numerar`), passes the trigger that looks for its reference in `solicitudes`
(`RevisarReferencia`), waits for the unique keys (`EscribirPedido`) and commits. `Abortar` undoes any of them.
Changes of status, association and creation of a client are single statements or functions that lock the
solicitud first: one action each.

*Abstracted.* Texts, services, prices and dates. Files are in `Cargas`. A request that is an error from
the start changes nothing and is not a step. No code deletes a solicitud, a pedido or a client
(the policies would let an administrator do so through the API; it is out of the model, like any other
statement the application does not send).

### Ventanilla

What the business sees at its counter: deals that are open, turned down or converted, a book of
pedidos, and the last number of each year. Each act is over at once. The mapping (`Tratos`) reads a
solicitud as its deal, with the states before a decision taken together; the rows of `pedidos` are the
book and the counters of the years the last numbers. Transactions, locks, retries and the two steps in
which a request or a pedido is inserted disappear: an insert is seen when it commits.

### Usuarios

*State and code.* `perfil` is role (administrator or not), `is_active`, `must_change_password`;
`clave` is whose choice the password in Auth is (the user's, that of the creation, or that of a reset
attempt); `intento` is the row of `internal_user_password_reset_audit`; `proc` the invocation of
`resetInternalUserPassword` (where it stands, how many times it has called, what it answered);
`cambio` that of `completeInitialPasswordChange`; `edicion` that of `updateInternalUser`. Two
history variables, read by no guard: `aplicados`, the attempts whose password reached Auth, and
`cruzados`, the users whose own completion lifted the mark while a reset held the account or had
changed its password.

*Actions.* `begin_internal_user_password_reset` is split where it may wait: `AutorizarInicio` checks the
caller, then the advisory lock, then `ReservarIntento`, `LimitarIntento` or `RepetirInicio`. Each
action has the outcome in which its answer is lost: the service repeats once and then reads
(`Recuperar`). Auth refuses, applies, or answers nothing usable, having applied or not
(`AuthIncierta`). `Cerrar` and `CerrarSinEfecto` are the calls of
`complete_internal_user_password_reset`; `Confirmar` the reads that follow. `Morir` stops the process
anywhere. `updateInternalUser` is the checks of the server (`RevisarEdicion`), the snapshot its policy
reads (`EmpezarUpdate`) and the write with its trigger (`Escribir`).

*Abstracted.* A call fails before its effect or loses its answer after it; none is executed later.
`getUserById` is joined to the update that follows. The limits of attempts may refuse any attempt.
The answers that only ask to review are one. Users are not created or deleted.

### Reseteo

An attempt holds one user until it is closed; Auth takes its password at most once and only meanwhile;
it is closed once, as succeeded only if Auth took it and as failed only if not; what is announced agrees
with how it was closed. The mapping reads `Estados` and `Retenidos` off the audit and `Anuncios` off
the answers that say something of the password. Processes, calls, repetitions and profiles disappear;
a user may choose his own password at any moment, in the middle of a reset too.

### AltaUsuarios

*State and code.* `intento` is the row of `internal_user_creation_audit`; `cuenta` the account of Auth
with its profile, which the trigger inserts in the same transaction; `proc` the invocation of
`createInternalUser`, with its `now()`, what it means to close the attempt with and `solo`, that nobody
waits any more for its call to the database; `tarde` and `bajas`, creations and deletions asked of Auth
whose caller went on without an answer; `reloj`.

*Actions.* `begin_internal_user_creation_attempt` is `AutorizarInicio`, which reads `now()` and checks
the caller, and `Reservar`, after the advisory lock: others may lock in between. Auth creates, refuses,
or does not answer and then has created, has not, or will (`AuthIncierta`, `LlegarTarde`). `Verificar`
and `NoVerifica` read the profile, which may have been edited (`TocarPerfil`). `Compensar` deletes the
account and hears of it or not, or leaves the deletion for later (`BorrarTarde`). `Cerrar` is the commit
of `complete_internal_user_creation_attempt`. A caller may give up on the two calls to the database
(`PerderInicio`, `PerderCierre`) and answer; the call then commits later, or never. `Morir` is the end
of the server at any moment, with the same for what it had asked for.

*Abstracted.* A request makes one attempt and asks for one account. The codes of error are those
`RegistroVeraz` tells apart. Every call asks again whether the administrator still is one, and he may
stop being it between any two (`Usuarios`): each step may be refused, by `RechazarInicio`, an outcome of
Auth, `NoVerifica`, or a `PerderCierre` that never commits.

### Altas

An attempt gives one account at most, which never comes back once it is withdrawn, and is not withdrawn
once a success was told or recorded; the attempt is closed once, in agreement with what its caller was
told, and how it was closed tells what became of the account. The mapping reads `Registro` off the
audit, where a failure with an error of Auth is *in doubt* (only such an attempt may still give an
account after it is closed, and only one not compensated may still lose it), `Cuentas` off Auth and
`Avisos` off the answers. What the caller hears may come before it is recorded (`Anunciar`), and the
record may never come; an attempt may be recorded after its caller was told that it failed, and stays
open. Calls, profiles, the lock and the clock disappear, and with them the limits: an attempt is
admitted or limited as it may be. Those are `LimiteRespetado`.

### PublicacionClave

To whoever looks, the installation is closed or answers whole with the generation in force, which
changes only while it is closed. It is implemented twice: by `RotacionPostgres`, where closed means that
nginx is stopped, and by `Generaciones`, where it means that the lock is taken.

### RotacionPostgres

*State and code.* `material` is the generation in each of the four places of the password;
`contenedor` the one each service was created with; `abierto`, nginx; `candado`, the lock, which carries
the target and so is resumed by the next command; `orden, fase, intentos, turno, meta` the command in
progress; `respuesta` what the last one answered.

*Actions.* One per call of `orchestratePostgresPasswordCutover` and of the rollback's functions, each
failing before or after its effect; a change whose outcome is not known is compensated like one that
was made. `Caer` is the death of the process, after which any command may be tried: `Admite` is what its
preflight accepts.

*Abstracted.* Reads tell the truth or fail. The two generations are those of one plan. One command at a
time: the lock names the operation and not the process, so it does not exclude a second operator.

### Generaciones

*State and code.* `publicadas` and `ficha`, the directories with metadata and snapshot; `puntero`,
`current.json`; `vivo`, the environment files; `candado`, the lock file and who created it; `proc`, a
command per terminal with what it read before the lock (`leida, visto`) and under it (`bajo`).

*Actions.* Each command reads (`LeerArranque`, `LeerImportacion`, `LeerCreacion`, `LeerCambio`), takes the
lock (`Tomar`), checks again what that command checks again (`Comprobar`), writes the files, moves the
pointer, confirms, releases, and compensates in its own way (`CompensarCreacion`,
`CompensarSupabase`, `CompensarGodel`). Any step fails (`Fallar`) or is the last (`Interrumpir`).

*Abstracted.* A variable stands for those one command changes together; its value is named after the
generation that drew it.

### RotacionFirma

*State and code.* `archivo` and `puntero` are the stage, 4 to 7, in the environment file and in the
registry; `corre[s]` the stage whose value of its variables the container of `s` was created with, or
that it is missing; `mando`, the command of each terminal.

*Actions.* `switchStage` under the lock (`Tomar, Escribir, Mover, Soltar`, with `Compensar` or `Atascar`
when it fails), then, outside it, `convergeServices`: `VerEstado`, and for each service of the matrix
`Recrear` (or `RecrearFalla`, which may leave it missing) and `Comprobar`, then `Cerrar`. A failure goes
back by the same way. Two history variables, read by no guard: `ajeno`, another command recreated
containers meanwhile, and `apilado`, a transition was written while containers of a third stage
remained.

*Abstracted.* Tokens are not followed: how long to wait before GEN7, so that those signed by the old key
have expired, is the operator's business in the code too. The preparation of the plan is left out.

### Copias

*State and code.* `instalado` is what the volumes hold, each part an instant of the data with the
generation of the passwords stored in it; `copias` the same of each backup, with its manifest and the
place of its key; `cerrojo` and `candado` the two locks; `corre` what is up.

*Actions.* One per call of `create` and `restore` in order, `FallarEnMantenimiento`, `FallarMutada`,
`FallarRecuperacion` and `FallarSinMas` for their handlers, `Morir`; and around them users who write
(`Escribir`) and another command that takes the lock of the registry, initializes it or rotates.

*Abstracted.* Files, sizes, digests and the preflight's arithmetic. A part of the data changes or not.
There is one `cerrojo`: the restore's is always in `backups/selfhosted`, the backup's in its
`--output-root` (`backup-selfhosted.mjs:311`), and the model assumes that it is the default, that same
directory. With another one, only the lock of the registry would keep the two apart.

### Instalacion

An installation is one instant of its data or has none. While somebody is served it may move to a new
instant; while nobody is, a backup may take it whole, it may be lost, and it may become the instant of a
published backup; somebody is served again only if there are data. In the mapping the installation
holds an instant (`Vigente`) if all its volumes are of it, the key is there and the passwords in force
open it; somebody is served (`Atiende`) while the application or the API of Supabase is up; a backup
holds an instant (`Guardadas`) when everything it has copied is of it, which happens, all at once, at
the last of its copies. Locks, commands, phases and failures disappear.

## 4. What the runs check

States are distinct states; every run explores its whole state space.

| run | instance | states | what it shows |
|---|---|---|---|
| `cargas_publica` | 1 solicitud, 1 pedido, 1 session of 2 items of either, 2 finalize requests, clock to 2 | 1,314,902 | coherence of rows, sessions and objects, category; refinement of `EntregaArchivos` |
| `cargas_limpieza` | 2 sessions of 1 item, limits of 1, clock to 4, fairness, ids taken in order | 88,743 | liveness of the maintenance |
| `cargas_heredados` | 1 item, conversion at any moment | violation | finding 1 |
| `pedidos_ciclo` | 2 tasks, prices 0 and 2, payments 0 to 2, supervisor and worker, two edits or calls at once | 1,957,808 | status against tasks and payments, constraints of the rows, what an access lost lets through; refinement of `CicloPedido` |
| `solicitudes_conversion` | 2 solicitudes, 2 pedidos, 2 clients, 2 references, 2 transactions, 2 years of 2 numbers | 1,282,756 | refinement of `Ventanilla`; numbers without gaps, when a reference is shared, what a conversion relies on |
| `usuarios_reseteo` | 2 administrators, 1 new user, 2 resets | 835,446 | refinement of `Reseteo`: truth of the audit and of the answers, one reset per user; marks |
| `usuarios_edicion` | 2 administrators editing each other, 1 reset | 1,622,907 | an active administrator remains |
| `altas` | 3 creations of one address by 2 administrators, limits 1 and 2, clock to 2 | 2,091,171 | no window is exceeded; attempts and answers are true of the accounts; refinement of `Altas` |
| `rotacion_ordenes` | 5 services, any commands, failures and deaths | 1,437 | refinement of `PublicacionClave`; answers, commit, the command that goes on |
| `registro_secretos` | 4 generations, 2 terminals, the ten commands | 516,884 | refinement of `PublicacionClave`; the pointer follows the files |
| `firma_etapas` | 2 terminals, 2 services that only verify, the four stages there and back | 2,010,106 | signatures are trusted; an answer says what runs |
| `copias_restaurar` | 2 terminals, 2 backups, 2 changes of the data, 1 rotation | 997,577 | refinement of `Instalacion`: what verifies is coherent, what is served is whole; under which generation a restore replaces |

Invariants that are conjuncts of an inductive one (`InvInductivo`, `InvSolicitudes`, `InvInstantes`) are
checked with it and not listed apart: types, `SesionCoherente`, `FilaUnicaPorItem`,
`RestriccionesDeTarea`, `PagoCubierto`, `EncargoTerminado`, `ConversionCoherente`, `RespuestaVeraz`,
`UnPendientePorObjetivo`, `SirveEntero`, `PublicoCoherente`...

*Bounds.* The clock of Cargas passes the end of a session, of the grace and of a signature that outlives
both (`Plazo` 1, `Gracia` 0 and `VidaFirma` 2 in `cargas_publica`; 1, 1 and 3 in `cargas_limpieza`);
only the order of these instants matters. A signature that would outlive the clock is not given
(`VidaFirma <= MaxTiempo` is needed for one to exist). Two finalize requests are enough for two of them
to meet on a session, and a third could only wait like the second. The limits of maintenance are 1 with
2 sessions: one is always left out, which is what a limit of 100 does with 101. `MaxItems` is 2. Two
identifiers of rows let one item be registered twice. In Solicitudes two transactions meet at every lock
and unique key, and with two pedidos a year's numbers run out; a second year starts while transactions
of the first are open; two attempts and two references are one conflict and one retry. In Pedidos two
tasks tell *all* from *some*, a price of 2 has a partial payment, and a title with the number or without
it makes an edit change the kind of a task. In Usuarios two attempts may be of the same or of different
users and administrators, and an attempt is one invocation, with all its retries. In AltaUsuarios the
limits are 1 for an administrator and 2 for all with 3 calls, so each of them is reached and can be
passed; windows of 1 in a clock of 2 let an attempt leave its window. Five services let a rotation stop
before, between and after the database and its pooler. Four generations are one to start from, one of a
bundle and two to prepare; a command that needs a new one waits when there is none. Two containers that
only verify tell *all* from *some*; the order in the matrix of the other two is as in the code. Two
terminals are what a lock is for. A backup to restore, another as its defence, and two changes of the
data make three instants to confuse. The clock of Cargas stops by doing nothing, so deadlock is checked
there; in Usuarios and AltaUsuarios attempts are used up, in Solicitudes identifiers, and on the host a
lock whose command died stops every other command and a backup has no identifiers left: the system may
rest, and deadlock is not checked (`CHECK_DEADLOCK FALSE`). `SinApilar` (a `CONSTRAINT` of
`firma_etapas`) does not go on from a state where a transition was written over remains of a third
stage: both properties say nothing of what follows, and `apilado` is never undone.

*Symmetry.* Only sets that the module does not tell apart are permuted (requests, rows, items of one
session, tasks, attempts), and never in a run with liveness. There, the ids are taken in order instead
(`Canonica`): the first row of a file takes the first, and each session is of the solicitud of its name.

*Fairness* (`Equidad`, used by `cargas_limpieza` only). Time passes; a transaction that started ends,
since PostgreSQL ends it one way or the other; administrators keep running the maintenance, which the
dashboard asks them to do ("Puedes volver a ejecutar el mantenimiento") and nothing else does: no job
runs it. `BorrarObjetos` has strong fairness for the whole set of candidates that may be deleted:
removals may fail any number of times, and if administrators insist one gets through. So
`HuerfanoSeBorra` speaks of objects that can be removed: 100 that never can would fill every list of
candidates and starve those behind them. No fairness is assumed of browsers. `NextDesatendida` leaves
out the moves of the business, which disable nothing in those properties.

## 5. Findings

One is a run that ends in a violation:

1. `cargas_heredados`: a public finalize that read the solicitud before its conversion inserts its file
   after it, with no pedido; nothing links it later. `docs/ORDERS_FLOW.md:703` says the client's
   files are associated with the pedido.

Four more are stated as definitions that TLC refutes on smaller instances, given here because no
run of the project keeps them:

2. `RotacionPostgres!CompromisoReversible` (three services): a cutover that fails after the commit and
   leaves a service missing cannot be rolled back: the preflight of the rollback first classifies the
   target, and with a service absent it answers `ROLLBACK_PREFLIGHT_FAILED`.
   `docs/production/SH_04_SECRET_ROTATION_REPORT.md:1477` requires that rollback for that failure, and a
   test begins one with services absent.
3. `Pedidos!TituloDefineCantidad` (one task, quantities {1}, two editors, prices and payments {0}): an edit of a
   task writes back the quantity it read under a title changed meanwhile; the title no longer defines
   the quantity (`docs/ORDERS_FLOW.md:311`).
4. `Usuarios!TemporalBloquea` (one administrator, one new user, one reset): a user's first change and
   an administrator's reset cross; the account ends active, unmarked, with the administrator's
   temporary password in Auth (`docs/USERS_MANAGEMENT_MODEL.md:35`). `TemporalBloqueaSalvoCruce`, checked
   and proved, says it is the only way.
5. `Usuarios!SiempreUnOperativo` (two administrators that edit, a third with a temporary password): the
   trigger that protects the last administrator counts those who have not changed their temporary
   password, so two operating ones can deactivate each other and leave none
   (`src/lib/usuarios/README.md:123`). An administrator remains, and can operate after the first change
   (`SiempreUnAdmin`, checked and proved).

And some consequences the models have and no text of the repository denies:

- An attempt of creation closed as `failed` with an error of Auth may have an account behind: the answer
  was lost, or the request arrived later. `RegistroVeraz` says it is the only such case besides
  `compensation_failed`, and a `pending` one may be a success whose closing failed
  (`docs/DATABASE_MODEL.md:220`), or a begin whose caller was told that it failed. A deletion without
  an answer gives `compensation_failed`, of an account that is gone, stays, or goes after that was
  recorded and answered.
- A manager who is deactivated while his creation, price or payment waits for its lock still makes it,
  once (`SinAccesoSoloLoAdmitido`); a change of status or of a task is refused.
- Two inserts at once may give one public reference to a solicitud and to the pedido of another: each
  trigger looks in the other table without a lock. References are random, so it takes a coincidence;
  `ReferenciaSalvoCruce` says it is the only way.
- A public request whose reference is that of a pedido fails instead of drawing another: the trigger's
  message does not name `public_reference`, which is what `isPublicReferenceConflict` looks for.
- A client associated with a solicitud after its conversion changes the solicitud and not the pedido.
- A profile edited before it is verified is taken for a wrong one, and its account is deleted.
- A restore that gets the directory lock and not that of the registry leaves the first for ever.
- A backup taken before the registry existed names no generation: restored after a rotation, it
  replaces the volumes and only then finds that the services cannot log in.
- The convergence of the signing key answers complete, and a mixture of three stages may run, if the
  stage moved over containers that a failed return left behind (`apilado`).

## 6. What is proved

For any sets and numbers, under the named assumptions of each module (constants have the expected
types, the NULL and deleted markers are not values, some administrator operates at the start). Each
proof has the same frame: `InvInductivo` holds in `Init`, every action preserves it (one lemma per
action or group of actions), and the theorems follow by PTL.

**Cargas** (`CargasProof`). `FilaUnicaPorItem` is not inductive by itself: an insert keeps it only
if what `ComprobarPublica` saw still holds (`VerificadoSigueValiendo`), which is so because the session
is held; that needs the status of the session to agree with its items (`SesionCoherente`), and the
object of an item to survive maintenance, which deletes expired items only (`ArchivoConObjeto`).
`ContextoDeSesion` says which category each kind of session has, from which `ContextoDeArchivo`
follows. Theorems: type, the invariants above, `RecibidoEsArchivo`, `CierreDefinitivo`,
`CategoriaVigente`, and `ImplementaEntrega`: Cargas implements EntregaArchivos.

**Pedidos** (`PedidosProof`). `RestriccionesDeTarea` needs the copies in flight to be rows that
satisfied the constraints (`CopiaValida`), because a write replaces all the columns of a row together;
`PagoCubierto` needs that nothing is paid before the pedido exists. `EncargoTerminado` holds because
every write of tasks repeats the check of the status under the lock. `SinAccesoSoloLoAdmitido` is a case
for each action: those that write without looking at `acceso` use up a call admitted before. Theorems:
these, the three action properties (`TareasCongeladas`, `CierreDefinitivo` and that one), and
`ImplementaCiclo`: Pedidos implements CicloPedido.

**Solicitudes** (also in `PedidosProof`). None of `ConversionCoherente`, `NumeracionSinHuecos` and
`ReferenciaSalvoCruce` is inductive: each is established by a commit that relies on what an earlier step
of its transaction read. `InvSolicitudes` says what that is. `FaseCoherente`: in each phase, what the
transaction read under its lock is still so (the solicitud of a conversion is approved, unconverted and
with the client that was read; the counter is below its next number; the row it inserted is nobody's).
`Exclusion`: no two transactions hold one row, one counter of a year or one key, which is why the
commit of one leaves what the other read. `CruceAnotado`: a reference that is on its way into both
tables, or in one and on its way into the other, is in `cruces`, except when it is a solicitud's and a
request carries it, for then the unique key stops the request. That a year has as many pedidos as
its counter says is a count: the new pedido is not among those of the year, so the cardinality grows by
one as the counter does. `ConversionFirme` and `ImplementaVentanilla` follow from the invariant: at the
commit the deal is open and has the client and the reference the transaction kept, and no other entry of
the book has that reference or number. `NuloAssumption`, that NULL is not a row, nor what the mapping
makes of one, is the only assumption about data.

**Usuarios** (`UsuariosProof`). `RespuestaVeraz` needs to know, at each point of the invocation, what the
row can say and whether Auth took the password (`FaseCoherente`). `TemporalBloqueaSalvoCruce` needs that
a pending attempt keeps the mark and remembers a mark it may go back to (`MarcaDePendiente`); that in
turn needs `UnPendientePorObjetivo`, or the second attempt would remember the block of the first.
`SiempreUnAdmin` rests on the trigger alone: the checks of the server are not used. Theorems: these,
`MarcaSoloPorIntento`, and `ImplementaReseteo`: Usuarios implements Reseteo. A repeated call of begin or
complete is a stutter there because `FaseCoherente` says what the row already holds when it is repeated,
and a late announcement is true because a closed row does not change.

**AltaUsuarios** (`AltaUsuariosProof`). `LimiteRespetado` holds for any start of a window although
attempts enter out of order: whoever inserts one with `now() = n` counts, under the lock, all those
created at `n - V` or later, those after `n` included, and every window of length `V` that contains `n`
is among them. The proof is about cardinalities of finite sets, for any limits and windows.
`RegistroVeraz` needs to know which calls may still bring an account or remove one (`CoherenteDe`), and
that an account whose compensation failed has existed. The latter is in `LlegaUnaVez`, with what the
refinement needs of the requests that outlive their callers: a creation is of an attempt that is open or
in doubt and has had no account, so what arrives late arrives once and never contradicts a certain
ending; a deletion is of one that is open or not compensated, whose account nobody was promised. What an
attempt is going to be closed with is true of its account from the moment it is decided until it is
recorded, however late (`FinalCierto`). Theorems: these two, and `ImplementaAltas`: AltaUsuarios
implements Altas. The edits of the profile and the death of a process are stutters there.

**RotacionPostgres** (`RotacionPostgresProof`). What each phase knows of the four places and of the
containers, before the commit (`AvanceExacto`), going back (`RetrocesoExacto`) and while recreating
(`ContenedoresExactos`), for any number of services; from which the truth of each answer, the three
facts about the commit, that a named next command is admitted, and the refinement.

**Generaciones** (`GeneracionesProof`). Who is past the lock is one (`Exclusion`), the files are between
what was in force and the target, and a compensation knows which; from which the pointer only moves to
what the files hold, and the registry implements PublicacionClave.

**RotacionFirma** (`RotacionFirmaProof`). All the containers hold values of two adjacent stages, whoever
stopped where (`DosEtapas`), and in two adjacent stages every signer is trusted; what a command has gone
through holds its target (`HechosCoherentes`), from which `RespuestaFirme`.

**Copias** (`CopiasProof`). Which step holds which lock (`Posee`), what is stopped (`Detenido`), what a
backup has copied (`Avance`) and a restore replaced so far (`Reposicion`), and that the directory lock
changes hands over whole volumes only (`Custodia`). For the refinement (`ImplementaInstalacion`: Copias
implements Instalacion) two facts are added in `InvInstantes`: the API of Supabase too is up only over
whole volumes (`AtiendeEntero`; the application alone would not do, since the API writes as well), and a
backup has no attributes before its turn (`SinCapturar`), so that until that step it holds nothing and
its copies, taken one by one, count as one. Steps that touch neither data nor backups are a start, a stop
or nothing, by `AtiendeEntero` alone; a step of a restore that leaves the volumes whole leaves those of
its backup, by `Reposicion`, and any other loses them.

*Only model-checked.* The liveness properties `VencidaSeCierra` and `HuerfanoSeBorra` (the prover does
not do fairness); every other property of a passing run is a theorem. *Neither.* The
findings are counterexamples of the small instances.

## 7. What is not modelled, and why

Rows without rules across rows (clients, services, comments, history), reads (listings, dashboard,
tracking, the select policies), the interface, and the configuration of third-party services. Storage
and Auth are modelled as their callers see them. The order of tasks and of the tasks of templates
(`reorder-task-template-task.ts`) and the rows of workers are not modelled: each is a read and a write,
and what may go wrong is listed among the hazards with the reason. The windows of resets count as those
of creations do, which are modelled. The rehearsals of updates, the transport of images and the
bootstrap of a clean host are long lists of checks made by one process on a disposable copy.

Most of the repository by size is this: components and pages, generated types, validation and formatting of
forms, tests, audits and reports. They have no state of their own to model, so the models stand for a
small share of its lines and for most of what is concurrent or may stop half way.

Two things a model of these parts cannot promise are worth knowing. An attempt of reset whose server
died, or whose calls to `complete` were all lost, stays `pending` for ever, with its user blocked and
every later reset of him refused (`reset_in_progress`): no code closes it. (An administrator who was
deactivated meanwhile still closes his: `complete` only asks whose attempt it is.) And `complete` returns
a user to the activity recorded by `begin`, undoing an edit made meanwhile.

## 8. Plan

Done: files, the story a pedido tells and how it is opened, who may operate, the creation of users, and
the operation of secrets and copies of the host. What is left, in the order of what would hurt most:

| order | module | about | properties and proofs worth having |
|---|---|---|---|
| 1 | `Plantillas` | creation, deletion and reordering of template tasks by separate UPDATEs | positions stay a total order, or the run that shows they do not |
| 2 | `Asignaciones` | rows of workers, deactivation, access; replaces the free `acceso` of `Pedidos` | only active and assigned users act; refinement of `acceso` |
