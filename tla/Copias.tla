-------------------------------- MODULE Copias --------------------------------
(***************************************************************************)
(* Backup and restore of a self-hosted installation.  A backup stops       *)
(* everything, copies the database, the files, their attributes and the    *)
(* encryption key, starts everything again and only then publishes what it *)
(* copied.  A restore replaces the same parts one by one.  Both take the   *)
(* directory .backup-selfhosted.lock and, after it, the lock of the        *)
(* registry of secrets, which other commands take to change the passwords  *)
(* the copied database holds.                                              *)
(*                                                                         *)
(* Any step of a command may fail, by an error of the tool it calls or by  *)
(* an abort requested with a signal, and a command may die at any step.    *)
(***************************************************************************)
EXTENDS Naturals

CONSTANTS
    Mandos,       \* terminals where a backup or a restore may run
    Ids,          \* identifiers of backups
    MaxVersion,   \* bound on the changes of the data
    MaxGen,       \* bound on the rotations of the passwords
    Otro,         \* holder of the registry's lock: another command
    Huerfano,     \* holder of a lock nobody will remove
    Nada

ASSUME CopiasAssumption ==
    /\ MaxVersion \in Nat /\ MaxGen \in Nat
    /\ Nada # Otro /\ Nada # Huerfano /\ Otro # Huerfano
    /\ {Nada, Otro, Huerfano} \cap Mandos = {}
    /\ Nada \notin Ids /\ Nada \notin 0..MaxGen
    /\ Nada \notin [n : 0..MaxVersion, gen : 0..MaxGen]

VARIABLES
    cerrojo,     \* the directory lock of backups and restores
    candado,     \* the lock of the registry of secrets
    registro,    \* the registry exists and has a current generation
    gen,         \* the generation whose passwords the environment files hold
    ultima,      \* how many times the data changed
    corre,       \* the services that are up
    instalado,   \* what the volumes hold
    copias,      \* the backups
    mandos       \* the command of each terminal

vars == <<cerrojo, candado, registro, gen, ultima, corre, instalado, copias, mandos>>

\* An instant of the data, with the generation of the passwords stored in it.
Version == [n : 0..MaxVersion, gen : 0..MaxGen]
Parte == Version \cup {Nada}
Servicios == {"godel", "resto", "bd"}
Instalado == [bd : Parte, storage : Parte, atributos : Parte, clave : BOOLEAN]
Copia == [estado : {"ausente", "incompleta", "datos", "completa"},
          protegida : {"no", "incompleta", "final"},
          logica : Parte, bd : Parte, storage : Parte, atributos : Parte,
          nombre : 0..MaxGen \cup {Nada}]

Parada == {"parar_godel", "parar_resto", "parar_bd"}
Lectura == {"volcar", "tar_bd", "tar_storage", "capturar", "tar_clave"}
Reemplazo == {"vaciar_bd", "extraer_bd", "vaciar_storage", "extraer_storage",
              "config", "poner_clave", "reponer"}
Arranque == {"arrancar_bd", "arrancar_resto", "arrancar_godel"}
Publicacion == {"finalizar_clave", "finalizar_datos", "completar"}
Fase == {"libre", "cerrojo", "candado", "manifiesto", "reverificar", "limpiar",
         "aquietar", "soltar", "soltar_candado"}
        \cup Parada \cup Lectura \cup Reemplazo \cup Arranque \cup Publicacion

\* recupera: the command is starting again what it stopped because it failed.
Mando == [fase : Fase, orden : {"copiar", "restaurar"}, copia : Ids \cup {Nada},
          defensa : Ids \cup {Nada}, recupera : BOOLEAN]

Ausente == [estado |-> "ausente", protegida |-> "no", logica |-> Nada, bd |-> Nada,
            storage |-> Nada, atributos |-> Nada, nombre |-> Nada]
Libre == [fase |-> "libre", orden |-> "copiar", copia |-> Nada, defensa |-> Nada,
          recupera |-> FALSE]
Inicial == [n |-> 0, gen |-> 0]

TypeOK ==
    /\ cerrojo \in Mandos \cup {Nada, Huerfano}
    /\ candado \in Mandos \cup {Nada, Otro, Huerfano}
    /\ registro \in BOOLEAN
    /\ gen \in 0..MaxGen
    /\ ultima \in 0..MaxVersion
    /\ corre \subseteq Servicios
    /\ instalado \in Instalado
    /\ copias \in [Ids -> Copia]
    /\ mandos \in [Mandos -> Mando]

\* A running installation without backups, with its registry or before it.
Init ==
    /\ cerrojo = Nada /\ candado = Nada
    /\ registro \in BOOLEAN
    /\ gen = 0 /\ ultima = 0
    /\ corre = Servicios
    /\ instalado = [bd |-> Inicial, storage |-> Inicial, atributos |-> Inicial, clave |-> TRUE]
    /\ copias = [b \in Ids |-> Ausente]
    /\ mandos = [m \in Mandos |-> Libre]
-------------------------------------------------------------------------------
\* All the parts are of one instant, and the key is there.
Entera == /\ instalado.bd # Nada
          /\ instalado.storage = instalado.bd
          /\ instalado.atributos = instalado.bd
          /\ instalado.clave

\* What backup-selfhosted verify accepts.
Verificable(b) == copias[b].estado = "completa" /\ copias[b].protegida = "final"

\* assertActiveSecretGenerationMatches, only for a backup whose manifest names one.
SuGeneracion(b) == copias[b].nombre = Nada \/ (registro /\ copias[b].nombre = gen)

\* The services log in with the passwords of the environment files; a server that finds
\* its directory empty initializes it with them.
Entran == instalado.bd # Nada => instalado.bd.gen = gen

En(m, f) == mandos[m].fase = f
Pasa(m, f) == mandos' = [mandos EXCEPT ![m].fase = f]
Acaba(m) == mandos' = [mandos EXCEPT ![m] = Libre]
Copiando(m) == mandos[m].orden = "copiar"
Restaurando(m) == mandos[m].orden = "restaurar"
Anota(m, campo, valor) == copias' = [copias EXCEPT ![mandos[m].copia][campo] = valor]

\* The restore may already have changed a volume.
Mutada(m) ==
    /\ Restaurando(m)
    /\ \/ mandos[m].fase \in Reemplazo \cup {"aquietar"}
       \/ mandos[m].fase \in Arranque /\ ~mandos[m].recupera
-------------------------------------------------------------------------------
(* Before the locks, and the locks. *)

PrepararCopia(m) ==
    /\ En(m, "libre")
    /\ candado = Nada /\ corre = Servicios
    /\ Pasa(m, "cerrojo")
    /\ UNCHANGED <<cerrojo, candado, registro, gen, ultima, corre, instalado, copias>>

PrepararRestauracion(m) ==
    /\ En(m, "libre")
    /\ candado = Nada /\ cerrojo = Nada /\ corre = Servicios
    /\ \E b, d \in Ids :
         /\ b # d /\ Verificable(b) /\ Verificable(d) /\ SuGeneracion(b)
         /\ mandos' = [mandos EXCEPT ![m] = [Libre EXCEPT !.fase = "cerrojo", !.orden = "restaurar",
                                                          !.copia = b, !.defensa = d]]
    /\ UNCHANGED <<cerrojo, candado, registro, gen, ultima, corre, instalado, copias>>

TomarCerrojo(m) ==
    /\ En(m, "cerrojo")
    /\ \/ cerrojo = Nada /\ cerrojo' = m /\ Pasa(m, "candado")
       \/ cerrojo # Nada /\ Acaba(m) /\ UNCHANGED cerrojo
    /\ UNCHANGED <<candado, registro, gen, ultima, corre, instalado, copias>>

\* A restore that does not get the second lock ends without removing the first.
TomarCandado(m) ==
    /\ En(m, "candado")
    /\ \/ /\ candado = Nada /\ candado' = m
          /\ Pasa(m, IF Copiando(m) THEN "manifiesto" ELSE "reverificar")
          /\ UNCHANGED cerrojo
       \/ /\ candado # Nada /\ Copiando(m)
          /\ Pasa(m, "limpiar") /\ UNCHANGED <<cerrojo, candado>>
       \/ /\ candado # Nada /\ Restaurando(m)
          /\ Acaba(m) /\ cerrojo' = Huerfano /\ UNCHANGED candado
    /\ UNCHANGED <<registro, gen, ultima, corre, instalado, copias>>

\* The generation is read again under the lock and its name goes to the manifest.
EscribirManifiesto(m) ==
    /\ En(m, "manifiesto")
    /\ \E b \in Ids :
         /\ copias[b] = Ausente
         /\ copias' = [copias EXCEPT ![b] =
              [Ausente EXCEPT !.estado = "incompleta", !.protegida = "incompleta",
                              !.nombre = IF registro THEN gen ELSE Nada]]
         /\ mandos' = [mandos EXCEPT ![m] = [@ EXCEPT !.fase = "parar_godel", !.copia = b]]
    /\ UNCHANGED <<cerrojo, candado, registro, gen, ultima, corre, instalado>>

\* Mutant: the generation checked before the lock is not checked again under it.
ReverificarSinGeneracion(m) ==
    /\ En(m, "reverificar")
    /\ Verificable(mandos[m].copia) /\ Verificable(mandos[m].defensa)
    /\ Pasa(m, "parar_godel")
    /\ UNCHANGED <<cerrojo, candado, registro, gen, ultima, corre, instalado, copias>>

Reverificar(m) ==
    /\ En(m, "reverificar")
    /\ Verificable(mandos[m].copia) /\ Verificable(mandos[m].defensa)
    /\ SuGeneracion(mandos[m].copia)
    /\ Pasa(m, "parar_godel")
    /\ UNCHANGED <<cerrojo, candado, registro, gen, ultima, corre, instalado, copias>>
-------------------------------------------------------------------------------
(* Stopping and starting the services. *)

PararGodel(m) ==
    /\ En(m, "parar_godel")
    /\ corre' = corre \ {"godel"} /\ Pasa(m, "parar_resto")
    /\ UNCHANGED <<cerrojo, candado, registro, gen, ultima, instalado, copias>>

\* Mutant: only the application is stopped; the API of Supabase stays up.
PararRestoNada(m) ==
    /\ En(m, "parar_resto")
    /\ Pasa(m, IF Copiando(m) THEN "volcar" ELSE "parar_bd")
    /\ UNCHANGED <<cerrojo, candado, registro, gen, ultima, corre, instalado, copias>>

PararResto(m) ==
    /\ En(m, "parar_resto")
    /\ corre' = corre \ {"resto"}
    /\ Pasa(m, IF Copiando(m) THEN "volcar" ELSE "parar_bd")
    /\ UNCHANGED <<cerrojo, candado, registro, gen, ultima, instalado, copias>>

PararBd(m) ==
    /\ En(m, "parar_bd")
    /\ corre' = corre \ {"bd"}
    /\ Pasa(m, IF Copiando(m) THEN "tar_bd" ELSE "vaciar_bd")
    /\ UNCHANGED <<cerrojo, candado, registro, gen, ultima, instalado, copias>>

ArrancarBd(m) ==
    /\ En(m, "arrancar_bd")
    /\ corre' = corre \cup {"bd"} /\ Pasa(m, "arrancar_resto")
    /\ UNCHANGED <<cerrojo, candado, registro, gen, ultima, instalado, copias>>

\* Mutant: the application is started without waiting for healthy services below it.
ArrancarRestoSinEsperar(m) ==
    /\ En(m, "arrancar_resto") /\ "bd" \in corre
    /\ corre' = corre \cup {"resto"} /\ Pasa(m, "arrancar_godel")
    /\ UNCHANGED <<cerrojo, candado, registro, gen, ultima, instalado, copias>>

ArrancarResto(m) ==
    /\ En(m, "arrancar_resto") /\ "bd" \in corre /\ Entran
    /\ corre' = corre \cup {"resto"} /\ Pasa(m, "arrancar_godel")
    /\ UNCHANGED <<cerrojo, candado, registro, gen, ultima, instalado, copias>>

\* What follows a start of the services, and each step of the publication of a backup.
TrasArrancar(m) ==
    CASE En(m, "finalizar_clave") -> "finalizar_datos"
      [] En(m, "finalizar_datos") -> "completar"
      [] En(m, "completar") -> "soltar"
      [] En(m, "arrancar_godel") /\ Copiando(m) ->
           IF mandos[m].recupera THEN "limpiar" ELSE "finalizar_clave"
      [] En(m, "arrancar_godel") /\ Restaurando(m) -> "soltar"

ArrancarGodel(m) ==
    /\ En(m, "arrancar_godel") /\ {"bd", "resto"} \subseteq corre
    /\ corre' = Servicios /\ Pasa(m, TrasArrancar(m))
    /\ UNCHANGED <<cerrojo, candado, registro, gen, ultima, instalado, copias>>
-------------------------------------------------------------------------------
(* The backup. *)

Volcar(m) ==
    /\ En(m, "volcar") /\ "bd" \in corre
    /\ Anota(m, "logica", instalado.bd) /\ Pasa(m, "parar_bd")
    /\ UNCHANGED <<cerrojo, candado, registro, gen, ultima, corre, instalado>>

TarBd(m) ==
    /\ En(m, "tar_bd")
    /\ Anota(m, "bd", instalado.bd) /\ Pasa(m, "tar_storage")
    /\ UNCHANGED <<cerrojo, candado, registro, gen, ultima, corre, instalado>>

TarStorage(m) ==
    /\ En(m, "tar_storage")
    /\ Anota(m, "storage", instalado.storage) /\ Pasa(m, "capturar")
    /\ UNCHANGED <<cerrojo, candado, registro, gen, ultima, corre, instalado>>

Capturar(m) ==
    /\ En(m, "capturar")
    /\ Anota(m, "atributos", instalado.atributos) /\ Pasa(m, "tar_clave")
    /\ UNCHANGED <<cerrojo, candado, registro, gen, ultima, corre, instalado>>

\* The tar of the key and the digests of every artifact.
TarClave(m) ==
    /\ En(m, "tar_clave") /\ instalado.clave
    /\ Pasa(m, "arrancar_bd")
    /\ UNCHANGED <<cerrojo, candado, registro, gen, ultima, corre, instalado, copias>>

FinalizarClave(m) ==
    /\ En(m, "finalizar_clave")
    /\ Anota(m, "protegida", "final") /\ Pasa(m, TrasArrancar(m))
    /\ UNCHANGED <<cerrojo, candado, registro, gen, ultima, corre, instalado>>

FinalizarDatos(m) ==
    /\ En(m, "finalizar_datos")
    /\ Anota(m, "estado", "datos") /\ Pasa(m, TrasArrancar(m))
    /\ UNCHANGED <<cerrojo, candado, registro, gen, ultima, corre, instalado>>

Completar(m) ==
    /\ En(m, "completar")
    /\ Anota(m, "estado", "completa") /\ Pasa(m, TrasArrancar(m))
    /\ UNCHANGED <<cerrojo, candado, registro, gen, ultima, corre, instalado>>

\* The catch removes the protected half of a backup that was not completed, if it can.
Limpiar(m) ==
    /\ En(m, "limpiar")
    /\ \/ UNCHANGED copias
       \/ /\ mandos[m].copia # Nada /\ copias[mandos[m].copia].estado # "completa"
          /\ Anota(m, "protegida", "no")
    /\ Pasa(m, "soltar")
    /\ UNCHANGED <<cerrojo, candado, registro, gen, ultima, corre, instalado>>
-------------------------------------------------------------------------------
(* The restore: each target is emptied and then filled. *)

Vaciar(m) ==
    /\ \/ /\ En(m, "vaciar_bd") /\ instalado' = [instalado EXCEPT !.bd = Nada]
          /\ Pasa(m, "extraer_bd")
       \/ /\ En(m, "vaciar_storage")
          /\ instalado' = [instalado EXCEPT !.storage = Nada, !.atributos = Nada]
          /\ Pasa(m, "extraer_storage")
       \/ /\ En(m, "config") /\ instalado' = [instalado EXCEPT !.clave = FALSE]
          /\ Pasa(m, "poner_clave")
    /\ UNCHANGED <<cerrojo, candado, registro, gen, ultima, corre, copias>>

Extraer(m) ==
    /\ \/ /\ En(m, "extraer_bd")
          /\ instalado' = [instalado EXCEPT !.bd = copias[mandos[m].copia].bd]
          /\ Pasa(m, "vaciar_storage")
       \/ /\ En(m, "extraer_storage")
          /\ instalado' = [instalado EXCEPT !.storage = copias[mandos[m].copia].storage]
          /\ Pasa(m, "config")
       \/ /\ En(m, "poner_clave") /\ instalado' = [instalado EXCEPT !.clave = TRUE]
          /\ Pasa(m, "reponer")
       \/ /\ En(m, "reponer")
          /\ instalado' = [instalado EXCEPT !.atributos = copias[mandos[m].copia].atributos]
          /\ Pasa(m, "arrancar_bd")
    /\ UNCHANGED <<cerrojo, candado, registro, gen, ultima, corre, copias>>

\* safetyQuiesce attempts the three stops; each may fail.  Both locks stay.
Aquietar(m) ==
    /\ En(m, "aquietar")
    /\ \E vivos \in SUBSET corre : corre' = vivos
    /\ Acaba(m) /\ cerrojo' = Huerfano /\ candado' = Huerfano
    /\ UNCHANGED <<registro, gen, ultima, instalado, copias>>
-------------------------------------------------------------------------------
(* Failures and the end. *)

Recuperar(m) ==
    mandos' = [mandos EXCEPT ![m] = [@ EXCEPT !.fase = "arrancar_bd", !.recupera = TRUE]]

\* A step fails after it stopped something and before it touched any volume.
FallarEnMantenimiento(m) ==
    /\ \/ mandos[m].fase \in Parada \cup Lectura
       \/ mandos[m].fase \in Arranque /\ Copiando(m) /\ ~mandos[m].recupera
    /\ Recuperar(m)
    /\ UNCHANGED <<cerrojo, candado, registro, gen, ultima, corre, instalado, copias>>

\* Mutant: the restore sets mutationStarted after it has emptied the database.
FallarMutadaTarde(m) ==
    /\ Mutada(m) /\ ~En(m, "aquietar")
    /\ IF mandos[m].fase \in {"vaciar_bd", "extraer_bd"} THEN Recuperar(m)
                                                         ELSE Pasa(m, "aquietar")
    /\ UNCHANGED <<cerrojo, candado, registro, gen, ultima, corre, instalado, copias>>

\* From the first volume it empties, a restore never starts the services again.
FallarMutada(m) ==
    /\ Mutada(m) /\ ~En(m, "aquietar")
    /\ Pasa(m, "aquietar")
    /\ UNCHANGED <<cerrojo, candado, registro, gen, ultima, corre, instalado, copias>>

\* The recovery itself fails: a backup goes on to its cleanup and releases everything, a
\* restore ends and leaves both locks.
FallarRecuperacion(m) ==
    /\ mandos[m].fase \in Arranque /\ mandos[m].recupera
    /\ \/ Copiando(m) /\ Pasa(m, "limpiar") /\ UNCHANGED <<cerrojo, candado>>
       \/ Restaurando(m) /\ Acaba(m) /\ cerrojo' = Huerfano /\ candado' = Huerfano
    /\ UNCHANGED <<registro, gen, ultima, corre, instalado, copias>>

\* Nothing was stopped yet, or everything is up again.
FallarSinMas(m) ==
    /\ \/ mandos[m].fase \in {"manifiesto"} \cup Publicacion /\ Pasa(m, "limpiar")
       \/ En(m, "reverificar") /\ Pasa(m, "soltar")
    /\ UNCHANGED <<cerrojo, candado, registro, gen, ultima, corre, instalado, copias>>

\* The directory may resist its removal; the other lock is removed in any case.
SoltarCerrojo(m) ==
    /\ En(m, "soltar")
    /\ cerrojo' \in {Nada, Huerfano}
    /\ IF candado = m THEN Pasa(m, "soltar_candado") ELSE Acaba(m)
    /\ UNCHANGED <<candado, registro, gen, ultima, corre, instalado, copias>>

SoltarCandado(m) ==
    /\ En(m, "soltar_candado")
    /\ candado' = Nada /\ Acaba(m)
    /\ UNCHANGED <<cerrojo, registro, gen, ultima, corre, instalado, copias>>

\* The process dies: its locks stay, and the services as they were.
Morir(m) ==
    /\ ~En(m, "libre")
    /\ cerrojo' = IF cerrojo = m THEN Huerfano ELSE cerrojo
    /\ candado' = IF candado = m THEN Huerfano ELSE candado
    /\ Acaba(m)
    /\ UNCHANGED <<registro, gen, ultima, corre, instalado, copias>>
-------------------------------------------------------------------------------
(* The rest of the installation. *)

\* The parts of the data move to a new instant together.
Cambiar(g) ==
    LET v == [n |-> ultima + 1, gen |-> g] IN
    /\ ultima < MaxVersion /\ ultima' = ultima + 1
    /\ instalado' = [instalado EXCEPT !.bd = v, !.storage = v, !.atributos = v]

\* A user of the application, or of the API of Supabase.
Escribir ==
    /\ {"resto", "bd"} \subseteq corre /\ instalado.bd # Nada
    /\ Cambiar(instalado.bd.gen)
    /\ UNCHANGED <<cerrojo, candado, registro, gen, corre, copias, mandos>>

\* Another command takes and gives back the lock of the registry.
TomarOtro ==
    /\ candado = Nada /\ candado' = Otro
    /\ UNCHANGED <<cerrojo, registro, gen, ultima, corre, instalado, copias, mandos>>

SoltarOtro ==
    /\ candado = Otro /\ candado' = Nada
    /\ UNCHANGED <<cerrojo, registro, gen, ultima, corre, instalado, copias, mandos>>

\* The bootstrap of the registry, and the rotation of the password of PostgreSQL.
Registrar ==
    /\ candado = Otro /\ ~registro /\ registro' = TRUE
    /\ UNCHANGED <<cerrojo, candado, gen, ultima, corre, instalado, copias, mandos>>

Rotar ==
    /\ candado = Otro /\ registro /\ corre = Servicios
    /\ gen < MaxGen /\ gen' = gen + 1 /\ Cambiar(gen + 1)
    /\ UNCHANGED <<cerrojo, candado, registro, corre, copias, mandos>>

Comun(m) == TomarCerrojo(m) \/ TomarCandado(m) \/ PararGodel(m) \/ PararResto(m) \/ PararBd(m)
            \/ ArrancarBd(m) \/ ArrancarResto(m) \/ ArrancarGodel(m)
            \/ SoltarCerrojo(m) \/ SoltarCandado(m) \/ Morir(m)
Copiar(m) == PrepararCopia(m) \/ EscribirManifiesto(m) \/ Volcar(m) \/ TarBd(m) \/ TarStorage(m)
             \/ Capturar(m) \/ TarClave(m) \/ FinalizarClave(m) \/ FinalizarDatos(m)
             \/ Completar(m) \/ Limpiar(m)
Restaurar(m) == PrepararRestauracion(m) \/ Reverificar(m) \/ Vaciar(m) \/ Extraer(m) \/ Aquietar(m)
Fallar(m) == FallarEnMantenimiento(m) \/ FallarMutada(m) \/ FallarRecuperacion(m) \/ FallarSinMas(m)
Entorno == Escribir \/ TomarOtro \/ SoltarOtro \/ Registrar \/ Rotar

Next == (\E m \in Mandos : Comun(m) \/ Copiar(m) \/ Restaurar(m) \/ Fallar(m)) \/ Entorno

Spec == Init /\ [][Next]_vars
-------------------------------------------------------------------------------
(* Properties. *)

\* The artifacts of a backup are of one instant, and the generation its manifest names is
\* the one whose passwords that database holds.
Coherente(b) ==
    LET c == copias[b] IN
    /\ c.bd # Nada /\ c.logica = c.bd /\ c.storage = c.bd /\ c.atributos = c.bd
    /\ c.nombre \in {Nada, c.bd.gen}

\* A backup that verifies is coherent, whatever was writing while it was taken and whatever
\* other command ran.  create(), backup-selfhosted.mjs:318-345.
CopiaCoherente == \A b \in Ids : Verificable(b) => Coherente(b)

\* A manifest says COMPLETE only of a backup whose key is in its final place, whatever
\* step of the publication fails or is the last one. backup-selfhosted.mjs:341-343, 356-369.
CompletaTieneClave ==
    \A b \in Ids : copias[b].estado = "completa" => copias[b].protegida = "final"

\* The volumes are whole and hold the passwords in force.
Sana == Entera /\ instalado.bd.gen = gen

\* The application is up only over whole volumes, also after restores that failed or died.
\* restore-selfhosted.mjs:646-704.
SirveEntero == "godel" \in corre => Sana

\* While nobody holds the lock of backups the volumes are whole: a half replaced
\* installation keeps it, and can be neither copied nor restored over without a person.
\* restore-selfhosted.mjs:706-747.
LibreEsEntera == cerrojo = Nada => Sana

\* A restore replaces nothing, at any step, with a backup that names another generation
\* than the one in force. restore-selfhosted.mjs:599, 632-638.
MutaConSuGeneracion ==
    \A m \in Mandos : Mutada(m) => copias[mandos[m].copia].nombre \in {Nada, gen}
-------------------------------------------------------------------------------
(* The inductive invariant. *)

\* From which step to which a command holds each lock.
Posee ==
    \A m \in Mandos :
        /\ mandos[m].fase \notin {"libre", "cerrojo", "soltar_candado"} => cerrojo = m
        /\ mandos[m].fase \notin {"libre", "cerrojo", "candado", "limpiar", "soltar"} => candado = m

\* Which command runs each step, over which backup.
Papel ==
    \A m \in Mandos :
        /\ mandos[m].fase \in Lectura \cup Publicacion \cup {"manifiesto", "limpiar"} => Copiando(m)
        /\ mandos[m].fase \in Reemplazo \cup {"reverificar", "aquietar"} => Restaurando(m)
        /\ mandos[m].recupera => mandos[m].fase \in Arranque \cup {"limpiar", "soltar", "soltar_candado"}
        /\ Copiando(m) /\ mandos[m].fase \in Parada \cup Lectura \cup Arranque \cup Publicacion =>
             mandos[m].copia \in Ids /\ copias[mandos[m].copia].estado # "completa"
        /\ Restaurando(m) => mandos[m].copia \in Ids /\ Verificable(mandos[m].copia)

\* What a command that has not failed keeps stopped.
Detenido ==
    \A m \in Mandos : ~mandos[m].recupera =>
        /\ mandos[m].fase \in Lectura \cup Reemplazo \cup Arranque \cup {"parar_resto", "parar_bd"} =>
             "godel" \notin corre
        /\ mandos[m].fase \in Lectura \cup Reemplazo \cup {"parar_bd", "arrancar_bd", "arrancar_resto"} =>
             "resto" \notin corre

\* The lock passes from hand to hand over whole volumes.
Custodia == LibreEsEntera /\ \A m \in Mandos : cerrojo = m /\ ~Mutada(m) => Sana

\* What a backup has copied so far is what the volumes hold.
Avance ==
    \A m \in Mandos : Copiando(m) /\ ~mandos[m].recupera =>
        LET c == copias[mandos[m].copia]
            f == mandos[m].fase IN
        /\ f \in Parada \cup Lectura => c.nombre \in {Nada, gen}
        /\ f \in (Lectura \ {"volcar"}) \cup {"parar_bd"} => c.logica = instalado.bd
        /\ f \in {"tar_storage", "capturar", "tar_clave"} => c.bd = instalado.bd
        /\ f \in {"capturar", "tar_clave"} => c.storage = instalado.storage
        /\ f = "tar_clave" => c.atributos = instalado.atributos
        /\ f \in Arranque \cup Publicacion => Coherente(mandos[m].copia)
        /\ f \in {"finalizar_datos", "completar"} => c.protegida = "final"

\* What a restore has replaced so far is what its backup holds.
Reposicion ==
    \A m \in Mandos : Restaurando(m) /\ ~mandos[m].recupera =>
        LET c == copias[mandos[m].copia]
            f == mandos[m].fase IN
        /\ f \in Parada => c.nombre \in {Nada, gen}
        /\ f \in Reemplazo \ {"vaciar_bd", "extraer_bd"} => instalado.bd = c.bd
        /\ f \in {"config", "poner_clave", "reponer"} => instalado.storage = c.storage
        /\ f = "reponer" => instalado.clave
        /\ f \in Arranque => Entera
        /\ f = "arrancar_godel" => instalado.bd.gen = gen

InvInductivo ==
    /\ TypeOK /\ Posee /\ Papel /\ Detenido /\ Custodia /\ Avance /\ Reposicion
    /\ CopiaCoherente /\ CompletaTieneClave /\ SirveEntero /\ MutaConSuGeneracion
-------------------------------------------------------------------------------
(* What is promised of the whole. *)

\* Somebody may be served: the application, or the API of Supabase, is up.
Atiende == corre \cap {"godel", "resto"} # {}
Vigente == IF Sana THEN instalado.bd ELSE Nada
\* A backup holds an instant when all that was copied is of it.
Guardadas == [b \in Ids |->
    LET c == copias[b] IN
    IF c.logica = c.bd /\ c.storage = c.bd /\ c.atributos = c.bd THEN c.bd ELSE Nada]
Publicadas == {b \in Ids : Verificable(b)}

\* The API of Supabase too is up only over whole volumes.
AtiendeEntero == Atiende => Sana

\* A backup has not copied the attributes, the last of its data, before its turn.
SinCapturar ==
    \A m \in Mandos :
        Copiando(m) /\ mandos[m].fase \in Parada \cup {"volcar", "tar_bd", "tar_storage", "capturar"}
            => copias[mandos[m].copia].atributos = Nada

\* What the volumes, the backups and the commands under way have to do with one another
\* so that what is served is one instant: the steps of create() and restore().
InvInstantes == InvInductivo /\ AtiendeEntero /\ SinCapturar

\* To whoever uses the installation its data are one instant, a backup is the instant of a
\* moment at which nobody wrote, and a restore, whatever step fails, leaves nothing that
\* is served or the instant of a backup that verifies.
\* create() and restore() with everything that runs meanwhile.
I == INSTANCE Instalacion WITH
        vigente <- Vigente, atiende <- Atiende, guardada <- Guardadas, publicadas <- Publicadas
InstalacionSpec == I!Spec
===============================================================================
