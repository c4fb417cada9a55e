----------------------------- MODULE Generaciones -----------------------------
(***************************************************************************)
(* The registry of generations of secrets: a directory of immutable        *)
(* snapshots, the pointer current.json, the two live environment files and *)
(* the lock file .operation.lock that every command shares.  A command     *)
(* reads the registry before it asks for the lock, decides what to do, and *)
(* checks again, more or less, once it holds it.                           *)
(*                                                                         *)
(* Commands: bootstrap, import of a bundle on a clean host, rotation and   *)
(* rollback of the password of the dashboard, preparation and switch of    *)
(* the opaque keys and of the legacy JWT keys, preparation of the password *)
(* of PostgreSQL.                                                          *)
(***************************************************************************)
EXTENDS FiniteSets

CONSTANTS
    Gen,        \* identifiers of generations (randomUUID)
    Inicial,    \* the first one
    Paquete,    \* the one a bundle of another host carries
    Procesos,   \* terminals where a command may run
    Ordenes,    \* the commands that are run
    Nada

Orden == {"arranque", "importar", "panel_rotar", "panel_volver", "opaca_preparar",
          "opaca_activar", "opaca_volver", "jwt_preparar", "jwt_cambiar", "pg_preparar"}

ASSUME GenAssumption ==
    /\ Inicial \in Gen /\ Paquete \in Gen /\ Inicial # Paquete
    /\ Nada \notin Gen /\ Nada \notin Procesos
    /\ Ordenes \subseteq Orden

\* A snapshot gives each variable a value, named after the generation that drew it.
Supabase == {"panel", "opaca", "jwt", "pg"}
Godel == {"opaca_godel"}
Var == Supabase \cup Godel
Valores == [Var -> Gen]

\* What each command writes.
Cambia(o) ==
    CASE o \in {"panel_rotar", "panel_volver"} -> {"panel"}
      [] o \in {"opaca_preparar", "opaca_activar", "opaca_volver"} -> {"opaca", "opaca_godel"}
      [] o \in {"jwt_preparar", "jwt_cambiar"} -> {"jwt"}
      [] o = "pg_preparar" -> {"pg"}
      [] OTHER -> Var

Crea == {"panel_rotar", "opaca_preparar", "jwt_preparar", "pg_preparar"}
Prepara == Crea \ {"panel_rotar"}
Mueve == {"panel_volver", "opaca_activar", "opaca_volver", "jwt_cambiar"}
Opacas == {"opaca_activar", "opaca_volver"}

VARIABLES
    publicadas,   \* the generations in the directory
    ficha,        \* their metadata and snapshot
    puntero,      \* current.json
    vivo,         \* the environment files; Nada where the file does not exist
    candado,      \* who created .operation.lock, Nada when there is none
    proc          \* the command of each terminal

vars == <<publicadas, ficha, puntero, vivo, candado, proc>>

Ficha == [razon : {"arranque", "importar"} \cup Crea, origen : Gen \cup {Nada}, valor : Valores]

Fase == {"libre", "leido", "comprobar", "publicar", "materializar_s", "materializar_g",
         "supabase", "godel", "verificar", "puntero", "confirmar", "validar",
         "compensar", "compensar_g", "compensar_fin", "soltar"}

\* leida and visto: the current generation and the target's snapshot as read before the
\* lock; bajo: the current one read again under it; hecho: the files already written.
Mando == [fase : Fase, orden : Orden, leida : Gen \cup {Nada}, meta : Gen,
          visto : Valores, bajo : Gen \cup {Nada}, hecho : SUBSET {"supabase", "godel"}]

Libre == [fase |-> "libre", orden |-> "arranque", leida |-> Nada, meta |-> Inicial,
          visto |-> [v \in Var |-> Inicial], bajo |-> Nada, hecho |-> {}]

TypeOK ==
    /\ publicadas \subseteq Gen
    /\ ficha \in [Gen -> Ficha]
    /\ puntero \in Gen \cup {Nada}
    /\ vivo \in [Var -> Gen \cup {Nada}]
    /\ candado \in Procesos \cup {Nada}
    /\ proc \in [Procesos -> Mando]

\* An installation with its registry, one without it yet, or a clean host.
Init ==
    /\ puntero \in {Inicial, Nada}
    /\ publicadas = {puntero} \ {Nada}
    /\ ficha = [g \in Gen |-> [razon |-> "arranque", origen |-> Nada,
                               valor |-> [v \in Var |-> g]]]
    /\ \/ vivo = [v \in Var |-> Inicial]
       \/ puntero = Nada /\ vivo = [v \in Var |-> Nada]
    /\ candado = Nada
    /\ proc = [p \in Procesos |-> Libre]
-------------------------------------------------------------------------------
(* What the commands read. *)

\* getCurrentSecretGeneration with compareLive.
Coincide == puntero # Nada /\ puntero \in publicadas /\ vivo = ficha[puntero].valor
\* assertActiveSecretGenerationMatches.
Activa(g) == puntero = g /\ Coincide
\* assertReferencedSecretGenerationMatches.
Referida(g) == g \in publicadas /\ vivo = ficha[g].valor

DifierenSolo(g, h, vs) == \A v \in Var \ vs : ficha[g].valor[v] = ficha[h].valor[v]

\* The relation between the current generation and the target of a switch.
Relacionada(o, g, h) ==
    /\ DifierenSolo(g, h, Cambia(o))
    /\ CASE o = "panel_volver" -> TRUE
         [] o = "opaca_activar" -> /\ ficha[h].razon = "opaca_preparar"
                                   /\ ficha[h].origen = g \/ ficha[g].origen = h
         [] o = "opaca_volver" -> /\ ficha[g].razon = "opaca_preparar"
                                  /\ ficha[h].origen = g \/ ficha[g].origen = h
         [] o = "jwt_cambiar" -> \/ ficha[h].razon = "jwt_preparar" /\ ficha[h].origen = g
                                 \/ ficha[g].razon = "jwt_preparar" /\ ficha[g].origen = h

\* Identifiers nobody has drawn yet.
EnUso == publicadas \cup {Inicial, Paquete} \cup
         UNION {{proc[p].meta, proc[p].leida} : p \in {q \in Procesos : proc[q].fase # "libre"}} \cup
         {vivo[v] : v \in Var} \cup UNION {{ficha[g].valor[v] : v \in Var} : g \in publicadas}

Pasa(p, f) == proc' = [proc EXCEPT ![p].fase = f]
\* The command ends; the lock, if it holds it, stays in its place.
Acaba(p) == proc' = [proc EXCEPT ![p] = Libre]
-------------------------------------------------------------------------------
(* Before the lock. *)

LeerArranque(p) ==
    /\ "arranque" \in Ordenes /\ puntero = Nada /\ publicadas = {}
    /\ \E g \in Gen \ EnUso :
         proc' = [proc EXCEPT ![p] = [Libre EXCEPT !.fase = "leido", !.meta = g]]

LeerImportacion(p) ==
    /\ "importar" \in Ordenes
    /\ proc' = [proc EXCEPT ![p] = [Libre EXCEPT !.fase = "leido", !.orden = "importar",
                                                 !.meta = Paquete,
                                                 !.visto = [v \in Var |-> Paquete]]]

LeerCreacion(p) ==
    /\ Coincide
    /\ \E o \in Ordenes \cap Crea, g \in Gen \ EnUso :
         proc' = [proc EXCEPT ![p] =
            [Libre EXCEPT !.fase = "leido", !.orden = o, !.leida = puntero, !.meta = g,
                          !.visto = [v \in Var |-> IF v \in Cambia(o) THEN g
                                                   ELSE ficha[puntero].valor[v]]]]

LeerCambio(p) ==
    /\ Coincide
    /\ \E o \in Ordenes \cap Mueve, g \in publicadas :
         /\ Relacionada(o, puntero, g)
         /\ proc' = [proc EXCEPT ![p] =
                [Libre EXCEPT !.fase = "leido", !.orden = o, !.leida = puntero,
                              !.meta = g, !.visto = ficha[g].valor]]

Leer(p) ==
    /\ proc[p].fase = "libre"
    /\ LeerArranque(p) \/ LeerImportacion(p) \/ LeerCreacion(p) \/ LeerCambio(p)
    /\ UNCHANGED <<publicadas, ficha, puntero, vivo, candado>>

\* acquireGenerationMutationLock: open with "wx", or GENERATION_MUTATION_IN_PROGRESS.
Tomar(p) ==
    /\ proc[p].fase = "leido"
    /\ \/ candado = Nada /\ candado' = p /\ Pasa(p, "comprobar")
       \/ candado # Nada /\ Acaba(p) /\ UNCHANGED candado
    /\ UNCHANGED <<publicadas, ficha, puntero, vivo>>
-------------------------------------------------------------------------------
(* Under the lock.  A step that fails leads to the compensation, except in an import,
   whose finally releases the lock whatever happened. *)

Falla(p) == Pasa(p, IF proc[p].orden = "importar" THEN "soltar" ELSE "compensar")

\* What each command checks again before it changes anything.
Comprobado(p) ==
    LET r == proc[p] IN
    CASE r.orden = "arranque" -> puntero = Nada /\ \A v \in Var : vivo[v] # Nada
      [] r.orden = "importar" -> TRUE
      [] r.orden = "jwt_cambiar" -> Coincide /\ r.meta \in publicadas
                                    /\ Relacionada(r.orden, puntero, r.meta)
      [] OTHER -> Activa(r.leida)

\* Mutant: the pointer is moved before the environment is written.
TrasComprobarPuntero(o) == IF o \in Mueve THEN "puntero" ELSE "publicar"
\* A switch writes the files; the rest publishes first.
TrasComprobar(o) == IF o \in Mueve THEN "supabase" ELSE "publicar"

Comprobar(p) ==
    LET r == proc[p] IN
    /\ r.fase = "comprobar"
    /\ IF Comprobado(p)
       THEN proc' = [proc EXCEPT ![p] =
                [r EXCEPT !.fase = TrasComprobar(r.orden), !.bajo = puntero,
                          !.visto = CASE r.orden = "arranque" -> vivo
                                      [] r.orden = "jwt_cambiar" -> ficha[r.meta].valor
                                      [] OTHER -> @]]
       ELSE Falla(p)
    /\ UNCHANGED <<publicadas, ficha, puntero, vivo, candado>>

TrasPublicar(o) ==
    CASE o = "panel_rotar" -> "supabase" [] o = "arranque" -> "verificar"
      [] o = "importar" -> "materializar_s" [] OTHER -> "validar"

\* publishSecretGeneration: a staging directory renamed at the end. An import accepts
\* the one that is there if it is the same.
Publicar(p) ==
    LET r == proc[p] IN
    /\ r.fase = "publicar"
    /\ IF r.orden = "importar" /\ r.meta \in publicadas
       THEN /\ IF ficha[r.meta].valor = r.visto THEN Pasa(p, TrasPublicar(r.orden)) ELSE Falla(p)
            /\ UNCHANGED <<publicadas, ficha>>
       ELSE /\ publicadas' = publicadas \cup {r.meta}
            /\ ficha' = [ficha EXCEPT ![r.meta] =
                            [razon |-> r.orden, origen |-> r.leida, valor |-> r.visto]]
            /\ Pasa(p, TrasPublicar(r.orden))
    /\ UNCHANGED <<puntero, vivo, candado>>

\* materializeExactFile: creates the file, or finds it with the same bytes.
Materializar(p, fase, archivo, despues) ==
    LET r == proc[p] IN
    /\ r.fase = fase
    /\ IF \A v \in archivo : vivo[v] \in {Nada, r.visto[v]}
       THEN /\ vivo' = [v \in Var |-> IF v \in archivo THEN r.visto[v] ELSE vivo[v]]
            /\ Pasa(p, despues)
       ELSE Falla(p) /\ UNCHANGED vivo
    /\ UNCHANGED <<publicadas, ficha, puntero, candado>>

\* A prepared candidate is read back; the one of PostgreSQL also checks it lies dormant.
Validar(p) ==
    LET r == proc[p] IN
    /\ r.fase = "validar"
    /\ IF r.orden = "pg_preparar" => Activa(r.leida) THEN Pasa(p, "soltar") ELSE Falla(p)
    /\ UNCHANGED <<publicadas, ficha, puntero, vivo, candado>>

\* writeAllowlistedEnvironmentFile replaces its names in the file there is.
Escrito(archivo, nombres, valor) ==
    [v \in Var |-> IF v \in archivo \cap nombres THEN valor[v] ELSE vivo[v]]

EscribirSupabase(p) ==
    LET r == proc[p] IN
    /\ r.fase = "supabase"
    /\ vivo' = Escrito(Supabase, Cambia(r.orden), r.visto)
    /\ proc' = [proc EXCEPT ![p].fase = CASE r.orden \in Opacas -> "godel"
                                          [] r.orden = "panel_volver" -> "puntero"
                                          [] OTHER -> "verificar",
                            ![p].hecho = @ \cup {"supabase"}]
    /\ UNCHANGED <<publicadas, ficha, puntero, candado>>

EscribirGodel(p) ==
    LET r == proc[p] IN
    /\ r.fase = "godel"
    /\ vivo' = Escrito(Godel, Cambia(r.orden), r.visto)
    /\ proc' = [proc EXCEPT ![p].fase = "verificar", ![p].hecho = @ \cup {"godel"}]
    /\ UNCHANGED <<publicadas, ficha, puntero, candado>>

\* The files are read back whole before the pointer moves.
Verificar(p) ==
    LET r == proc[p] IN
    /\ r.fase = "verificar"
    /\ IF vivo = r.visto /\ (r.orden = "importar" => Referida(r.meta))
       THEN Pasa(p, "puntero") ELSE Falla(p)
    /\ UNCHANGED <<publicadas, ficha, puntero, vivo, candado>>

\* replaceCurrentGenerationPointer and the generation each command expects in it.
Esperada(p) ==
    LET r == proc[p] IN
    CASE r.orden = "arranque" -> puntero = Nada
      [] r.orden = "importar" -> puntero \in {Nada, r.meta}
      [] r.orden = "jwt_cambiar" -> puntero = r.bajo
      [] OTHER -> puntero = r.leida

MoverPuntero(p) ==
    LET r == proc[p] IN
    /\ r.fase = "puntero"
    /\ IF Esperada(p) THEN puntero' = r.meta /\ Pasa(p, "confirmar")
                      ELSE Falla(p) /\ UNCHANGED puntero
    /\ UNCHANGED <<publicadas, ficha, vivo, candado>>

\* Mutant: the lock is released after the pointer without looking.
ConfirmarSinMirar(p) ==
    /\ proc[p].fase = "confirmar"
    /\ Pasa(p, "soltar")
    /\ UNCHANGED <<publicadas, ficha, puntero, vivo, candado>>
\* After the pointer nothing is undone: what cannot be confirmed keeps the lock.
Confirmar(p) ==
    LET r == proc[p] IN
    /\ r.fase = "confirmar"
    /\ IF Activa(r.meta) \/ r.orden = "importar" THEN Pasa(p, "soltar") ELSE Acaba(p)
    /\ UNCHANGED <<publicadas, ficha, puntero, vivo, candado>>

Soltar(p) ==
    /\ proc[p].fase = "soltar"
    /\ candado' = Nada /\ Acaba(p)
    /\ UNCHANGED <<publicadas, ficha, puntero, vivo>>
-------------------------------------------------------------------------------
(* The compensation of what failed before the pointer. *)

\* A candidate is removed if the pointer is where it was, a bootstrap always, and a removal
\* that fails says nothing; the candidate of PostgreSQL is left, with the lock.
CompensarCreacion(p) ==
    LET r == proc[p] IN
    /\ r.fase = "compensar" /\ r.orden \in Prepara \cup {"arranque"}
    /\ \/ /\ r.orden # "pg_preparar"
          /\ r.meta \in publicadas
          /\ \/ UNCHANGED publicadas
             \/ /\ r.orden = "arranque" \/ puntero = r.leida
                /\ publicadas' = publicadas \ {r.meta}
          /\ IF puntero = r.leida THEN Pasa(p, "soltar") ELSE Acaba(p)
       \/ /\ r.orden # "pg_preparar" /\ r.meta \notin publicadas
          /\ IF r.orden = "arranque" => puntero = Nada THEN Pasa(p, "soltar") ELSE Acaba(p)
          /\ UNCHANGED publicadas
       \/ /\ r.orden = "pg_preparar"
          /\ IF r.meta \notin publicadas /\ Activa(r.leida) THEN Pasa(p, "soltar") ELSE Acaba(p)
          /\ UNCHANGED publicadas
    /\ UNCHANGED <<ficha, puntero, vivo, candado>>

\* The environment is returned to the generation read before the lock. The rollback of the
\* dashboard writes it whether or not it had written.
Restaurado(p, archivo, nombre) ==
    LET r == proc[p] IN
    IF nombre \in r.hecho \/ (nombre = "supabase" /\ r.orden = "panel_volver")
    THEN Escrito(archivo, Cambia(r.orden), ficha[r.leida].valor) ELSE vivo

CompensarSupabase(p) ==
    LET r == proc[p] IN
    /\ r.fase = "compensar" /\ r.orden \in Mueve \cup {"panel_rotar"}
    /\ IF r.orden = "jwt_cambiar" /\ puntero # r.leida
       THEN Acaba(p) /\ UNCHANGED vivo
       ELSE vivo' = Restaurado(p, Supabase, "supabase") /\ Pasa(p, "compensar_g")
    /\ UNCHANGED <<publicadas, ficha, puntero, candado>>

CompensarGodel(p) ==
    /\ proc[p].fase = "compensar_g"
    /\ vivo' = Restaurado(p, Godel, "godel")
    /\ Pasa(p, "compensar_fin")
    /\ UNCHANGED <<publicadas, ficha, puntero, candado>>

\* Mutant: the lock is released without checking that the source is active again.
CompensadoSinComprobar(p) ==
    /\ proc[p].fase = "compensar_fin"
    /\ Pasa(p, "soltar")
    /\ UNCHANGED <<publicadas, ficha, puntero, vivo, candado>>
Compensado(p) ==
    /\ proc[p].fase = "compensar_fin"
    /\ IF Activa(proc[p].leida) THEN Pasa(p, "soltar") ELSE Acaba(p)
    /\ UNCHANGED <<publicadas, ficha, puntero, vivo, candado>>
-------------------------------------------------------------------------------
(* Failures. *)

Trabajando == {"comprobar", "publicar", "materializar_s", "materializar_g", "supabase",
               "godel", "verificar", "puntero", "validar"}

\* A read or a write that throws.
Fallar(p) ==
    /\ proc[p].fase \in Trabajando
    /\ Falla(p)
    /\ UNCHANGED <<publicadas, ficha, puntero, vivo, candado>>

\* The command dies, or fails where it no longer compensates: the lock stays.
Interrumpir(p) ==
    /\ proc[p].fase # "libre"
    /\ Acaba(p)
    /\ UNCHANGED <<publicadas, ficha, puntero, vivo, candado>>

Paso(p) ==
    \/ Leer(p) \/ Tomar(p) \/ Comprobar(p) \/ Publicar(p)
    \/ Materializar(p, "materializar_s", Supabase, "materializar_g")
    \/ Materializar(p, "materializar_g", Godel, "verificar")
    \/ Validar(p) \/ EscribirSupabase(p) \/ EscribirGodel(p) \/ Verificar(p)
    \/ MoverPuntero(p) \/ Confirmar(p) \/ Soltar(p)
    \/ CompensarCreacion(p) \/ CompensarSupabase(p) \/ CompensarGodel(p) \/ Compensado(p)
    \/ Fallar(p) \/ Interrumpir(p)

Next == \E p \in Procesos : Paso(p)
Spec == Init /\ [][Next]_vars
-------------------------------------------------------------------------------
(* Correctness. *)

\* Without a lock the environment is the snapshot of the generation in force, or there is
\* no registry yet: what status, the backups and the restores rely on.
Estable == puntero = Nada \/ Coincide
SinCandadoEstable == candado = Nada => Estable

\* The pointer only moves to the generation whose secrets are already in the files, even
\* when the target was read before the lock and other commands ran in between.
PunteroTrasEntorno == [][puntero' # puntero => vivo = ficha[puntero'].valor]_vars

\* The registry is a publication: busy under the lock, or in force and whole.
P == INSTANCE PublicacionClave WITH
        Generaciones <- Gen \cup {Nada}, Cerrado <- "ocupado", vigente <- puntero,
        publicado <- IF candado = Nada THEN (IF Estable THEN puntero ELSE "mezcla")
                     ELSE "ocupado"
RegistroPublica == P!Spec
-------------------------------------------------------------------------------
(* The inductive invariant. *)

ConCandado == Fase \ {"libre", "leido"}

Exclusion == \A p \in Procesos : proc[p].fase \in ConCandado => candado = p

\* The phases a command goes through.
Etapas(o) ==
    {"leido", "comprobar", "soltar"} \cup
    CASE o \in Prepara -> {"publicar", "validar", "compensar"}
      [] o = "arranque" -> {"publicar", "verificar", "puntero", "confirmar", "compensar"}
      [] o = "importar" -> {"publicar", "materializar_s", "materializar_g", "verificar",
                            "puntero", "confirmar"}
      [] OTHER -> {"publicar", "supabase", "godel", "verificar", "puntero", "confirmar",
                   "compensar", "compensar_g", "compensar_fin"}

EtapaPropia ==
    \A p \in Procesos :
        LET r == proc[p] IN
        /\ r.fase # "libre" => r.fase \in Etapas(r.orden)
        /\ r.fase = "publicar" => r.orden \notin Mueve
        /\ r.orden = "arranque" /\ r.fase \in {"publicar", "verificar", "puntero"} =>
              puntero = Nada
        /\ r.orden = "arranque" /\ r.fase = "compensar" => r.meta # puntero

\* A command that draws an identifier keeps it to itself until it publishes it.
Sorteado(p) == proc[p].fase \in {"leido", "comprobar", "publicar"}
               /\ proc[p].orden \in Crea \cup {"arranque"}
SorteoUnico ==
    \A p \in Procesos : Sorteado(p) =>
        /\ proc[p].meta \notin publicadas \cup {Paquete}
        /\ \A q \in Procesos : proc[q].fase # "libre" =>
              /\ q # p => proc[p].meta # proc[q].meta
              /\ proc[p].meta # proc[q].leida

DeEscritura == {"supabase", "godel", "verificar", "puntero"}

\* What was read before the lock still describes the generations it was read from.
LecturaFiel ==
    /\ ficha[Paquete].valor = [v \in Var |-> Paquete]
    /\ \A p \in Procesos :
        LET r == proc[p] IN r.fase # "libre" =>
        /\ r.orden \in Crea \cup Mueve => r.leida \in Gen
        /\ r.orden \in Mueve => r.visto = ficha[r.meta].valor
        /\ r.orden = "panel_volver" => DifierenSolo(r.leida, r.meta, {"panel"})
        /\ r.orden \in Crea => r.meta # r.leida
        /\ r.orden = "importar" => /\ r.meta = Paquete
                                   /\ r.visto = [v \in Var |-> Paquete]
        /\ r.orden = "arranque" => r.leida = Nada
        /\ r.fase \in DeEscritura => r.visto = ficha[r.meta].valor

\* Where the environment still is, or is again, that of the generation in force.
Intacto(p) ==
    \/ proc[p].fase \in {"comprobar", "publicar", "validar", "soltar", "supabase"}
    \/ proc[p].orden = "importar"
    \/ proc[p].fase = "compensar" /\ proc[p].orden \in Prepara \cup {"arranque"}
EntornoIntacto == \A p \in Procesos : proc[p].fase \in ConCandado /\ Intacto(p) => Estable

\* At the pointer the files hold the target.
AntesDelPuntero ==
    \A p \in Procesos :
        LET r == proc[p] IN
        /\ r.fase = "puntero" => vivo = ficha[r.meta].valor
        /\ r.fase = "puntero" /\ r.orden = "importar" => r.meta \in publicadas
        /\ r.fase = "supabase" /\ r.orden = "panel_volver" => vivo = ficha[r.leida].valor

InvInductivo ==
    /\ TypeOK /\ Exclusion /\ EtapaPropia /\ SorteoUnico /\ LecturaFiel
    /\ EntornoIntacto /\ AntesDelPuntero /\ SinCandadoEstable
=============================================================================
