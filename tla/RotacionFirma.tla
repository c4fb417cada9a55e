---------------------------- MODULE RotacionFirma ----------------------------
(***************************************************************************)
(* The rotation of the EC key that signs the tokens, while the services    *)
(* run.  A plan holds four generations of secrets: GEN4 signs with the old *)
(* key and trusts it, GEN5 trusts the new one too, GEN6 signs with the new *)
(* one and GEN7 stops trusting the old one.  A command moves the registry  *)
(* one stage under the lock of secret-generation.mjs, releases the lock    *)
(* and then recreates, one by one, the containers that the change affects; *)
(* if one fails it goes back by the same way.                              *)
(*                                                                         *)
(* A container keeps the environment it was created with: corre[s] is the  *)
(* stage whose value of its variables it runs with.                        *)
(***************************************************************************)
EXTENDS Integers, Sequences

CONSTANTS
    Mandos,     \* terminals where a command may run
    Consumidores,   \* services that take only JWT_JWKS, in the order they are recreated
    Nada,       \* no lock, no container
    Huerfano    \* a lock whose command is gone

ASSUME NadaAssumption ==
    Nada \notin Mandos /\ Huerfano \notin Mandos /\ Nada # Huerfano /\ Nada \notin Int
\* "rest", "realtime", "storage" and "functions" in the code.
ASSUME ConsumidoresAssumption ==
    /\ Consumidores \in Seq(STRING) /\ Consumidores # <<>>
    /\ \A i \in 1..Len(Consumidores) : Consumidores[i] \notin {"auth", "api-gw"}

Etapa == 4..7
Clave == {"vieja", "nueva"}
Emisores == {"auth", "api-gw"}
Servicio == {Consumidores[i] : i \in 1..Len(Consumidores)} \cup Emisores
Verificadores == Servicio \ {"api-gw"}

\* Who signs and who is trusted in each stage (JWT_KEYS, JWT_JWKS, *_ASYMMETRIC).
Firma(e) == IF e <= 5 THEN "vieja" ELSE "nueva"
Confia(e) == IF e = 4 THEN {"vieja"} ELSE IF e = 7 THEN {"nueva"} ELSE Clave

\* The value a service takes from stage e, named after the first stage that has it:
\* JWT_KEYS is different in the four, JWT_JWKS is the same in GEN5 and GEN6, the
\* translation tokens change only in GEN6.
Valor(s, e) ==
    IF s = "auth" THEN e
    ELSE IF s = "api-gw" THEN IF e <= 5 THEN 4 ELSE 6
    ELSE IF e = 6 THEN 5 ELSE e

\* The services recreated between two stages, in order; the same there and back.
Matriz(d, h) == IF d + h = 11 THEN <<"api-gw", "auth">> ELSE Append(Consumidores, "auth")
Afectados(d, h) == {Matriz(d, h)[j] : j \in 1..Len(Matriz(d, h))}

\* Mutant: a command may skip a stage.
AdyacentesSalta(d, h) == h - d \in {-2, -1, 1, 2}

Adyacentes(d, h) == h - d \in {-1, 1}

VARIABLES
    archivo,    \* stage of infra/supabase/.env
    puntero,    \* stage of the current generation
    candado,    \* who holds .operation.lock
    corre,      \* the value each container was created with
    mando,      \* the command of each terminal
    apilado     \* history: a stage was written over what remained of a third one

vars == <<archivo, puntero, candado, corre, mando, apilado>>

Dentro == {"tomado", "escrito", "movido"}
Contenedores == {"estado", "recrear", "comprobar", "cerrar"}
Fase == {"libre", "pedir"} \cup Dentro \cup Contenedores

\* conv: it recreates containers, or only moves the registry; vuelta: it goes back after
\* a failure; cambiados: containers that are not those of its first look; ajeno: some
\* were changed by another command (history).
Mando == [fase : Fase, desde : Etapa, hacia : Etapa, conv : BOOLEAN, vuelta : BOOLEAN,
          k : 1..(Len(Consumidores) + 1), cambiados : SUBSET Servicio, ajeno : BOOLEAN,
          resp : {"ninguna", "completa", "recuperada", "fallo"}]

Inactivo(r) == [fase |-> "libre", desde |-> 4, hacia |-> 5, conv |-> FALSE, vuelta |-> FALSE,
                k |-> 1, cambiados |-> {}, ajeno |-> FALSE, resp |-> r]

TypeOK ==
    /\ archivo \in Etapa /\ puntero \in Etapa
    /\ candado \in Mandos \cup {Nada, Huerfano}
    /\ corre \in [Servicio -> Etapa \cup {Nada}]
    /\ mando \in [Mandos -> Mando]
    /\ apilado \in BOOLEAN

Init ==
    /\ archivo = 4 /\ puntero = 4 /\ candado = Nada
    /\ corre = [s \in Servicio |-> Valor(s, 4)]
    /\ mando = [p \in Mandos |-> Inactivo("ninguna")]
    /\ apilado = FALSE
------------------------------------------------------------------------------
Pasa(p, f) == mando' = [mando EXCEPT ![p].fase = f]
Acaba(p, r) == mando' = [mando EXCEPT ![p] = Inactivo(r)]

\* ecSigningKeyRotationStatus answers stage e.
EstadoEs(e) == puntero = e /\ archivo = e

\* Every container runs with a value of one of these two stages.
SoloDe(d, h) == \A s \in Servicio : corre[s] # Nada => corre[s] \in {Valor(s, d), Valor(s, h)}
\* Every container is there and runs with the value of this stage.
Converge(e) == \A s \in Servicio : corre[s] = Valor(s, e)

\* The command reads the stage and the plan, and looks at the containers if it is to
\* recreate them: one that is missing stops it.
Empezar(p) ==
    /\ mando[p].fase = "libre"
    /\ \E h \in Etapa, c \in BOOLEAN :
         /\ EstadoEs(puntero) /\ Adyacentes(puntero, h)
         /\ c => \A s \in Servicio : corre[s] # Nada
         /\ mando' = [mando EXCEPT ![p] = [Inactivo("ninguna") EXCEPT
                          !.fase = "pedir", !.desde = puntero, !.hacia = h, !.conv = c]]
    /\ UNCHANGED <<archivo, puntero, candado, corre, apilado>>

\* The lock is taken and everything read before is read again.
Tomar(p) ==
    /\ mando[p].fase = "pedir" /\ candado = Nada
    /\ EstadoEs(mando[p].desde)
    /\ candado' = p
    /\ Pasa(p, "tomado")
    /\ UNCHANGED <<archivo, puntero, corre, apilado>>

\* writeAllowlistedEnvironmentFile
Escribir(p) ==
    /\ mando[p].fase = "tomado"
    /\ archivo' = mando[p].hacia
    /\ apilado' = (apilado \/ ~SoloDe(mando[p].desde, mando[p].hacia))
    /\ Pasa(p, "escrito")
    /\ UNCHANGED <<puntero, candado, corre>>

\* replaceCurrentGenerationPointer
Mover(p) ==
    /\ mando[p].fase = "escrito"
    /\ puntero' = mando[p].hacia
    /\ Pasa(p, "movido")
    /\ UNCHANGED <<archivo, candado, corre, apilado>>

\* The switch is verified and the lock released; the command of the registry ends here.
Soltar(p) ==
    /\ mando[p].fase = "movido"
    /\ candado' = Nada
    /\ IF mando[p].conv THEN Pasa(p, "estado") ELSE Acaba(p, "completa")
    /\ UNCHANGED <<archivo, puntero, corre, apilado>>

\* The lock is taken, the stage is another one, or something fails before the lock.
Abandonar(p) ==
    /\ mando[p].fase = "pedir"
    /\ Acaba(p, "fallo")
    /\ UNCHANGED <<archivo, puntero, candado, corre, apilado>>

\* Mutant: the environment file stays as it is.
CompensarSinEscribir(p) ==
    /\ mando[p].fase \in {"tomado", "escrito"}
    /\ candado' = Nada
    /\ Acaba(p, "fallo")
    /\ UNCHANGED <<archivo, puntero, corre, apilado>>

\* Something fails before the pointer moves and the environment file is restored.
Compensar(p) ==
    /\ mando[p].fase \in {"tomado", "escrito"}
    /\ archivo' = mando[p].desde
    /\ candado' = Nada
    /\ Acaba(p, "fallo")
    /\ UNCHANGED <<puntero, corre, apilado>>

\* The compensation fails too, or the switch cannot be verified after the pointer moved,
\* or the process dies: the lock stays.
Atascar(p) ==
    /\ mando[p].fase \in Dentro
    /\ \/ archivo' = archivo
       \/ mando[p].fase # "movido" /\ archivo' = mando[p].desde
    /\ candado' = Huerfano
    /\ Acaba(p, "fallo")
    /\ UNCHANGED <<puntero, corre, apilado>>
------------------------------------------------------------------------------
(* The containers; nobody holds the lock here. *)

Turno(p) == Matriz(mando[p].desde, mando[p].hacia)[mando[p].k]
Turnos(p) == Len(Matriz(mando[p].desde, mando[p].hacia))

\* What a command becomes after an error with its containers: it goes back once.
Retrocede(m) ==
    IF m.vuelta THEN Inactivo("fallo")
    ELSE [m EXCEPT !.fase = "pedir", !.desde = m.hacia, !.hacia = m.desde,
                   !.vuelta = TRUE, !.k = 1]

\* verifyStage
VerEstado(p) ==
    /\ mando[p].fase = "estado"
    /\ EstadoEs(mando[p].hacia)
    /\ Pasa(p, "recrear")
    /\ UNCHANGED <<archivo, puntero, candado, corre, apilado>>

\* Everybody who has looked at the containers will find another one.
Marcados(p, s) ==
    [q \in Mandos |-> IF mando[q].fase = "libre" THEN mando[q]
                      ELSE [mando[q] EXCEPT !.cambiados = @ \cup {s},
                                            !.ajeno = @ \/ q # p]]

\* docker compose up --force-recreate reads the file as it is now.
Recrear(p) ==
    /\ mando[p].fase = "recrear"
    /\ corre' = [corre EXCEPT ![Turno(p)] = Valor(Turno(p), archivo)]
    /\ mando' = [Marcados(p, Turno(p)) EXCEPT ![p].fase = "comprobar"]
    /\ UNCHANGED <<archivo, puntero, candado, apilado>>

\* It fails after creating the container or after removing the one there was.
RecrearFalla(p) ==
    /\ mando[p].fase = "recrear"
    /\ \E c \in {Valor(Turno(p), archivo), Nada} : corre' = [corre EXCEPT ![Turno(p)] = c]
    /\ mando' = [Marcados(p, Turno(p)) EXCEPT ![p] = Retrocede(@)]
    /\ UNCHANGED <<archivo, puntero, candado, apilado>>

\* Mutant: the environment of the container is not compared.
ComprobarSano(p) ==
    /\ mando[p].fase = "comprobar"
    /\ mando' = [mando EXCEPT ![p] =
                    IF mando[p].k = Turnos(p) THEN [mando[p] EXCEPT !.fase = "cerrar"]
                    ELSE [mando[p] EXCEPT !.fase = "recrear", !.k = mando[p].k + 1]]
    /\ UNCHANGED <<archivo, puntero, candado, corre, apilado>>

\* waitHealthy and verifyService, and the next one.
Comprobar(p) ==
    /\ mando[p].fase = "comprobar"
    /\ corre[Turno(p)] = Valor(Turno(p), mando[p].hacia)
    /\ mando' = [mando EXCEPT ![p] =
                    IF mando[p].k = Turnos(p) THEN [mando[p] EXCEPT !.fase = "cerrar"]
                    ELSE [mando[p] EXCEPT !.fase = "recrear", !.k = mando[p].k + 1]]
    /\ UNCHANGED <<archivo, puntero, candado, corre, apilado>>

\* assertIdentities and the last verifyStage.
Cerrar(p) ==
    /\ mando[p].fase = "cerrar"
    /\ mando[p].cambiados = Afectados(mando[p].desde, mando[p].hacia)
    /\ EstadoEs(mando[p].hacia)
    /\ Acaba(p, IF mando[p].vuelta THEN "recuperada" ELSE "completa")
    /\ UNCHANGED <<archivo, puntero, candado, corre, apilado>>

\* A check fails, a container does not become healthy in time, docker does not answer.
Fallar(p) ==
    /\ mando[p].fase \in Contenedores
    /\ mando' = [mando EXCEPT ![p] = Retrocede(@)]
    /\ UNCHANGED <<archivo, puntero, candado, corre, apilado>>

Morir(p) ==
    /\ mando[p].fase \in Contenedores \cup {"pedir"}
    /\ Acaba(p, "ninguna")
    /\ UNCHANGED <<archivo, puntero, candado, corre, apilado>>

Registro(p) == \/ Empezar(p) \/ Tomar(p) \/ Escribir(p) \/ Mover(p) \/ Soltar(p)
               \/ Abandonar(p) \/ Compensar(p) \/ Atascar(p)
Docker(p) == \/ VerEstado(p) \/ Recrear(p) \/ RecrearFalla(p) \/ Comprobar(p)
             \/ Cerrar(p) \/ Fallar(p) \/ Morir(p)
Next == \E p \in Mandos : Registro(p) \/ Docker(p)
Spec == Init /\ [][Next]_vars
------------------------------------------------------------------------------
(* Properties *)

\* Whoever signs now is trusted by everybody who verifies, whatever command is half way,
\* failed or died, alone or with others (MATRIX and the contents of the stages), unless
\* a transition was written over containers of a third stage.
FirmaValida ==
    ~apilado => \A e \in Emisores, v \in Verificadores :
                  corre[e] # Nada /\ corre[v] # Nada => Firma(corre[e]) \in Confia(corre[v])

\* A command that answers COMPLETE, or that it went back, leaves every container with the
\* values of the stage it names, those it did not recreate included, if no other command
\* recreated containers meanwhile: identities tell that a container changed, not into what.
RespuestaFirme ==
    [][\A p \in Mandos :
         /\ mando[p].fase = "cerrar"
         /\ mando'[p].fase = "libre" /\ mando'[p].resp \in {"completa", "recuperada"}
         /\ ~mando[p].ajeno /\ ~apilado
         => puntero = mando[p].hacia /\ Converge(puntero)]_vars

\* The inductive invariant.
MandoCoherente ==
    \A p \in Mandos :
      /\ Adyacentes(mando[p].desde, mando[p].hacia)
      /\ mando[p].k <= Turnos(p)
      /\ mando[p].fase \notin {"recrear", "comprobar", "cerrar"} => mando[p].k = 1
      /\ (mando[p].vuelta \/ mando[p].fase \in Contenedores) => mando[p].conv
CandadoCoherente == \A p \in Mandos : candado = p <=> mando[p].fase \in Dentro
ArchivoCoherente ==
    /\ candado = Nada => archivo = puntero
    /\ \A p \in Mandos :
         /\ mando[p].fase = "tomado" => archivo = mando[p].desde /\ puntero = mando[p].desde
         /\ mando[p].fase = "escrito" => archivo = mando[p].hacia /\ puntero = mando[p].desde
         /\ mando[p].fase = "movido" => archivo = mando[p].hacia /\ puntero = mando[p].hacia
DosEtapas ==
    ~apilado =>
      \E a, b \in Etapa :
        /\ Adyacentes(a, b) /\ archivo \in {a, b} /\ puntero \in {a, b}
        /\ SoloDe(a, b)
        /\ \A p \in Mandos : mando[p].fase \in {"escrito", "movido"} =>
                               {mando[p].desde, mando[p].hacia} = {a, b}
\* The containers a command leaves alone are there, and with those it has gone through
\* they have the value of the stage it goes to.
Presentes ==
    \A p \in Mandos :
      mando[p].fase # "libre" /\ mando[p].conv /\ ~mando[p].ajeno =>
        \A s \in Servicio \ Afectados(mando[p].desde, mando[p].hacia) : corre[s] # Nada
PorHacer(p) ==
    {Matriz(mando[p].desde, mando[p].hacia)[j] :
        j \in IF mando[p].fase = "cerrar" THEN {} ELSE mando[p].k..Turnos(p)}
HechosCoherentes ==
    ~apilado =>
      \A p \in Mandos :
        /\ mando[p].fase \in {"escrito", "movido"} \cup Contenedores
        /\ mando[p].conv /\ ~mando[p].ajeno
        => \A s \in Servicio \ PorHacer(p) : corre[s] = Valor(s, mando[p].hacia)
InvInductivo ==
    /\ TypeOK /\ MandoCoherente /\ CandadoCoherente /\ ArchivoCoherente
    /\ DosEtapas /\ Presentes /\ HechosCoherentes
==============================================================================
