-------------------------- MODULE GeneracionesProof --------------------------
(***************************************************************************)
(* What Generaciones proves for any number of generations and terminals.   *)
(***************************************************************************)
EXTENDS Generaciones, TLAPS

USE GenAssumption

LEMMA LibreFase == Libre.fase = "libre" /\ Libre \in Mando
  BY DEF Libre, Mando, Fase, Orden, Valores

LEMMA PasaTipo ==
  ASSUME NEW p \in Procesos, proc \in [Procesos -> Mando], NEW f \in Fase, Pasa(p, f)
  PROVE  proc' \in [Procesos -> Mando]
  BY DEF Pasa, Mando

LEMMA AcabaTipo ==
  ASSUME NEW p \in Procesos, proc \in [Procesos -> Mando], Acaba(p)
  PROVE  proc' \in [Procesos -> Mando]
  BY LibreFase DEF Acaba

LEMMA EscritoTipo ==
  ASSUME vivo \in [Var -> Gen \cup {Nada}], NEW w \in Valores, NEW a, NEW ns
  PROVE  Escrito(a, ns, w) \in [Var -> Gen \cup {Nada}]
  BY DEF Escrito, Valores

\* A bootstrap that fails has not moved the pointer.
LEMMA ArranqueSinPuntero ==
  ASSUME InvInductivo, NEW p \in Procesos, proc[p].fase \in Trabajando, proc[p].orden = "arranque"
  PROVE  proc[p].meta # puntero
  <1>1. proc[p].meta \in Gen /\ proc[p].fase \in ConCandado
    BY DEF InvInductivo, TypeOK, Mando, Trabajando, ConCandado, Fase
  <1>2. CASE proc[p].fase = "comprobar"
    BY <1>1, <1>2 DEF InvInductivo, SorteoUnico, Sorteado, EntornoIntacto, Intacto, Estable, Coincide
  <1>3. CASE proc[p].fase \in {"publicar", "verificar", "puntero"}
    BY <1>1, <1>3 DEF InvInductivo, EtapaPropia
  <1> QED BY <1>2, <1>3 DEF InvInductivo, EtapaPropia, Etapas, Trabajando, Prepara, Crea

\* A step that fails leads to the compensation and changes nothing else.
LEMMA FallaPreserva ==
  ASSUME InvInductivo, NEW p \in Procesos, proc[p].fase \in Trabajando, Falla(p),
         UNCHANGED <<publicadas, ficha, puntero, vivo, candado>>
  PROVE  InvInductivo'
  <1> USE DEF InvInductivo, TypeOK, Crea, Prepara, Mueve, Opacas, Orden
  <1> DEFINE f == IF proc[p].orden = "importar" THEN "soltar" ELSE "compensar"
  <1>a. /\ proc'[p].fase = f /\ proc'[p].orden = proc[p].orden /\ proc'[p].meta = proc[p].meta
        /\ proc'[p].leida = proc[p].leida /\ proc'[p].visto = proc[p].visto
        /\ \A q \in Procesos \ {p} : proc'[q] = proc[q]
        /\ proc[p] \in Mando /\ proc[p].fase # "libre"
    BY DEF Falla, Pasa, Mando, Trabajando
  <1>b. candado = p /\ \A q \in Procesos \ {p} : proc[q].fase \notin ConCandado
    BY DEF Exclusion, ConCandado, Fase, Trabajando
  <1>1. TypeOK'
    BY PasaTipo DEF Falla, Fase
  <1>2. Exclusion'
    BY <1>a, <1>b DEF Exclusion
  <1>3. EtapaPropia'
    BY <1>a, ArranqueSinPuntero DEF EtapaPropia, Etapas
  <1>4. SorteoUnico'
    BY <1>a DEF SorteoUnico, Sorteado
  <1>5. LecturaFiel'
    BY <1>a DEF LecturaFiel, DifierenSolo, DeEscritura
  <1>6. EntornoIntacto'
    <2>1. proc[p].orden \in Prepara \cup {"arranque", "importar"} => Estable
      BY <1>a DEF EntornoIntacto, Intacto, EtapaPropia, Etapas, Trabajando, ConCandado, Fase, Estable
    <2> QED BY <1>a, <1>b, <2>1 DEF EntornoIntacto, Intacto, Estable, Coincide
  <1>7. AntesDelPuntero'
    BY <1>a DEF AntesDelPuntero
  <1>8. SinCandadoEstable'
    BY <1>b DEF SinCandadoEstable
  <1> QED BY <1>1, <1>2, <1>3, <1>4, <1>5, <1>6, <1>7, <1>8

\* What a command takes from the registry before it asks for the lock.
Lectura(n) ==
    /\ n \in Mando /\ n.fase = "leido"
    /\ n.orden \in Crea \cup Mueve => n.leida \in Gen \cap publicadas
    /\ n.orden \in Mueve => n.meta \in publicadas /\ n.visto = ficha[n.meta].valor
    /\ n.orden = "panel_volver" => DifierenSolo(n.leida, n.meta, {"panel"})
    /\ n.orden = "importar" => /\ n.meta = Paquete /\ n.leida = Nada
                               /\ n.visto = [v \in Var |-> Paquete]
    /\ n.orden = "arranque" => n.leida = Nada
    /\ n.orden \in Crea \cup {"arranque"} => n.meta \notin EnUso

LEMMA LecturaNueva ==
  ASSUME NEW p \in Procesos, InvInductivo, Leer(p)
  PROVE  \E n : Lectura(n) /\ proc' = [proc EXCEPT ![p] = n]
  <1> USE DEF InvInductivo, TypeOK, Crea, Prepara, Mueve, Orden
  <1>0. \A v \in Var : Inicial \in Gen /\ Paquete \in Gen
    OBVIOUS
  <1>1. CASE LeerArranque(p)
    <2>1. PICK g \in Gen \ EnUso :
            proc' = [proc EXCEPT ![p] = [Libre EXCEPT !.fase = "leido", !.meta = g]]
      BY <1>1 DEF LeerArranque
    <2> DEFINE n == [Libre EXCEPT !.fase = "leido", !.meta = g]
    <2>2. n \in Mando /\ n.fase = "leido" /\ n.orden = "arranque" /\ n.leida = Nada /\ n.meta = g
      BY DEF Libre, Mando, Fase, Valores
    <2>3. Lectura(n)
      BY <2>2 DEF Lectura
    <2> QED BY <2>1, <2>3
  <1>2. CASE LeerImportacion(p)
    <2> DEFINE n == [Libre EXCEPT !.fase = "leido", !.orden = "importar",
                                  !.meta = Paquete, !.visto = [v \in Var |-> Paquete]]
    <2>1. /\ n \in Mando /\ n.fase = "leido" /\ n.orden = "importar" /\ n.leida = Nada
          /\ n.meta = Paquete /\ n.visto = [v \in Var |-> Paquete]
      BY DEF Libre, Mando, Fase, Valores
    <2>2. Lectura(n)
      BY <2>1 DEF Lectura
    <2> QED BY <1>2, <2>2 DEF LeerImportacion
  <1>3. CASE LeerCreacion(p)
    <2>1. PICK o \in Ordenes \cap Crea, g \in Gen \ EnUso :
            proc' = [proc EXCEPT ![p] =
               [Libre EXCEPT !.fase = "leido", !.orden = o, !.leida = puntero, !.meta = g,
                             !.visto = [v \in Var |-> IF v \in Cambia(o) THEN g
                                                      ELSE ficha[puntero].valor[v]]]]
      BY <1>3 DEF LeerCreacion
    <2> DEFINE w == [v \in Var |-> IF v \in Cambia(o) THEN g ELSE ficha[puntero].valor[v]]
               n == [Libre EXCEPT !.fase = "leido", !.orden = o, !.leida = puntero,
                                  !.meta = g, !.visto = w]
    <2>2. puntero \in Gen \cap publicadas
      BY <1>3 DEF LeerCreacion, Coincide
    <2>3. w \in Valores
      BY <2>2 DEF Ficha, Valores
    <2> HIDE DEF w
    <2>4. /\ n \in Mando /\ n.fase = "leido" /\ n.orden = o /\ n.leida = puntero
          /\ n.meta = g /\ n.visto = w
      BY <2>2, <2>3 DEF Libre, Mando, Fase
    <2>5. Lectura(n)
      BY <2>2, <2>4 DEF Lectura
    <2> QED BY <2>1, <2>5 DEF w
  <1>4. CASE LeerCambio(p)
    <2>1. PICK o \in Ordenes \cap Mueve, g \in publicadas :
            /\ Relacionada(o, puntero, g)
            /\ proc' = [proc EXCEPT ![p] =
                  [Libre EXCEPT !.fase = "leido", !.orden = o, !.leida = puntero,
                                !.meta = g, !.visto = ficha[g].valor]]
      BY <1>4 DEF LeerCambio
    <2> DEFINE n == [Libre EXCEPT !.fase = "leido", !.orden = o, !.leida = puntero,
                                  !.meta = g, !.visto = ficha[g].valor]
    <2>2. puntero \in Gen \cap publicadas /\ ficha[g].valor \in Valores
      BY <1>4 DEF LeerCambio, Coincide, Ficha
    <2>3. /\ n \in Mando /\ n.fase = "leido" /\ n.orden = o /\ n.leida = puntero
          /\ n.meta = g /\ n.visto = ficha[g].valor
      BY <2>2 DEF Libre, Mando, Fase
    <2>4. o = "panel_volver" => DifierenSolo(puntero, g, {"panel"})
      BY <2>1 DEF Relacionada, Cambia
    <2>5. Lectura(n)
      BY <2>2, <2>3, <2>4 DEF Lectura
    <2> QED BY <2>1, <2>5
  <1> QED BY <1>1, <1>2, <1>3, <1>4 DEF Leer

LEMMA PasoLeer ==
  ASSUME NEW p \in Procesos, InvInductivo, Leer(p)
  PROVE  InvInductivo'
  <1> USE DEF InvInductivo, TypeOK, Crea, Prepara, Mueve, Opacas, Orden
  <1>0. PICK n : Lectura(n) /\ proc' = [proc EXCEPT ![p] = n]
    BY LecturaNueva
  <1>a. UNCHANGED <<publicadas, ficha, puntero, vivo, candado>>
    BY DEF Leer
  <1>b. /\ proc'[p] = n /\ \A q \in Procesos \ {p} : proc'[q] = proc[q]
        /\ n.fase = "leido" /\ n \in Mando
    BY <1>0 DEF Lectura
  <1>1. TypeOK'
    BY <1>0, <1>a DEF Lectura
  <1>2. Exclusion'
    BY <1>a, <1>b DEF Exclusion, ConCandado, Fase
  <1>3. EtapaPropia'
    BY <1>a, <1>b DEF EtapaPropia, Etapas
  <1>4. SorteoUnico'
    <2>1. /\ publicadas \subseteq EnUso /\ Paquete \in EnUso
          /\ \A q \in Procesos : proc[q].fase # "libre" => {proc[q].meta, proc[q].leida} \subseteq EnUso
      BY DEF EnUso
    <2>2. n.orden \in Crea \cup {"arranque"} =>
            /\ n.meta \notin publicadas \cup {Paquete}
            /\ n.meta # n.leida
            /\ \A q \in Procesos : proc[q].fase # "libre" => n.meta # proc[q].meta /\ n.meta # proc[q].leida
      BY <1>0, <2>1 DEF Lectura, Mando
    <2>3. \A q \in Procesos : Sorteado(q) => n.meta # proc[q].meta /\ n.leida # proc[q].meta
      BY <1>0, <2>2 DEF Lectura, SorteoUnico, Sorteado, Mando
    <2> QED BY <1>a, <1>b, <2>2, <2>3 DEF SorteoUnico, Sorteado
  <1>5. LecturaFiel'
    <2>1. n.orden \in Crea => n.meta # n.leida
      BY <1>0 DEF Lectura, EnUso
    <2> QED BY <1>0, <1>a, <1>b, <2>1 DEF LecturaFiel, Lectura, DeEscritura, DifierenSolo
  <1>6. EntornoIntacto'
    BY <1>a, <1>b DEF EntornoIntacto, Intacto, ConCandado, Estable, Coincide
  <1>7. AntesDelPuntero'
    BY <1>a, <1>b DEF AntesDelPuntero
  <1>8. SinCandadoEstable'
    BY <1>a DEF SinCandadoEstable, Estable, Coincide
  <1> QED BY <1>1, <1>2, <1>3, <1>4, <1>5, <1>6, <1>7, <1>8

LEMMA PasoTomar ==
  ASSUME NEW p \in Procesos, InvInductivo, Tomar(p)
  PROVE  InvInductivo'
  <1> USE DEF InvInductivo, TypeOK, Tomar, Pasa, Acaba, Falla, Crea, Prepara, Mueve, Opacas, Orden
  <1>1. TypeOK'
    BY PasaTipo, AcabaTipo DEF Fase, Valores, Ficha, Mando
  <1>2. Exclusion'
    BY LibreFase DEF Mando, Exclusion, ConCandado, Fase
  <1>3. EtapaPropia'
    BY LibreFase DEF Mando, Exclusion, ConCandado, Fase, EtapaPropia, Etapas, SorteoUnico, Sorteado
  <1>4. SorteoUnico'
    BY LibreFase DEF Mando, Exclusion, ConCandado, Fase, SorteoUnico, Sorteado, LecturaFiel
  <1>5. LecturaFiel'
    BY LibreFase DEF Mando, Exclusion, ConCandado, Fase, EtapaPropia, Etapas, SorteoUnico, Sorteado, LecturaFiel, DeEscritura, DifierenSolo
  <1>6. EntornoIntacto'
    BY LibreFase DEF Mando, Exclusion, ConCandado, Fase, EtapaPropia, Etapas, EntornoIntacto, Intacto, Estable, Coincide, SinCandadoEstable
  <1>7. AntesDelPuntero'
    BY LibreFase DEF Mando, Exclusion, ConCandado, Fase, EtapaPropia, Etapas, AntesDelPuntero, LecturaFiel, DeEscritura
  <1>8. SinCandadoEstable'
    BY LibreFase DEF Mando, Exclusion, ConCandado, Fase, EntornoIntacto, Intacto, Estable, Coincide, SinCandadoEstable
  <1> QED BY <1>1, <1>2, <1>3, <1>4, <1>5, <1>6, <1>7, <1>8

LEMMA PasoComprobar ==
  ASSUME NEW p \in Procesos, InvInductivo, Comprobar(p)
  PROVE  InvInductivo'
  <1> USE DEF InvInductivo, TypeOK, Crea, Prepara, Mueve, Opacas, Orden
  <1>a. /\ UNCHANGED <<publicadas, ficha, puntero, vivo, candado>>
        /\ proc[p].fase = "comprobar" /\ proc[p] \in Mando
    BY DEF Comprobar
  <1>b. candado = p /\ Estable /\ \A q \in Procesos \ {p} : proc[q].fase \notin ConCandado
    BY <1>a DEF Exclusion, ConCandado, Fase, EntornoIntacto, Intacto
  <1>1. CASE ~Comprobado(p)
    <2>1. Falla(p)
      BY <1>1 DEF Comprobar
    <2>2. proc[p].orden = "arranque" => proc[p].meta # puntero
      BY <1>a, ArranqueSinPuntero DEF Trabajando
    <2> HIDE DEF InvInductivo
    <2> QED BY <1>a, <2>1, <2>2, FallaPreserva DEF Trabajando
  <1>2. CASE Comprobado(p)
    <2> DEFINE r == proc[p]
               w == CASE r.orden = "arranque" -> vivo
                      [] r.orden = "jwt_cambiar" -> ficha[r.meta].valor
                      [] OTHER -> r.visto
               n == [r EXCEPT !.fase = TrasComprobar(r.orden), !.bajo = puntero, !.visto = w]
    <2>1. proc' = [proc EXCEPT ![p] = n]
      BY <1>2 DEF Comprobar
    <2>2. /\ w \in Valores
          /\ r.orden \in Mueve => w = ficha[r.meta].valor
          /\ r.orden \notin Mueve \cup {"arranque"} => w = r.visto
      <3>1. r.orden = "arranque" => vivo \in Valores
        BY <1>2 DEF Comprobado, Valores
      <3>2. r.meta \in Gen /\ r.visto \in Valores /\ ficha[r.meta].valor \in Valores
        BY <1>a DEF Mando, Ficha
      <3> QED BY <1>a, <3>1, <3>2 DEF LecturaFiel
    <2> HIDE DEF w
    <2>3. /\ n \in Mando /\ n.fase = TrasComprobar(r.orden) /\ n.fase \in {"supabase", "publicar"}
          /\ n.orden = r.orden /\ n.meta = r.meta /\ n.leida = r.leida /\ n.visto = w
      BY <1>a, <2>2 DEF Mando, TrasComprobar, Fase
    <2> HIDE DEF n
    <2>4. proc'[p] = n /\ \A q \in Procesos \ {p} : proc'[q] = proc[q]
      BY <2>1
    <2>5. /\ r.orden = "arranque" => puntero = Nada
          /\ r.orden = "panel_volver" => vivo = ficha[r.leida].valor
      BY <1>2 DEF Comprobado, Activa, Coincide
    <2>6. TypeOK'
      BY <1>a, <2>1, <2>3
    <2>7. Exclusion'
      BY <1>a, <1>b, <2>4 DEF Exclusion
    <2>8. EtapaPropia'
      BY <1>a, <2>3, <2>4, <2>5 DEF EtapaPropia, Etapas, TrasComprobar
    <2>9. SorteoUnico'
      BY <1>a, <2>3, <2>4 DEF SorteoUnico, Sorteado
    <2>10. LecturaFiel'
      BY <1>a, <2>2, <2>3, <2>4 DEF LecturaFiel, DeEscritura, DifierenSolo, TrasComprobar
    <2>11. EntornoIntacto' /\ SinCandadoEstable'
      BY <1>a, <1>b DEF EntornoIntacto, Estable, Coincide, SinCandadoEstable
    <2>12. AntesDelPuntero'
      BY <1>a, <2>3, <2>4, <2>5 DEF AntesDelPuntero
    <2> QED BY <2>6, <2>7, <2>8, <2>9, <2>10, <2>11, <2>12
  <1> QED BY <1>1, <1>2

LEMMA PasoPublicar ==
  ASSUME NEW p \in Procesos, InvInductivo, Publicar(p)
  PROVE  InvInductivo'
  <1> USE DEF InvInductivo, TypeOK, Publicar, TrasPublicar, Pasa, Acaba, Falla, Crea, Prepara, Mueve, Opacas, Orden
  <1>0. /\ \A g \in publicadas : ficha'[g].valor = ficha[g].valor
        /\ publicadas \subseteq publicadas' /\ UNCHANGED <<puntero, vivo, candado>>
    <2>1. proc[p].orden # "importar" => proc[p].meta \notin publicadas
      BY DEF SorteoUnico, Sorteado, EtapaPropia, Mando
    <2>2. proc[p].orden = "importar" => proc[p].visto = ficha[proc[p].meta].valor
      BY DEF LecturaFiel
    <2>3. \A g \in publicadas : ficha'[g].valor = ficha[g].valor
      BY <2>1, <2>2 DEF Ficha
    <2> QED BY <2>3
  <1>1. TypeOK'
    <2>1. proc' \in [Procesos -> Mando]
      BY PasaTipo DEF Fase
    <2>2. /\ proc[p].orden \in {"arranque", "importar"} \cup Crea /\ proc[p].leida \in Gen \cup {Nada}
          /\ proc[p].visto \in Valores /\ proc[p].meta \in Gen
      BY DEF EtapaPropia, Mando
    <2>3. ficha' \in [Gen -> Ficha] /\ publicadas' \subseteq Gen
      BY <2>2 DEF Ficha
    <2> QED BY <1>0, <2>1, <2>3
  <1>2. Exclusion'
    BY LibreFase DEF Mando, Exclusion, ConCandado, Fase
  <1>3. EtapaPropia'
    BY LibreFase DEF Mando, Exclusion, ConCandado, Fase, EtapaPropia, Etapas, SorteoUnico, Sorteado
  <1>4. SorteoUnico'
    BY LibreFase DEF Mando, Exclusion, ConCandado, Fase, SorteoUnico, Sorteado, LecturaFiel
  <1>5. LecturaFiel'
    BY SMTT(30), LibreFase DEF Mando, Exclusion, ConCandado, Fase, EtapaPropia, Etapas, SorteoUnico, Sorteado, LecturaFiel, DeEscritura, DifierenSolo
  <1>6. EntornoIntacto'
    <2>1. proc[p].fase \in ConCandado /\ Intacto(p)
      BY DEF ConCandado, Fase, Intacto
    <2>2. Estable'
      BY <1>0, <2>1 DEF EntornoIntacto, Estable, Coincide
    <2> QED BY <2>2 DEF EntornoIntacto
  <1>7. AntesDelPuntero'
    BY LibreFase DEF Mando, Exclusion, ConCandado, Fase, EtapaPropia, Etapas, AntesDelPuntero, LecturaFiel, DeEscritura
  <1>8. SinCandadoEstable'
    BY LibreFase DEF Mando, Exclusion, ConCandado, Fase, EntornoIntacto, Intacto, Estable, Coincide, SinCandadoEstable
  <1> QED BY <1>1, <1>2, <1>3, <1>4, <1>5, <1>6, <1>7, <1>8

LEMMA PasoMaterializarS ==
  ASSUME NEW p \in Procesos, InvInductivo, Materializar(p, "materializar_s", Supabase, "materializar_g")
  PROVE  InvInductivo'
  <1> USE DEF InvInductivo, TypeOK, Materializar, Pasa, Acaba, Falla, Crea, Prepara, Mueve, Opacas, Orden
  <1>0. UNCHANGED <<publicadas, ficha, puntero, candado>>
        /\ proc[p].fase \in ConCandado /\ Intacto(p) /\ proc[p].orden = "importar"
        /\ proc[p].visto \in Valores
    BY DEF ConCandado, Fase, Intacto, EtapaPropia, Etapas, Mando
  <1>1. TypeOK'
    <2>1. proc' \in [Procesos -> Mando]
      BY PasaTipo DEF Fase
    <2>2. vivo' \in [Var -> Gen \cup {Nada}]
      BY <1>0 DEF Valores
    <2> QED BY <1>0, <2>1, <2>2
  <1>2. Exclusion'
    BY LibreFase DEF Mando, Exclusion, ConCandado, Fase
  <1>3. EtapaPropia'
    BY LibreFase DEF Mando, Exclusion, ConCandado, Fase, EtapaPropia, Etapas, SorteoUnico, Sorteado
  <1>4. SorteoUnico'
    BY LibreFase DEF Mando, Exclusion, ConCandado, Fase, SorteoUnico, Sorteado, LecturaFiel
  <1>5. LecturaFiel'
    BY LibreFase DEF Mando, Exclusion, ConCandado, Fase, EtapaPropia, Etapas, SorteoUnico, Sorteado, LecturaFiel, DeEscritura, DifierenSolo
  <1>6. EntornoIntacto'
    <2>1. puntero # Nada => vivo' = vivo
      <3>1. puntero # Nada => vivo \in Valores
        BY <1>0 DEF EntornoIntacto, Estable, Coincide, Ficha
      <3> QED BY <1>0, <3>1 DEF Valores
    <2>2. Estable'
      BY <1>0, <2>1 DEF EntornoIntacto, Estable, Coincide
    <2> QED BY <2>2 DEF EntornoIntacto
  <1>7. AntesDelPuntero'
    BY LibreFase DEF Mando, Exclusion, ConCandado, Fase, EtapaPropia, Etapas, AntesDelPuntero, LecturaFiel, DeEscritura
  <1>8. SinCandadoEstable'
    BY LibreFase DEF Mando, Exclusion, ConCandado, Fase, EntornoIntacto, Intacto, Estable, Coincide, SinCandadoEstable
  <1> QED BY <1>1, <1>2, <1>3, <1>4, <1>5, <1>6, <1>7, <1>8

LEMMA PasoMaterializarG ==
  ASSUME NEW p \in Procesos, InvInductivo, Materializar(p, "materializar_g", Godel, "verificar")
  PROVE  InvInductivo'
  <1> USE DEF InvInductivo, TypeOK, Materializar, Pasa, Acaba, Falla, Crea, Prepara, Mueve, Opacas, Orden
  <1>0. UNCHANGED <<publicadas, ficha, puntero, candado>>
        /\ proc[p].fase \in ConCandado /\ Intacto(p) /\ proc[p].orden = "importar"
        /\ proc[p].visto \in Valores
    BY DEF ConCandado, Fase, Intacto, EtapaPropia, Etapas, Mando
  <1>1. TypeOK'
    <2>1. proc' \in [Procesos -> Mando]
      BY PasaTipo DEF Fase
    <2>2. vivo' \in [Var -> Gen \cup {Nada}]
      BY <1>0 DEF Valores
    <2> QED BY <1>0, <2>1, <2>2
  <1>2. Exclusion'
    BY LibreFase DEF Mando, Exclusion, ConCandado, Fase
  <1>3. EtapaPropia'
    BY LibreFase DEF Mando, Exclusion, ConCandado, Fase, EtapaPropia, Etapas, SorteoUnico, Sorteado
  <1>4. SorteoUnico'
    BY LibreFase DEF Mando, Exclusion, ConCandado, Fase, SorteoUnico, Sorteado, LecturaFiel
  <1>5. LecturaFiel'
    BY LibreFase DEF Mando, Exclusion, ConCandado, Fase, EtapaPropia, Etapas, SorteoUnico, Sorteado, LecturaFiel, DeEscritura, DifierenSolo
  <1>6. EntornoIntacto'
    <2>1. puntero # Nada => vivo' = vivo
      <3>1. puntero # Nada => vivo \in Valores
        BY <1>0 DEF EntornoIntacto, Estable, Coincide, Ficha
      <3> QED BY <1>0, <3>1 DEF Valores
    <2>2. Estable'
      BY <1>0, <2>1 DEF EntornoIntacto, Estable, Coincide
    <2> QED BY <2>2 DEF EntornoIntacto
  <1>7. AntesDelPuntero'
    BY LibreFase DEF Mando, Exclusion, ConCandado, Fase, EtapaPropia, Etapas, AntesDelPuntero, LecturaFiel, DeEscritura
  <1>8. SinCandadoEstable'
    BY LibreFase DEF Mando, Exclusion, ConCandado, Fase, EntornoIntacto, Intacto, Estable, Coincide, SinCandadoEstable
  <1> QED BY <1>1, <1>2, <1>3, <1>4, <1>5, <1>6, <1>7, <1>8

LEMMA PasoValidar ==
  ASSUME NEW p \in Procesos, InvInductivo, Validar(p)
  PROVE  InvInductivo'
  <1> USE DEF InvInductivo, TypeOK, Validar, Activa, Pasa, Acaba, Falla, Crea, Prepara, Mueve, Opacas, Orden
  <1>1. TypeOK'
    BY PasaTipo, AcabaTipo DEF Fase, Valores, Ficha, Mando
  <1>2. Exclusion'
    BY LibreFase DEF Mando, Exclusion, ConCandado, Fase
  <1>3. EtapaPropia'
    BY LibreFase DEF Mando, Exclusion, ConCandado, Fase, EtapaPropia, Etapas, SorteoUnico, Sorteado
  <1>4. SorteoUnico'
    BY LibreFase DEF Mando, Exclusion, ConCandado, Fase, SorteoUnico, Sorteado, LecturaFiel
  <1>5. LecturaFiel'
    BY LibreFase DEF Mando, Exclusion, ConCandado, Fase, EtapaPropia, Etapas, SorteoUnico, Sorteado, LecturaFiel, DeEscritura, DifierenSolo
  <1>6. EntornoIntacto'
    BY LibreFase DEF Mando, Exclusion, ConCandado, Fase, EtapaPropia, Etapas, EntornoIntacto, Intacto, Estable, Coincide, SinCandadoEstable
  <1>7. AntesDelPuntero'
    BY LibreFase DEF Mando, Exclusion, ConCandado, Fase, EtapaPropia, Etapas, AntesDelPuntero, LecturaFiel, DeEscritura
  <1>8. SinCandadoEstable'
    BY LibreFase DEF Mando, Exclusion, ConCandado, Fase, EntornoIntacto, Intacto, Estable, Coincide, SinCandadoEstable
  <1> QED BY <1>1, <1>2, <1>3, <1>4, <1>5, <1>6, <1>7, <1>8

LEMMA PasoEscribirSupabase ==
  ASSUME NEW p \in Procesos, InvInductivo, EscribirSupabase(p)
  PROVE  InvInductivo'
  <1> USE DEF InvInductivo, TypeOK, Crea, Prepara, Mueve, Opacas, Orden
  <1> DEFINE r == proc[p]
             f == CASE r.orden \in Opacas -> "godel"
                    [] r.orden = "panel_volver" -> "puntero"
                    [] OTHER -> "verificar"
  <1>a. /\ UNCHANGED <<publicadas, ficha, puntero, candado>>
        /\ r.fase = "supabase" /\ r \in Mando
        /\ vivo' = Escrito(Supabase, Cambia(r.orden), r.visto)
        /\ proc' = [proc EXCEPT ![p].fase = f, ![p].hecho = @ \cup {"supabase"}]
    BY DEF EscribirSupabase
  <1>b. candado = p /\ \A q \in Procesos \ {p} : proc[q].fase \notin ConCandado
    BY <1>a DEF Exclusion, ConCandado, Fase
  <1>c. f \in DeEscritura \ {"supabase"} /\ f \in Fase /\ f \in ConCandado
        /\ (f = "puntero" => r.orden = "panel_volver")
    BY DEF DeEscritura, Fase, ConCandado
  <1> HIDE DEF f
  <1>d. /\ proc'[p].fase = f /\ proc'[p].orden = r.orden /\ proc'[p].meta = r.meta
        /\ proc'[p].leida = r.leida /\ proc'[p].visto = r.visto
        /\ \A q \in Procesos \ {p} : proc'[q] = proc[q]
    BY <1>a DEF Mando
  <1>e. r.orden \in Mueve \cup {"panel_rotar"} /\ r.visto = ficha[r.meta].valor
    <2>1. r.fase \in Etapas(r.orden) /\ r.orden \in Orden /\ r.fase \in DeEscritura /\ r.fase # "libre"
      BY <1>a DEF EtapaPropia, DeEscritura, Mando
    <2>2. r.orden \in Mueve \cup {"panel_rotar"}
      BY <1>a, <2>1 DEF Etapas
    <2>3. r.visto = ficha[r.meta].valor
      BY <2>1 DEF LecturaFiel
    <2> QED BY <2>2, <2>3
  <1>1. TypeOK'
    <2>1. proc' \in [Procesos -> Mando]
      BY <1>a, <1>c DEF Mando
    <2>2. vivo' \in [Var -> Gen \cup {Nada}]
      BY <1>a, EscritoTipo DEF Mando
    <2> QED BY <1>a, <2>1, <2>2
  <1>2. Exclusion'
    BY <1>a, <1>b, <1>d DEF Exclusion
  <1>3. EtapaPropia'
    BY <1>a, <1>c, <1>d, <1>e DEF EtapaPropia, Etapas, DeEscritura
  <1>4. SorteoUnico'
    BY <1>a, <1>c, <1>d DEF SorteoUnico, Sorteado, DeEscritura
  <1>5. LecturaFiel'
    BY SMTT(30), <1>a, <1>c, <1>d, <1>e DEF LecturaFiel, DifierenSolo, DeEscritura
  <1>6. EntornoIntacto'
    BY <1>b, <1>c, <1>d, <1>e DEF EntornoIntacto, Intacto, DeEscritura
  <1>7. AntesDelPuntero'
    <2>1. ASSUME r.orden = "panel_volver" PROVE vivo' = ficha[r.meta].valor
      <3>1. vivo = ficha[r.leida].valor /\ DifierenSolo(r.leida, r.meta, {"panel"})
        BY <1>a, <2>1 DEF AntesDelPuntero, LecturaFiel
      <3>2. ficha[r.meta].valor \in Valores
        BY <1>a DEF Mando, Ficha
      <3>3. vivo' = [v \in Var |-> IF v = "panel" THEN ficha[r.meta].valor[v] ELSE vivo[v]]
        BY <1>a, <1>e, <2>1 DEF Escrito, Cambia, Supabase, Var
      <3> QED BY <3>1, <3>2, <3>3 DEF DifierenSolo, Valores, Var, Supabase, Godel
    <2>2. \A q \in Procesos \ {p} : proc'[q].fase \notin {"puntero", "supabase"}
      BY <1>b, <1>d DEF ConCandado, Fase
    <2> QED BY <1>a, <1>c, <1>d, <1>e, <2>1, <2>2 DEF AntesDelPuntero, DeEscritura
  <1>8. SinCandadoEstable'
    BY <1>a, <1>b DEF SinCandadoEstable
  <1> QED BY <1>1, <1>2, <1>3, <1>4, <1>5, <1>6, <1>7, <1>8

LEMMA PasoEscribirGodel ==
  ASSUME NEW p \in Procesos, InvInductivo, EscribirGodel(p)
  PROVE  InvInductivo'
  <1> USE DEF InvInductivo, TypeOK, EscribirGodel, Escrito, Cambia, Pasa, Acaba, Falla, Crea, Prepara, Mueve, Opacas, Orden
  <1>0. candado = p /\ candado' = candado /\ proc[p].fase = "godel" /\ proc'[p].fase = "verificar"
        /\ proc'[p].orden = proc[p].orden /\ proc[p].orden \in Opacas \cup {"panel_volver", "jwt_cambiar", "panel_rotar"}
        /\ \A q \in Procesos \ {p} : proc[q].fase \notin ConCandado /\ proc'[q] = proc[q]
    BY DEF Exclusion, ConCandado, Fase, EtapaPropia, Etapas, Mando
  <1>1. TypeOK'
    <2>1. "verificar" \in Fase /\ proc[p] \in Mando
      BY DEF Fase
    <2>2. [proc[p] EXCEPT !.fase = "verificar", !.hecho = @ \cup {"godel"}] \in Mando
      BY <2>1 DEF Mando
    <2>3. proc' \in [Procesos -> Mando]
      BY <2>2
    <2>4. vivo' \in [Var -> Gen \cup {Nada}]
      BY EscritoTipo DEF Mando
    <2> QED BY <2>3, <2>4
  <1>2. Exclusion'
    BY LibreFase DEF Mando, Exclusion, ConCandado, Fase
  <1>3. EtapaPropia'
    BY LibreFase DEF Mando, Exclusion, ConCandado, Fase, EtapaPropia, Etapas, SorteoUnico, Sorteado
  <1>4. SorteoUnico'
    BY LibreFase DEF Mando, Exclusion, ConCandado, Fase, SorteoUnico, Sorteado, LecturaFiel
  <1>5. LecturaFiel'
    BY SMTT(30), LibreFase DEF Mando, Exclusion, ConCandado, Fase, EtapaPropia, Etapas, SorteoUnico, Sorteado, LecturaFiel, DeEscritura, DifierenSolo
  <1>6. EntornoIntacto'
    BY <1>0 DEF EntornoIntacto, Intacto
  <1>7. AntesDelPuntero'
    BY LibreFase DEF Mando, Exclusion, ConCandado, Fase, EtapaPropia, Etapas, AntesDelPuntero, LecturaFiel, DeEscritura
  <1>8. SinCandadoEstable'
    BY LibreFase DEF Mando, Exclusion, ConCandado, Fase, EntornoIntacto, Intacto, Estable, Coincide, SinCandadoEstable
  <1> QED BY <1>1, <1>2, <1>3, <1>4, <1>5, <1>6, <1>7, <1>8

LEMMA PasoVerificar ==
  ASSUME NEW p \in Procesos, InvInductivo, Verificar(p)
  PROVE  InvInductivo'
  <1> USE DEF InvInductivo, TypeOK, Verificar, Referida, Pasa, Acaba, Falla, Crea, Prepara, Mueve, Opacas, Orden
  <1>1. TypeOK'
    BY PasaTipo, AcabaTipo DEF Fase, Valores, Ficha, Mando
  <1>2. Exclusion'
    BY LibreFase DEF Mando, Exclusion, ConCandado, Fase
  <1>3. EtapaPropia'
    BY LibreFase DEF Mando, Exclusion, ConCandado, Fase, EtapaPropia, Etapas, SorteoUnico, Sorteado
  <1>4. SorteoUnico'
    BY LibreFase DEF Mando, Exclusion, ConCandado, Fase, SorteoUnico, Sorteado, LecturaFiel
  <1>5. LecturaFiel'
    BY LibreFase DEF Mando, Exclusion, ConCandado, Fase, EtapaPropia, Etapas, SorteoUnico, Sorteado, LecturaFiel, DeEscritura, DifierenSolo
  <1>6. EntornoIntacto'
    BY LibreFase DEF Mando, Exclusion, ConCandado, Fase, EtapaPropia, Etapas, EntornoIntacto, Intacto, Estable, Coincide, SinCandadoEstable
  <1>7. AntesDelPuntero'
    BY LibreFase DEF Mando, Exclusion, ConCandado, Fase, EtapaPropia, Etapas, AntesDelPuntero, LecturaFiel, DeEscritura
  <1>8. SinCandadoEstable'
    BY LibreFase DEF Mando, Exclusion, ConCandado, Fase, EntornoIntacto, Intacto, Estable, Coincide, SinCandadoEstable
  <1> QED BY <1>1, <1>2, <1>3, <1>4, <1>5, <1>6, <1>7, <1>8

LEMMA PasoMoverPuntero ==
  ASSUME NEW p \in Procesos, InvInductivo, MoverPuntero(p)
  PROVE  InvInductivo'
  <1> USE DEF InvInductivo, TypeOK, MoverPuntero, Esperada, Pasa, Acaba, Falla, Crea, Prepara, Mueve, Opacas, Orden
  <1>1. TypeOK'
    BY PasaTipo, AcabaTipo DEF Fase, Valores, Ficha, Mando
  <1>2. Exclusion'
    BY LibreFase DEF Mando, Exclusion, ConCandado, Fase
  <1>3. EtapaPropia'
    BY LibreFase DEF Mando, Exclusion, ConCandado, Fase, EtapaPropia, Etapas, SorteoUnico, Sorteado
  <1>4. SorteoUnico'
    BY LibreFase DEF Mando, Exclusion, ConCandado, Fase, SorteoUnico, Sorteado, LecturaFiel
  <1>5. LecturaFiel'
    BY SMTT(30), LibreFase DEF Mando, Exclusion, ConCandado, Fase, EtapaPropia, Etapas, SorteoUnico, Sorteado, LecturaFiel, DeEscritura, DifierenSolo
  <1>6. EntornoIntacto'
    <2>1. proc[p].fase = "puntero" /\ candado = p
      BY DEF Exclusion, ConCandado, Fase
    <2>2. CASE puntero' = puntero /\ Falla(p)
      BY <2>1, <2>2, ArranqueSinPuntero DEF EntornoIntacto, Intacto, Estable, Coincide, ConCandado, Fase, Exclusion,
         EtapaPropia, Etapas, Mando
    <2>3. CASE puntero' = proc[p].meta /\ Pasa(p, "confirmar")
      <3>1. proc[p].orden = "importar" => Estable'
        BY <2>1, <2>3 DEF AntesDelPuntero, Estable, Coincide
      <3> QED BY <2>1, <2>3, <3>1 DEF EntornoIntacto, Intacto, ConCandado, Fase, Exclusion, Mando
    <2> QED BY <2>2, <2>3
  <1>7. AntesDelPuntero'
    BY LibreFase DEF Mando, Exclusion, ConCandado, Fase, EtapaPropia, Etapas, AntesDelPuntero, LecturaFiel, DeEscritura
  <1>8. SinCandadoEstable'
    BY LibreFase DEF Mando, Exclusion, ConCandado, Fase, EntornoIntacto, Intacto, Estable, Coincide, SinCandadoEstable
  <1> QED BY <1>1, <1>2, <1>3, <1>4, <1>5, <1>6, <1>7, <1>8

LEMMA PasoConfirmar ==
  ASSUME NEW p \in Procesos, InvInductivo, Confirmar(p)
  PROVE  InvInductivo'
  <1> USE DEF InvInductivo, TypeOK, Confirmar, Activa, Pasa, Acaba, Falla, Crea, Prepara, Mueve, Opacas, Orden
  <1>1. TypeOK'
    BY PasaTipo, AcabaTipo DEF Fase, Valores, Ficha, Mando
  <1>2. Exclusion'
    BY LibreFase DEF Mando, Exclusion, ConCandado, Fase
  <1>3. EtapaPropia'
    BY LibreFase DEF Mando, Exclusion, ConCandado, Fase, EtapaPropia, Etapas, SorteoUnico, Sorteado
  <1>4. SorteoUnico'
    BY LibreFase DEF Mando, Exclusion, ConCandado, Fase, SorteoUnico, Sorteado, LecturaFiel
  <1>5. LecturaFiel'
    <2>1. \A q \in Procesos : proc'[q].fase # "libre" => proc'[q] = [proc[q] EXCEPT !.fase = proc'[q].fase]
                                                        /\ (proc'[q].fase \in DeEscritura => proc'[q] = proc[q])
      BY LibreFase DEF DeEscritura, Mando
    <2>2. \A q \in Procesos : proc'[q].fase # "libre" => /\ proc[q].fase # "libre"
                 /\ proc'[q].orden = proc[q].orden /\ proc'[q].leida = proc[q].leida
                 /\ proc'[q].meta = proc[q].meta /\ proc'[q].visto = proc[q].visto
      BY LibreFase DEF Mando
    <2>3. UNCHANGED ficha
      OBVIOUS
    <2>4. LecturaFiel
      OBVIOUS
    <2> HIDE DEF InvInductivo, TypeOK, Confirmar, Pasa, Acaba
    <2>5. \A q \in Procesos : proc'[q].fase \in DeEscritura => proc[q].fase \in DeEscritura
      BY <2>1 DEF DeEscritura
    <2> QED BY <2>2, <2>3, <2>4, <2>5 DEF LecturaFiel, DifierenSolo
  <1>6. EntornoIntacto'
    BY LibreFase DEF Mando, Exclusion, ConCandado, Fase, EtapaPropia, Etapas, EntornoIntacto, Intacto, Estable, Coincide, SinCandadoEstable
  <1>7. AntesDelPuntero'
    BY LibreFase DEF Mando, Exclusion, ConCandado, Fase, EtapaPropia, Etapas, AntesDelPuntero, LecturaFiel, DeEscritura
  <1>8. SinCandadoEstable'
    BY LibreFase DEF Mando, Exclusion, ConCandado, Fase, EntornoIntacto, Intacto, Estable, Coincide, SinCandadoEstable
  <1> QED BY <1>1, <1>2, <1>3, <1>4, <1>5, <1>6, <1>7, <1>8

LEMMA PasoSoltar ==
  ASSUME NEW p \in Procesos, InvInductivo, Soltar(p)
  PROVE  InvInductivo'
  <1> USE DEF InvInductivo, TypeOK, Soltar, Pasa, Acaba, Falla, Crea, Prepara, Mueve, Opacas, Orden
  <1>1. TypeOK'
    BY PasaTipo, AcabaTipo DEF Fase, Valores, Ficha, Mando
  <1>2. Exclusion'
    BY LibreFase DEF Mando, Exclusion, ConCandado, Fase
  <1>3. EtapaPropia'
    BY LibreFase DEF Mando, Exclusion, ConCandado, Fase, EtapaPropia, Etapas, SorteoUnico, Sorteado
  <1>4. SorteoUnico'
    BY LibreFase DEF Mando, Exclusion, ConCandado, Fase, SorteoUnico, Sorteado, LecturaFiel
  <1>5. LecturaFiel'
    BY LibreFase DEF Mando, Exclusion, ConCandado, Fase, EtapaPropia, Etapas, SorteoUnico, Sorteado, LecturaFiel, DeEscritura, DifierenSolo
  <1>6. EntornoIntacto'
    BY LibreFase DEF Mando, Exclusion, ConCandado, Fase, EtapaPropia, Etapas, EntornoIntacto, Intacto, Estable, Coincide, SinCandadoEstable
  <1>7. AntesDelPuntero'
    BY LibreFase DEF Mando, Exclusion, ConCandado, Fase, EtapaPropia, Etapas, AntesDelPuntero, LecturaFiel, DeEscritura
  <1>8. SinCandadoEstable'
    BY LibreFase DEF Mando, Exclusion, ConCandado, Fase, EntornoIntacto, Intacto, Estable, Coincide, SinCandadoEstable
  <1> QED BY <1>1, <1>2, <1>3, <1>4, <1>5, <1>6, <1>7, <1>8

LEMMA PasoCompensarCreacion ==
  ASSUME NEW p \in Procesos, InvInductivo, CompensarCreacion(p)
  PROVE  InvInductivo'
  <1> USE DEF InvInductivo, TypeOK, CompensarCreacion, Activa, Pasa, Acaba, Falla, Crea, Prepara, Mueve, Opacas, Orden
  <1>1. TypeOK'
    BY PasaTipo, AcabaTipo DEF Fase, Valores, Ficha, Mando
  <1>2. Exclusion'
    BY LibreFase DEF Mando, Exclusion, ConCandado, Fase
  <1>3. EtapaPropia'
    BY LibreFase DEF Mando, Exclusion, ConCandado, Fase, EtapaPropia, Etapas, SorteoUnico, Sorteado
  <1>4. SorteoUnico'
    BY LibreFase DEF Mando, Exclusion, ConCandado, Fase, SorteoUnico, Sorteado, LecturaFiel
  <1>5. LecturaFiel'
    BY LibreFase DEF Mando, Exclusion, ConCandado, Fase, EtapaPropia, Etapas, SorteoUnico, Sorteado, LecturaFiel, DeEscritura, DifierenSolo
  <1>6. EntornoIntacto'
    <2>1. proc[p].fase \in ConCandado /\ Intacto(p)
      BY DEF ConCandado, Fase, Intacto
    <2>2. publicadas' \in {publicadas, publicadas \ {proc[p].meta}}
          /\ (publicadas' # publicadas => puntero # proc[p].meta)
      BY DEF EtapaPropia, LecturaFiel
    <2>3. Estable'
      BY <2>1, <2>2 DEF EntornoIntacto, Estable, Coincide
    <2> QED BY <2>3 DEF EntornoIntacto
  <1>7. AntesDelPuntero'
    BY LibreFase DEF Mando, Exclusion, ConCandado, Fase, EtapaPropia, Etapas, AntesDelPuntero, LecturaFiel, DeEscritura
  <1>8. SinCandadoEstable'
    BY LibreFase DEF Mando, Exclusion, ConCandado, Fase, EntornoIntacto, Intacto, Estable, Coincide, SinCandadoEstable
  <1> QED BY <1>1, <1>2, <1>3, <1>4, <1>5, <1>6, <1>7, <1>8

LEMMA PasoCompensarSupabase ==
  ASSUME NEW p \in Procesos, InvInductivo, CompensarSupabase(p)
  PROVE  InvInductivo'
  <1> USE DEF InvInductivo, TypeOK, CompensarSupabase, Restaurado, Escrito, Cambia, Pasa, Acaba, Falla, Crea, Prepara, Mueve, Opacas, Orden
  <1>1. TypeOK'
    <2>1. proc[p].leida \in Gen /\ ficha[proc[p].leida].valor \in Valores
      BY DEF LecturaFiel, Ficha
    <2>2. proc' \in [Procesos -> Mando]
      BY PasaTipo, AcabaTipo DEF Fase
    <2>3. vivo' \in [Var -> Gen \cup {Nada}]
      BY <2>1, EscritoTipo DEF Restaurado
    <2> QED BY <2>2, <2>3
  <1>2. Exclusion'
    BY LibreFase DEF Mando, Exclusion, ConCandado, Fase
  <1>3. EtapaPropia'
    BY LibreFase DEF Mando, Exclusion, ConCandado, Fase, EtapaPropia, Etapas, SorteoUnico, Sorteado
  <1>4. SorteoUnico'
    BY LibreFase DEF Mando, Exclusion, ConCandado, Fase, SorteoUnico, Sorteado, LecturaFiel
  <1>5. LecturaFiel'
    BY LibreFase DEF Mando, Exclusion, ConCandado, Fase, EtapaPropia, Etapas, SorteoUnico, Sorteado, LecturaFiel, DeEscritura, DifierenSolo
  <1>6. EntornoIntacto'
    BY LibreFase DEF Mando, Exclusion, ConCandado, Fase, EtapaPropia, Etapas, EntornoIntacto, Intacto, Estable, Coincide, SinCandadoEstable
  <1>7. AntesDelPuntero'
    BY LibreFase DEF Mando, Exclusion, ConCandado, Fase, EtapaPropia, Etapas, AntesDelPuntero, LecturaFiel, DeEscritura
  <1>8. SinCandadoEstable'
    BY LibreFase DEF Mando, Exclusion, ConCandado, Fase, EntornoIntacto, Intacto, Estable, Coincide, SinCandadoEstable
  <1> QED BY <1>1, <1>2, <1>3, <1>4, <1>5, <1>6, <1>7, <1>8

LEMMA PasoCompensarGodel ==
  ASSUME NEW p \in Procesos, InvInductivo, CompensarGodel(p)
  PROVE  InvInductivo'
  <1> USE DEF InvInductivo, TypeOK, CompensarGodel, Restaurado, Escrito, Cambia, Pasa, Acaba, Falla, Crea, Prepara, Mueve, Opacas, Orden
  <1>1. TypeOK'
    <2>1. proc[p].leida \in Gen /\ ficha[proc[p].leida].valor \in Valores
      <3>1. proc[p].fase \in Etapas(proc[p].orden) /\ proc[p].orden \in Orden
        BY DEF EtapaPropia, Mando
      <3>2. proc[p].orden \in Mueve \cup {"panel_rotar"}
        BY <3>1 DEF Etapas
      <3> QED BY <3>2 DEF LecturaFiel, Ficha
    <2>2. proc' \in [Procesos -> Mando]
      BY PasaTipo DEF Fase
    <2>3. vivo' \in [Var -> Gen \cup {Nada}]
      BY <2>1, EscritoTipo DEF Restaurado
    <2> QED BY <2>2, <2>3
  <1>2. Exclusion'
    BY LibreFase DEF Mando, Exclusion, ConCandado, Fase
  <1>3. EtapaPropia'
    BY LibreFase DEF Mando, Exclusion, ConCandado, Fase, EtapaPropia, Etapas, SorteoUnico, Sorteado
  <1>4. SorteoUnico'
    BY LibreFase DEF Mando, Exclusion, ConCandado, Fase, SorteoUnico, Sorteado, LecturaFiel
  <1>5. LecturaFiel'
    BY LibreFase DEF Mando, Exclusion, ConCandado, Fase, EtapaPropia, Etapas, SorteoUnico, Sorteado, LecturaFiel, DeEscritura, DifierenSolo
  <1>6. EntornoIntacto'
    BY LibreFase DEF Mando, Exclusion, ConCandado, Fase, EtapaPropia, Etapas, EntornoIntacto, Intacto, Estable, Coincide, SinCandadoEstable
  <1>7. AntesDelPuntero'
    BY LibreFase DEF Mando, Exclusion, ConCandado, Fase, EtapaPropia, Etapas, AntesDelPuntero, LecturaFiel, DeEscritura
  <1>8. SinCandadoEstable'
    BY LibreFase DEF Mando, Exclusion, ConCandado, Fase, EntornoIntacto, Intacto, Estable, Coincide, SinCandadoEstable
  <1> QED BY <1>1, <1>2, <1>3, <1>4, <1>5, <1>6, <1>7, <1>8

LEMMA PasoCompensado ==
  ASSUME NEW p \in Procesos, InvInductivo, Compensado(p)
  PROVE  InvInductivo'
  <1> USE DEF InvInductivo, TypeOK, Compensado, Activa, Pasa, Acaba, Falla, Crea, Prepara, Mueve, Opacas, Orden
  <1>1. TypeOK'
    BY PasaTipo, AcabaTipo DEF Fase, Valores, Ficha, Mando
  <1>2. Exclusion'
    BY LibreFase DEF Mando, Exclusion, ConCandado, Fase
  <1>3. EtapaPropia'
    BY LibreFase DEF Mando, Exclusion, ConCandado, Fase, EtapaPropia, Etapas, SorteoUnico, Sorteado
  <1>4. SorteoUnico'
    BY LibreFase DEF Mando, Exclusion, ConCandado, Fase, SorteoUnico, Sorteado, LecturaFiel
  <1>5. LecturaFiel'
    BY SMTT(30), LibreFase DEF Mando, Exclusion, ConCandado, Fase, EtapaPropia, Etapas, SorteoUnico, Sorteado, LecturaFiel, DeEscritura, DifierenSolo
  <1>6. EntornoIntacto'
    BY LibreFase DEF Mando, Exclusion, ConCandado, Fase, EtapaPropia, Etapas, EntornoIntacto, Intacto, Estable, Coincide, SinCandadoEstable
  <1>7. AntesDelPuntero'
    BY LibreFase DEF Mando, Exclusion, ConCandado, Fase, EtapaPropia, Etapas, AntesDelPuntero, LecturaFiel, DeEscritura
  <1>8. SinCandadoEstable'
    BY LibreFase DEF Mando, Exclusion, ConCandado, Fase, EntornoIntacto, Intacto, Estable, Coincide, SinCandadoEstable
  <1> QED BY <1>1, <1>2, <1>3, <1>4, <1>5, <1>6, <1>7, <1>8

LEMMA PasoFallar ==
  ASSUME NEW p \in Procesos, InvInductivo, Fallar(p)
  PROVE  InvInductivo'
  <1>1. proc[p].fase \in Trabajando /\ Falla(p) /\ UNCHANGED <<publicadas, ficha, puntero, vivo, candado>>
    BY DEF Fallar
  <1> QED BY <1>1, FallaPreserva

LEMMA PasoInterrumpir ==
  ASSUME NEW p \in Procesos, InvInductivo, Interrumpir(p)
  PROVE  InvInductivo'
  <1> USE DEF InvInductivo, TypeOK, Interrumpir, Pasa, Acaba, Falla, Crea, Prepara, Mueve, Opacas, Orden
  <1>1. TypeOK'
    BY PasaTipo, AcabaTipo DEF Fase, Valores, Ficha, Mando
  <1>2. Exclusion'
    BY LibreFase DEF Mando, Exclusion, ConCandado, Fase
  <1>3. EtapaPropia'
    BY LibreFase DEF Mando, Exclusion, ConCandado, Fase, EtapaPropia, Etapas, SorteoUnico, Sorteado
  <1>4. SorteoUnico'
    BY LibreFase DEF Mando, Exclusion, ConCandado, Fase, SorteoUnico, Sorteado, LecturaFiel
  <1>5. LecturaFiel'
    BY LibreFase DEF Mando, Exclusion, ConCandado, Fase, EtapaPropia, Etapas, SorteoUnico, Sorteado, LecturaFiel, DeEscritura, DifierenSolo
  <1>6. EntornoIntacto'
    BY LibreFase DEF Mando, Exclusion, ConCandado, Fase, EtapaPropia, Etapas, EntornoIntacto, Intacto, Estable, Coincide, SinCandadoEstable
  <1>7. AntesDelPuntero'
    BY LibreFase DEF Mando, Exclusion, ConCandado, Fase, EtapaPropia, Etapas, AntesDelPuntero, LecturaFiel, DeEscritura
  <1>8. SinCandadoEstable'
    BY LibreFase DEF Mando, Exclusion, ConCandado, Fase, EntornoIntacto, Intacto, Estable, Coincide, SinCandadoEstable
  <1> QED BY <1>1, <1>2, <1>3, <1>4, <1>5, <1>6, <1>7, <1>8

LEMMA Siguiente ==
  ASSUME InvInductivo, [Next]_vars
  PROVE  InvInductivo'
  <1>1. CASE UNCHANGED vars
    BY <1>1 DEF vars, InvInductivo, TypeOK, Exclusion, EtapaPropia, SorteoUnico, Sorteado,
       LecturaFiel, DifierenSolo, EntornoIntacto, Intacto, AntesDelPuntero, SinCandadoEstable,
       Estable, Coincide
  <1>2. ASSUME NEW p \in Procesos, Paso(p) PROVE InvInductivo'
    BY <1>2, PasoLeer, PasoTomar, PasoComprobar, PasoPublicar, PasoMaterializarS,
       PasoMaterializarG, PasoValidar, PasoEscribirSupabase, PasoEscribirGodel, PasoVerificar,
       PasoMoverPuntero, PasoConfirmar, PasoSoltar, PasoCompensarCreacion,
       PasoCompensarSupabase, PasoCompensarGodel, PasoCompensado, PasoFallar, PasoInterrumpir
       DEF Paso
  <1> QED BY <1>1, <1>2 DEF Next

LEMMA AlEmpezar == Init => InvInductivo
  <1> SUFFICES ASSUME Init PROVE InvInductivo
    OBVIOUS
  <1>1. \A p \in Procesos : proc[p].fase = "libre" /\ proc[p] = Libre
    BY LibreFase DEF Init
  <1>2. TypeOK
    BY LibreFase DEF Init, TypeOK, Ficha, Valores
  <1>3. Estable
    BY DEF Init, Estable, Coincide
  <1>4. ficha[Paquete].valor = [v \in Var |-> Paquete]
    BY DEF Init
  <1> QED
    BY <1>1, <1>2, <1>3, <1>4 DEF InvInductivo, Exclusion, ConCandado, EtapaPropia, SorteoUnico,
       Sorteado, LecturaFiel, EntornoIntacto, AntesDelPuntero, SinCandadoEstable, Fase

\* InvInductivo holds in every reachable state.
THEOREM Invariante == Spec => []InvInductivo
  BY AlEmpezar, Siguiente, PTL DEF Spec

\* Without the lock the environment is that of the generation in force: what status, the
\* backups and the restores rely on.
THEOREM SinCandadoSiempreEstable == Spec => []SinCandadoEstable
  <1>1. InvInductivo => SinCandadoEstable
    BY DEF InvInductivo
  <1> QED BY <1>1, Invariante, PTL

LEMMA SoloMoverPuntero ==
  ASSUME InvInductivo, Next, puntero' # puntero
  PROVE  \E p \in Procesos : MoverPuntero(p) /\ puntero' = proc[p].meta /\ candado = p
                             /\ UNCHANGED <<publicadas, ficha, vivo, candado>>
  <1>1. PICK p \in Procesos : Paso(p)
    BY DEF Next
  <1>2. MoverPuntero(p)
    BY <1>1 DEF Paso, Leer, Tomar, Comprobar, Publicar, Materializar, Validar, EscribirSupabase,
       EscribirGodel, Verificar, Confirmar, Soltar, CompensarCreacion, CompensarSupabase,
       CompensarGodel, Compensado, Fallar, Interrumpir
  <1> QED BY <1>2 DEF MoverPuntero, InvInductivo, Exclusion, ConCandado, Fase

\* The pointer moves only to a generation whose secrets are in the files already
\* (replaceCurrentGenerationPointer in every command).
THEOREM PunteroSigueAlEntorno == Spec => PunteroTrasEntorno
  <1>1. ASSUME InvInductivo, [Next]_vars
        PROVE  [puntero' # puntero => vivo = ficha[puntero'].valor]_vars
    <2>1. ASSUME Next, puntero' # puntero PROVE vivo = ficha[puntero'].valor
      BY <1>1, <2>1, SoloMoverPuntero DEF MoverPuntero, InvInductivo, AntesDelPuntero
    <2> QED BY <1>1, <2>1
  <1> QED BY <1>1, Invariante, PTL DEF Spec, PunteroTrasEntorno

\* Whoever looks at the registry without taking the lock sees one whole generation, and the
\* generation in force changes only under the lock: it implements PublicacionClave.
THEOREM ImplementaPublicacion == Spec => RegistroPublica
  <1>1. ASSUME InvInductivo
        PROVE  /\ puntero \in Gen \cup {Nada}
               /\ candado = Nada => Estable
    BY <1>1 DEF InvInductivo, TypeOK, SinCandadoEstable
  <1>2. Init => P!Init
    BY DEF Init, P!Init, Estable, Coincide
  <1>3. ASSUME InvInductivo, InvInductivo', [Next]_vars
        PROVE  [P!Next]_<<puntero, IF candado = Nada THEN (IF Estable THEN puntero ELSE "mezcla")
                                   ELSE "ocupado">>
    <2>0. (candado = Nada => Estable)' /\ puntero' \in Gen \cup {Nada}
      BY <1>3 DEF InvInductivo, TypeOK, SinCandadoEstable
    <2>1. CASE UNCHANGED vars
      BY <2>1 DEF vars, Estable, Coincide
    <2>2. CASE Next /\ puntero' # puntero
      <3>1. candado # Nada /\ candado' # Nada
        BY <1>3, <2>2, SoloMoverPuntero
      <3> QED BY <2>0, <3>1 DEF P!Next, P!Cambiar
    <2>3. CASE puntero' = puntero /\ candado' = Nada
      BY <2>0, <2>3 DEF P!Next, P!Abrir
    <2>4. CASE puntero' = puntero /\ candado' # Nada
      BY <2>0, <2>4 DEF P!Next, P!Cerrar
    <2> QED BY <1>3, <2>1, <2>2, <2>3, <2>4
  <1> QED BY <1>1, <1>2, <1>3, Invariante, PTL DEF Spec, RegistroPublica, P!Spec
=============================================================================
