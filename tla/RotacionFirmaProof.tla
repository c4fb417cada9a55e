-------------------------- MODULE RotacionFirmaProof --------------------------
(***************************************************************************)
(* What RotacionFirma promises, for any number of commands and of services *)
(* that verify.  A transition is written over containers of its two stages *)
(* only, or apilado says so; from there every container is created from a  *)
(* file that holds one of the two, so any mixture of old and new           *)
(* containers, whoever stops where, is a mixture of two adjacent stages,   *)
(* and in those every signer is trusted by every verifier.                 *)
(***************************************************************************)
EXTENDS RotacionFirma, TLAPS

LEMMA CasosEtapa == \A e : e \in Etapa <=> e = 4 \/ e = 5 \/ e = 6 \/ e = 7
  BY DEF Etapa

LEMMA NadaNoEsEtapa == Nada \notin Etapa
  BY NadaAssumption DEF Etapa

LEMMA TipoValor == ASSUME NEW s, NEW e \in Etapa PROVE Valor(s, e) \in Etapa
  BY CasosEtapa DEF Valor

\* Two adjacent stages: either 5 and 6, or a change of JWT_JWKS.
LEMMA CasosAdyacentes ==
    ASSUME NEW d \in Etapa, NEW h \in Etapa, Adyacentes(d, h)
    PROVE  \/ d = 4 /\ h = 5
           \/ d = 5 /\ h = 4
           \/ d = 5 /\ h = 6
           \/ d = 6 /\ h = 5
           \/ d = 6 /\ h = 7
           \/ d = 7 /\ h = 6
  BY CasosEtapa DEF Adyacentes

LEMMA TipoMatriz ==
    ASSUME NEW d \in Etapa, NEW h \in Etapa
    PROVE  /\ Len(Matriz(d, h)) \in Nat
           /\ 1 <= Len(Matriz(d, h)) /\ Len(Matriz(d, h)) <= Len(Consumidores) + 1
           /\ Len(Consumidores) \in Nat
           /\ \A j \in 1..Len(Matriz(d, h)) : Matriz(d, h)[j] \in Servicio
<1>1. Len(Consumidores) \in Nat /\ Len(Consumidores) >= 1
  BY ConsumidoresAssumption
<1>2. CASE d + h = 11
  <2>1. Matriz(d, h) = <<"api-gw", "auth">>
    BY <1>2 DEF Matriz
  <2> QED BY <1>1, <2>1 DEF Servicio, Emisores
<1>3. CASE d + h # 11
  <2>1. Matriz(d, h) = Append(Consumidores, "auth")
    BY <1>3 DEF Matriz
  <2>2. /\ Len(Append(Consumidores, "auth")) = Len(Consumidores) + 1
        /\ \A j \in 1..Len(Consumidores) : Append(Consumidores, "auth")[j] = Consumidores[j]
        /\ Append(Consumidores, "auth")[Len(Consumidores) + 1] = "auth"
    BY ConsumidoresAssumption
  <2>3. \A j \in 1..(Len(Consumidores) + 1) : j \in 1..Len(Consumidores) \/ j = Len(Consumidores) + 1
    BY <1>1
  <2>4. \A j \in 1..(Len(Consumidores) + 1) : Append(Consumidores, "auth")[j] \in Servicio
    BY <2>2, <2>3 DEF Servicio, Emisores
  <2> QED BY <1>1, <2>1, <2>2, <2>4
<1> QED BY <1>2, <1>3

\* MATRIX names every service whose value is different in the two stages, and the
\* same ones there and back.
LEMMA MatrizCompleta ==
    ASSUME NEW d \in Etapa, NEW h \in Etapa, Adyacentes(d, h)
    PROVE  /\ Matriz(h, d) = Matriz(d, h)
           /\ Afectados(h, d) = Afectados(d, h)
           /\ \A s \in Servicio \ Afectados(d, h) : Valor(s, d) = Valor(s, h)
<1>1. Matriz(h, d) = Matriz(d, h)
  <2>1. h + d = d + h
    BY DEF Etapa
  <2> QED BY <2>1 DEF Matriz
<1>2. Afectados(h, d) = Afectados(d, h)
  BY <1>1 DEF Afectados
<1>3. CASE d + h = 11
  <2>1. Matriz(d, h) = <<"api-gw", "auth">>
    BY <1>3 DEF Matriz
  <2>2. "api-gw" \in Afectados(d, h) /\ "auth" \in Afectados(d, h)
    BY <2>1 DEF Afectados
  <2>3. d \in {5, 6} /\ h \in {5, 6}
    BY <1>3, CasosEtapa DEF Adyacentes
  <2> QED BY <1>1, <1>2, <2>2, <2>3 DEF Valor
<1>4. CASE d + h # 11
  <2>1. Matriz(d, h) = Append(Consumidores, "auth")
    BY <1>4 DEF Matriz
  <2>2. /\ Len(Append(Consumidores, "auth")) = Len(Consumidores) + 1
        /\ \A j \in 1..Len(Consumidores) : Append(Consumidores, "auth")[j] = Consumidores[j]
        /\ Append(Consumidores, "auth")[Len(Consumidores) + 1] = "auth"
        /\ Len(Consumidores) \in Nat
    BY ConsumidoresAssumption
  <2>3. "auth" \in Afectados(d, h)
    BY <2>1, <2>2 DEF Afectados
  <2>4. ASSUME NEW i \in 1..Len(Consumidores) PROVE Consumidores[i] \in Afectados(d, h)
    <3>1. i \in 1..(Len(Consumidores) + 1)
      BY <2>2
    <3> QED BY <2>1, <2>2, <3>1 DEF Afectados
  <2>5. \A s \in Servicio \ Afectados(d, h) : s = "api-gw"
    BY <2>3, <2>4 DEF Servicio, Emisores
  <2>6. Valor("api-gw", d) = Valor("api-gw", h)
    BY <1>4, CasosAdyacentes DEF Valor
  <2> QED BY <1>1, <1>2, <2>5, <2>6
<1> QED BY <1>3, <1>4

LEMMA TipoInactivo ==
    ASSUME NEW r \in {"ninguna", "completa", "recuperada", "fallo"}
    PROVE  /\ Inactivo(r) \in Mando /\ Inactivo(r).fase = "libre"
           /\ Adyacentes(Inactivo(r).desde, Inactivo(r).hacia)
           /\ Inactivo(r).k = 1 /\ ~Inactivo(r).vuelta
  <1>1. 1 \in 1..(Len(Consumidores) + 1)
    BY TipoMatriz, CasosEtapa
  <1>2. 4 \in Etapa /\ 5 \in Etapa
    BY CasosEtapa
  <1> QED BY <1>1, <1>2 DEF Inactivo, Mando, Fase, Adyacentes

LEMMA IniciaBien == Init => InvInductivo
<1> SUFFICES ASSUME Init PROVE InvInductivo
  OBVIOUS
<1>0. 4 \in Etapa /\ 5 \in Etapa /\ Adyacentes(4, 5)
  BY CasosEtapa DEF Adyacentes
<1>a. \A p \in Mandos : mando[p] = Inactivo("ninguna")
  BY DEF Init
<1>1. TypeOK
  BY <1>0, TipoValor, TipoInactivo DEF Init, TypeOK
<1>2. MandoCoherente
  <2> SUFFICES ASSUME NEW p \in Mandos
               PROVE  /\ Adyacentes(mando[p].desde, mando[p].hacia)
                      /\ mando[p].k <= Turnos(p)
                      /\ mando[p].k = 1
                      /\ ~mando[p].vuelta /\ mando[p].fase \notin Contenedores
    BY DEF MandoCoherente
  <2>1. mando[p].desde = 4 /\ mando[p].hacia = 5 /\ mando[p].k = 1
    BY <1>a DEF Inactivo
  <2> QED BY <1>0, <1>a, <2>1, TipoInactivo, TipoMatriz DEF Turnos, Contenedores
<1>3. CandadoCoherente /\ ArchivoCoherente
  BY <1>a, TipoInactivo, NadaAssumption DEF Init, CandadoCoherente, ArchivoCoherente, Dentro
<1>4. DosEtapas
  <2>1. /\ archivo \in {4, 5} /\ puntero \in {4, 5} /\ SoloDe(4, 5)
    BY DEF Init, SoloDe
  <2>2. \A p \in Mandos : mando[p].fase \notin {"escrito", "movido"}
    BY <1>a, TipoInactivo
  <2> QED BY <1>0, <2>1, <2>2 DEF DosEtapas
<1>5. Presentes /\ HechosCoherentes
  BY <1>a, TipoInactivo DEF Presentes, HechosCoherentes, Contenedores
<1> QED BY <1>1, <1>2, <1>3, <1>4, <1>5 DEF InvInductivo


LEMMA PasoEmpezar ==
    ASSUME InvInductivo, NEW p \in Mandos, Empezar(p) PROVE InvInductivo'
<1>0. TypeOK /\ mando \in [Mandos -> Mando] /\ mando[p] \in Mando
  BY DEF InvInductivo, TypeOK
<1>a. /\ mando' \in [Mandos -> Mando]
      /\ mando'[p].fase = "pedir" /\ mando'[p].k = 1 /\ ~mando'[p].vuelta
      /\ mando'[p].desde \in Etapa /\ mando'[p].hacia \in Etapa
      /\ Adyacentes(mando'[p].desde, mando'[p].hacia)
      /\ mando'[p].conv => \A s \in Servicio : corre[s] # Nada
      /\ \A q \in Mandos \ {p} : mando'[q] = mando[q]
  <2>1. PICK h \in Etapa, c \in BOOLEAN :
           /\ Adyacentes(puntero, h)
           /\ c => \A s \in Servicio : corre[s] # Nada
           /\ mando' = [mando EXCEPT ![p] = [Inactivo("ninguna") EXCEPT
                           !.fase = "pedir", !.desde = puntero, !.hacia = h, !.conv = c]]
    BY DEF Empezar
  <2> DEFINE n == [Inactivo("ninguna") EXCEPT
                     !.fase = "pedir", !.desde = puntero, !.hacia = h, !.conv = c]
  <2>2. /\ n \in Mando /\ n.fase = "pedir" /\ n.k = 1 /\ ~n.vuelta
        /\ n.desde = puntero /\ n.hacia = h /\ n.conv = c /\ puntero \in Etapa
    BY ZenonT(60), <1>0, TipoInactivo DEF TypeOK, Mando, Fase, Inactivo
  <2> HIDE DEF n
  <2>3. mando' = [mando EXCEPT ![p] = n]
    BY <2>1 DEF n
  <2> QED BY <1>0, <2>1, <2>2, <2>3
<1>1. TypeOK'
  BY <1>0, <1>a DEF TypeOK, Empezar
<1>2. MandoCoherente'
  BY <1>0, <1>a, TipoMatriz DEF InvInductivo, MandoCoherente, Turnos, Contenedores
<1>3. CandadoCoherente'
  BY <1>a, NadaAssumption DEF InvInductivo, CandadoCoherente, Dentro, Contenedores, Empezar
<1>4. ArchivoCoherente'
  BY <1>a, NadaAssumption DEF InvInductivo, CandadoCoherente, ArchivoCoherente, Dentro, Contenedores, Empezar
<1>5. DosEtapas'
  BY <1>a DEF InvInductivo, DosEtapas, SoloDe, Contenedores, Empezar
<1>6. Presentes'
  BY <1>a DEF InvInductivo, Presentes, Contenedores, Empezar
<1>7. HechosCoherentes'
  BY <1>a DEF InvInductivo, HechosCoherentes, PorHacer, Turnos, Contenedores, Empezar
<1> QED BY <1>1, <1>2, <1>3, <1>4, <1>5, <1>6, <1>7 DEF InvInductivo

LEMMA PasoTomar ==
    ASSUME InvInductivo, NEW p \in Mandos, Tomar(p) PROVE InvInductivo'
<1>0. TypeOK /\ mando \in [Mandos -> Mando] /\ mando[p] \in Mando
  BY DEF InvInductivo, TypeOK
<1>a. /\ mando' \in [Mandos -> Mando]
      /\ mando'[p].fase = "tomado"
      /\ mando'[p].desde = mando[p].desde
      /\ mando'[p].hacia = mando[p].hacia
      /\ mando'[p].conv = mando[p].conv
      /\ mando'[p].vuelta = mando[p].vuelta
      /\ mando'[p].k = mando[p].k
      /\ mando'[p].cambiados = mando[p].cambiados
      /\ mando'[p].ajeno = mando[p].ajeno
      /\ mando'[p].resp = mando[p].resp
      /\ \A q \in Mandos \ {p} : mando'[q] = mando[q]
  BY <1>0 DEF Tomar, Pasa, Mando, Fase, Dentro, Contenedores
<1>1. TypeOK'
  BY <1>0, <1>a DEF TypeOK, Tomar
<1>2. MandoCoherente'
  BY <1>0, <1>a DEF InvInductivo, MandoCoherente, Turnos, Contenedores, Dentro, Tomar
<1>3. CandadoCoherente'
  BY <1>a, NadaAssumption DEF InvInductivo, CandadoCoherente, Dentro, Contenedores, Tomar
<1>4. ArchivoCoherente'
  BY <1>a, NadaAssumption DEF InvInductivo, CandadoCoherente, ArchivoCoherente, EstadoEs, Tomar
<1>5. DosEtapas'
  BY <1>a DEF InvInductivo, DosEtapas, SoloDe, Contenedores, Tomar
<1>6. Presentes'
  BY <1>a DEF InvInductivo, Presentes, Contenedores, Tomar
<1>7. HechosCoherentes'
  BY <1>a DEF InvInductivo, HechosCoherentes, PorHacer, Turnos, Contenedores, Tomar
<1> QED BY <1>1, <1>2, <1>3, <1>4, <1>5, <1>6, <1>7 DEF InvInductivo

LEMMA PasoEscribir ==
    ASSUME InvInductivo, NEW p \in Mandos, Escribir(p) PROVE InvInductivo'
<1>0. TypeOK /\ mando \in [Mandos -> Mando] /\ mando[p] \in Mando
  BY DEF InvInductivo, TypeOK
<1>a. /\ mando' \in [Mandos -> Mando]
      /\ mando'[p].fase = "escrito"
      /\ mando'[p].desde = mando[p].desde
      /\ mando'[p].hacia = mando[p].hacia
      /\ mando'[p].conv = mando[p].conv
      /\ mando'[p].vuelta = mando[p].vuelta
      /\ mando'[p].k = mando[p].k
      /\ mando'[p].cambiados = mando[p].cambiados
      /\ mando'[p].ajeno = mando[p].ajeno
      /\ mando'[p].resp = mando[p].resp
      /\ \A q \in Mandos \ {p} : mando'[q] = mando[q]
  BY <1>0 DEF Escribir, Pasa, Mando, Fase, Dentro, Contenedores
<1>1. TypeOK'
  <2>1. apilado' \in BOOLEAN /\ archivo' \in Etapa
    BY <1>0 DEF Escribir, TypeOK, SoloDe, Mando
  <2> QED BY <1>0, <1>a, <2>1 DEF TypeOK, Escribir
<1>2. MandoCoherente'
  BY <1>0, <1>a DEF InvInductivo, MandoCoherente, Turnos, Contenedores, Dentro, Escribir
<1>3. CandadoCoherente'
  BY <1>a, NadaAssumption DEF InvInductivo, CandadoCoherente, Dentro, Contenedores, Escribir
<1>4. ArchivoCoherente'
  BY <1>a, NadaAssumption DEF InvInductivo, CandadoCoherente, ArchivoCoherente, Dentro, Contenedores, Escribir
<1>5. DosEtapas'
  <2> SUFFICES ASSUME ~apilado' PROVE DosEtapas'
    BY DEF DosEtapas
  <2>1. SoloDe(mando[p].desde, mando[p].hacia) /\ corre' = corre
    BY DEF Escribir
  <2>2. /\ Adyacentes(mando[p].desde, mando[p].hacia) /\ puntero = mando[p].desde
        /\ mando[p].desde \in Etapa /\ mando[p].hacia \in Etapa
    BY <1>0 DEF InvInductivo, MandoCoherente, ArchivoCoherente, Escribir, Mando
  <2>3. \A q \in Mandos : mando'[q].fase \in {"escrito", "movido"} => q = p
    BY <1>a, NadaAssumption DEF InvInductivo, CandadoCoherente, Dentro, Escribir
  <2>4. /\ archivo' \in {mando[p].desde, mando[p].hacia}
        /\ puntero' \in {mando[p].desde, mando[p].hacia}
    BY <2>2 DEF Escribir
  <2>5. \A q \in Mandos : mando'[q].fase \in {"escrito", "movido"} =>
            {mando'[q].desde, mando'[q].hacia} = {mando[p].desde, mando[p].hacia}
    BY <1>a, <2>3
  <2> DEFINE d == mando[p].desde h == mando[p].hacia
  <2>7. \A s \in Servicio : corre'[s] # Nada => corre'[s] \in {Valor(s, d), Valor(s, h)}
    BY <2>1 DEF SoloDe
  <2> HIDE DEF d, h
  <2>8. /\ d \in Etapa /\ h \in Etapa /\ Adyacentes(d, h)
        /\ archivo' \in {d, h} /\ puntero' \in {d, h}
        /\ \A q \in Mandos : mando'[q].fase \in {"escrito", "movido"} =>
              {mando'[q].desde, mando'[q].hacia} = {d, h}
    BY <2>2, <2>4, <2>5 DEF d, h
  <2> QED BY <2>7, <2>8 DEF DosEtapas, SoloDe
<1>6. Presentes'
  BY <1>a DEF InvInductivo, Presentes, Contenedores, Escribir
<1>7. HechosCoherentes'
  <2> SUFFICES ASSUME ~apilado', NEW q \in Mandos,
                      mando'[q].fase \in {"escrito", "movido"} \cup Contenedores,
                      mando'[q].conv, ~mando'[q].ajeno,
                      NEW s \in Servicio \ PorHacer(q)'
               PROVE  corre'[s] = Valor(s, mando'[q].hacia)
    BY DEF HechosCoherentes
  <2>0. /\ ~apilado /\ SoloDe(mando[p].desde, mando[p].hacia) /\ corre' = corre
    BY DEF Escribir
  <2>1. CASE q # p
    BY <1>a, <2>0, <2>1 DEF InvInductivo, HechosCoherentes, PorHacer, Turnos
  <2>2. CASE q = p
    <3>1. /\ Adyacentes(mando[p].desde, mando[p].hacia) /\ mando[p].k = 1
          /\ mando[p].desde \in Etapa /\ mando[p].hacia \in Etapa
          /\ mando[p].conv /\ ~mando[p].ajeno /\ mando[p].fase = "tomado"
      BY <1>0, <1>a, <2>2 DEF InvInductivo, MandoCoherente, Escribir, Mando
    <3>2. PorHacer(p)' = Afectados(mando[p].desde, mando[p].hacia)
      BY <1>a, <3>1 DEF PorHacer, Turnos, Afectados
    <3>3. corre[s] # Nada
      BY <2>2, <3>1, <3>2 DEF InvInductivo, Presentes
    <3>4. Valor(s, mando[p].desde) = Valor(s, mando[p].hacia)
      BY <2>2, <3>1, <3>2, MatrizCompleta
    <3> QED BY <1>a, <2>0, <2>2, <3>3, <3>4 DEF SoloDe
  <2> QED BY <2>1, <2>2
<1> QED BY <1>1, <1>2, <1>3, <1>4, <1>5, <1>6, <1>7 DEF InvInductivo

LEMMA PasoMover ==
    ASSUME InvInductivo, NEW p \in Mandos, Mover(p) PROVE InvInductivo'
<1>0. TypeOK /\ mando \in [Mandos -> Mando] /\ mando[p] \in Mando
  BY DEF InvInductivo, TypeOK
<1>a. /\ mando' \in [Mandos -> Mando]
      /\ mando'[p].fase = "movido"
      /\ mando'[p].desde = mando[p].desde
      /\ mando'[p].hacia = mando[p].hacia
      /\ mando'[p].conv = mando[p].conv
      /\ mando'[p].vuelta = mando[p].vuelta
      /\ mando'[p].k = mando[p].k
      /\ mando'[p].cambiados = mando[p].cambiados
      /\ mando'[p].ajeno = mando[p].ajeno
      /\ mando'[p].resp = mando[p].resp
      /\ \A q \in Mandos \ {p} : mando'[q] = mando[q]
  BY <1>0 DEF Mover, Pasa, Mando, Fase, Dentro, Contenedores
<1>1. TypeOK'
  BY <1>0, <1>a DEF TypeOK, Mover, Mando
<1>2. MandoCoherente'
  BY <1>0, <1>a DEF InvInductivo, MandoCoherente, Turnos, Contenedores, Dentro, Mover
<1>3. CandadoCoherente'
  BY <1>a, NadaAssumption DEF InvInductivo, CandadoCoherente, Dentro, Contenedores, Mover
<1>4. ArchivoCoherente'
  BY <1>a, NadaAssumption DEF InvInductivo, CandadoCoherente, ArchivoCoherente, Dentro, Contenedores, Mover
<1>5. DosEtapas'
  <2> SUFFICES ASSUME ~apilado PROVE DosEtapas'
    BY DEF DosEtapas, Mover
  <2>1. PICK a \in Etapa, b \in Etapa :
           /\ Adyacentes(a, b) /\ archivo \in {a, b} /\ puntero \in {a, b}
           /\ SoloDe(a, b)
           /\ \A q \in Mandos : mando[q].fase \in {"escrito", "movido"} =>
                                  {mando[q].desde, mando[q].hacia} = {a, b}
    BY DEF InvInductivo, DosEtapas
  <2>2. SoloDe(a, b)'
    BY <2>1 DEF SoloDe, Mover
  <2>3. archivo' \in {a, b} /\ puntero' \in {a, b}
    BY <2>1 DEF Mover
  <2>4. \A q \in Mandos : mando'[q].fase \in {"escrito", "movido"} =>
            {mando'[q].desde, mando'[q].hacia} = {a, b}
    BY <1>a, <2>1 DEF Mover, Contenedores
  <2> QED BY <2>1, <2>2, <2>3, <2>4 DEF DosEtapas, SoloDe
<1>6. Presentes'
  BY <1>a DEF InvInductivo, Presentes, Contenedores, Mover
<1>7. HechosCoherentes'
  BY <1>a DEF InvInductivo, HechosCoherentes, PorHacer, Turnos, Contenedores, Mover
<1> QED BY <1>1, <1>2, <1>3, <1>4, <1>5, <1>6, <1>7 DEF InvInductivo

LEMMA PasoSoltar ==
    ASSUME InvInductivo, NEW p \in Mandos, Soltar(p) PROVE InvInductivo'
<1>0. TypeOK /\ mando \in [Mandos -> Mando] /\ mando[p] \in Mando
  BY DEF InvInductivo, TypeOK
<1>a. /\ mando' \in [Mandos -> Mando]
      /\ \/ /\ mando'[p] = [mando[p] EXCEPT !.fase = "estado"]
            /\ mando'[p].fase = "estado" /\ mando[p].conv
            /\ mando'[p].desde = mando[p].desde /\ mando'[p].hacia = mando[p].hacia
            /\ mando'[p].conv = mando[p].conv /\ mando'[p].vuelta = mando[p].vuelta
            /\ mando'[p].k = mando[p].k /\ mando'[p].ajeno = mando[p].ajeno
         \/ mando'[p].fase = "libre" /\ mando'[p].k = 1 /\ ~mando'[p].vuelta
            /\ mando'[p].desde \in Etapa /\ mando'[p].hacia \in Etapa
            /\ Adyacentes(mando'[p].desde, mando'[p].hacia)
      /\ \A q \in Mandos \ {p} : mando'[q] = mando[q]
  <2>1. CASE mando[p].conv
    <3>1. mando' = [mando EXCEPT ![p].fase = "estado"]
      BY <2>1 DEF Soltar, Pasa
    <3> QED BY <1>0, <2>1, <3>1 DEF Mando, Fase, Contenedores
  <2>2. CASE ~mando[p].conv
    <3>1. mando' = [mando EXCEPT ![p] = Inactivo("completa")]
      BY <2>2 DEF Soltar, Acaba
    <3> QED BY <1>0, <3>1, TipoInactivo DEF Mando
  <2> QED BY <2>1, <2>2
<1>1. TypeOK'
  BY <1>0, <1>a DEF TypeOK, Soltar
<1>2. MandoCoherente'
  BY <1>0, <1>a, TipoMatriz DEF InvInductivo, MandoCoherente, Turnos, Contenedores, Soltar
<1>3. CandadoCoherente'
  BY <1>a, NadaAssumption DEF InvInductivo, CandadoCoherente, Dentro, Contenedores, Soltar
<1>4. ArchivoCoherente'
  BY <1>a, NadaAssumption DEF InvInductivo, CandadoCoherente, ArchivoCoherente, Dentro, Contenedores, Soltar
<1>5. DosEtapas'
  BY SMTT(30), <1>a DEF InvInductivo, DosEtapas, SoloDe, Contenedores, Soltar
<1>6. Presentes'
  BY <1>a DEF InvInductivo, Presentes, Contenedores, Soltar
<1>7. HechosCoherentes'
  BY <1>a DEF InvInductivo, HechosCoherentes, PorHacer, Turnos, Contenedores, Soltar
<1> QED BY <1>1, <1>2, <1>3, <1>4, <1>5, <1>6, <1>7 DEF InvInductivo

LEMMA PasoAbandonar ==
    ASSUME InvInductivo, NEW p \in Mandos, Abandonar(p) PROVE InvInductivo'
<1>0. TypeOK /\ mando \in [Mandos -> Mando] /\ mando[p] \in Mando
  BY DEF InvInductivo, TypeOK
<1>a. /\ mando' \in [Mandos -> Mando]
      /\ mando'[p].fase = "libre" /\ mando'[p].k = 1 /\ ~mando'[p].vuelta
      /\ Adyacentes(mando'[p].desde, mando'[p].hacia)
      /\ mando'[p].desde \in Etapa /\ mando'[p].hacia \in Etapa
      /\ \A q \in Mandos \ {p} : mando'[q] = mando[q]
  BY <1>0, TipoInactivo DEF Abandonar, Acaba, Mando
<1>1. TypeOK'
  BY <1>0, <1>a DEF TypeOK, Abandonar
<1>2. MandoCoherente'
  BY <1>0, <1>a, TipoMatriz DEF InvInductivo, MandoCoherente, Turnos, Contenedores
<1>3. CandadoCoherente'
  BY <1>a, NadaAssumption DEF InvInductivo, CandadoCoherente, Dentro, Contenedores, Abandonar
<1>4. ArchivoCoherente'
  BY <1>a, NadaAssumption DEF InvInductivo, CandadoCoherente, ArchivoCoherente, Dentro, Contenedores, Abandonar
<1>5. DosEtapas'
  BY <1>a DEF InvInductivo, DosEtapas, SoloDe, Contenedores, Abandonar
<1>6. Presentes'
  BY <1>a DEF InvInductivo, Presentes, Contenedores, Abandonar
<1>7. HechosCoherentes'
  BY <1>a DEF InvInductivo, HechosCoherentes, PorHacer, Turnos, Contenedores, Abandonar
<1> QED BY <1>1, <1>2, <1>3, <1>4, <1>5, <1>6, <1>7 DEF InvInductivo

LEMMA PasoCompensar ==
    ASSUME InvInductivo, NEW p \in Mandos, Compensar(p) PROVE InvInductivo'
<1>0. TypeOK /\ mando \in [Mandos -> Mando] /\ mando[p] \in Mando
  BY DEF InvInductivo, TypeOK
<1>a. /\ mando' \in [Mandos -> Mando]
      /\ mando'[p].fase = "libre" /\ mando'[p].k = 1 /\ ~mando'[p].vuelta
      /\ Adyacentes(mando'[p].desde, mando'[p].hacia)
      /\ mando'[p].desde \in Etapa /\ mando'[p].hacia \in Etapa
      /\ \A q \in Mandos \ {p} : mando'[q] = mando[q]
  BY <1>0, TipoInactivo DEF Compensar, Acaba, Mando
<1>1. TypeOK'
  BY <1>0, <1>a DEF TypeOK, Compensar, Mando
<1>2. MandoCoherente'
  BY <1>0, <1>a, TipoMatriz DEF InvInductivo, MandoCoherente, Turnos, Contenedores
<1>3. CandadoCoherente'
  BY <1>a, NadaAssumption DEF InvInductivo, CandadoCoherente, Dentro, Contenedores, Compensar
<1>4. ArchivoCoherente'
  BY <1>a, NadaAssumption DEF InvInductivo, CandadoCoherente, ArchivoCoherente, Dentro, Contenedores, Compensar
<1>5. DosEtapas'
  <2> SUFFICES ASSUME ~apilado PROVE DosEtapas'
    BY DEF DosEtapas, Compensar
  <2>1. PICK a \in Etapa, b \in Etapa :
           /\ Adyacentes(a, b) /\ archivo \in {a, b} /\ puntero \in {a, b}
           /\ SoloDe(a, b)
           /\ \A q \in Mandos : mando[q].fase \in {"escrito", "movido"} =>
                                  {mando[q].desde, mando[q].hacia} = {a, b}
    BY DEF InvInductivo, DosEtapas
  <2>2. SoloDe(a, b)'
    BY <2>1 DEF SoloDe, Compensar
  <2>3. archivo' \in {a, b} /\ puntero' \in {a, b}
    <3>1. CASE mando[p].fase = "tomado"
      BY <2>1, <3>1 DEF Compensar, InvInductivo, ArchivoCoherente
    <3>2. CASE mando[p].fase = "escrito"
      BY <2>1, <3>2 DEF Compensar
    <3> QED BY <3>1, <3>2 DEF Compensar
  <2>4. \A q \in Mandos : mando'[q].fase \in {"escrito", "movido"} =>
            {mando'[q].desde, mando'[q].hacia} = {a, b}
    BY <1>a, <2>1 DEF Compensar, Contenedores
  <2> QED BY <2>1, <2>2, <2>3, <2>4 DEF DosEtapas, SoloDe
<1>6. Presentes'
  BY <1>a DEF InvInductivo, Presentes, Contenedores, Compensar
<1>7. HechosCoherentes'
  BY <1>a DEF InvInductivo, HechosCoherentes, PorHacer, Turnos, Contenedores, Compensar
<1> QED BY <1>1, <1>2, <1>3, <1>4, <1>5, <1>6, <1>7 DEF InvInductivo

LEMMA PasoAtascar ==
    ASSUME InvInductivo, NEW p \in Mandos, Atascar(p) PROVE InvInductivo'
<1>0. TypeOK /\ mando \in [Mandos -> Mando] /\ mando[p] \in Mando
  BY DEF InvInductivo, TypeOK
<1>a. /\ mando' \in [Mandos -> Mando]
      /\ mando'[p].fase = "libre" /\ mando'[p].k = 1 /\ ~mando'[p].vuelta
      /\ Adyacentes(mando'[p].desde, mando'[p].hacia)
      /\ mando'[p].desde \in Etapa /\ mando'[p].hacia \in Etapa
      /\ \A q \in Mandos \ {p} : mando'[q] = mando[q]
  BY <1>0, TipoInactivo DEF Atascar, Acaba, Mando
<1>1. TypeOK'
  BY <1>0, <1>a DEF TypeOK, Atascar, Mando
<1>2. MandoCoherente'
  BY <1>0, <1>a, TipoMatriz DEF InvInductivo, MandoCoherente, Turnos, Contenedores
<1>3. CandadoCoherente'
  BY <1>a, NadaAssumption DEF InvInductivo, CandadoCoherente, Dentro, Contenedores, Atascar
<1>4. ArchivoCoherente'
  BY <1>a, NadaAssumption DEF InvInductivo, CandadoCoherente, ArchivoCoherente, Dentro, Contenedores, Atascar
<1>5. DosEtapas'
  <2> SUFFICES ASSUME ~apilado PROVE DosEtapas'
    BY DEF DosEtapas, Atascar
  <2>1. PICK a \in Etapa, b \in Etapa :
           /\ Adyacentes(a, b) /\ archivo \in {a, b} /\ puntero \in {a, b}
           /\ SoloDe(a, b)
           /\ \A q \in Mandos : mando[q].fase \in {"escrito", "movido"} =>
                                  {mando[q].desde, mando[q].hacia} = {a, b}
    BY DEF InvInductivo, DosEtapas
  <2>2. SoloDe(a, b)'
    BY <2>1 DEF SoloDe, Atascar
  <2>3. archivo' \in {a, b} /\ puntero' \in {a, b}
    <3>1. CASE mando[p].fase = "tomado"
      BY <2>1, <3>1 DEF Atascar, InvInductivo, ArchivoCoherente
    <3>2. CASE mando[p].fase = "escrito"
      BY <2>1, <3>2 DEF Atascar
    <3>3. CASE mando[p].fase = "movido"
      BY <2>1, <3>3 DEF Atascar
    <3> QED BY <3>1, <3>2, <3>3 DEF Atascar, Dentro
  <2>4. \A q \in Mandos : mando'[q].fase \in {"escrito", "movido"} =>
            {mando'[q].desde, mando'[q].hacia} = {a, b}
    BY <1>a, <2>1 DEF Atascar, Contenedores
  <2> QED BY <2>1, <2>2, <2>3, <2>4 DEF DosEtapas, SoloDe
<1>6. Presentes'
  BY <1>a DEF InvInductivo, Presentes, Contenedores, Atascar
<1>7. HechosCoherentes'
  BY <1>a DEF InvInductivo, HechosCoherentes, PorHacer, Turnos, Contenedores, Atascar
<1> QED BY <1>1, <1>2, <1>3, <1>4, <1>5, <1>6, <1>7 DEF InvInductivo

LEMMA PasoVerEstado ==
    ASSUME InvInductivo, NEW p \in Mandos, VerEstado(p) PROVE InvInductivo'
<1>0. TypeOK /\ mando \in [Mandos -> Mando] /\ mando[p] \in Mando
  BY DEF InvInductivo, TypeOK
<1>a. /\ mando' \in [Mandos -> Mando]
      /\ mando'[p].fase = "recrear"
      /\ mando'[p].desde = mando[p].desde
      /\ mando'[p].hacia = mando[p].hacia
      /\ mando'[p].conv = mando[p].conv
      /\ mando'[p].vuelta = mando[p].vuelta
      /\ mando'[p].k = mando[p].k
      /\ mando'[p].cambiados = mando[p].cambiados
      /\ mando'[p].ajeno = mando[p].ajeno
      /\ mando'[p].resp = mando[p].resp
      /\ \A q \in Mandos \ {p} : mando'[q] = mando[q]
  BY <1>0 DEF VerEstado, Pasa, Mando, Fase, Dentro, Contenedores
<1>1. TypeOK'
  BY <1>0, <1>a DEF TypeOK, VerEstado
<1>2. MandoCoherente'
  BY <1>0, <1>a DEF InvInductivo, MandoCoherente, Turnos, Contenedores, Dentro, VerEstado
<1>3. CandadoCoherente'
  BY <1>a, NadaAssumption DEF InvInductivo, CandadoCoherente, Dentro, Contenedores, VerEstado
<1>4. ArchivoCoherente'
  BY <1>a, NadaAssumption DEF InvInductivo, CandadoCoherente, ArchivoCoherente, Dentro, Contenedores, VerEstado
<1>5. DosEtapas'
  BY <1>a DEF InvInductivo, DosEtapas, SoloDe, Contenedores, VerEstado
<1>6. Presentes'
  BY <1>a DEF InvInductivo, Presentes, Contenedores, VerEstado
<1>7. HechosCoherentes'
  BY <1>a DEF InvInductivo, HechosCoherentes, PorHacer, Turnos, Contenedores, VerEstado
<1> QED BY <1>1, <1>2, <1>3, <1>4, <1>5, <1>6, <1>7 DEF InvInductivo

LEMMA PasoComprobar ==
    ASSUME InvInductivo, NEW p \in Mandos, Comprobar(p) PROVE InvInductivo'
<1>0. TypeOK /\ mando \in [Mandos -> Mando] /\ mando[p] \in Mando
  BY DEF InvInductivo, TypeOK
<1>t. /\ mando[p].desde \in Etapa /\ mando[p].hacia \in Etapa
      /\ mando[p].k \in 1..Turnos(p) /\ Turnos(p) \in Nat
      /\ Turnos(p) <= Len(Consumidores) + 1 /\ Len(Consumidores) \in Nat
  BY <1>0, TipoMatriz DEF InvInductivo, MandoCoherente, Mando, Turnos
<1>a. /\ mando' \in [Mandos -> Mando]
      /\ \/ mando[p].k = Turnos(p) /\ mando'[p].fase = "cerrar" /\ mando'[p].k = mando[p].k
         \/ mando[p].k # Turnos(p) /\ mando'[p].fase = "recrear" /\ mando'[p].k = mando[p].k + 1
      /\ mando'[p].desde = mando[p].desde
      /\ mando'[p].hacia = mando[p].hacia
      /\ mando'[p].conv = mando[p].conv
      /\ mando'[p].vuelta = mando[p].vuelta
      /\ mando'[p].cambiados = mando[p].cambiados
      /\ mando'[p].ajeno = mando[p].ajeno
      /\ mando'[p].resp = mando[p].resp
      /\ \A q \in Mandos \ {p} : mando'[q] = mando[q]
  <2>1. CASE mando[p].k = Turnos(p)
    <3>1. mando' = [mando EXCEPT ![p] = [mando[p] EXCEPT !.fase = "cerrar"]]
      BY <1>0, <2>1 DEF Comprobar
    <3> QED BY <1>0, <2>1, <3>1 DEF Mando, Fase, Contenedores
  <2>2. CASE mando[p].k # Turnos(p)
    <3>1. mando' = [mando EXCEPT ![p] = [mando[p] EXCEPT !.fase = "recrear", !.k = mando[p].k + 1]]
      BY <1>0, <2>2 DEF Comprobar
    <3>2. mando[p].k + 1 \in 1..(Len(Consumidores) + 1)
      BY <1>t, <2>2
    <3> QED BY <1>0, <2>2, <3>1, <3>2 DEF Mando, Fase, Contenedores
  <2> QED BY <2>1, <2>2
<1>1. TypeOK'
  BY <1>0, <1>a DEF TypeOK, Comprobar
<1>2. MandoCoherente'
  BY <1>0, <1>t, <1>a DEF InvInductivo, MandoCoherente, Turnos, Contenedores, Dentro, Comprobar
<1>3. CandadoCoherente'
  BY <1>a, NadaAssumption DEF InvInductivo, CandadoCoherente, Dentro, Contenedores, Comprobar
<1>4. ArchivoCoherente'
  BY <1>a, NadaAssumption DEF InvInductivo, CandadoCoherente, ArchivoCoherente, Dentro, Contenedores, Comprobar
<1>5. DosEtapas'
  BY <1>a DEF InvInductivo, DosEtapas, SoloDe, Contenedores, Comprobar
<1>6. Presentes'
  BY <1>a DEF InvInductivo, Presentes, Contenedores, Comprobar
<1>7. HechosCoherentes'
  <2> SUFFICES ASSUME ~apilado', NEW q \in Mandos,
                      mando'[q].fase \in {"escrito", "movido"} \cup Contenedores,
                      mando'[q].conv, ~mando'[q].ajeno,
                      NEW s \in Servicio \ PorHacer(q)'
               PROVE  corre'[s] = Valor(s, mando'[q].hacia)
    BY DEF HechosCoherentes
  <2>0. ~apilado /\ corre' = corre
    BY DEF Comprobar
  <2>1. CASE q # p
    BY <1>a, <2>0, <2>1 DEF InvInductivo, HechosCoherentes, PorHacer, Turnos
  <2>2. CASE q = p
    <3> DEFINE M == Matriz(mando[p].desde, mando[p].hacia)
    <3>1. \A z \in Servicio \ PorHacer(p) : corre[z] = Valor(z, mando[p].hacia)
      BY <1>a, <2>0, <2>2 DEF InvInductivo, HechosCoherentes, Contenedores, Comprobar
    <3>2. PorHacer(p) = {M[j] : j \in mando[p].k..Turnos(p)}
      BY DEF PorHacer, Comprobar
    <3>3. corre[M[mando[p].k]] = Valor(M[mando[p].k], mando[p].hacia)
      BY DEF Comprobar, Turno
    <3>4. CASE mando[p].k = Turnos(p)
      <4>1. PorHacer(p) = {M[mando[p].k]}
        BY <1>t, <3>2, <3>4
      <4> QED BY <1>a, <2>0, <2>2, <3>1, <3>3, <4>1
    <3>5. CASE mando[p].k # Turnos(p)
      <4>1. PorHacer(p)' = {M[j] : j \in (mando[p].k + 1)..Turnos(p)}
        BY <1>a, <3>5 DEF PorHacer, Turnos
      <4>2. \A j \in mando[p].k..Turnos(p) : j = mando[p].k \/ j \in (mando[p].k + 1)..Turnos(p)
        BY <1>t
      <4>3. s \notin PorHacer(p) \/ s = M[mando[p].k]
        BY <2>2, <3>2, <4>1, <4>2
      <4> QED BY <1>a, <2>0, <2>2, <3>1, <3>3, <4>3
    <3> QED BY <3>4, <3>5
  <2> QED BY <2>1, <2>2
<1> QED BY <1>1, <1>2, <1>3, <1>4, <1>5, <1>6, <1>7 DEF InvInductivo

LEMMA PasoCerrar ==
    ASSUME InvInductivo, NEW p \in Mandos, Cerrar(p) PROVE InvInductivo'
<1>0. TypeOK /\ mando \in [Mandos -> Mando] /\ mando[p] \in Mando
  BY DEF InvInductivo, TypeOK
<1>a. /\ mando' \in [Mandos -> Mando]
      /\ mando'[p].fase = "libre" /\ mando'[p].k = 1 /\ ~mando'[p].vuelta
      /\ Adyacentes(mando'[p].desde, mando'[p].hacia)
      /\ mando'[p].desde \in Etapa /\ mando'[p].hacia \in Etapa
      /\ \A q \in Mandos \ {p} : mando'[q] = mando[q]
  BY <1>0, TipoInactivo DEF Cerrar, Acaba, Mando
<1>1. TypeOK'
  BY <1>0, <1>a DEF TypeOK, Cerrar
<1>2. MandoCoherente'
  BY <1>0, <1>a, TipoMatriz DEF InvInductivo, MandoCoherente, Turnos, Contenedores
<1>3. CandadoCoherente'
  BY <1>a, NadaAssumption DEF InvInductivo, CandadoCoherente, Dentro, Contenedores, Cerrar
<1>4. ArchivoCoherente'
  BY <1>a, NadaAssumption DEF InvInductivo, CandadoCoherente, ArchivoCoherente, Dentro, Contenedores, Cerrar
<1>5. DosEtapas'
  BY SMTT(30), <1>a DEF InvInductivo, DosEtapas, SoloDe, Contenedores, Cerrar
<1>6. Presentes'
  BY <1>a DEF InvInductivo, Presentes, Contenedores, Cerrar
<1>7. HechosCoherentes'
  BY <1>a DEF InvInductivo, HechosCoherentes, PorHacer, Turnos, Contenedores, Cerrar
<1> QED BY <1>1, <1>2, <1>3, <1>4, <1>5, <1>6, <1>7 DEF InvInductivo

\* A command after an error with its containers ends or starts to go back.
LEMMA TipoRetroceso ==
    ASSUME NEW m \in Mando, Adyacentes(m.desde, m.hacia)
    PROVE  /\ Retrocede(m) \in Mando /\ Retrocede(m).k = 1
           /\ Adyacentes(Retrocede(m).desde, Retrocede(m).hacia)
           /\ \/ Retrocede(m).fase = "libre" /\ ~Retrocede(m).vuelta
              \/ /\ Retrocede(m).fase = "pedir" /\ Retrocede(m).conv = m.conv
                 /\ Retrocede(m).ajeno = m.ajeno
                 /\ Retrocede(m).desde = m.hacia /\ Retrocede(m).hacia = m.desde
<1>1. 1 \in 1..(Len(Consumidores) + 1)
  BY TipoMatriz, CasosEtapa
<1>2. Adyacentes(m.hacia, m.desde)
  BY DEF Adyacentes, Mando, Etapa
<1>3. CASE m.vuelta
  BY <1>3, TipoInactivo DEF Retrocede
<1>4. CASE ~m.vuelta
  BY <1>1, <1>2, <1>4 DEF Retrocede, Mando, Fase
<1> QED BY <1>3, <1>4

LEMMA PasoFallar ==
    ASSUME InvInductivo, NEW p \in Mandos, Fallar(p) PROVE InvInductivo'
<1>0. TypeOK /\ mando \in [Mandos -> Mando] /\ mando[p] \in Mando
  BY DEF InvInductivo, TypeOK
<1>b. mando[p] \in Mando /\ Adyacentes(mando[p].desde, mando[p].hacia) /\ mando[p].conv
  BY <1>0 DEF InvInductivo, MandoCoherente, Contenedores, Fallar
<1>a. /\ mando' \in [Mandos -> Mando]
      /\ \/ mando'[p].fase = "libre" /\ ~mando'[p].vuelta
         \/ mando'[p].fase = "pedir" /\ mando'[p].conv = mando[p].conv
            /\ mando'[p].ajeno = mando[p].ajeno /\ mando'[p].desde = mando[p].hacia
            /\ mando'[p].hacia = mando[p].desde
      /\ mando'[p].k = 1 /\ mando'[p].desde \in Etapa /\ mando'[p].hacia \in Etapa
      /\ Adyacentes(mando'[p].desde, mando'[p].hacia)
      /\ \A q \in Mandos \ {p} : mando'[q] = mando[q]
  BY <1>0, <1>b, TipoRetroceso DEF Fallar, Mando
<1>1. TypeOK'
  BY <1>0, <1>a DEF TypeOK, Fallar
<1>2. MandoCoherente'
  BY <1>0, <1>a, <1>b, TipoMatriz DEF InvInductivo, MandoCoherente, Turnos, Contenedores
<1>3. CandadoCoherente'
  BY <1>a, NadaAssumption DEF InvInductivo, CandadoCoherente, Dentro, Contenedores, Fallar
<1>4. ArchivoCoherente'
  BY <1>a, NadaAssumption DEF InvInductivo, CandadoCoherente, ArchivoCoherente, Dentro, Contenedores, Fallar
<1>5. DosEtapas'
  <2> SUFFICES ASSUME ~apilado PROVE DosEtapas'
    BY DEF DosEtapas, Fallar
  <2>1. PICK a \in Etapa, b \in Etapa :
           /\ Adyacentes(a, b) /\ archivo \in {a, b} /\ puntero \in {a, b}
           /\ SoloDe(a, b)
           /\ \A q \in Mandos : mando[q].fase \in {"escrito", "movido"} =>
                                  {mando[q].desde, mando[q].hacia} = {a, b}
    BY DEF InvInductivo, DosEtapas
  <2>2. SoloDe(a, b)'
    BY <2>1 DEF SoloDe, Fallar
  <2>3. archivo' \in {a, b} /\ puntero' \in {a, b}
    BY <2>1 DEF Fallar
  <2>4. \A q \in Mandos : mando'[q].fase \in {"escrito", "movido"} =>
            {mando'[q].desde, mando'[q].hacia} = {a, b}
    BY <1>a, <2>1 DEF Fallar, Contenedores
  <2> QED BY <2>1, <2>2, <2>3, <2>4 DEF DosEtapas, SoloDe
<1>6. Presentes'
  <2> SUFFICES ASSUME NEW q \in Mandos, mando'[q].fase # "libre", mando'[q].conv,
                      ~mando'[q].ajeno,
                      NEW s \in Servicio \ Afectados(mando'[q].desde, mando'[q].hacia)
               PROVE  corre'[s] # Nada
    BY DEF Presentes
  <2>1. CASE q # p
    BY <1>a, <2>1 DEF InvInductivo, Presentes, Fallar
  <2>2. CASE q = p
    <3>1. Afectados(mando'[p].desde, mando'[p].hacia) = Afectados(mando[p].desde, mando[p].hacia)
      <4>1. Afectados(mando[p].hacia, mando[p].desde) = Afectados(mando[p].desde, mando[p].hacia)
        BY <1>b, MatrizCompleta DEF Mando
      <4>2. \/ mando'[p].desde = mando[p].desde /\ mando'[p].hacia = mando[p].hacia
            \/ mando'[p].desde = mando[p].hacia /\ mando'[p].hacia = mando[p].desde
        BY <1>a, <2>2
      <4> QED BY <4>1, <4>2
    <3> QED BY <1>a, <1>b, <2>2, <3>1 DEF InvInductivo, Presentes, Contenedores, Fallar
  <2> QED BY <2>1, <2>2
<1>7. HechosCoherentes'
  BY <1>a DEF InvInductivo, HechosCoherentes, PorHacer, Turnos, Contenedores, Fallar
<1> QED BY <1>1, <1>2, <1>3, <1>4, <1>5, <1>6, <1>7 DEF InvInductivo

LEMMA PasoMorir ==
    ASSUME InvInductivo, NEW p \in Mandos, Morir(p) PROVE InvInductivo'
<1>0. TypeOK /\ mando \in [Mandos -> Mando] /\ mando[p] \in Mando
  BY DEF InvInductivo, TypeOK
<1>a. /\ mando' \in [Mandos -> Mando]
      /\ mando'[p].fase = "libre" /\ mando'[p].k = 1 /\ ~mando'[p].vuelta
      /\ Adyacentes(mando'[p].desde, mando'[p].hacia)
      /\ mando'[p].desde \in Etapa /\ mando'[p].hacia \in Etapa
      /\ \A q \in Mandos \ {p} : mando'[q] = mando[q]
  BY <1>0, TipoInactivo DEF Morir, Acaba, Mando
<1>1. TypeOK'
  BY <1>0, <1>a DEF TypeOK, Morir
<1>2. MandoCoherente'
  BY <1>0, <1>a, TipoMatriz DEF InvInductivo, MandoCoherente, Turnos, Contenedores
<1>3. CandadoCoherente'
  BY <1>a, NadaAssumption DEF InvInductivo, CandadoCoherente, Dentro, Contenedores, Morir
<1>4. ArchivoCoherente'
  BY <1>a, NadaAssumption DEF InvInductivo, CandadoCoherente, ArchivoCoherente, Dentro, Contenedores, Morir
<1>5. DosEtapas'
  BY <1>a DEF InvInductivo, DosEtapas, SoloDe, Contenedores, Morir
<1>6. Presentes'
  BY <1>a DEF InvInductivo, Presentes, Contenedores, Morir
<1>7. HechosCoherentes'
  BY <1>a DEF InvInductivo, HechosCoherentes, PorHacer, Turnos, Contenedores, Morir
<1> QED BY <1>1, <1>2, <1>3, <1>4, <1>5, <1>6, <1>7 DEF InvInductivo

LEMMA PasoRecrear ==
    ASSUME InvInductivo, NEW p \in Mandos, Recrear(p) PROVE InvInductivo'
<1>0. TypeOK /\ mando \in [Mandos -> Mando]
  BY DEF InvInductivo, TypeOK
<1>b. /\ mando[p] \in Mando /\ mando[p].conv /\ mando[p].fase = "recrear"
      /\ Adyacentes(mando[p].desde, mando[p].hacia)
      /\ mando[p].desde \in Etapa /\ mando[p].hacia \in Etapa
      /\ mando[p].k \in 1..Turnos(p)
  BY <1>0, TipoMatriz DEF InvInductivo, MandoCoherente, Contenedores, Mando, Turnos, Recrear
<1>t. Turno(p) \in Servicio /\ Turno(p) \in PorHacer(p)
      /\ Turno(p) \in Afectados(mando[p].desde, mando[p].hacia)
  BY <1>b, TipoMatriz DEF Turno, PorHacer, Turnos, Afectados
<1>m. /\ Marcados(p, Turno(p)) \in [Mandos -> Mando]
      /\ \A q \in Mandos :
           /\ Marcados(p, Turno(p))[q].fase = mando[q].fase
           /\ Marcados(p, Turno(p))[q].desde = mando[q].desde
           /\ Marcados(p, Turno(p))[q].hacia = mando[q].hacia
           /\ Marcados(p, Turno(p))[q].conv = mando[q].conv
           /\ Marcados(p, Turno(p))[q].vuelta = mando[q].vuelta
           /\ Marcados(p, Turno(p))[q].k = mando[q].k
           /\ q # p /\ mando[q].fase # "libre" => Marcados(p, Turno(p))[q].ajeno
      /\ Marcados(p, Turno(p))[p].ajeno = mando[p].ajeno
  <2> DEFINE N(q) == IF mando[q].fase = "libre" THEN mando[q]
                     ELSE [mando[q] EXCEPT !.cambiados = @ \cup {Turno(p)}, !.ajeno = @ \/ q # p]
  <2>1. ASSUME NEW q \in Mandos
        PROVE  /\ N(q) \in Mando /\ N(q).fase = mando[q].fase
               /\ N(q).desde = mando[q].desde /\ N(q).hacia = mando[q].hacia
               /\ N(q).conv = mando[q].conv /\ N(q).vuelta = mando[q].vuelta
               /\ N(q).k = mando[q].k
               /\ q # p /\ mando[q].fase # "libre" => N(q).ajeno
               /\ q = p => N(q).ajeno = mando[p].ajeno
    <3>1. mando[q] \in Mando
      BY <1>0
    <3>2. CASE mando[q].fase = "libre"
      BY <1>b, <3>1, <3>2
    <3>3. CASE mando[q].fase # "libre"
      <4>1. N(q) = [mando[q] EXCEPT !.cambiados = @ \cup {Turno(p)}, !.ajeno = @ \/ q # p]
        BY <3>3
      <4>2. /\ N(q).fase = mando[q].fase /\ N(q).desde = mando[q].desde
            /\ N(q).hacia = mando[q].hacia /\ N(q).conv = mando[q].conv
            /\ N(q).vuelta = mando[q].vuelta /\ N(q).k = mando[q].k
            /\ N(q).resp = mando[q].resp
            /\ N(q).cambiados = mando[q].cambiados \cup {Turno(p)}
            /\ N(q).ajeno = (mando[q].ajeno \/ q # p)
        BY <3>1, <4>1 DEF Mando
      <4>3. N(q) \in Mando
        BY <1>t, <3>1, <4>1 DEF Mando
      <4>4. mando[p].ajeno \in BOOLEAN
        BY <1>0 DEF Mando
      <4> HIDE DEF N
      <4>5. q # p => N(q).ajeno
        BY <4>2, Zenon
      <4>6. q = p => N(q).ajeno = mando[p].ajeno
        BY <4>2, <4>4
      <4> QED BY <4>2, <4>3, <4>5, <4>6
    <3> QED BY <3>2, <3>3
  <2>2. Marcados(p, Turno(p)) = [q \in Mandos |-> N(q)]
    BY DEF Marcados
  <2> HIDE DEF N
  <2> QED BY <2>1, <2>2
<1>a. /\ mando' \in [Mandos -> Mando]
      /\ mando'[p].fase = "comprobar" /\ mando'[p].k = mando[p].k
      /\ mando'[p].desde = mando[p].desde /\ mando'[p].hacia = mando[p].hacia
      /\ mando'[p].conv = mando[p].conv /\ mando'[p].vuelta = mando[p].vuelta
      /\ mando'[p].ajeno = mando[p].ajeno
      /\ \A q \in Mandos \ {p} :
           /\ mando'[q].fase = mando[q].fase /\ mando'[q].desde = mando[q].desde
           /\ mando'[q].hacia = mando[q].hacia /\ mando'[q].conv = mando[q].conv
           /\ mando'[q].vuelta = mando[q].vuelta /\ mando'[q].k = mando[q].k
           /\ mando[q].fase # "libre" => mando'[q].ajeno
  <2> DEFINE M == Marcados(p, Turno(p))
  <2>1. mando' = [M EXCEPT ![p] = [M[p] EXCEPT !.fase = "comprobar"]]
    BY <1>m DEF Recrear
  <2>2. M \in [Mandos -> Mando] /\ M[p] \in Mando
    BY <1>m
  <2> HIDE DEF M
  <2>3. /\ [M[p] EXCEPT !.fase = "comprobar"] \in Mando
        /\ mando' \in [Mandos -> Mando]
        /\ mando'[p].fase = "comprobar" /\ mando'[p].k = M[p].k
        /\ mando'[p].desde = M[p].desde /\ mando'[p].hacia = M[p].hacia
        /\ mando'[p].conv = M[p].conv /\ mando'[p].vuelta = M[p].vuelta
        /\ mando'[p].ajeno = M[p].ajeno
        /\ \A q \in Mandos \ {p} : mando'[q] = M[q]
    BY <2>1, <2>2 DEF Mando, Fase, Contenedores
  <2> QED BY <1>m, <2>3 DEF M
<1>c. /\ corre' \in [Servicio -> Etapa \cup {Nada}]
      /\ \A s \in Servicio \ {Turno(p)} : corre'[s] = corre[s]
      /\ corre'[Turno(p)] # Nada => corre'[Turno(p)] = Valor(Turno(p), archivo)
      /\ UNCHANGED <<archivo, puntero, candado, apilado>>
  BY <1>0, <1>t, TipoValor DEF Recrear, TypeOK
<1>1. TypeOK'
  BY <1>0, <1>a, <1>c DEF TypeOK
<1>2. MandoCoherente'
  <2> SUFFICES ASSUME NEW q \in Mandos
               PROVE  /\ Adyacentes(mando'[q].desde, mando'[q].hacia)
                      /\ mando'[q].k <= Turnos(q)'
                      /\ mando'[q].fase \notin {"recrear", "comprobar", "cerrar"} => mando'[q].k = 1
                      /\ (mando'[q].vuelta \/ mando'[q].fase \in Contenedores) => mando'[q].conv
    BY DEF MandoCoherente
  <2>1. CASE q # p
    <3>1. Turnos(q)' = Turnos(q)
      BY <1>a, <2>1 DEF Turnos
    <3>2. /\ Adyacentes(mando[q].desde, mando[q].hacia)
          /\ mando[q].k <= Turnos(q)
          /\ mando[q].fase \notin {"recrear", "comprobar", "cerrar"} => mando[q].k = 1
          /\ (mando[q].vuelta \/ mando[q].fase \in Contenedores) => mando[q].conv
      BY DEF InvInductivo, MandoCoherente
    <3> QED BY <1>a, <2>1, <3>1, <3>2
  <2>2. CASE q = p
    <3>1. Turnos(p)' = Turnos(p)
      BY <1>a DEF Turnos
    <3>2. mando[p].k <= Turnos(p)
      BY DEF InvInductivo, MandoCoherente
    <3> QED BY <1>a, <1>b, <2>2, <3>1, <3>2
  <2> QED BY <2>1, <2>2
<1>3. CandadoCoherente'
  BY <1>a, <1>b, <1>c DEF InvInductivo, CandadoCoherente, Dentro
<1>4. ArchivoCoherente'
  BY <1>a, <1>b, <1>c DEF InvInductivo, ArchivoCoherente
<1>5. DosEtapas'
  <2> SUFFICES ASSUME ~apilado PROVE DosEtapas'
    BY <1>c DEF DosEtapas
  <2>1. PICK a \in Etapa, b \in Etapa :
           /\ Adyacentes(a, b) /\ archivo \in {a, b} /\ puntero \in {a, b}
           /\ SoloDe(a, b)
           /\ \A q \in Mandos : mando[q].fase \in {"escrito", "movido"} =>
                                  {mando[q].desde, mando[q].hacia} = {a, b}
    BY DEF InvInductivo, DosEtapas
  <2>2. \A s \in Servicio : corre'[s] # Nada => corre'[s] \in {Valor(s, a), Valor(s, b)}
    BY <1>c, <2>1 DEF SoloDe
  <2>3. \A q \in Mandos : mando'[q].fase \in {"escrito", "movido"} =>
            {mando'[q].desde, mando'[q].hacia} = {a, b}
    BY <1>a, <2>1
  <2> QED BY <1>c, <2>1, <2>2, <2>3 DEF DosEtapas, SoloDe
<1>6. Presentes'
  <2> SUFFICES ASSUME NEW q \in Mandos, mando'[q].fase # "libre", mando'[q].conv,
                      ~mando'[q].ajeno,
                      NEW s \in Servicio \ Afectados(mando'[q].desde, mando'[q].hacia)
               PROVE  corre'[s] # Nada
    BY DEF Presentes
  <2>1. q = p
    BY <1>a
  <2>2. Afectados(mando'[p].desde, mando'[p].hacia) = Afectados(mando[p].desde, mando[p].hacia)
    <3>1. Afectados(mando[p].hacia, mando[p].desde) = Afectados(mando[p].desde, mando[p].hacia)
      BY <1>b, MatrizCompleta DEF Mando
    <3>2. \/ mando'[p].desde = mando[p].desde /\ mando'[p].hacia = mando[p].hacia
          \/ mando'[p].desde = mando[p].hacia /\ mando'[p].hacia = mando[p].desde
      BY <1>a, <2>1
    <3> QED BY <3>1, <3>2
  <2>3. s # Turno(p) /\ s \in Servicio \ Afectados(mando[p].desde, mando[p].hacia)
    BY <1>t, <2>1, <2>2
  <2>4. corre[s] # Nada
    BY <1>a, <1>b, <2>1, <2>3 DEF InvInductivo, Presentes
  <2> QED BY <1>c, <2>3, <2>4
<1>7. HechosCoherentes'
  <2> SUFFICES ASSUME ~apilado, NEW q \in Mandos,
                      mando'[q].fase \in {"escrito", "movido"} \cup Contenedores,
                      mando'[q].conv, ~mando'[q].ajeno,
                      NEW s \in Servicio \ PorHacer(q)'
               PROVE  corre'[s] = Valor(s, mando'[q].hacia)
    BY <1>c DEF HechosCoherentes
  <2>1. q = p
    BY <1>a DEF Contenedores
  <2>2. PorHacer(p)' = PorHacer(p)
    BY <1>a, <1>b DEF PorHacer, Turnos
  <2>3. s # Turno(p) /\ s \in Servicio \ PorHacer(p)
    BY <1>t, <2>1, <2>2
  <2>4. corre[s] = Valor(s, mando[p].hacia)
    BY <1>a, <1>b, <2>1, <2>3 DEF InvInductivo, HechosCoherentes, Contenedores
  <2> QED BY <1>a, <1>c, <2>1, <2>3, <2>4
<1> QED BY <1>1, <1>2, <1>3, <1>4, <1>5, <1>6, <1>7 DEF InvInductivo

LEMMA PasoRecrearFalla ==
    ASSUME InvInductivo, NEW p \in Mandos, RecrearFalla(p) PROVE InvInductivo'
<1>0. TypeOK /\ mando \in [Mandos -> Mando]
  BY DEF InvInductivo, TypeOK
<1>b. /\ mando[p] \in Mando /\ mando[p].conv /\ mando[p].fase = "recrear"
      /\ Adyacentes(mando[p].desde, mando[p].hacia)
      /\ mando[p].desde \in Etapa /\ mando[p].hacia \in Etapa
      /\ mando[p].k \in 1..Turnos(p)
  BY <1>0, TipoMatriz DEF InvInductivo, MandoCoherente, Contenedores, Mando, Turnos, RecrearFalla
<1>t. Turno(p) \in Servicio /\ Turno(p) \in PorHacer(p)
      /\ Turno(p) \in Afectados(mando[p].desde, mando[p].hacia)
  BY <1>b, TipoMatriz DEF Turno, PorHacer, Turnos, Afectados
<1>m. /\ Marcados(p, Turno(p)) \in [Mandos -> Mando]
      /\ \A q \in Mandos :
           /\ Marcados(p, Turno(p))[q].fase = mando[q].fase
           /\ Marcados(p, Turno(p))[q].desde = mando[q].desde
           /\ Marcados(p, Turno(p))[q].hacia = mando[q].hacia
           /\ Marcados(p, Turno(p))[q].conv = mando[q].conv
           /\ Marcados(p, Turno(p))[q].vuelta = mando[q].vuelta
           /\ Marcados(p, Turno(p))[q].k = mando[q].k
           /\ q # p /\ mando[q].fase # "libre" => Marcados(p, Turno(p))[q].ajeno
      /\ Marcados(p, Turno(p))[p].ajeno = mando[p].ajeno
  <2> DEFINE N(q) == IF mando[q].fase = "libre" THEN mando[q]
                     ELSE [mando[q] EXCEPT !.cambiados = @ \cup {Turno(p)}, !.ajeno = @ \/ q # p]
  <2>1. ASSUME NEW q \in Mandos
        PROVE  /\ N(q) \in Mando /\ N(q).fase = mando[q].fase
               /\ N(q).desde = mando[q].desde /\ N(q).hacia = mando[q].hacia
               /\ N(q).conv = mando[q].conv /\ N(q).vuelta = mando[q].vuelta
               /\ N(q).k = mando[q].k
               /\ q # p /\ mando[q].fase # "libre" => N(q).ajeno
               /\ q = p => N(q).ajeno = mando[p].ajeno
    <3>1. mando[q] \in Mando
      BY <1>0
    <3>2. CASE mando[q].fase = "libre"
      BY <1>b, <3>1, <3>2
    <3>3. CASE mando[q].fase # "libre"
      <4>1. N(q) = [mando[q] EXCEPT !.cambiados = @ \cup {Turno(p)}, !.ajeno = @ \/ q # p]
        BY <3>3
      <4>2. /\ N(q).fase = mando[q].fase /\ N(q).desde = mando[q].desde
            /\ N(q).hacia = mando[q].hacia /\ N(q).conv = mando[q].conv
            /\ N(q).vuelta = mando[q].vuelta /\ N(q).k = mando[q].k
            /\ N(q).resp = mando[q].resp
            /\ N(q).cambiados = mando[q].cambiados \cup {Turno(p)}
            /\ N(q).ajeno = (mando[q].ajeno \/ q # p)
        BY <3>1, <4>1 DEF Mando
      <4>3. N(q) \in Mando
        BY <1>t, <3>1, <4>1 DEF Mando
      <4>4. mando[p].ajeno \in BOOLEAN
        BY <1>0 DEF Mando
      <4> HIDE DEF N
      <4>5. q # p => N(q).ajeno
        BY <4>2, Zenon
      <4>6. q = p => N(q).ajeno = mando[p].ajeno
        BY <4>2, <4>4
      <4> QED BY <4>2, <4>3, <4>5, <4>6
    <3> QED BY <3>2, <3>3
  <2>2. Marcados(p, Turno(p)) = [q \in Mandos |-> N(q)]
    BY DEF Marcados
  <2> HIDE DEF N
  <2> QED BY <2>1, <2>2
<1>a. /\ mando' \in [Mandos -> Mando]
      /\ mando'[p].k = 1 /\ mando'[p].desde \in Etapa /\ mando'[p].hacia \in Etapa
      /\ Adyacentes(mando'[p].desde, mando'[p].hacia)
      /\ \/ mando'[p].fase = "libre" /\ ~mando'[p].vuelta
         \/ /\ mando'[p].fase = "pedir" /\ mando'[p].conv = mando[p].conv
            /\ mando'[p].ajeno = mando[p].ajeno
            /\ mando'[p].desde = mando[p].hacia /\ mando'[p].hacia = mando[p].desde
      /\ \A q \in Mandos \ {p} :
           /\ mando'[q].fase = mando[q].fase /\ mando'[q].desde = mando[q].desde
           /\ mando'[q].hacia = mando[q].hacia /\ mando'[q].conv = mando[q].conv
           /\ mando'[q].vuelta = mando[q].vuelta /\ mando'[q].k = mando[q].k
           /\ mando[q].fase # "libre" => mando'[q].ajeno
  <2>1. /\ Marcados(p, Turno(p))[p] \in Mando
        /\ Adyacentes(Marcados(p, Turno(p))[p].desde, Marcados(p, Turno(p))[p].hacia)
    BY <1>b, <1>m
  <2>2. mando' = [Marcados(p, Turno(p)) EXCEPT ![p] = Retrocede(Marcados(p, Turno(p))[p])]
    BY <1>m DEF RecrearFalla
  <2> DEFINE R == Retrocede(Marcados(p, Turno(p))[p])
  <2>3. /\ R \in Mando /\ R.k = 1 /\ Adyacentes(R.desde, R.hacia)
        /\ R.desde \in Etapa /\ R.hacia \in Etapa
        /\ \/ R.fase = "libre" /\ ~R.vuelta
           \/ /\ R.fase = "pedir" /\ R.conv = mando[p].conv /\ R.ajeno = mando[p].ajeno
              /\ R.desde = mando[p].hacia /\ R.hacia = mando[p].desde
    BY <1>m, <2>1, TipoRetroceso DEF Mando
  <2> HIDE DEF R
  <2>4. mando' = [Marcados(p, Turno(p)) EXCEPT ![p] = R]
    BY <2>2 DEF R
  <2> QED BY <1>m, <2>3, <2>4
<1>c. /\ corre' \in [Servicio -> Etapa \cup {Nada}]
      /\ \A s \in Servicio \ {Turno(p)} : corre'[s] = corre[s]
      /\ corre'[Turno(p)] # Nada => corre'[Turno(p)] = Valor(Turno(p), archivo)
      /\ UNCHANGED <<archivo, puntero, candado, apilado>>
  BY <1>0, <1>t, TipoValor DEF RecrearFalla, TypeOK
<1>1. TypeOK'
  BY <1>0, <1>a, <1>c DEF TypeOK
<1>2. MandoCoherente'
  <2> SUFFICES ASSUME NEW q \in Mandos
               PROVE  /\ Adyacentes(mando'[q].desde, mando'[q].hacia)
                      /\ mando'[q].k <= Turnos(q)'
                      /\ mando'[q].fase \notin {"recrear", "comprobar", "cerrar"} => mando'[q].k = 1
                      /\ (mando'[q].vuelta \/ mando'[q].fase \in Contenedores) => mando'[q].conv
    BY DEF MandoCoherente
  <2>1. CASE q # p
    <3>1. Turnos(q)' = Turnos(q)
      BY <1>a, <2>1 DEF Turnos
    <3>2. /\ Adyacentes(mando[q].desde, mando[q].hacia)
          /\ mando[q].k <= Turnos(q)
          /\ mando[q].fase \notin {"recrear", "comprobar", "cerrar"} => mando[q].k = 1
          /\ (mando[q].vuelta \/ mando[q].fase \in Contenedores) => mando[q].conv
      BY DEF InvInductivo, MandoCoherente
    <3> QED BY <1>a, <2>1, <3>1, <3>2
  <2>2. CASE q = p
    <3>1. 1 <= Turnos(p)'
      BY <1>a, TipoMatriz DEF Turnos
    <3> QED BY <1>a, <1>b, <2>2, <3>1 DEF Contenedores
  <2> QED BY <2>1, <2>2
<1>3. CandadoCoherente'
  BY <1>a, <1>b, <1>c DEF InvInductivo, CandadoCoherente, Dentro
<1>4. ArchivoCoherente'
  BY ZenonT(60), <1>a, <1>b, <1>c DEF InvInductivo, ArchivoCoherente
<1>5. DosEtapas'
  <2> SUFFICES ASSUME ~apilado PROVE DosEtapas'
    BY <1>c DEF DosEtapas
  <2>1. PICK a \in Etapa, b \in Etapa :
           /\ Adyacentes(a, b) /\ archivo \in {a, b} /\ puntero \in {a, b}
           /\ SoloDe(a, b)
           /\ \A q \in Mandos : mando[q].fase \in {"escrito", "movido"} =>
                                  {mando[q].desde, mando[q].hacia} = {a, b}
    BY DEF InvInductivo, DosEtapas
  <2>2. \A s \in Servicio : corre'[s] # Nada => corre'[s] \in {Valor(s, a), Valor(s, b)}
    BY <1>c, <2>1 DEF SoloDe
  <2>3. \A q \in Mandos : mando'[q].fase \in {"escrito", "movido"} =>
            {mando'[q].desde, mando'[q].hacia} = {a, b}
    BY <1>a, <2>1
  <2> QED BY <1>c, <2>1, <2>2, <2>3 DEF DosEtapas, SoloDe
<1>6. Presentes'
  <2> SUFFICES ASSUME NEW q \in Mandos, mando'[q].fase # "libre", mando'[q].conv,
                      ~mando'[q].ajeno,
                      NEW s \in Servicio \ Afectados(mando'[q].desde, mando'[q].hacia)
               PROVE  corre'[s] # Nada
    BY DEF Presentes
  <2>1. q = p
    BY <1>a
  <2>2. Afectados(mando'[p].desde, mando'[p].hacia) = Afectados(mando[p].desde, mando[p].hacia)
    <3>1. Afectados(mando[p].hacia, mando[p].desde) = Afectados(mando[p].desde, mando[p].hacia)
      BY <1>b, MatrizCompleta DEF Mando
    <3>2. \/ mando'[p].desde = mando[p].desde /\ mando'[p].hacia = mando[p].hacia
          \/ mando'[p].desde = mando[p].hacia /\ mando'[p].hacia = mando[p].desde
      BY <1>a, <2>1
    <3> QED BY <3>1, <3>2
  <2>3. s # Turno(p) /\ s \in Servicio \ Afectados(mando[p].desde, mando[p].hacia)
    BY <1>t, <2>1, <2>2
  <2>4. corre[s] # Nada
    BY <1>a, <1>b, <2>1, <2>3 DEF InvInductivo, Presentes
  <2> QED BY <1>c, <2>3, <2>4
<1>7. HechosCoherentes'
  <2> SUFFICES ASSUME ~apilado, NEW q \in Mandos,
                      mando'[q].fase \in {"escrito", "movido"} \cup Contenedores,
                      mando'[q].conv, ~mando'[q].ajeno,
                      NEW s \in Servicio \ PorHacer(q)'
               PROVE  corre'[s] = Valor(s, mando'[q].hacia)
    BY <1>c DEF HechosCoherentes
  <2>1. q = p
    BY <1>a DEF Contenedores
  <2> QED BY <1>a, <2>1 DEF Contenedores
<1> QED BY <1>1, <1>2, <1>3, <1>4, <1>5, <1>6, <1>7 DEF InvInductivo

LEMMA SinCambios ==
    ASSUME InvInductivo, UNCHANGED vars PROVE InvInductivo'
<1>1. /\ TypeOK' /\ MandoCoherente' /\ CandadoCoherente' /\ ArchivoCoherente'
  BY DEF InvInductivo, vars, TypeOK, MandoCoherente, CandadoCoherente, ArchivoCoherente, Turnos
<1>2. DosEtapas' /\ Presentes'
  BY DEF InvInductivo, vars, DosEtapas, Presentes, SoloDe
<1>3. HechosCoherentes'
  BY DEF InvInductivo, vars, HechosCoherentes, PorHacer, Turnos
<1> QED BY <1>1, <1>2, <1>3 DEF InvInductivo

LEMMA PasoInductivo == InvInductivo /\ [Next]_vars => InvInductivo'
<1> SUFFICES ASSUME InvInductivo, [Next]_vars PROVE InvInductivo'
  OBVIOUS
<1>1. CASE UNCHANGED vars
  BY <1>1, SinCambios
<1>2. CASE Next
  <2> SUFFICES ASSUME NEW p \in Mandos, Registro(p) \/ Docker(p) PROVE InvInductivo'
    BY <1>2 DEF Next
  <2>1. CASE Registro(p)
    BY <2>1, PasoEmpezar, PasoTomar, PasoEscribir, PasoMover, PasoSoltar, PasoAbandonar,
       PasoCompensar, PasoAtascar DEF Registro
  <2>2. CASE Docker(p)
    BY <2>2, PasoVerEstado, PasoRecrear, PasoRecrearFalla, PasoComprobar, PasoCerrar,
       PasoFallar, PasoMorir DEF Docker
  <2> QED BY <2>1, <2>2
<1> QED BY <1>1, <1>2

\* The inductive invariant holds in every reachable state.
THEOREM Invariante == Spec => []InvInductivo
  BY IniciaBien, PasoInductivo, PTL DEF Spec

\* In a mixture of two adjacent stages every signer is trusted by every verifier.
LEMMA MezclaValida == InvInductivo => FirmaValida
<1> SUFFICES ASSUME InvInductivo, ~apilado, NEW e \in Emisores, NEW v \in Verificadores,
                    corre[e] # Nada, corre[v] # Nada
             PROVE  Firma(corre[e]) \in Confia(corre[v])
  BY DEF FirmaValida
<1>1. PICK a \in Etapa, b \in Etapa : Adyacentes(a, b) /\ SoloDe(a, b)
  BY DEF InvInductivo, DosEtapas
<1>2. /\ corre[e] \in {Valor(e, a), Valor(e, b)} /\ e \in {"auth", "api-gw"}
      /\ corre[v] \in {Valor(v, a), Valor(v, b)} /\ v # "api-gw"
  BY <1>1 DEF SoloDe, Servicio, Emisores, Verificadores
<1>3. \/ a = 4 /\ b = 5
      \/ a = 5 /\ b = 4
      \/ a = 5 /\ b = 6
      \/ a = 6 /\ b = 5
      \/ a = 6 /\ b = 7
      \/ a = 7 /\ b = 6
  BY <1>1, CasosAdyacentes
<1>4. Firma(corre[e]) \in {Firma(a), Firma(b)}
  BY <1>2, <1>3 DEF Valor, Firma
<1>5. Confia(corre[v]) \in {Confia(a), Confia(b)}
  BY <1>2, <1>3 DEF Valor, Confia
<1> QED BY <1>3, <1>4, <1>5 DEF Firma, Confia, Clave

\* Every signer is trusted by every verifier at every moment of every rotation, for any
\* number of commands that run, fail and die at once, while no transition is written over
\* containers of a third stage.
THEOREM FirmaSiempreValida == Spec => []FirmaValida
  BY Invariante, MezclaValida, PTL

\* An answer of success tells the truth about every container.
THEOREM RespuestaEsFirme == Spec => RespuestaFirme
<1> DEFINE A == \A p \in Mandos :
                  /\ mando[p].fase = "cerrar"
                  /\ mando'[p].fase = "libre" /\ mando'[p].resp \in {"completa", "recuperada"}
                  /\ ~mando[p].ajeno /\ ~apilado
                  => puntero = mando[p].hacia /\ Converge(puntero)
<1>1. InvInductivo /\ [Next]_vars => [A]_vars
  <2> SUFFICES ASSUME InvInductivo, Next, NEW p \in Mandos,
                      mando[p].fase = "cerrar", mando'[p].fase = "libre",
                      mando'[p].resp \in {"completa", "recuperada"},
                      ~mando[p].ajeno, ~apilado
               PROVE  puntero = mando[p].hacia /\ Converge(puntero)
    OBVIOUS
  <2>1. mando \in [Mandos -> Mando] /\ mando[p].conv
    BY DEF InvInductivo, TypeOK, MandoCoherente, Contenedores
  <2>2. Cerrar(p)
    <3>1. PICK q \in Mandos : Registro(q) \/ Docker(q)
      BY DEF Next
    <3>2. CASE Registro(q)
      <4>1. mando[q].fase # "cerrar" /\ (q # p => mando'[p] = mando[p])
        BY <2>1, <3>2 DEF Registro, Empezar, Tomar, Escribir, Mover, Soltar, Abandonar,
           Compensar, Atascar, Pasa, Acaba, Dentro
      <4> QED BY <4>1
    <3>3. CASE Recrear(q) \/ RecrearFalla(q)
      <4>1. q # p
        BY <3>3 DEF Recrear, RecrearFalla
      <4>2. mando'[p].fase = mando[p].fase
        BY ZenonT(60), <2>1, <3>3, <4>1 DEF Recrear, RecrearFalla, Marcados, Mando
      <4> QED BY <4>2
    <3>4. CASE VerEstado(q) \/ Comprobar(q) \/ Morir(q) \/ Fallar(q)
      <4>1. CASE q # p
        <5>1. mando'[p] = mando[p]
          BY <2>1, <3>4, <4>1 DEF VerEstado, Comprobar, Morir, Fallar, Pasa, Acaba
        <5> QED BY <5>1
      <4>2. CASE q = p
        <5>1. CASE Fallar(p)
          <6>1. mando'[p] = Retrocede(mando[p])
            BY <2>1, <5>1 DEF Fallar
          <6>2. CASE mando[p].vuelta
            BY <6>1, <6>2 DEF Retrocede, Inactivo
          <6>3. CASE ~mando[p].vuelta
            <7>1. mando'[p].fase = "pedir"
              BY <2>1, <6>1, <6>3 DEF Retrocede, Mando
            <7> QED BY <7>1
          <6> QED BY <6>2, <6>3
        <5>2. CASE Morir(p)
          BY <2>1, <5>2 DEF Morir, Acaba, Inactivo
        <5> QED BY <3>4, <4>2, <5>1, <5>2 DEF VerEstado, Comprobar
      <4> QED BY <4>1, <4>2
    <3>5. CASE Cerrar(q)
      <4>1. q # p => mando'[p] = mando[p]
        BY <2>1, <3>5 DEF Cerrar, Acaba
      <4> QED BY <3>5, <4>1
    <3> QED BY <3>1, <3>2, <3>3, <3>4, <3>5 DEF Docker
  <2>3. puntero = mando[p].hacia
    BY <2>2 DEF Cerrar, EstadoEs
  <2>4. PorHacer(p) = {}
    BY DEF PorHacer
  <2>5. \A s \in Servicio : corre[s] = Valor(s, mando[p].hacia)
    BY <2>1, <2>4 DEF InvInductivo, HechosCoherentes, Contenedores
  <2> QED BY <2>3, <2>5 DEF Converge
<1>2. Spec => [][A]_vars
  BY <1>1, Invariante, PTL DEF Spec
<1> QED BY <1>2 DEF RespuestaFirme
===============================================================================
