----------------------------- MODULE CopiasProof -----------------------------
(***************************************************************************)
(* What Copias proves for any number of terminals and backups.             *)
(***************************************************************************)
EXTENDS Copias, TLAPS

LEMMA Titulares ==
  /\ Nada \notin Mandos /\ Otro \notin Mandos /\ Huerfano \notin Mandos
  /\ Nada # Otro /\ Nada # Huerfano /\ Otro # Huerfano
  BY CopiasAssumption

LEMMA LibreMando == Libre \in Mando /\ Libre.fase = "libre" /\ Libre.orden = "copiar" /\ ~Libre.recupera
  BY DEF Libre, Mando, Fase

LEMMA PasaTipo ==
  ASSUME NEW m \in Mandos, mandos \in [Mandos -> Mando], NEW f \in Fase, Pasa(m, f)
  PROVE  /\ mandos' \in [Mandos -> Mando]
         /\ mandos'[m].fase = f /\ mandos'[m].orden = mandos[m].orden
         /\ mandos'[m].copia = mandos[m].copia /\ mandos'[m].recupera = mandos[m].recupera
         /\ \A q \in Mandos \ {m} : mandos'[q] = mandos[q]
  BY DEF Pasa, Mando

LEMMA AcabaTipo ==
  ASSUME NEW m \in Mandos, mandos \in [Mandos -> Mando], Acaba(m)
  PROVE  /\ mandos' \in [Mandos -> Mando]
         /\ mandos'[m].fase = "libre" /\ mandos'[m].orden = "copiar" /\ ~mandos'[m].recupera
         /\ \A q \in Mandos \ {m} : mandos'[q] = mandos[q]
  BY LibreMando DEF Acaba

\* Of all the commands only the one that holds the lock of backups is at work.
LEMMA Demas ==
  ASSUME InvInductivo, NEW m \in Mandos, cerrojo = m
  PROVE  \A q \in Mandos \ {m} : mandos[q].fase \in {"libre", "cerrojo", "soltar_candado"}
  BY DEF InvInductivo, Posee

Anotados == [logica : Parte, bd : Parte, storage : Parte, atributos : Parte]

LEMMA AnotaTipo ==
  ASSUME TypeOK, NEW m \in Mandos, mandos[m].copia \in Ids, NEW v,
         NEW campo \in {"logica", "bd", "storage", "atributos", "estado", "protegida"},
         campo \in {"logica", "bd", "storage", "atributos"} => v \in Parte,
         campo = "estado" => v \in {"datos", "completa"},
         campo = "protegida" => v \in {"no", "final"},
         Anota(m, campo, v)
  PROVE  /\ copias' \in [Ids -> Copia]
         /\ \A b \in Ids \ {mandos[m].copia} : copias'[b] = copias[b]
         /\ copias'[mandos[m].copia] = [copias[mandos[m].copia] EXCEPT ![campo] = v]
  BY DEF Anota, TypeOK, Copia

LEMMA PasoPararGodel ==
  ASSUME InvInductivo, NEW m \in Mandos, PararGodel(m)
  PROVE  InvInductivo'
  <1> USE DEF InvInductivo, Copiando, Restaurando, En, PararGodel
  <1>a. /\ mandos' \in [Mandos -> Mando] /\ mandos'[m].fase = "parar_resto"
        /\ mandos'[m].orden = mandos[m].orden /\ mandos'[m].copia = mandos[m].copia
        /\ mandos'[m].recupera = mandos[m].recupera
        /\ \A q \in Mandos \ {m} : mandos'[q] = mandos[q]
    BY PasaTipo DEF TypeOK, Fase, Parada, Lectura, Reemplazo, Arranque, Publicacion, PararGodel
  <1>b. /\ \A q \in Mandos \ {m} : mandos[q].fase \in {"libre", "cerrojo", "soltar_candado"}
        /\ mandos[m] \in Mando /\ cerrojo = m
    BY Demas DEF Posee, TypeOK, Reemplazo, Arranque, Parada, Lectura, Publicacion
  <1>1. TypeOK'
    BY <1>a, <1>b DEF TypeOK
  <1>2. Posee'
    BY <1>a, <1>b DEF Posee
  <1>3. Papel'
    BY <1>a, <1>b DEF Papel, Verificable, Lectura, Publicacion, Reemplazo, Arranque, Parada
  <1>4. Detenido'
    BY <1>a, <1>b DEF Detenido, Lectura, Reemplazo, Arranque
  <1>5. Custodia'
    BY <1>a, <1>b DEF Custodia, LibreEsEntera, Mutada, Sana, Entera, Reemplazo, Arranque
  <1>6. Avance'
    BY <1>a, <1>b DEF Avance, Coherente, Parada, Lectura, Arranque, Publicacion
  <1>7. Reposicion'
    BY <1>a, <1>b DEF Reposicion, Entera, Parada, Reemplazo, Arranque
  <1>8. CopiaCoherente'
    BY <1>a, <1>b DEF CopiaCoherente, Coherente, Verificable
  <1>9. CompletaTieneClave'
    BY <1>a, <1>b DEF CompletaTieneClave
  <1>10. SirveEntero'
    BY <1>a, <1>b DEF SirveEntero, Sana, Entera
  <1>11. MutaConSuGeneracion'
    BY <1>a, <1>b DEF MutaConSuGeneracion, Mutada, Reemplazo, Arranque
  <1> QED BY <1>1, <1>2, <1>3, <1>4, <1>5, <1>6, <1>7, <1>8, <1>9, <1>10, <1>11

LEMMA PasoPararResto ==
  ASSUME InvInductivo, NEW m \in Mandos, PararResto(m)
  PROVE  InvInductivo'
  <1> USE DEF InvInductivo, Copiando, Restaurando, En, PararResto
  <1>a. /\ mandos' \in [Mandos -> Mando]
        /\ mandos[m].orden = "copiar" => mandos'[m].fase = "volcar"
        /\ mandos[m].orden # "copiar" => mandos'[m].fase = "parar_bd"
        /\ mandos'[m].orden = mandos[m].orden /\ mandos'[m].copia = mandos[m].copia
        /\ mandos'[m].recupera = mandos[m].recupera
        /\ \A q \in Mandos \ {m} : mandos'[q] = mandos[q]
    BY PasaTipo DEF TypeOK, Fase, Parada, Lectura, Reemplazo, Arranque, Publicacion, PararResto
  <1>b. /\ \A q \in Mandos \ {m} : mandos[q].fase \in {"libre", "cerrojo", "soltar_candado"}
        /\ mandos[m] \in Mando /\ cerrojo = m
    BY Demas DEF Posee, TypeOK, Reemplazo, Arranque, Parada, Lectura, Publicacion
  <1>1. TypeOK'
    BY <1>a, <1>b DEF TypeOK
  <1>2. Posee'
    BY <1>a, <1>b DEF Posee
  <1>3. Papel'
    BY <1>a, <1>b DEF Papel, Verificable, Lectura, Publicacion, Reemplazo, Arranque, Parada
  <1>4. Detenido'
    BY <1>a, <1>b DEF Detenido, Lectura, Reemplazo, Arranque
  <1>5. Custodia'
    BY <1>a, <1>b DEF Custodia, LibreEsEntera, Mutada, Sana, Entera, Reemplazo, Arranque
  <1>6. Avance'
    BY <1>a, <1>b DEF Avance, Coherente, Parada, Lectura, Arranque, Publicacion
  <1>7. Reposicion'
    BY <1>a, <1>b DEF Reposicion, Entera, Parada, Reemplazo, Arranque
  <1>8. CopiaCoherente'
    BY <1>a, <1>b DEF CopiaCoherente, Coherente, Verificable
  <1>9. CompletaTieneClave'
    BY <1>a, <1>b DEF CompletaTieneClave
  <1>10. SirveEntero'
    BY <1>a, <1>b DEF SirveEntero, Sana, Entera
  <1>11. MutaConSuGeneracion'
    BY <1>a, <1>b DEF MutaConSuGeneracion, Mutada, Reemplazo, Arranque
  <1> QED BY <1>1, <1>2, <1>3, <1>4, <1>5, <1>6, <1>7, <1>8, <1>9, <1>10, <1>11

LEMMA PasoPararBd ==
  ASSUME InvInductivo, NEW m \in Mandos, PararBd(m)
  PROVE  InvInductivo'
  <1> USE DEF InvInductivo, Copiando, Restaurando, En, PararBd
  <1>a. /\ mandos' \in [Mandos -> Mando]
        /\ mandos[m].orden = "copiar" => mandos'[m].fase = "tar_bd"
        /\ mandos[m].orden # "copiar" => mandos'[m].fase = "vaciar_bd"
        /\ mandos'[m].orden = mandos[m].orden /\ mandos'[m].copia = mandos[m].copia
        /\ mandos'[m].recupera = mandos[m].recupera
        /\ \A q \in Mandos \ {m} : mandos'[q] = mandos[q]
    BY PasaTipo DEF TypeOK, Fase, Parada, Lectura, Reemplazo, Arranque, Publicacion, PararBd
  <1>b. /\ \A q \in Mandos \ {m} : mandos[q].fase \in {"libre", "cerrojo", "soltar_candado"}
        /\ mandos[m] \in Mando /\ cerrojo = m
    BY Demas DEF Posee, TypeOK, Reemplazo, Arranque, Parada, Lectura, Publicacion
  <1>c. ~mandos[m].recupera
    BY DEF Papel, Arranque
  <1>1. TypeOK'
    BY <1>a, <1>b, <1>c DEF TypeOK
  <1>2. Posee'
    BY <1>a, <1>b, <1>c DEF Posee
  <1>3. Papel'
    BY <1>a, <1>b, <1>c DEF Papel, Mando, Verificable, Lectura, Publicacion, Reemplazo, Arranque, Parada
  <1>4. Detenido'
    BY <1>a, <1>b, <1>c DEF Detenido, Lectura, Reemplazo, Arranque
  <1>5. Custodia'
    BY <1>a, <1>b, <1>c DEF Custodia, LibreEsEntera, Mutada, Sana, Entera, Reemplazo, Arranque
  <1>6. Avance'
    BY <1>a, <1>b, <1>c DEF Avance, Coherente, Parada, Lectura, Arranque, Publicacion
  <1>7. Reposicion'
    BY <1>a, <1>b, <1>c DEF Reposicion, Entera, Parada, Reemplazo, Arranque
  <1>8. CopiaCoherente'
    BY <1>a, <1>b, <1>c DEF CopiaCoherente, Coherente, Verificable
  <1>9. CompletaTieneClave'
    BY <1>a, <1>b, <1>c DEF CompletaTieneClave
  <1>10. SirveEntero'
    BY <1>a, <1>b, <1>c DEF SirveEntero, Sana, Entera
  <1>11. MutaConSuGeneracion'
    BY <1>a, <1>b, <1>c DEF MutaConSuGeneracion, Reposicion, Parada, Mutada, Reemplazo, Arranque
  <1> QED BY <1>1, <1>2, <1>3, <1>4, <1>5, <1>6, <1>7, <1>8, <1>9, <1>10, <1>11

LEMMA PasoArrancarBd ==
  ASSUME InvInductivo, NEW m \in Mandos, ArrancarBd(m)
  PROVE  InvInductivo'
  <1> USE DEF InvInductivo, Copiando, Restaurando, En, ArrancarBd
  <1>a. /\ mandos' \in [Mandos -> Mando] /\ mandos'[m].fase = "arrancar_resto"
        /\ mandos'[m].orden = mandos[m].orden /\ mandos'[m].copia = mandos[m].copia
        /\ mandos'[m].recupera = mandos[m].recupera
        /\ \A q \in Mandos \ {m} : mandos'[q] = mandos[q]
    BY PasaTipo DEF TypeOK, Fase, Parada, Lectura, Reemplazo, Arranque, Publicacion, ArrancarBd
  <1>b. /\ \A q \in Mandos \ {m} : mandos[q].fase \in {"libre", "cerrojo", "soltar_candado"}
        /\ mandos[m] \in Mando /\ cerrojo = m
    BY Demas DEF Posee, TypeOK, Reemplazo, Arranque, Parada, Lectura, Publicacion
  <1>1. TypeOK'
    BY <1>a, <1>b DEF TypeOK, Servicios
  <1>2. Posee'
    BY <1>a, <1>b DEF Posee
  <1>3. Papel'
    BY <1>a, <1>b DEF Papel, Verificable, Lectura, Publicacion, Reemplazo, Arranque, Parada
  <1>4. Detenido'
    BY <1>a, <1>b DEF Detenido, Lectura, Reemplazo, Arranque
  <1>5. Custodia'
    BY <1>a, <1>b DEF Custodia, LibreEsEntera, Mutada, Sana, Entera, Reemplazo, Arranque
  <1>6. Avance'
    BY <1>a, <1>b DEF Avance, Coherente, Parada, Lectura, Arranque, Publicacion
  <1>7. Reposicion'
    BY <1>a, <1>b DEF Reposicion, Entera, Parada, Reemplazo, Arranque
  <1>8. CopiaCoherente'
    BY <1>a, <1>b DEF CopiaCoherente, Coherente, Verificable
  <1>9. CompletaTieneClave'
    BY <1>a, <1>b DEF CompletaTieneClave
  <1>10. SirveEntero'
    BY <1>a, <1>b DEF SirveEntero, Sana, Entera
  <1>11. MutaConSuGeneracion'
    BY <1>a, <1>b DEF MutaConSuGeneracion, Mutada, Reemplazo, Arranque
  <1> QED BY <1>1, <1>2, <1>3, <1>4, <1>5, <1>6, <1>7, <1>8, <1>9, <1>10, <1>11

LEMMA PasoArrancarResto ==
  ASSUME InvInductivo, NEW m \in Mandos, ArrancarResto(m)
  PROVE  InvInductivo'
  <1> USE DEF InvInductivo, Copiando, Restaurando, En, ArrancarResto, Entran
  <1>a. /\ mandos' \in [Mandos -> Mando] /\ mandos'[m].fase = "arrancar_godel"
        /\ mandos'[m].orden = mandos[m].orden /\ mandos'[m].copia = mandos[m].copia
        /\ mandos'[m].recupera = mandos[m].recupera
        /\ \A q \in Mandos \ {m} : mandos'[q] = mandos[q]
    BY PasaTipo DEF TypeOK, Fase, Parada, Lectura, Reemplazo, Arranque, Publicacion, ArrancarResto, Entran
  <1>b. /\ \A q \in Mandos \ {m} : mandos[q].fase \in {"libre", "cerrojo", "soltar_candado"}
        /\ mandos[m] \in Mando /\ cerrojo = m
    BY Demas DEF Posee, TypeOK, Reemplazo, Arranque, Parada, Lectura, Publicacion
  <1>1. TypeOK'
    BY <1>a, <1>b DEF TypeOK, Servicios
  <1>2. Posee'
    BY <1>a, <1>b DEF Posee
  <1>3. Papel'
    BY <1>a, <1>b DEF Papel, Verificable, Lectura, Publicacion, Reemplazo, Arranque, Parada
  <1>4. Detenido'
    BY <1>a, <1>b DEF Detenido, Lectura, Reemplazo, Arranque
  <1>5. Custodia'
    BY <1>a, <1>b DEF Custodia, LibreEsEntera, Mutada, Sana, Entera, Reemplazo, Arranque
  <1>6. Avance'
    BY <1>a, <1>b DEF Avance, Coherente, Parada, Lectura, Arranque, Publicacion
  <1>7. Reposicion'
    BY <1>a, <1>b DEF Reposicion, Entera, Parada, Reemplazo, Arranque
  <1>8. CopiaCoherente'
    BY <1>a, <1>b DEF CopiaCoherente, Coherente, Verificable
  <1>9. CompletaTieneClave'
    BY <1>a, <1>b DEF CompletaTieneClave
  <1>10. SirveEntero'
    BY <1>a, <1>b DEF SirveEntero, Sana, Entera
  <1>11. MutaConSuGeneracion'
    BY <1>a, <1>b DEF MutaConSuGeneracion, Mutada, Reemplazo, Arranque
  <1> QED BY <1>1, <1>2, <1>3, <1>4, <1>5, <1>6, <1>7, <1>8, <1>9, <1>10, <1>11

LEMMA PasoArrancarGodel ==
  ASSUME InvInductivo, NEW m \in Mandos, ArrancarGodel(m)
  PROVE  InvInductivo'
  <1> USE DEF InvInductivo, Copiando, Restaurando, En, ArrancarGodel
  <1>0. /\ Copiando(m) /\ mandos[m].recupera => TrasArrancar(m) = "limpiar"
        /\ Copiando(m) /\ ~mandos[m].recupera => TrasArrancar(m) = "finalizar_clave"
        /\ ~Copiando(m) => TrasArrancar(m) = "soltar"
    BY DEF TrasArrancar, TypeOK, Mando
  <1>a. /\ mandos' \in [Mandos -> Mando] /\ mandos'[m].fase = TrasArrancar(m)
        /\ mandos'[m].orden = mandos[m].orden /\ mandos'[m].copia = mandos[m].copia
        /\ mandos'[m].recupera = mandos[m].recupera
        /\ \A q \in Mandos \ {m} : mandos'[q] = mandos[q]
    BY <1>0, PasaTipo DEF TypeOK, Fase, Parada, Lectura, Reemplazo, Arranque, Publicacion, ArrancarGodel
  <1>b. /\ \A q \in Mandos \ {m} : mandos[q].fase \in {"libre", "cerrojo", "soltar_candado"}
        /\ mandos[m] \in Mando /\ cerrojo = m
    BY Demas DEF Posee, TypeOK, Reemplazo, Arranque, Parada, Lectura, Publicacion
  <1>c. Sana
    BY <1>b DEF Custodia, Mutada, Reposicion, Sana, Mando, Arranque, Reemplazo
  <1>1. TypeOK'
    BY <1>0, <1>a, <1>b DEF TypeOK, Servicios
  <1>2. Posee'
    BY <1>0, <1>a, <1>b DEF Posee
  <1>3. Papel'
    BY <1>0, <1>a, <1>b DEF Papel, Verificable, Lectura, Publicacion, Reemplazo, Arranque, Parada
  <1>4. Detenido'
    BY <1>0, <1>a, <1>b DEF Detenido, Lectura, Reemplazo, Arranque
  <1>5. Custodia'
    BY <1>0, <1>a, <1>b, <1>c DEF Custodia, LibreEsEntera, Mutada, Sana, Entera, Reemplazo, Arranque
  <1>6. Avance'
    BY <1>0, <1>a, <1>b DEF Avance, Coherente, Parada, Lectura, Arranque, Publicacion
  <1>7. Reposicion'
    BY <1>0, <1>a, <1>b DEF Reposicion, Entera, Parada, Reemplazo, Arranque
  <1>8. CopiaCoherente'
    BY <1>0, <1>a, <1>b DEF CopiaCoherente, Coherente, Verificable
  <1>9. CompletaTieneClave'
    BY <1>0, <1>a, <1>b DEF CompletaTieneClave
  <1>10. SirveEntero'
    BY <1>0, <1>a, <1>b, <1>c DEF SirveEntero, Sana, Entera
  <1>11. MutaConSuGeneracion'
    BY <1>0, <1>a, <1>b DEF MutaConSuGeneracion, Mutada, Reemplazo, Arranque
  <1> QED BY <1>1, <1>2, <1>3, <1>4, <1>5, <1>6, <1>7, <1>8, <1>9, <1>10, <1>11

LEMMA PasoReverificar ==
  ASSUME InvInductivo, NEW m \in Mandos, Reverificar(m)
  PROVE  InvInductivo'
  <1> USE DEF InvInductivo, Copiando, Restaurando, En, Reverificar, SuGeneracion
  <1>a. /\ mandos' \in [Mandos -> Mando] /\ mandos'[m].fase = "parar_godel"
        /\ mandos'[m].orden = mandos[m].orden /\ mandos'[m].copia = mandos[m].copia
        /\ mandos'[m].recupera = mandos[m].recupera
        /\ \A q \in Mandos \ {m} : mandos'[q] = mandos[q]
    BY PasaTipo DEF TypeOK, Fase, Parada, Lectura, Reemplazo, Arranque, Publicacion, Reverificar, SuGeneracion
  <1>b. /\ \A q \in Mandos \ {m} : mandos[q].fase \in {"libre", "cerrojo", "soltar_candado"}
        /\ mandos[m] \in Mando /\ cerrojo = m
    BY Demas DEF Posee, TypeOK, Reemplazo, Arranque, Parada, Lectura, Publicacion
  <1>1. TypeOK'
    BY <1>a, <1>b DEF TypeOK
  <1>2. Posee'
    BY <1>a, <1>b DEF Posee
  <1>3. Papel'
    BY <1>a, <1>b DEF Papel, Verificable, Lectura, Publicacion, Reemplazo, Arranque, Parada
  <1>4. Detenido'
    BY <1>a, <1>b DEF Detenido, Lectura, Reemplazo, Arranque
  <1>5. Custodia'
    BY <1>a, <1>b DEF Custodia, LibreEsEntera, Mutada, Sana, Entera, Reemplazo, Arranque
  <1>6. Avance'
    BY <1>a, <1>b DEF Avance, Coherente, Parada, Lectura, Arranque, Publicacion
  <1>7. Reposicion'
    BY <1>a, <1>b DEF Reposicion, Entera, Parada, Reemplazo, Arranque
  <1>8. CopiaCoherente'
    BY <1>a, <1>b DEF CopiaCoherente, Coherente, Verificable
  <1>9. CompletaTieneClave'
    BY <1>a, <1>b DEF CompletaTieneClave
  <1>10. SirveEntero'
    BY <1>a, <1>b DEF SirveEntero, Sana, Entera
  <1>11. MutaConSuGeneracion'
    BY <1>a, <1>b DEF MutaConSuGeneracion, Mutada, Reemplazo, Arranque
  <1> QED BY <1>1, <1>2, <1>3, <1>4, <1>5, <1>6, <1>7, <1>8, <1>9, <1>10, <1>11

LEMMA PasoTarClave ==
  ASSUME InvInductivo, NEW m \in Mandos, TarClave(m)
  PROVE  InvInductivo'
  <1> USE DEF InvInductivo, Copiando, Restaurando, En, TarClave
  <1>a. /\ mandos' \in [Mandos -> Mando] /\ mandos'[m].fase = "arrancar_bd"
        /\ mandos'[m].orden = mandos[m].orden /\ mandos'[m].copia = mandos[m].copia
        /\ mandos'[m].recupera = mandos[m].recupera
        /\ \A q \in Mandos \ {m} : mandos'[q] = mandos[q]
    BY PasaTipo DEF TypeOK, Fase, Parada, Lectura, Reemplazo, Arranque, Publicacion, TarClave
  <1>b. /\ \A q \in Mandos \ {m} : mandos[q].fase \in {"libre", "cerrojo", "soltar_candado"}
        /\ mandos[m] \in Mando /\ cerrojo = m /\ Copiando(m) /\ ~mandos[m].recupera
        /\ mandos[m].copia \in Ids /\ copias[mandos[m].copia].estado # "completa"
        /\ Sana
    BY Demas DEF Posee, TypeOK, Papel, Custodia, Mutada, Parada, Lectura, Arranque, Publicacion, TarClave
  <1>1. TypeOK'
    BY <1>a, <1>b DEF TypeOK
  <1>2. Posee'
    BY <1>a, <1>b DEF Posee
  <1>3. Papel'
    BY <1>a, <1>b DEF Papel, Verificable, Lectura, Publicacion, Reemplazo, Arranque, Parada
  <1>4. Detenido'
    BY <1>a, <1>b DEF Detenido, Lectura, Reemplazo, Arranque
  <1>5. Custodia'
    BY <1>a, <1>b DEF Custodia, LibreEsEntera, Mutada, Sana, Entera, Reemplazo, Arranque
  <1>6. Avance'
    BY <1>a, <1>b DEF Avance, Coherente, Sana, Entera, Parada, Lectura, Arranque, Publicacion
  <1>7. Reposicion'
    BY <1>a, <1>b DEF Reposicion, Entera, Parada, Reemplazo, Arranque
  <1>8. CopiaCoherente'
    BY <1>a, <1>b DEF CopiaCoherente, Coherente, Verificable
  <1>9. CompletaTieneClave'
    BY <1>a, <1>b DEF CompletaTieneClave
  <1>10. SirveEntero'
    BY <1>a, <1>b DEF SirveEntero, Sana, Entera
  <1>11. MutaConSuGeneracion'
    BY <1>a, <1>b DEF MutaConSuGeneracion, Mutada, Reemplazo, Arranque
  <1> QED BY <1>1, <1>2, <1>3, <1>4, <1>5, <1>6, <1>7, <1>8, <1>9, <1>10, <1>11

LEMMA PasoFallarMutada ==
  ASSUME InvInductivo, NEW m \in Mandos, FallarMutada(m)
  PROVE  InvInductivo'
  <1> USE DEF InvInductivo, Copiando, Restaurando, En, FallarMutada, Mutada, Reemplazo, Arranque
  <1>a. /\ mandos' \in [Mandos -> Mando] /\ mandos'[m].fase = "aquietar"
        /\ mandos'[m].orden = mandos[m].orden /\ mandos'[m].copia = mandos[m].copia
        /\ mandos'[m].recupera = mandos[m].recupera
        /\ \A q \in Mandos \ {m} : mandos'[q] = mandos[q]
    BY PasaTipo DEF TypeOK, Fase, Parada, Lectura, Reemplazo, Arranque, Publicacion, FallarMutada, Mutada, Reemplazo, Arranque
  <1>b. /\ \A q \in Mandos \ {m} : mandos[q].fase \in {"libre", "cerrojo", "soltar_candado"}
        /\ mandos[m] \in Mando /\ cerrojo = m
    BY Demas DEF Posee, TypeOK, Reemplazo, Arranque, Parada, Lectura, Publicacion
  <1>1. TypeOK'
    BY <1>a, <1>b DEF TypeOK
  <1>2. Posee'
    BY <1>a, <1>b DEF Posee
  <1>3. Papel'
    BY <1>a, <1>b DEF Papel, Verificable, Lectura, Publicacion, Reemplazo, Arranque, Parada
  <1>4. Detenido'
    BY <1>a, <1>b DEF Detenido, Lectura, Reemplazo, Arranque
  <1>5. Custodia'
    BY <1>a, <1>b DEF Custodia, LibreEsEntera, Mutada, Sana, Entera, Reemplazo, Arranque
  <1>6. Avance'
    BY <1>a, <1>b DEF Avance, Coherente, Parada, Lectura, Arranque, Publicacion
  <1>7. Reposicion'
    BY <1>a, <1>b DEF Reposicion, Entera, Parada, Reemplazo, Arranque
  <1>8. CopiaCoherente'
    BY <1>a, <1>b DEF CopiaCoherente, Coherente, Verificable
  <1>9. CompletaTieneClave'
    BY <1>a, <1>b DEF CompletaTieneClave
  <1>10. SirveEntero'
    BY <1>a, <1>b DEF SirveEntero, Sana, Entera
  <1>11. MutaConSuGeneracion'
    BY <1>a, <1>b DEF MutaConSuGeneracion, Mutada, Reemplazo, Arranque
  <1> QED BY <1>1, <1>2, <1>3, <1>4, <1>5, <1>6, <1>7, <1>8, <1>9, <1>10, <1>11

LEMMA PasoVolcar ==
  ASSUME InvInductivo, NEW m \in Mandos, Volcar(m)
  PROVE  InvInductivo'
  <1> USE DEF InvInductivo, Copiando, Restaurando, En, Volcar
  <1>a. /\ mandos' \in [Mandos -> Mando] /\ mandos'[m].fase = "parar_bd"
        /\ mandos'[m].orden = mandos[m].orden /\ mandos'[m].copia = mandos[m].copia
        /\ mandos'[m].recupera = mandos[m].recupera
        /\ \A q \in Mandos \ {m} : mandos'[q] = mandos[q]
    BY PasaTipo DEF TypeOK, Fase, Parada, Lectura, Reemplazo, Arranque, Publicacion, Volcar
  <1>b. /\ \A q \in Mandos \ {m} : mandos[q].fase \in {"libre", "cerrojo", "soltar_candado"}
        /\ mandos[m] \in Mando /\ cerrojo = m /\ Copiando(m) /\ ~mandos[m].recupera
        /\ mandos[m].copia \in Ids /\ copias[mandos[m].copia].estado # "completa"
        /\ Sana
    BY Demas DEF Posee, TypeOK, Papel, Custodia, Mutada, Parada, Lectura, Arranque, Publicacion, Volcar
  <1>c. /\ copias' \in [Ids -> Copia]
        /\ \A b \in Ids \ {mandos[m].copia} : copias'[b] = copias[b]
        /\ copias'[mandos[m].copia] = [copias[mandos[m].copia] EXCEPT !.logica = instalado.bd]
        /\ copias[mandos[m].copia] \in Copia
    BY <1>b DEF TypeOK, Instalado, Anota, Copia
  <1>d. \A b \in Ids : /\ copias'[b].estado = "completa" <=> copias[b].estado = "completa"
                       /\ copias[b].estado = "completa" => copias'[b] = copias[b]
    BY <1>b, <1>c DEF Copia
  <1>1. TypeOK'
    BY <1>a, <1>b, <1>c, <1>d DEF TypeOK
  <1>2. Posee'
    BY <1>a, <1>b, <1>c, <1>d DEF Posee
  <1>3. Papel'
    BY <1>a, <1>b, <1>d DEF Papel, Verificable, Lectura, Publicacion, Reemplazo, Arranque, Parada
  <1>4. Detenido'
    BY <1>a, <1>b, <1>c, <1>d DEF Detenido, Lectura, Reemplazo, Arranque
  <1>5. Custodia'
    BY <1>a, <1>b, <1>c, <1>d DEF Custodia, LibreEsEntera, Mutada, Sana, Entera, Reemplazo, Arranque
  <1>6. Avance'
    BY <1>a, <1>b, <1>c, <1>d DEF Avance, Coherente, Copia, Sana, Entera, Parada, Lectura, Arranque, Publicacion
  <1>7. Reposicion'
    BY <1>a, <1>b, <1>c, <1>d DEF Reposicion, Entera, Parada, Reemplazo, Arranque
  <1>8. CopiaCoherente'
    BY <1>a, <1>b, <1>d DEF CopiaCoherente, Coherente, Verificable
  <1>9. CompletaTieneClave'
    BY <1>a, <1>b, <1>d DEF CompletaTieneClave
  <1>10. SirveEntero'
    BY <1>a, <1>b, <1>c, <1>d DEF SirveEntero, Sana, Entera
  <1>11. MutaConSuGeneracion'
    BY <1>a, <1>b, <1>c, <1>d DEF MutaConSuGeneracion, Mutada, Reemplazo, Arranque
  <1> QED BY <1>1, <1>2, <1>3, <1>4, <1>5, <1>6, <1>7, <1>8, <1>9, <1>10, <1>11

LEMMA PasoTarBd ==
  ASSUME InvInductivo, NEW m \in Mandos, TarBd(m)
  PROVE  InvInductivo'
  <1> USE DEF InvInductivo, Copiando, Restaurando, En, TarBd
  <1>a. /\ mandos' \in [Mandos -> Mando] /\ mandos'[m].fase = "tar_storage"
        /\ mandos'[m].orden = mandos[m].orden /\ mandos'[m].copia = mandos[m].copia
        /\ mandos'[m].recupera = mandos[m].recupera
        /\ \A q \in Mandos \ {m} : mandos'[q] = mandos[q]
    BY PasaTipo DEF TypeOK, Fase, Parada, Lectura, Reemplazo, Arranque, Publicacion, TarBd
  <1>b. /\ \A q \in Mandos \ {m} : mandos[q].fase \in {"libre", "cerrojo", "soltar_candado"}
        /\ mandos[m] \in Mando /\ cerrojo = m /\ Copiando(m) /\ ~mandos[m].recupera
        /\ mandos[m].copia \in Ids /\ copias[mandos[m].copia].estado # "completa"
        /\ Sana
    BY Demas DEF Posee, TypeOK, Papel, Custodia, Mutada, Parada, Lectura, Arranque, Publicacion, TarBd
  <1>c. /\ copias' \in [Ids -> Copia]
        /\ \A b \in Ids \ {mandos[m].copia} : copias'[b] = copias[b]
        /\ copias'[mandos[m].copia] = [copias[mandos[m].copia] EXCEPT !.bd = instalado.bd]
        /\ copias[mandos[m].copia] \in Copia
    BY <1>b DEF TypeOK, Instalado, Anota, Copia
  <1>d. \A b \in Ids : /\ copias'[b].estado = "completa" <=> copias[b].estado = "completa"
                       /\ copias[b].estado = "completa" => copias'[b] = copias[b]
    BY <1>b, <1>c DEF Copia
  <1>1. TypeOK'
    BY <1>a, <1>b, <1>c, <1>d DEF TypeOK
  <1>2. Posee'
    BY <1>a, <1>b, <1>c, <1>d DEF Posee
  <1>3. Papel'
    BY <1>a, <1>b, <1>d DEF Papel, Verificable, Lectura, Publicacion, Reemplazo, Arranque, Parada
  <1>4. Detenido'
    BY <1>a, <1>b, <1>c, <1>d DEF Detenido, Lectura, Reemplazo, Arranque
  <1>5. Custodia'
    BY <1>a, <1>b, <1>c, <1>d DEF Custodia, LibreEsEntera, Mutada, Sana, Entera, Reemplazo, Arranque
  <1>6. Avance'
    BY <1>a, <1>b, <1>c, <1>d DEF Avance, Coherente, Copia, Sana, Entera, Parada, Lectura, Arranque, Publicacion
  <1>7. Reposicion'
    BY <1>a, <1>b, <1>c, <1>d DEF Reposicion, Entera, Parada, Reemplazo, Arranque
  <1>8. CopiaCoherente'
    BY <1>a, <1>b, <1>d DEF CopiaCoherente, Coherente, Verificable
  <1>9. CompletaTieneClave'
    BY <1>a, <1>b, <1>d DEF CompletaTieneClave
  <1>10. SirveEntero'
    BY <1>a, <1>b, <1>c, <1>d DEF SirveEntero, Sana, Entera
  <1>11. MutaConSuGeneracion'
    BY <1>a, <1>b, <1>c, <1>d DEF MutaConSuGeneracion, Mutada, Reemplazo, Arranque
  <1> QED BY <1>1, <1>2, <1>3, <1>4, <1>5, <1>6, <1>7, <1>8, <1>9, <1>10, <1>11

LEMMA PasoTarStorage ==
  ASSUME InvInductivo, NEW m \in Mandos, TarStorage(m)
  PROVE  InvInductivo'
  <1> USE DEF InvInductivo, Copiando, Restaurando, En, TarStorage
  <1>a. /\ mandos' \in [Mandos -> Mando] /\ mandos'[m].fase = "capturar"
        /\ mandos'[m].orden = mandos[m].orden /\ mandos'[m].copia = mandos[m].copia
        /\ mandos'[m].recupera = mandos[m].recupera
        /\ \A q \in Mandos \ {m} : mandos'[q] = mandos[q]
    BY PasaTipo DEF TypeOK, Fase, Parada, Lectura, Reemplazo, Arranque, Publicacion, TarStorage
  <1>b. /\ \A q \in Mandos \ {m} : mandos[q].fase \in {"libre", "cerrojo", "soltar_candado"}
        /\ mandos[m] \in Mando /\ cerrojo = m /\ Copiando(m) /\ ~mandos[m].recupera
        /\ mandos[m].copia \in Ids /\ copias[mandos[m].copia].estado # "completa"
        /\ Sana
    BY Demas DEF Posee, TypeOK, Papel, Custodia, Mutada, Parada, Lectura, Arranque, Publicacion, TarStorage
  <1>c. /\ copias' \in [Ids -> Copia]
        /\ \A b \in Ids \ {mandos[m].copia} : copias'[b] = copias[b]
        /\ copias'[mandos[m].copia] = [copias[mandos[m].copia] EXCEPT !.storage = instalado.storage]
        /\ copias[mandos[m].copia] \in Copia
    BY <1>b DEF TypeOK, Instalado, Anota, Copia
  <1>d. \A b \in Ids : /\ copias'[b].estado = "completa" <=> copias[b].estado = "completa"
                       /\ copias[b].estado = "completa" => copias'[b] = copias[b]
    BY <1>b, <1>c DEF Copia
  <1>1. TypeOK'
    BY <1>a, <1>b, <1>c, <1>d DEF TypeOK
  <1>2. Posee'
    BY <1>a, <1>b, <1>c, <1>d DEF Posee
  <1>3. Papel'
    BY <1>a, <1>b, <1>d DEF Papel, Verificable, Lectura, Publicacion, Reemplazo, Arranque, Parada
  <1>4. Detenido'
    BY <1>a, <1>b, <1>c, <1>d DEF Detenido, Lectura, Reemplazo, Arranque
  <1>5. Custodia'
    BY <1>a, <1>b, <1>c, <1>d DEF Custodia, LibreEsEntera, Mutada, Sana, Entera, Reemplazo, Arranque
  <1>6. Avance'
    BY <1>a, <1>b, <1>c, <1>d DEF Avance, Coherente, Copia, Sana, Entera, Parada, Lectura, Arranque, Publicacion
  <1>7. Reposicion'
    BY <1>a, <1>b, <1>c, <1>d DEF Reposicion, Entera, Parada, Reemplazo, Arranque
  <1>8. CopiaCoherente'
    BY <1>a, <1>b, <1>d DEF CopiaCoherente, Coherente, Verificable
  <1>9. CompletaTieneClave'
    BY <1>a, <1>b, <1>d DEF CompletaTieneClave
  <1>10. SirveEntero'
    BY <1>a, <1>b, <1>c, <1>d DEF SirveEntero, Sana, Entera
  <1>11. MutaConSuGeneracion'
    BY <1>a, <1>b, <1>c, <1>d DEF MutaConSuGeneracion, Mutada, Reemplazo, Arranque
  <1> QED BY <1>1, <1>2, <1>3, <1>4, <1>5, <1>6, <1>7, <1>8, <1>9, <1>10, <1>11

LEMMA PasoCapturar ==
  ASSUME InvInductivo, NEW m \in Mandos, Capturar(m)
  PROVE  InvInductivo'
  <1> USE DEF InvInductivo, Copiando, Restaurando, En, Capturar
  <1>a. /\ mandos' \in [Mandos -> Mando] /\ mandos'[m].fase = "tar_clave"
        /\ mandos'[m].orden = mandos[m].orden /\ mandos'[m].copia = mandos[m].copia
        /\ mandos'[m].recupera = mandos[m].recupera
        /\ \A q \in Mandos \ {m} : mandos'[q] = mandos[q]
    BY PasaTipo DEF TypeOK, Fase, Parada, Lectura, Reemplazo, Arranque, Publicacion, Capturar
  <1>b. /\ \A q \in Mandos \ {m} : mandos[q].fase \in {"libre", "cerrojo", "soltar_candado"}
        /\ mandos[m] \in Mando /\ cerrojo = m /\ Copiando(m) /\ ~mandos[m].recupera
        /\ mandos[m].copia \in Ids /\ copias[mandos[m].copia].estado # "completa"
        /\ Sana
    BY Demas DEF Posee, TypeOK, Papel, Custodia, Mutada, Parada, Lectura, Arranque, Publicacion, Capturar
  <1>c. /\ copias' \in [Ids -> Copia]
        /\ \A b \in Ids \ {mandos[m].copia} : copias'[b] = copias[b]
        /\ copias'[mandos[m].copia] = [copias[mandos[m].copia] EXCEPT !.atributos = instalado.atributos]
        /\ copias[mandos[m].copia] \in Copia
    BY <1>b DEF TypeOK, Instalado, Anota, Copia
  <1>d. \A b \in Ids : /\ copias'[b].estado = "completa" <=> copias[b].estado = "completa"
                       /\ copias[b].estado = "completa" => copias'[b] = copias[b]
    BY <1>b, <1>c DEF Copia
  <1>1. TypeOK'
    BY <1>a, <1>b, <1>c, <1>d DEF TypeOK
  <1>2. Posee'
    BY <1>a, <1>b, <1>c, <1>d DEF Posee
  <1>3. Papel'
    BY <1>a, <1>b, <1>d DEF Papel, Verificable, Lectura, Publicacion, Reemplazo, Arranque, Parada
  <1>4. Detenido'
    BY <1>a, <1>b, <1>c, <1>d DEF Detenido, Lectura, Reemplazo, Arranque
  <1>5. Custodia'
    BY <1>a, <1>b, <1>c, <1>d DEF Custodia, LibreEsEntera, Mutada, Sana, Entera, Reemplazo, Arranque
  <1>6. Avance'
    BY <1>a, <1>b, <1>c, <1>d DEF Avance, Coherente, Copia, Sana, Entera, Parada, Lectura, Arranque, Publicacion
  <1>7. Reposicion'
    BY <1>a, <1>b, <1>c, <1>d DEF Reposicion, Entera, Parada, Reemplazo, Arranque
  <1>8. CopiaCoherente'
    BY <1>a, <1>b, <1>d DEF CopiaCoherente, Coherente, Verificable
  <1>9. CompletaTieneClave'
    BY <1>a, <1>b, <1>d DEF CompletaTieneClave
  <1>10. SirveEntero'
    BY <1>a, <1>b, <1>c, <1>d DEF SirveEntero, Sana, Entera
  <1>11. MutaConSuGeneracion'
    BY <1>a, <1>b, <1>c, <1>d DEF MutaConSuGeneracion, Mutada, Reemplazo, Arranque
  <1> QED BY <1>1, <1>2, <1>3, <1>4, <1>5, <1>6, <1>7, <1>8, <1>9, <1>10, <1>11

LEMMA PasoFinalizarClave ==
  ASSUME InvInductivo, NEW m \in Mandos, FinalizarClave(m)
  PROVE  InvInductivo'
  <1> USE DEF InvInductivo, Copiando, Restaurando, En, FinalizarClave
  <1>0. TrasArrancar(m) = "finalizar_datos"
    BY DEF TrasArrancar
  <1>a. /\ mandos' \in [Mandos -> Mando] /\ mandos'[m].fase = "finalizar_datos"
        /\ mandos'[m].orden = mandos[m].orden /\ mandos'[m].copia = mandos[m].copia
        /\ mandos'[m].recupera = mandos[m].recupera
        /\ \A q \in Mandos \ {m} : mandos'[q] = mandos[q]
    BY <1>0, PasaTipo DEF TypeOK, Fase, Parada, Lectura, Reemplazo, Arranque, Publicacion, FinalizarClave
  <1>b. /\ \A q \in Mandos \ {m} : mandos[q].fase \in {"libre", "cerrojo", "soltar_candado"}
        /\ mandos[m] \in Mando /\ cerrojo = m /\ Copiando(m) /\ ~mandos[m].recupera
        /\ mandos[m].copia \in Ids /\ copias[mandos[m].copia].estado # "completa"
        /\ Sana
    BY Demas DEF Posee, TypeOK, Papel, Custodia, Mutada, Parada, Lectura, Arranque, Publicacion, FinalizarClave
  <1>c. /\ copias' \in [Ids -> Copia]
        /\ \A b \in Ids \ {mandos[m].copia} : copias'[b] = copias[b]
        /\ copias'[mandos[m].copia] = [copias[mandos[m].copia] EXCEPT !.protegida = "final"]
        /\ copias[mandos[m].copia] \in Copia
    BY <1>b DEF TypeOK, Instalado, Anota, Copia
  <1>d. \A b \in Ids : /\ copias'[b].estado = "completa" <=> copias[b].estado = "completa"
                       /\ copias[b].estado = "completa" => copias'[b] = copias[b]
    BY <1>b, <1>c DEF Copia
  <1>1. TypeOK'
    BY <1>a, <1>b, <1>c, <1>d DEF TypeOK
  <1>2. Posee'
    BY <1>a, <1>b, <1>c, <1>d DEF Posee
  <1>3. Papel'
    BY <1>a, <1>b, <1>d DEF Papel, Verificable, Lectura, Publicacion, Reemplazo, Arranque, Parada
  <1>4. Detenido'
    BY <1>a, <1>b, <1>c, <1>d DEF Detenido, Lectura, Reemplazo, Arranque
  <1>5. Custodia'
    BY <1>a, <1>b, <1>c, <1>d DEF Custodia, LibreEsEntera, Mutada, Sana, Entera, Reemplazo, Arranque
  <1>6. Avance'
    BY SMTT(30), <1>a, <1>b, <1>c, <1>d DEF Avance, Coherente, Copia, Sana, Entera, Parada, Lectura, Arranque, Publicacion
  <1>7. Reposicion'
    BY <1>a, <1>b, <1>c, <1>d DEF Reposicion, Entera, Parada, Reemplazo, Arranque
  <1>8. CopiaCoherente'
    BY <1>a, <1>b, <1>d DEF CopiaCoherente, Coherente, Verificable
  <1>9. CompletaTieneClave'
    BY <1>a, <1>b, <1>d DEF CompletaTieneClave
  <1>10. SirveEntero'
    BY <1>a, <1>b, <1>c, <1>d DEF SirveEntero, Sana, Entera
  <1>11. MutaConSuGeneracion'
    BY <1>a, <1>b, <1>c, <1>d DEF MutaConSuGeneracion, Mutada, Reemplazo, Arranque
  <1> QED BY <1>1, <1>2, <1>3, <1>4, <1>5, <1>6, <1>7, <1>8, <1>9, <1>10, <1>11

LEMMA PasoFinalizarDatos ==
  ASSUME InvInductivo, NEW m \in Mandos, FinalizarDatos(m)
  PROVE  InvInductivo'
  <1> USE DEF InvInductivo, Copiando, Restaurando, En, FinalizarDatos
  <1>0. TrasArrancar(m) = "completar"
    BY DEF TrasArrancar
  <1>a. /\ mandos' \in [Mandos -> Mando] /\ mandos'[m].fase = "completar"
        /\ mandos'[m].orden = mandos[m].orden /\ mandos'[m].copia = mandos[m].copia
        /\ mandos'[m].recupera = mandos[m].recupera
        /\ \A q \in Mandos \ {m} : mandos'[q] = mandos[q]
    BY <1>0, PasaTipo DEF TypeOK, Fase, Parada, Lectura, Reemplazo, Arranque, Publicacion, FinalizarDatos
  <1>b. /\ \A q \in Mandos \ {m} : mandos[q].fase \in {"libre", "cerrojo", "soltar_candado"}
        /\ mandos[m] \in Mando /\ cerrojo = m /\ Copiando(m) /\ ~mandos[m].recupera
        /\ mandos[m].copia \in Ids /\ copias[mandos[m].copia].estado # "completa"
        /\ Sana
    BY Demas DEF Posee, TypeOK, Papel, Custodia, Mutada, Parada, Lectura, Arranque, Publicacion, FinalizarDatos
  <1>c. /\ copias' \in [Ids -> Copia]
        /\ \A b \in Ids \ {mandos[m].copia} : copias'[b] = copias[b]
        /\ copias'[mandos[m].copia] = [copias[mandos[m].copia] EXCEPT !.estado = "datos"]
        /\ copias[mandos[m].copia] \in Copia
    BY <1>b DEF TypeOK, Instalado, Anota, Copia
  <1>d. \A b \in Ids : /\ copias'[b].estado = "completa" <=> copias[b].estado = "completa"
                       /\ copias[b].estado = "completa" => copias'[b] = copias[b]
    BY <1>b, <1>c DEF Copia
  <1>1. TypeOK'
    BY <1>a, <1>b, <1>c, <1>d DEF TypeOK
  <1>2. Posee'
    BY <1>a, <1>b, <1>c, <1>d DEF Posee
  <1>3. Papel'
    BY <1>a, <1>b, <1>d DEF Papel, Verificable, Lectura, Publicacion, Reemplazo, Arranque, Parada
  <1>4. Detenido'
    BY <1>a, <1>b, <1>c, <1>d DEF Detenido, Lectura, Reemplazo, Arranque
  <1>5. Custodia'
    BY <1>a, <1>b, <1>c, <1>d DEF Custodia, LibreEsEntera, Mutada, Sana, Entera, Reemplazo, Arranque
  <1>6. Avance'
    BY <1>a, <1>b, <1>c, <1>d DEF Avance, Coherente, Copia, Sana, Entera, Parada, Lectura, Arranque, Publicacion
  <1>7. Reposicion'
    BY <1>a, <1>b, <1>c, <1>d DEF Reposicion, Entera, Parada, Reemplazo, Arranque
  <1>8. CopiaCoherente'
    BY <1>a, <1>b, <1>d DEF CopiaCoherente, Coherente, Verificable
  <1>9. CompletaTieneClave'
    BY <1>a, <1>b, <1>d DEF CompletaTieneClave
  <1>10. SirveEntero'
    BY <1>a, <1>b, <1>c, <1>d DEF SirveEntero, Sana, Entera
  <1>11. MutaConSuGeneracion'
    BY <1>a, <1>b, <1>c, <1>d DEF MutaConSuGeneracion, Mutada, Reemplazo, Arranque
  <1> QED BY <1>1, <1>2, <1>3, <1>4, <1>5, <1>6, <1>7, <1>8, <1>9, <1>10, <1>11

LEMMA PasoCompletar ==
  ASSUME InvInductivo, NEW m \in Mandos, Completar(m)
  PROVE  InvInductivo'
  <1> USE DEF InvInductivo, Copiando, Restaurando, En, Completar
  <1>0. TrasArrancar(m) = "soltar"
    BY DEF TrasArrancar
  <1>a. /\ mandos' \in [Mandos -> Mando] /\ mandos'[m].fase = "soltar"
        /\ mandos'[m].orden = mandos[m].orden /\ mandos'[m].copia = mandos[m].copia
        /\ mandos'[m].recupera = mandos[m].recupera
        /\ \A q \in Mandos \ {m} : mandos'[q] = mandos[q]
    BY <1>0, PasaTipo DEF TypeOK, Fase, Parada, Lectura, Reemplazo, Arranque, Publicacion, Completar
  <1>b. /\ \A q \in Mandos \ {m} : mandos[q].fase \in {"libre", "cerrojo", "soltar_candado"}
        /\ mandos[m] \in Mando /\ cerrojo = m /\ Copiando(m) /\ ~mandos[m].recupera
        /\ mandos[m].copia \in Ids /\ copias[mandos[m].copia].estado # "completa"
        /\ Sana
    BY Demas DEF Posee, TypeOK, Papel, Custodia, Mutada, Parada, Lectura, Arranque, Publicacion, Completar
  <1>c. /\ copias' \in [Ids -> Copia]
        /\ \A b \in Ids \ {mandos[m].copia} : copias'[b] = copias[b]
        /\ copias'[mandos[m].copia] = [copias[mandos[m].copia] EXCEPT !.estado = "completa"]
        /\ copias[mandos[m].copia] \in Copia
    BY <1>b DEF TypeOK, Instalado, Anota, Copia
  <1>d. /\ copias'[mandos[m].copia].protegida = "final" /\ copias'[mandos[m].copia].estado = "completa"
        /\ Coherente(mandos[m].copia)
        /\ \A b \in Ids : copias[b].estado = "completa" => copias'[b] = copias[b]
    BY <1>b, <1>c DEF Copia, Avance, Publicacion
  <1>e. \A b \in Ids : /\ copias'[b].bd = copias[b].bd /\ copias'[b].logica = copias[b].logica
                       /\ copias'[b].storage = copias[b].storage
                       /\ copias'[b].atributos = copias[b].atributos
                       /\ copias'[b].nombre = copias[b].nombre
                       /\ copias'[b].protegida = copias[b].protegida
                       /\ copias'[b].estado = "completa" =>
                            copias[b].estado = "completa" \/ b = mandos[m].copia
    BY <1>b, <1>c DEF Copia
  <1>1. TypeOK'
    BY <1>a, <1>b, <1>c, <1>d, <1>e DEF TypeOK
  <1>2. Posee'
    BY <1>a, <1>b, <1>c, <1>d, <1>e DEF Posee
  <1>3. Papel'
    BY <1>a, <1>b, <1>d, <1>e DEF Papel, Verificable, Lectura, Publicacion, Reemplazo, Arranque, Parada
  <1>4. Detenido'
    BY <1>a, <1>b, <1>c, <1>d, <1>e DEF Detenido, Lectura, Reemplazo, Arranque
  <1>5. Custodia'
    BY <1>a, <1>b, <1>c, <1>d, <1>e DEF Custodia, LibreEsEntera, Mutada, Sana, Entera, Reemplazo, Arranque
  <1>6. Avance'
    BY SMTT(30), <1>a, <1>b, <1>c, <1>d, <1>e DEF Avance, Coherente, Copia, Sana, Entera, Parada, Lectura, Arranque, Publicacion
  <1>7. Reposicion'
    BY <1>a, <1>b, <1>c, <1>d, <1>e DEF Reposicion, Entera, Parada, Reemplazo, Arranque
  <1>8. CopiaCoherente'
    BY <1>a, <1>b, <1>d, <1>e DEF CopiaCoherente, Coherente, Verificable
  <1>9. CompletaTieneClave'
    BY <1>a, <1>b, <1>d, <1>e DEF CompletaTieneClave
  <1>10. SirveEntero'
    BY <1>a, <1>b, <1>c, <1>d, <1>e DEF SirveEntero, Sana, Entera
  <1>11. MutaConSuGeneracion'
    BY <1>a, <1>b, <1>c, <1>d, <1>e DEF MutaConSuGeneracion, Mutada, Reemplazo, Arranque
  <1> QED BY <1>1, <1>2, <1>3, <1>4, <1>5, <1>6, <1>7, <1>8, <1>9, <1>10, <1>11

LEMMA PasoPrepararCopia ==
  ASSUME InvInductivo, NEW m \in Mandos, PrepararCopia(m)
  PROVE  InvInductivo'
  <1> USE DEF InvInductivo, Copiando, Restaurando, En, PrepararCopia
  <1>a. /\ mandos' \in [Mandos -> Mando] /\ mandos'[m].fase = "cerrojo"
        /\ mandos'[m].orden = mandos[m].orden /\ mandos'[m].copia = mandos[m].copia
        /\ mandos'[m].recupera = mandos[m].recupera
        /\ \A q \in Mandos \ {m} : mandos'[q] = mandos[q]
    BY PasaTipo DEF TypeOK, Fase, Parada, Lectura, Reemplazo, Arranque, Publicacion, PrepararCopia
  <1>b. mandos[m] \in Mando /\ (mandos[m].recupera => mandos[m].fase \in Arranque \cup {"limpiar", "soltar", "soltar_candado"})
    BY DEF Papel, TypeOK
  <1>1. TypeOK'
    BY <1>a, <1>b DEF TypeOK
  <1>2. Posee'
    BY <1>a, <1>b DEF Posee
  <1>3. Papel'
    BY <1>a, <1>b DEF Papel, Verificable, Lectura, Publicacion, Reemplazo, Arranque, Parada
  <1>4. Detenido'
    BY <1>a, <1>b DEF Detenido, Lectura, Reemplazo, Arranque
  <1>5. Custodia'
    BY <1>a, <1>b DEF Custodia, LibreEsEntera, Mutada, Sana, Entera, Reemplazo, Arranque
  <1>6. Avance'
    BY <1>a, <1>b DEF Avance, Coherente, Parada, Lectura, Arranque, Publicacion
  <1>7. Reposicion'
    BY <1>a, <1>b DEF Reposicion, Entera, Parada, Reemplazo, Arranque
  <1>8. CopiaCoherente'
    BY <1>a, <1>b DEF CopiaCoherente, Coherente, Verificable
  <1>9. CompletaTieneClave'
    BY <1>a, <1>b DEF CompletaTieneClave
  <1>10. SirveEntero'
    BY <1>a, <1>b DEF SirveEntero, Sana, Entera
  <1>11. MutaConSuGeneracion'
    BY <1>a, <1>b DEF MutaConSuGeneracion, Mutada, Reemplazo, Arranque
  <1> QED BY <1>1, <1>2, <1>3, <1>4, <1>5, <1>6, <1>7, <1>8, <1>9, <1>10, <1>11

LEMMA PasoPrepararRestauracion ==
  ASSUME InvInductivo, NEW m \in Mandos, PrepararRestauracion(m)
  PROVE  InvInductivo'
  <1> USE DEF InvInductivo, Copiando, Restaurando, En, PrepararRestauracion
  <1>0. PICK b, d \in Ids :
          /\ Verificable(b) /\ SuGeneracion(b)
          /\ mandos' = [mandos EXCEPT ![m] = [Libre EXCEPT !.fase = "cerrojo", !.orden = "restaurar",
                                                           !.copia = b, !.defensa = d]]
    BY DEF PrepararRestauracion
  <1>a. /\ mandos' \in [Mandos -> Mando] /\ mandos'[m].fase = "cerrojo"
        /\ mandos'[m].orden = "restaurar" /\ mandos'[m].copia = b /\ ~mandos'[m].recupera
        /\ \A q \in Mandos \ {m} : mandos'[q] = mandos[q]
    BY <1>0 DEF TypeOK, Libre, Mando, Fase
  <1>1. TypeOK'
    BY <1>0, <1>a DEF TypeOK
  <1>2. Posee'
    BY <1>0, <1>a DEF Posee
  <1>3. Papel'
    BY <1>0, <1>a DEF Papel, Verificable, Lectura, Publicacion, Reemplazo, Arranque, Parada
  <1>4. Detenido'
    BY <1>0, <1>a DEF Detenido, Lectura, Reemplazo, Arranque
  <1>5. Custodia'
    BY <1>0, <1>a DEF Custodia, LibreEsEntera, Mutada, Sana, Entera, Reemplazo, Arranque
  <1>6. Avance'
    BY <1>0, <1>a DEF Avance, Coherente, Parada, Lectura, Arranque, Publicacion
  <1>7. Reposicion'
    BY <1>0, <1>a DEF Reposicion, Entera, Parada, Reemplazo, Arranque
  <1>8. CopiaCoherente'
    BY <1>0, <1>a DEF CopiaCoherente, Coherente, Verificable
  <1>9. CompletaTieneClave'
    BY <1>0, <1>a DEF CompletaTieneClave
  <1>10. SirveEntero'
    BY <1>0, <1>a DEF SirveEntero, Sana, Entera
  <1>11. MutaConSuGeneracion'
    BY <1>0, <1>a DEF MutaConSuGeneracion, Mutada, Reemplazo, Arranque
  <1> QED BY <1>1, <1>2, <1>3, <1>4, <1>5, <1>6, <1>7, <1>8, <1>9, <1>10, <1>11

LEMMA PasoTomarCerrojo ==
  ASSUME InvInductivo, NEW m \in Mandos, TomarCerrojo(m), cerrojo = Nada
  PROVE  InvInductivo'
  <1> USE DEF InvInductivo, Copiando, Restaurando, En, TomarCerrojo
  <1>a. /\ mandos' \in [Mandos -> Mando] /\ mandos'[m].fase = "candado"
        /\ mandos'[m].orden = mandos[m].orden /\ mandos'[m].copia = mandos[m].copia
        /\ mandos'[m].recupera = mandos[m].recupera
        /\ \A q \in Mandos \ {m} : mandos'[q] = mandos[q]
    BY PasaTipo DEF TypeOK, Fase, Parada, Lectura, Reemplazo, Arranque, Publicacion, TomarCerrojo
  <1>b. mandos[m] \in Mando /\ (mandos[m].recupera => mandos[m].fase \in Arranque \cup {"limpiar", "soltar", "soltar_candado"})
        /\ (cerrojo = Nada => \A q \in Mandos : mandos[q].fase \in {"libre", "cerrojo", "soltar_candado"})
    BY Titulares DEF Papel, TypeOK, Posee
  <1>1. TypeOK'
    BY <1>a, <1>b, Titulares DEF TypeOK
  <1>2. Posee'
    BY <1>a, <1>b, Titulares DEF Posee
  <1>3. Papel'
    BY <1>a, <1>b, Titulares DEF Papel, Verificable, Lectura, Publicacion, Reemplazo, Arranque, Parada
  <1>4. Detenido'
    BY <1>a, <1>b, Titulares DEF Detenido, Lectura, Reemplazo, Arranque
  <1>5. Custodia'
    BY <1>a, <1>b, Titulares DEF Custodia, LibreEsEntera, Mutada, Sana, Entera, Reemplazo, Arranque
  <1>6. Avance'
    BY <1>a, <1>b, Titulares DEF Avance, Coherente, Parada, Lectura, Arranque, Publicacion
  <1>7. Reposicion'
    BY <1>a, <1>b, Titulares DEF Reposicion, Entera, Parada, Reemplazo, Arranque
  <1>8. CopiaCoherente'
    BY <1>a, <1>b, Titulares DEF CopiaCoherente, Coherente, Verificable
  <1>9. CompletaTieneClave'
    BY <1>a, <1>b, Titulares DEF CompletaTieneClave
  <1>10. SirveEntero'
    BY <1>a, <1>b, Titulares DEF SirveEntero, Sana, Entera
  <1>11. MutaConSuGeneracion'
    BY <1>a, <1>b, Titulares DEF MutaConSuGeneracion, Mutada, Reemplazo, Arranque
  <1> QED BY <1>1, <1>2, <1>3, <1>4, <1>5, <1>6, <1>7, <1>8, <1>9, <1>10, <1>11

LEMMA PasoSinCerrojo ==
  ASSUME InvInductivo, NEW m \in Mandos, TomarCerrojo(m), cerrojo # Nada
  PROVE  InvInductivo'
  <1> USE DEF InvInductivo, Copiando, Restaurando, En, TomarCerrojo
  <1>a. /\ mandos' \in [Mandos -> Mando] /\ mandos'[m].fase = "libre"
        /\ mandos'[m].orden = "copiar" /\ ~mandos'[m].recupera
        /\ \A q \in Mandos \ {m} : mandos'[q] = mandos[q]
    BY AcabaTipo DEF TypeOK, TomarCerrojo
  <1>b. mandos[m] \in Mando /\ (mandos[m].recupera => mandos[m].fase \in Arranque \cup {"limpiar", "soltar", "soltar_candado"})
    BY DEF Papel, TypeOK
  <1>1. TypeOK'
    BY <1>a, <1>b DEF TypeOK
  <1>2. Posee'
    BY <1>a, <1>b DEF Posee
  <1>3. Papel'
    BY <1>a, <1>b DEF Papel, Verificable, Lectura, Publicacion, Reemplazo, Arranque, Parada
  <1>4. Detenido'
    BY <1>a, <1>b DEF Detenido, Lectura, Reemplazo, Arranque
  <1>5. Custodia'
    BY <1>a, <1>b DEF Custodia, LibreEsEntera, Mutada, Sana, Entera, Reemplazo, Arranque
  <1>6. Avance'
    BY <1>a, <1>b DEF Avance, Coherente, Parada, Lectura, Arranque, Publicacion
  <1>7. Reposicion'
    BY <1>a, <1>b DEF Reposicion, Entera, Parada, Reemplazo, Arranque
  <1>8. CopiaCoherente'
    BY <1>a, <1>b DEF CopiaCoherente, Coherente, Verificable
  <1>9. CompletaTieneClave'
    BY <1>a, <1>b DEF CompletaTieneClave
  <1>10. SirveEntero'
    BY <1>a, <1>b DEF SirveEntero, Sana, Entera
  <1>11. MutaConSuGeneracion'
    BY <1>a, <1>b DEF MutaConSuGeneracion, Mutada, Reemplazo, Arranque
  <1> QED BY <1>1, <1>2, <1>3, <1>4, <1>5, <1>6, <1>7, <1>8, <1>9, <1>10, <1>11

LEMMA PasoTomarCandado ==
  ASSUME InvInductivo, NEW m \in Mandos, TomarCandado(m), candado = Nada
  PROVE  InvInductivo'
  <1> USE DEF InvInductivo, Copiando, Restaurando, En, TomarCandado
  <1>a. /\ mandos' \in [Mandos -> Mando] 
        /\ Copiando(m) => mandos'[m].fase = "manifiesto"
        /\ ~Copiando(m) => mandos'[m].fase = "reverificar"
        /\ mandos'[m].orden = mandos[m].orden /\ mandos'[m].copia = mandos[m].copia
        /\ mandos'[m].recupera = mandos[m].recupera
        /\ \A q \in Mandos \ {m} : mandos'[q] = mandos[q]
    BY PasaTipo DEF TypeOK, Fase, Parada, Lectura, Reemplazo, Arranque, Publicacion, TomarCandado
  <1>b. /\ \A q \in Mandos \ {m} : mandos[q].fase \in {"libre", "cerrojo", "soltar_candado"}
        /\ mandos[m] \in Mando /\ cerrojo = m
    BY Demas DEF Posee, TypeOK, Reemplazo, Arranque, Parada, Lectura, Publicacion
  <1>1. TypeOK'
    BY <1>a, <1>b, Titulares DEF TypeOK
  <1>2. Posee'
    BY <1>a, <1>b, Titulares DEF Posee
  <1>3. Papel'
    BY <1>a, <1>b, Titulares DEF Papel, Mando, Verificable, Lectura, Publicacion, Reemplazo, Arranque, Parada
  <1>4. Detenido'
    BY <1>a, <1>b, Titulares DEF Detenido, Lectura, Reemplazo, Arranque
  <1>5. Custodia'
    BY <1>a, <1>b, Titulares DEF Custodia, LibreEsEntera, Mutada, Sana, Entera, Reemplazo, Arranque
  <1>6. Avance'
    BY <1>a, <1>b, Titulares DEF Avance, Coherente, Parada, Lectura, Arranque, Publicacion
  <1>7. Reposicion'
    BY <1>a, <1>b, Titulares DEF Reposicion, Entera, Parada, Reemplazo, Arranque
  <1>8. CopiaCoherente'
    BY <1>a, <1>b, Titulares DEF CopiaCoherente, Coherente, Verificable
  <1>9. CompletaTieneClave'
    BY <1>a, <1>b, Titulares DEF CompletaTieneClave
  <1>10. SirveEntero'
    BY <1>a, <1>b, Titulares DEF SirveEntero, Sana, Entera
  <1>11. MutaConSuGeneracion'
    BY <1>a, <1>b, Titulares DEF MutaConSuGeneracion, Mutada, Reemplazo, Arranque
  <1> QED BY <1>1, <1>2, <1>3, <1>4, <1>5, <1>6, <1>7, <1>8, <1>9, <1>10, <1>11

LEMMA PasoSinCandadoCopia ==
  ASSUME InvInductivo, NEW m \in Mandos, TomarCandado(m), candado # Nada, Copiando(m)
  PROVE  InvInductivo'
  <1> USE DEF InvInductivo, Copiando, Restaurando, En, TomarCandado
  <1>a. /\ mandos' \in [Mandos -> Mando] /\ mandos'[m].fase = "limpiar"
        /\ mandos'[m].orden = mandos[m].orden /\ mandos'[m].copia = mandos[m].copia
        /\ mandos'[m].recupera = mandos[m].recupera
        /\ \A q \in Mandos \ {m} : mandos'[q] = mandos[q]
    BY PasaTipo DEF TypeOK, Fase, Parada, Lectura, Reemplazo, Arranque, Publicacion, TomarCandado
  <1>b. /\ \A q \in Mandos \ {m} : mandos[q].fase \in {"libre", "cerrojo", "soltar_candado"}
        /\ mandos[m] \in Mando /\ cerrojo = m
    BY Demas DEF Posee, TypeOK, Reemplazo, Arranque, Parada, Lectura, Publicacion
  <1>1. TypeOK'
    BY <1>a, <1>b DEF TypeOK
  <1>2. Posee'
    BY <1>a, <1>b DEF Posee
  <1>3. Papel'
    BY <1>a, <1>b DEF Papel, Verificable, Lectura, Publicacion, Reemplazo, Arranque, Parada
  <1>4. Detenido'
    BY <1>a, <1>b DEF Detenido, Lectura, Reemplazo, Arranque
  <1>5. Custodia'
    BY <1>a, <1>b DEF Custodia, LibreEsEntera, Mutada, Sana, Entera, Reemplazo, Arranque
  <1>6. Avance'
    BY <1>a, <1>b DEF Avance, Coherente, Parada, Lectura, Arranque, Publicacion
  <1>7. Reposicion'
    BY <1>a, <1>b DEF Reposicion, Entera, Parada, Reemplazo, Arranque
  <1>8. CopiaCoherente'
    BY <1>a, <1>b DEF CopiaCoherente, Coherente, Verificable
  <1>9. CompletaTieneClave'
    BY <1>a, <1>b DEF CompletaTieneClave
  <1>10. SirveEntero'
    BY <1>a, <1>b DEF SirveEntero, Sana, Entera
  <1>11. MutaConSuGeneracion'
    BY <1>a, <1>b DEF MutaConSuGeneracion, Mutada, Reemplazo, Arranque
  <1> QED BY <1>1, <1>2, <1>3, <1>4, <1>5, <1>6, <1>7, <1>8, <1>9, <1>10, <1>11

LEMMA PasoSinCandadoRestauracion ==
  ASSUME InvInductivo, NEW m \in Mandos, TomarCandado(m), candado # Nada, ~Copiando(m)
  PROVE  InvInductivo'
  <1> USE DEF InvInductivo, Copiando, Restaurando, En, TomarCandado
  <1>a. /\ mandos' \in [Mandos -> Mando] /\ mandos'[m].fase = "libre"
        /\ mandos'[m].orden = "copiar" /\ ~mandos'[m].recupera
        /\ \A q \in Mandos \ {m} : mandos'[q] = mandos[q]
    BY AcabaTipo DEF TypeOK, TomarCandado
  <1>b. /\ \A q \in Mandos \ {m} : mandos[q].fase \in {"libre", "cerrojo", "soltar_candado"}
        /\ mandos[m] \in Mando /\ cerrojo = m
    BY Demas DEF Posee, TypeOK, Reemplazo, Arranque, Parada, Lectura, Publicacion
  <1>1. TypeOK'
    BY <1>a, <1>b, Titulares DEF TypeOK
  <1>2. Posee'
    BY <1>a, <1>b, Titulares DEF Posee
  <1>3. Papel'
    BY <1>a, <1>b, Titulares DEF Papel, Verificable, Lectura, Publicacion, Reemplazo, Arranque, Parada
  <1>4. Detenido'
    BY <1>a, <1>b, Titulares DEF Detenido, Lectura, Reemplazo, Arranque
  <1>5. Custodia'
    BY <1>a, <1>b, Titulares DEF Custodia, LibreEsEntera, Mutada, Sana, Entera, Reemplazo, Arranque
  <1>6. Avance'
    BY <1>a, <1>b, Titulares DEF Avance, Coherente, Parada, Lectura, Arranque, Publicacion
  <1>7. Reposicion'
    BY <1>a, <1>b, Titulares DEF Reposicion, Entera, Parada, Reemplazo, Arranque
  <1>8. CopiaCoherente'
    BY <1>a, <1>b, Titulares DEF CopiaCoherente, Coherente, Verificable
  <1>9. CompletaTieneClave'
    BY <1>a, <1>b, Titulares DEF CompletaTieneClave
  <1>10. SirveEntero'
    BY <1>a, <1>b, Titulares DEF SirveEntero, Sana, Entera
  <1>11. MutaConSuGeneracion'
    BY <1>a, <1>b, Titulares DEF MutaConSuGeneracion, Mutada, Reemplazo, Arranque
  <1> QED BY <1>1, <1>2, <1>3, <1>4, <1>5, <1>6, <1>7, <1>8, <1>9, <1>10, <1>11

LEMMA PasoAquietar ==
  ASSUME InvInductivo, NEW m \in Mandos, Aquietar(m)
  PROVE  InvInductivo'
  <1> USE DEF InvInductivo, Copiando, Restaurando, En, Aquietar
  <1>a. /\ mandos' \in [Mandos -> Mando] /\ mandos'[m].fase = "libre"
        /\ mandos'[m].orden = "copiar" /\ ~mandos'[m].recupera
        /\ \A q \in Mandos \ {m} : mandos'[q] = mandos[q]
    BY AcabaTipo DEF TypeOK, Aquietar
  <1>b. /\ \A q \in Mandos \ {m} : mandos[q].fase \in {"libre", "cerrojo", "soltar_candado"}
        /\ mandos[m] \in Mando /\ cerrojo = m
    BY Demas DEF Posee, TypeOK, Reemplazo, Arranque, Parada, Lectura, Publicacion
  <1>1. TypeOK'
    BY <1>a, <1>b, Titulares DEF TypeOK
  <1>2. Posee'
    BY <1>a, <1>b, Titulares DEF Posee
  <1>3. Papel'
    BY <1>a, <1>b, Titulares DEF Papel, Verificable, Lectura, Publicacion, Reemplazo, Arranque, Parada
  <1>4. Detenido'
    BY <1>a, <1>b, Titulares DEF Detenido, Lectura, Reemplazo, Arranque
  <1>5. Custodia'
    BY <1>a, <1>b, Titulares DEF Custodia, LibreEsEntera, Mutada, Sana, Entera, Reemplazo, Arranque
  <1>6. Avance'
    BY <1>a, <1>b, Titulares DEF Avance, Coherente, Parada, Lectura, Arranque, Publicacion
  <1>7. Reposicion'
    BY <1>a, <1>b, Titulares DEF Reposicion, Entera, Parada, Reemplazo, Arranque
  <1>8. CopiaCoherente'
    BY <1>a, <1>b, Titulares DEF CopiaCoherente, Coherente, Verificable
  <1>9. CompletaTieneClave'
    BY <1>a, <1>b, Titulares DEF CompletaTieneClave
  <1>10. SirveEntero'
    BY <1>a, <1>b DEF SirveEntero, Sana, Entera
  <1>11. MutaConSuGeneracion'
    BY <1>a, <1>b, Titulares DEF MutaConSuGeneracion, Mutada, Reemplazo, Arranque
  <1> QED BY <1>1, <1>2, <1>3, <1>4, <1>5, <1>6, <1>7, <1>8, <1>9, <1>10, <1>11

LEMMA PasoSoltarCandado ==
  ASSUME InvInductivo, NEW m \in Mandos, SoltarCandado(m)
  PROVE  InvInductivo'
  <1> USE DEF InvInductivo, Copiando, Restaurando, En, SoltarCandado
  <1>a. /\ mandos' \in [Mandos -> Mando] /\ mandos'[m].fase = "libre"
        /\ mandos'[m].orden = "copiar" /\ ~mandos'[m].recupera
        /\ \A q \in Mandos \ {m} : mandos'[q] = mandos[q]
    BY AcabaTipo DEF TypeOK, SoltarCandado
  <1>b. mandos[m] \in Mando /\ candado = m
    BY DEF TypeOK, Posee
  <1>1. TypeOK'
    BY <1>a, <1>b, Titulares DEF TypeOK
  <1>2. Posee'
    BY <1>a, <1>b, Titulares DEF Posee
  <1>3. Papel'
    BY <1>a, <1>b, Titulares DEF Papel, Verificable, Lectura, Publicacion, Reemplazo, Arranque, Parada
  <1>4. Detenido'
    BY <1>a, <1>b, Titulares DEF Detenido, Lectura, Reemplazo, Arranque
  <1>5. Custodia'
    BY <1>a, <1>b, Titulares DEF Custodia, LibreEsEntera, Mutada, Sana, Entera, Reemplazo, Arranque
  <1>6. Avance'
    BY <1>a, <1>b, Titulares DEF Avance, Coherente, Parada, Lectura, Arranque, Publicacion
  <1>7. Reposicion'
    BY <1>a, <1>b, Titulares DEF Reposicion, Entera, Parada, Reemplazo, Arranque
  <1>8. CopiaCoherente'
    BY <1>a, <1>b, Titulares DEF CopiaCoherente, Coherente, Verificable
  <1>9. CompletaTieneClave'
    BY <1>a, <1>b, Titulares DEF CompletaTieneClave
  <1>10. SirveEntero'
    BY <1>a, <1>b, Titulares DEF SirveEntero, Sana, Entera
  <1>11. MutaConSuGeneracion'
    BY <1>a, <1>b, Titulares DEF MutaConSuGeneracion, Mutada, Reemplazo, Arranque
  <1> QED BY <1>1, <1>2, <1>3, <1>4, <1>5, <1>6, <1>7, <1>8, <1>9, <1>10, <1>11

LEMMA PasoMorir ==
  ASSUME InvInductivo, NEW m \in Mandos, Morir(m)
  PROVE  InvInductivo'
  <1> USE DEF InvInductivo, Copiando, Restaurando, En, Morir
  <1>a. /\ mandos' \in [Mandos -> Mando] /\ mandos'[m].fase = "libre"
        /\ mandos'[m].orden = "copiar" /\ ~mandos'[m].recupera
        /\ \A q \in Mandos \ {m} : mandos'[q] = mandos[q]
    BY AcabaTipo DEF TypeOK, Morir
  <1>1. TypeOK'
    BY <1>a, Titulares DEF TypeOK
  <1>2. Posee'
    BY <1>a, Titulares DEF Posee
  <1>3. Papel'
    BY <1>a, Titulares DEF Papel, Verificable, Lectura, Publicacion, Reemplazo, Arranque, Parada
  <1>4. Detenido'
    BY <1>a, Titulares DEF Detenido, Lectura, Reemplazo, Arranque
  <1>5. Custodia'
    BY <1>a, Titulares DEF Custodia, LibreEsEntera, Mutada, Sana, Entera, Reemplazo, Arranque
  <1>6. Avance'
    BY <1>a, Titulares DEF Avance, Coherente, Parada, Lectura, Arranque, Publicacion
  <1>7. Reposicion'
    BY <1>a, Titulares DEF Reposicion, Entera, Parada, Reemplazo, Arranque
  <1>8. CopiaCoherente'
    BY <1>a, Titulares DEF CopiaCoherente, Coherente, Verificable
  <1>9. CompletaTieneClave'
    BY <1>a, Titulares DEF CompletaTieneClave
  <1>10. SirveEntero'
    BY <1>a, Titulares DEF SirveEntero, Sana, Entera
  <1>11. MutaConSuGeneracion'
    BY <1>a, Titulares DEF MutaConSuGeneracion, Mutada, Reemplazo, Arranque
  <1> QED BY <1>1, <1>2, <1>3, <1>4, <1>5, <1>6, <1>7, <1>8, <1>9, <1>10, <1>11

LEMMA PasoSoltarCerrojo ==
  ASSUME InvInductivo, NEW m \in Mandos, SoltarCerrojo(m), candado = m
  PROVE  InvInductivo'
  <1> USE DEF InvInductivo, Copiando, Restaurando, En, SoltarCerrojo
  <1>a. /\ mandos' \in [Mandos -> Mando] /\ mandos'[m].fase = "soltar_candado"
        /\ mandos'[m].orden = mandos[m].orden /\ mandos'[m].copia = mandos[m].copia
        /\ mandos'[m].recupera = mandos[m].recupera
        /\ \A q \in Mandos \ {m} : mandos'[q] = mandos[q]
    BY PasaTipo DEF TypeOK, Fase, Parada, Lectura, Reemplazo, Arranque, Publicacion, SoltarCerrojo
  <1>b. /\ \A q \in Mandos \ {m} : mandos[q].fase \in {"libre", "cerrojo", "soltar_candado"}
        /\ mandos[m] \in Mando /\ cerrojo = m
    BY Demas DEF Posee, TypeOK, Reemplazo, Arranque, Parada, Lectura, Publicacion
  <1>c. ~Mutada(m) /\ Sana
    BY <1>b DEF Mutada, Custodia, Reemplazo, Arranque
  <1>1. TypeOK'
    BY <1>a, <1>b, <1>c, Titulares DEF TypeOK
  <1>2. Posee'
    BY <1>a, <1>b, <1>c, Titulares DEF Posee
  <1>3. Papel'
    BY <1>a, <1>b, <1>c, Titulares DEF Papel, Verificable, Lectura, Publicacion, Reemplazo, Arranque, Parada
  <1>4. Detenido'
    BY <1>a, <1>b, <1>c, Titulares DEF Detenido, Lectura, Reemplazo, Arranque
  <1>5. Custodia'
    BY <1>a, <1>b, <1>c, Titulares DEF Custodia, LibreEsEntera, Mutada, Sana, Entera, Reemplazo, Arranque
  <1>6. Avance'
    BY <1>a, <1>b, <1>c, Titulares DEF Avance, Coherente, Parada, Lectura, Arranque, Publicacion
  <1>7. Reposicion'
    BY <1>a, <1>b, <1>c, Titulares DEF Reposicion, Entera, Parada, Reemplazo, Arranque
  <1>8. CopiaCoherente'
    BY <1>a, <1>b, <1>c, Titulares DEF CopiaCoherente, Coherente, Verificable
  <1>9. CompletaTieneClave'
    BY <1>a, <1>b, <1>c, Titulares DEF CompletaTieneClave
  <1>10. SirveEntero'
    BY <1>a, <1>b, <1>c, Titulares DEF SirveEntero, Sana, Entera
  <1>11. MutaConSuGeneracion'
    BY <1>a, <1>b, <1>c, Titulares DEF MutaConSuGeneracion, Mutada, Reemplazo, Arranque
  <1> QED BY <1>1, <1>2, <1>3, <1>4, <1>5, <1>6, <1>7, <1>8, <1>9, <1>10, <1>11

LEMMA PasoSoltarSinCandado ==
  ASSUME InvInductivo, NEW m \in Mandos, SoltarCerrojo(m), candado # m
  PROVE  InvInductivo'
  <1> USE DEF InvInductivo, Copiando, Restaurando, En, SoltarCerrojo
  <1>a. /\ mandos' \in [Mandos -> Mando] /\ mandos'[m].fase = "libre"
        /\ mandos'[m].orden = "copiar" /\ ~mandos'[m].recupera
        /\ \A q \in Mandos \ {m} : mandos'[q] = mandos[q]
    BY AcabaTipo DEF TypeOK, SoltarCerrojo
  <1>b. /\ \A q \in Mandos \ {m} : mandos[q].fase \in {"libre", "cerrojo", "soltar_candado"}
        /\ mandos[m] \in Mando /\ cerrojo = m
    BY Demas DEF Posee, TypeOK, Reemplazo, Arranque, Parada, Lectura, Publicacion
  <1>c. ~Mutada(m) /\ Sana
    BY <1>b DEF Mutada, Custodia, Reemplazo, Arranque
  <1>1. TypeOK'
    BY <1>a, <1>b, <1>c, Titulares DEF TypeOK
  <1>2. Posee'
    BY <1>a, <1>b, <1>c, Titulares DEF Posee
  <1>3. Papel'
    BY <1>a, <1>b, <1>c, Titulares DEF Papel, Verificable, Lectura, Publicacion, Reemplazo, Arranque, Parada
  <1>4. Detenido'
    BY <1>a, <1>b, <1>c, Titulares DEF Detenido, Lectura, Reemplazo, Arranque
  <1>5. Custodia'
    BY <1>a, <1>b, <1>c, Titulares DEF Custodia, LibreEsEntera, Mutada, Sana, Entera, Reemplazo, Arranque
  <1>6. Avance'
    BY <1>a, <1>b, <1>c, Titulares DEF Avance, Coherente, Parada, Lectura, Arranque, Publicacion
  <1>7. Reposicion'
    BY <1>a, <1>b, <1>c, Titulares DEF Reposicion, Entera, Parada, Reemplazo, Arranque
  <1>8. CopiaCoherente'
    BY <1>a, <1>b, <1>c, Titulares DEF CopiaCoherente, Coherente, Verificable
  <1>9. CompletaTieneClave'
    BY <1>a, <1>b, <1>c, Titulares DEF CompletaTieneClave
  <1>10. SirveEntero'
    BY <1>a, <1>b, <1>c, Titulares DEF SirveEntero, Sana, Entera
  <1>11. MutaConSuGeneracion'
    BY <1>a, <1>b, <1>c, Titulares DEF MutaConSuGeneracion, Mutada, Reemplazo, Arranque
  <1> QED BY <1>1, <1>2, <1>3, <1>4, <1>5, <1>6, <1>7, <1>8, <1>9, <1>10, <1>11

LEMMA PasoFallarEnMantenimiento ==
  ASSUME InvInductivo, NEW m \in Mandos, FallarEnMantenimiento(m)
  PROVE  InvInductivo'
  <1> USE DEF InvInductivo, Copiando, Restaurando, En, FallarEnMantenimiento
  <1>a. /\ mandos' \in [Mandos -> Mando] /\ mandos'[m].fase = "arrancar_bd"
        /\ mandos'[m].orden = mandos[m].orden /\ mandos'[m].copia = mandos[m].copia
        /\ mandos'[m].recupera
        /\ \A q \in Mandos \ {m} : mandos'[q] = mandos[q]
    BY DEF TypeOK, Mando, Fase, Arranque, Recuperar, FallarEnMantenimiento
  <1>b. /\ \A q \in Mandos \ {m} : mandos[q].fase \in {"libre", "cerrojo", "soltar_candado"}
        /\ mandos[m] \in Mando /\ cerrojo = m
    BY Demas DEF Posee, TypeOK, Reemplazo, Arranque, Parada, Lectura, Publicacion
  <1>c. ~Mutada(m) /\ ~Mutada(m)'
    BY <1>a, <1>b DEF Mutada, Reemplazo, Arranque, Parada, Lectura
  <1>1. TypeOK'
    BY <1>a, <1>b, <1>c DEF TypeOK
  <1>2. Posee'
    BY <1>a, <1>b, <1>c DEF Posee, Parada, Lectura, Arranque
  <1>3. Papel'
    BY <1>a, <1>b, <1>c DEF Papel, Verificable, Lectura, Publicacion, Reemplazo, Arranque, Parada
  <1>4. Detenido'
    BY <1>a, <1>b, <1>c DEF Detenido, Lectura, Reemplazo, Arranque
  <1>5. Custodia'
    BY <1>a, <1>b, <1>c DEF Custodia, LibreEsEntera, Mutada, Sana, Entera, Reemplazo, Arranque
  <1>6. Avance'
    BY <1>a, <1>b, <1>c DEF Avance, Coherente, Parada, Lectura, Arranque, Publicacion
  <1>7. Reposicion'
    BY <1>a, <1>b, <1>c DEF Reposicion, Entera, Parada, Reemplazo, Arranque
  <1>8. CopiaCoherente'
    BY <1>a, <1>b, <1>c DEF CopiaCoherente, Coherente, Verificable
  <1>9. CompletaTieneClave'
    BY <1>a, <1>b, <1>c DEF CompletaTieneClave
  <1>10. SirveEntero'
    BY <1>a, <1>b, <1>c DEF SirveEntero, Sana, Entera
  <1>11. MutaConSuGeneracion'
    BY <1>a, <1>b, <1>c DEF MutaConSuGeneracion, Mutada, Reemplazo, Arranque
  <1> QED BY <1>1, <1>2, <1>3, <1>4, <1>5, <1>6, <1>7, <1>8, <1>9, <1>10, <1>11

LEMMA PasoFallarRecuperacionCopia ==
  ASSUME InvInductivo, NEW m \in Mandos, FallarRecuperacion(m), Copiando(m)
  PROVE  InvInductivo'
  <1> USE DEF InvInductivo, Copiando, Restaurando, En, FallarRecuperacion
  <1>a. /\ mandos' \in [Mandos -> Mando] /\ mandos'[m].fase = "limpiar"
        /\ mandos'[m].orden = mandos[m].orden /\ mandos'[m].copia = mandos[m].copia
        /\ mandos'[m].recupera = mandos[m].recupera
        /\ \A q \in Mandos \ {m} : mandos'[q] = mandos[q]
    BY PasaTipo DEF TypeOK, Fase, Parada, Lectura, Reemplazo, Arranque, Publicacion, FallarRecuperacion
  <1>b. /\ \A q \in Mandos \ {m} : mandos[q].fase \in {"libre", "cerrojo", "soltar_candado"}
        /\ mandos[m] \in Mando /\ cerrojo = m
    BY Demas DEF Posee, TypeOK, Reemplazo, Arranque, Parada, Lectura, Publicacion
  <1>1. TypeOK'
    BY <1>a, <1>b DEF TypeOK
  <1>2. Posee'
    BY <1>a, <1>b DEF Posee
  <1>3. Papel'
    BY <1>a, <1>b DEF Papel, Verificable, Lectura, Publicacion, Reemplazo, Arranque, Parada
  <1>4. Detenido'
    BY <1>a, <1>b DEF Detenido, Lectura, Reemplazo, Arranque
  <1>5. Custodia'
    BY <1>a, <1>b DEF Custodia, LibreEsEntera, Mutada, Sana, Entera, Reemplazo, Arranque
  <1>6. Avance'
    BY <1>a, <1>b DEF Avance, Coherente, Parada, Lectura, Arranque, Publicacion
  <1>7. Reposicion'
    BY <1>a, <1>b DEF Reposicion, Entera, Parada, Reemplazo, Arranque
  <1>8. CopiaCoherente'
    BY <1>a, <1>b DEF CopiaCoherente, Coherente, Verificable
  <1>9. CompletaTieneClave'
    BY <1>a, <1>b DEF CompletaTieneClave
  <1>10. SirveEntero'
    BY <1>a, <1>b DEF SirveEntero, Sana, Entera
  <1>11. MutaConSuGeneracion'
    BY <1>a, <1>b DEF MutaConSuGeneracion, Mutada, Reemplazo, Arranque
  <1> QED BY <1>1, <1>2, <1>3, <1>4, <1>5, <1>6, <1>7, <1>8, <1>9, <1>10, <1>11

LEMMA PasoFallarRecuperacion ==
  ASSUME InvInductivo, NEW m \in Mandos, FallarRecuperacion(m), ~Copiando(m)
  PROVE  InvInductivo'
  <1> USE DEF InvInductivo, Copiando, Restaurando, En, FallarRecuperacion, Arranque
  <1>a. /\ mandos' \in [Mandos -> Mando] /\ mandos'[m].fase = "libre"
        /\ mandos'[m].orden = "copiar" /\ ~mandos'[m].recupera
        /\ \A q \in Mandos \ {m} : mandos'[q] = mandos[q]
    BY AcabaTipo DEF TypeOK, FallarRecuperacion
  <1>b. /\ \A q \in Mandos \ {m} : mandos[q].fase \in {"libre", "cerrojo", "soltar_candado"}
        /\ mandos[m] \in Mando /\ cerrojo = m
    BY Demas DEF Posee, TypeOK, Reemplazo, Arranque, Parada, Lectura, Publicacion
  <1>1. TypeOK'
    BY <1>a, <1>b, Titulares DEF TypeOK
  <1>2. Posee'
    BY <1>a, <1>b, Titulares DEF Posee
  <1>3. Papel'
    BY <1>a, <1>b, Titulares DEF Papel, Verificable, Lectura, Publicacion, Reemplazo, Arranque, Parada
  <1>4. Detenido'
    BY <1>a, <1>b, Titulares DEF Detenido, Lectura, Reemplazo, Arranque
  <1>5. Custodia'
    BY <1>a, <1>b, Titulares DEF Custodia, LibreEsEntera, Mutada, Sana, Entera, Reemplazo, Arranque
  <1>6. Avance'
    BY <1>a, <1>b, Titulares DEF Avance, Coherente, Parada, Lectura, Arranque, Publicacion
  <1>7. Reposicion'
    BY <1>a, <1>b, Titulares DEF Reposicion, Entera, Parada, Reemplazo, Arranque
  <1>8. CopiaCoherente'
    BY <1>a, <1>b, Titulares DEF CopiaCoherente, Coherente, Verificable
  <1>9. CompletaTieneClave'
    BY <1>a, <1>b, Titulares DEF CompletaTieneClave
  <1>10. SirveEntero'
    BY <1>a, <1>b, Titulares DEF SirveEntero, Sana, Entera
  <1>11. MutaConSuGeneracion'
    BY <1>a, <1>b, Titulares DEF MutaConSuGeneracion, Mutada, Reemplazo, Arranque
  <1> QED BY <1>1, <1>2, <1>3, <1>4, <1>5, <1>6, <1>7, <1>8, <1>9, <1>10, <1>11

LEMMA PasoFallarCopia ==
  ASSUME InvInductivo, NEW m \in Mandos, FallarSinMas(m), mandos[m].fase # "reverificar"
  PROVE  InvInductivo'
  <1> USE DEF InvInductivo, Copiando, Restaurando, En, FallarSinMas, Publicacion
  <1>a. /\ mandos' \in [Mandos -> Mando] /\ mandos'[m].fase = "limpiar"
        /\ mandos'[m].orden = mandos[m].orden /\ mandos'[m].copia = mandos[m].copia
        /\ mandos'[m].recupera = mandos[m].recupera
        /\ \A q \in Mandos \ {m} : mandos'[q] = mandos[q]
    BY PasaTipo DEF TypeOK, Fase, Parada, Lectura, Reemplazo, Arranque, Publicacion, FallarSinMas
  <1>b. /\ \A q \in Mandos \ {m} : mandos[q].fase \in {"libre", "cerrojo", "soltar_candado"}
        /\ mandos[m] \in Mando /\ cerrojo = m
    BY Demas DEF Posee, TypeOK, Reemplazo, Arranque, Parada, Lectura, Publicacion
  <1>1. TypeOK'
    BY <1>a, <1>b DEF TypeOK
  <1>2. Posee'
    BY <1>a, <1>b DEF Posee
  <1>3. Papel'
    BY <1>a, <1>b DEF Papel, Verificable, Lectura, Publicacion, Reemplazo, Arranque, Parada
  <1>4. Detenido'
    BY <1>a, <1>b DEF Detenido, Lectura, Reemplazo, Arranque
  <1>5. Custodia'
    BY <1>a, <1>b DEF Custodia, LibreEsEntera, Mutada, Sana, Entera, Reemplazo, Arranque
  <1>6. Avance'
    BY <1>a, <1>b DEF Avance, Coherente, Parada, Lectura, Arranque, Publicacion
  <1>7. Reposicion'
    BY <1>a, <1>b DEF Reposicion, Entera, Parada, Reemplazo, Arranque
  <1>8. CopiaCoherente'
    BY <1>a, <1>b DEF CopiaCoherente, Coherente, Verificable
  <1>9. CompletaTieneClave'
    BY <1>a, <1>b DEF CompletaTieneClave
  <1>10. SirveEntero'
    BY <1>a, <1>b DEF SirveEntero, Sana, Entera
  <1>11. MutaConSuGeneracion'
    BY <1>a, <1>b DEF MutaConSuGeneracion, Mutada, Reemplazo, Arranque
  <1> QED BY <1>1, <1>2, <1>3, <1>4, <1>5, <1>6, <1>7, <1>8, <1>9, <1>10, <1>11

LEMMA PasoFallarReverificar ==
  ASSUME InvInductivo, NEW m \in Mandos, FallarSinMas(m), mandos[m].fase = "reverificar"
  PROVE  InvInductivo'
  <1> USE DEF InvInductivo, Copiando, Restaurando, En, FallarSinMas, Publicacion
  <1>a. /\ mandos' \in [Mandos -> Mando] /\ mandos'[m].fase = "soltar"
        /\ mandos'[m].orden = mandos[m].orden /\ mandos'[m].copia = mandos[m].copia
        /\ mandos'[m].recupera = mandos[m].recupera
        /\ \A q \in Mandos \ {m} : mandos'[q] = mandos[q]
    BY PasaTipo DEF TypeOK, Fase, Parada, Lectura, Reemplazo, Arranque, Publicacion, FallarSinMas
  <1>b. /\ \A q \in Mandos \ {m} : mandos[q].fase \in {"libre", "cerrojo", "soltar_candado"}
        /\ mandos[m] \in Mando /\ cerrojo = m
    BY Demas DEF Posee, TypeOK, Reemplazo, Arranque, Parada, Lectura, Publicacion
  <1>1. TypeOK'
    BY <1>a, <1>b DEF TypeOK
  <1>2. Posee'
    BY <1>a, <1>b DEF Posee
  <1>3. Papel'
    BY <1>a, <1>b DEF Papel, Verificable, Lectura, Publicacion, Reemplazo, Arranque, Parada
  <1>4. Detenido'
    BY <1>a, <1>b DEF Detenido, Lectura, Reemplazo, Arranque
  <1>5. Custodia'
    BY <1>a, <1>b DEF Custodia, LibreEsEntera, Mutada, Sana, Entera, Reemplazo, Arranque
  <1>6. Avance'
    BY <1>a, <1>b DEF Avance, Coherente, Parada, Lectura, Arranque, Publicacion
  <1>7. Reposicion'
    BY <1>a, <1>b DEF Reposicion, Entera, Parada, Reemplazo, Arranque
  <1>8. CopiaCoherente'
    BY <1>a, <1>b DEF CopiaCoherente, Coherente, Verificable
  <1>9. CompletaTieneClave'
    BY <1>a, <1>b DEF CompletaTieneClave
  <1>10. SirveEntero'
    BY <1>a, <1>b DEF SirveEntero, Sana, Entera
  <1>11. MutaConSuGeneracion'
    BY <1>a, <1>b DEF MutaConSuGeneracion, Mutada, Reemplazo, Arranque
  <1> QED BY <1>1, <1>2, <1>3, <1>4, <1>5, <1>6, <1>7, <1>8, <1>9, <1>10, <1>11

LEMMA PasoLimpiarNada ==
  ASSUME InvInductivo, NEW m \in Mandos, Limpiar(m), copias' = copias
  PROVE  InvInductivo'
  <1> USE DEF InvInductivo, Copiando, Restaurando, En, Limpiar
  <1>a. /\ mandos' \in [Mandos -> Mando] /\ mandos'[m].fase = "soltar"
        /\ mandos'[m].orden = mandos[m].orden /\ mandos'[m].copia = mandos[m].copia
        /\ mandos'[m].recupera = mandos[m].recupera
        /\ \A q \in Mandos \ {m} : mandos'[q] = mandos[q]
    BY PasaTipo DEF TypeOK, Fase, Parada, Lectura, Reemplazo, Arranque, Publicacion, Limpiar
  <1>b. /\ \A q \in Mandos \ {m} : mandos[q].fase \in {"libre", "cerrojo", "soltar_candado"}
        /\ mandos[m] \in Mando /\ cerrojo = m
    BY Demas DEF Posee, TypeOK, Reemplazo, Arranque, Parada, Lectura, Publicacion
  <1>1. TypeOK'
    BY <1>a, <1>b DEF TypeOK
  <1>2. Posee'
    BY <1>a, <1>b DEF Posee
  <1>3. Papel'
    BY <1>a, <1>b DEF Papel, Verificable, Lectura, Publicacion, Reemplazo, Arranque, Parada
  <1>4. Detenido'
    BY <1>a, <1>b DEF Detenido, Lectura, Reemplazo, Arranque
  <1>5. Custodia'
    BY <1>a, <1>b DEF Custodia, LibreEsEntera, Mutada, Sana, Entera, Reemplazo, Arranque
  <1>6. Avance'
    BY <1>a, <1>b DEF Avance, Coherente, Parada, Lectura, Arranque, Publicacion
  <1>7. Reposicion'
    BY <1>a, <1>b DEF Reposicion, Entera, Parada, Reemplazo, Arranque
  <1>8. CopiaCoherente'
    BY <1>a, <1>b DEF CopiaCoherente, Coherente, Verificable
  <1>9. CompletaTieneClave'
    BY <1>a, <1>b DEF CompletaTieneClave
  <1>10. SirveEntero'
    BY <1>a, <1>b DEF SirveEntero, Sana, Entera
  <1>11. MutaConSuGeneracion'
    BY <1>a, <1>b DEF MutaConSuGeneracion, Mutada, Reemplazo, Arranque
  <1> QED BY <1>1, <1>2, <1>3, <1>4, <1>5, <1>6, <1>7, <1>8, <1>9, <1>10, <1>11

LEMMA PasoLimpiar ==
  ASSUME InvInductivo, NEW m \in Mandos, Limpiar(m), copias' # copias
  PROVE  InvInductivo'
  <1> USE DEF InvInductivo, Copiando, Restaurando, En, Limpiar
  <1>a. /\ mandos' \in [Mandos -> Mando] /\ mandos'[m].fase = "soltar"
        /\ mandos'[m].orden = mandos[m].orden /\ mandos'[m].copia = mandos[m].copia
        /\ mandos'[m].recupera = mandos[m].recupera
        /\ \A q \in Mandos \ {m} : mandos'[q] = mandos[q]
    BY PasaTipo DEF TypeOK, Fase, Parada, Lectura, Reemplazo, Arranque, Publicacion, Limpiar
  <1>b. /\ \A q \in Mandos \ {m} : mandos[q].fase \in {"libre", "cerrojo", "soltar_candado"}
        /\ mandos[m] \in Mando /\ cerrojo = m
    BY Demas DEF Posee, TypeOK, Reemplazo, Arranque, Parada, Lectura, Publicacion
  <1>c. /\ mandos[m].copia \in Ids /\ copias[mandos[m].copia].estado # "completa"
        /\ Anota(m, "protegida", "no")
    BY <1>b DEF Limpiar, Mando
  <1>d. copias' \in [Ids -> Copia]
    BY <1>c DEF TypeOK, Anota, Copia
  <1>e. \A b \in Ids : /\ copias'[b].estado = copias[b].estado
                       /\ copias[b].estado = "completa" => copias'[b] = copias[b]
    BY <1>c DEF TypeOK, Anota, Copia
  <1>1. TypeOK'
    BY <1>a, <1>b, <1>d, <1>e DEF TypeOK
  <1>2. Posee'
    BY <1>a, <1>b, <1>d, <1>e DEF Posee
  <1>3. Papel'
    BY <1>a, <1>b, <1>d, <1>e DEF Papel, Verificable, Lectura, Publicacion, Reemplazo, Arranque, Parada
  <1>4. Detenido'
    BY <1>a, <1>b, <1>d, <1>e DEF Detenido, Lectura, Reemplazo, Arranque
  <1>5. Custodia'
    BY <1>a, <1>b, <1>d, <1>e DEF Custodia, LibreEsEntera, Mutada, Sana, Entera, Reemplazo, Arranque
  <1>6. Avance'
    BY <1>a, <1>b, <1>d, <1>e DEF Avance, Coherente, Parada, Lectura, Arranque, Publicacion
  <1>7. Reposicion'
    BY <1>a, <1>b, <1>d, <1>e DEF Reposicion, Entera, Parada, Reemplazo, Arranque
  <1>8. CopiaCoherente'
    BY <1>a, <1>b, <1>d, <1>e DEF CopiaCoherente, Coherente, Verificable
  <1>9. CompletaTieneClave'
    BY <1>a, <1>b, <1>d, <1>e DEF CompletaTieneClave
  <1>10. SirveEntero'
    BY <1>a, <1>b, <1>d, <1>e DEF SirveEntero, Sana, Entera
  <1>11. MutaConSuGeneracion'
    BY <1>a, <1>b, <1>d, <1>e DEF MutaConSuGeneracion, Mutada, Reemplazo, Arranque
  <1> QED BY <1>1, <1>2, <1>3, <1>4, <1>5, <1>6, <1>7, <1>8, <1>9, <1>10, <1>11

LEMMA PasoEscribirManifiesto ==
  ASSUME InvInductivo, NEW m \in Mandos, EscribirManifiesto(m)
  PROVE  InvInductivo'
  <1> USE DEF InvInductivo, Copiando, Restaurando, En
  <1>0. PICK b \in Ids, n \in Copia :
          /\ copias[b].estado = "ausente" /\ copias' = [copias EXCEPT ![b] = n]
          /\ n.estado = "incompleta" /\ n.nombre \in {Nada, gen}
          /\ mandos' = [mandos EXCEPT ![m] = [@ EXCEPT !.fase = "parar_godel", !.copia = b]]
          /\ mandos[m].fase = "manifiesto"
          /\ UNCHANGED <<cerrojo, candado, registro, gen, ultima, corre, instalado>>
    <2>1. PICK b \in Ids :
            /\ copias[b] = Ausente
            /\ copias' = [copias EXCEPT ![b] =
                 [Ausente EXCEPT !.estado = "incompleta", !.protegida = "incompleta",
                                 !.nombre = IF registro THEN gen ELSE Nada]]
            /\ mandos' = [mandos EXCEPT ![m] = [@ EXCEPT !.fase = "parar_godel", !.copia = b]]
      BY DEF EscribirManifiesto
    <2> DEFINE n == [Ausente EXCEPT !.estado = "incompleta", !.protegida = "incompleta",
                                    !.nombre = IF registro THEN gen ELSE Nada]
    <2>2. n \in Copia /\ n.estado = "incompleta" /\ n.nombre \in {Nada, gen}
      BY DEF TypeOK, Copia, Ausente, Parte
    <2>3. Ausente.estado = "ausente"
      BY DEF Ausente
    <2>4. copias' = [copias EXCEPT ![b] = n]
      BY <2>1
    <2> HIDE DEF n
    <2> QED BY <2>1, <2>2, <2>3, <2>4 DEF EscribirManifiesto
  <1>a. /\ mandos' \in [Mandos -> Mando] /\ mandos'[m].fase = "parar_godel"
        /\ mandos'[m].orden = mandos[m].orden /\ mandos'[m].copia = b
        /\ mandos'[m].recupera = mandos[m].recupera
        /\ \A q \in Mandos \ {m} : mandos'[q] = mandos[q]
    BY <1>0 DEF TypeOK, Mando, Fase, Parada
  <1>b. /\ \A q \in Mandos \ {m} : mandos[q].fase \in {"libre", "cerrojo", "soltar_candado"}
        /\ mandos[m] \in Mando /\ cerrojo = m
    BY <1>0, Demas DEF Posee, TypeOK, Reemplazo, Arranque, Parada, Lectura, Publicacion
  <1>c. Copiando(m) /\ ~mandos[m].recupera
    BY <1>0 DEF Papel, Arranque
  <1>d. /\ copias' \in [Ids -> Copia]
        /\ copias'[b].estado = "incompleta" /\ copias'[b].nombre \in {Nada, gen}
        /\ \A d \in Ids \ {b} : copias'[d] = copias[d]
    BY <1>0 DEF TypeOK
  <1>e. \A d \in Ids : /\ copias'[d].estado = "completa" <=> copias[d].estado = "completa"
                       /\ copias[d].estado = "completa" => copias'[d] = copias[d]
    BY <1>0, <1>d
  <1>1. TypeOK'
    BY <1>0, <1>a, <1>b, <1>c, <1>d, <1>e DEF TypeOK
  <1>2. Posee'
    BY <1>0, <1>a, <1>b, <1>c, <1>d, <1>e DEF Posee
  <1>3. Papel'
    BY <1>0, <1>a, <1>b, <1>c, <1>d, <1>e DEF Papel, Verificable, Lectura, Publicacion, Reemplazo, Arranque, Parada
  <1>4. Detenido'
    BY <1>0, <1>a, <1>b, <1>c, <1>d, <1>e DEF Detenido, Lectura, Reemplazo, Arranque
  <1>5. Custodia'
    BY <1>0, <1>a, <1>b, <1>c, <1>d, <1>e DEF Custodia, LibreEsEntera, Mutada, Sana, Entera, Reemplazo, Arranque
  <1>6. Avance'
    BY <1>0, <1>a, <1>b, <1>c, <1>d, <1>e DEF Avance, Coherente, Parada, Lectura, Arranque, Publicacion
  <1>7. Reposicion'
    BY <1>0, <1>a, <1>b, <1>c, <1>d, <1>e DEF Reposicion, Entera, Parada, Reemplazo, Arranque
  <1>8. CopiaCoherente'
    BY <1>0, <1>a, <1>b, <1>c, <1>d, <1>e DEF CopiaCoherente, Coherente, Verificable
  <1>9. CompletaTieneClave'
    BY <1>0, <1>a, <1>b, <1>c, <1>d, <1>e DEF CompletaTieneClave
  <1>10. SirveEntero'
    BY <1>0, <1>a, <1>b, <1>c, <1>d, <1>e DEF SirveEntero, Sana, Entera
  <1>11. MutaConSuGeneracion'
    BY <1>0, <1>a, <1>b, <1>c, <1>d, <1>e DEF MutaConSuGeneracion, Mutada, Reemplazo, Arranque
  <1> QED BY <1>1, <1>2, <1>3, <1>4, <1>5, <1>6, <1>7, <1>8, <1>9, <1>10, <1>11

LEMMA PasoVaciarBd ==
  ASSUME InvInductivo, NEW m \in Mandos, Vaciar(m), mandos[m].fase = "vaciar_bd"
  PROVE  InvInductivo'
  <1> USE DEF InvInductivo, Copiando, Restaurando, En, Vaciar
  <1>a. /\ mandos' \in [Mandos -> Mando] /\ mandos'[m].fase = "extraer_bd"
        /\ mandos'[m].orden = mandos[m].orden /\ mandos'[m].copia = mandos[m].copia
        /\ mandos'[m].recupera = mandos[m].recupera
        /\ \A q \in Mandos \ {m} : mandos'[q] = mandos[q]
    BY PasaTipo DEF TypeOK, Fase, Parada, Lectura, Reemplazo, Arranque, Publicacion, Vaciar
  <1>b. /\ \A q \in Mandos \ {m} : mandos[q].fase \in {"libre", "cerrojo", "soltar_candado"}
        /\ mandos[m] \in Mando /\ cerrojo = m /\ Restaurando(m) /\ ~mandos[m].recupera
        /\ mandos[m].copia \in Ids /\ Verificable(mandos[m].copia)
        /\ Coherente(mandos[m].copia) /\ "godel" \notin corre /\ "resto" \notin corre
    BY Demas DEF Posee, TypeOK, Papel, Detenido, CopiaCoherente, Reemplazo, Arranque, Vaciar
  <1>c. /\ instalado' \in Instalado /\ instalado'.bd = Nada
        /\ instalado'.storage = instalado.storage /\ instalado'.atributos = instalado.atributos /\ instalado'.clave = instalado.clave
    BY <1>b DEF TypeOK, Instalado, Copia, Parte
  <1>1. TypeOK'
    BY <1>a, <1>b, <1>c DEF TypeOK
  <1>2. Posee'
    BY <1>a, <1>b, <1>c DEF Posee
  <1>3. Papel'
    BY <1>a, <1>b, <1>c DEF Papel, Verificable, Lectura, Publicacion, Reemplazo, Arranque, Parada
  <1>4. Detenido'
    BY <1>a, <1>b, <1>c DEF Detenido, Lectura, Reemplazo, Arranque
  <1>5. Custodia'
    BY <1>a, <1>b, <1>c, Titulares DEF Custodia, LibreEsEntera, Mutada, Sana, Entera, Reemplazo, Arranque
  <1>6. Avance'
    BY SMTT(30), <1>a, <1>b, <1>c DEF Avance, Coherente, Parada, Lectura, Arranque, Publicacion
  <1>7. Reposicion'
    BY <1>a, <1>b, <1>c DEF Reposicion, Entera, Coherente, Parada, Reemplazo, Arranque
  <1>8. CopiaCoherente'
    BY <1>a, <1>b, <1>c DEF CopiaCoherente, Coherente, Verificable
  <1>9. CompletaTieneClave'
    BY <1>a, <1>b, <1>c DEF CompletaTieneClave
  <1>10. SirveEntero'
    BY <1>a, <1>b, <1>c DEF SirveEntero, Sana, Entera
  <1>11. MutaConSuGeneracion'
    BY <1>a, <1>b, <1>c DEF MutaConSuGeneracion, Mutada, Reemplazo, Arranque
  <1> QED BY <1>1, <1>2, <1>3, <1>4, <1>5, <1>6, <1>7, <1>8, <1>9, <1>10, <1>11

LEMMA PasoVaciarStorage ==
  ASSUME InvInductivo, NEW m \in Mandos, Vaciar(m), mandos[m].fase = "vaciar_storage"
  PROVE  InvInductivo'
  <1> USE DEF InvInductivo, Copiando, Restaurando, En, Vaciar
  <1>a. /\ mandos' \in [Mandos -> Mando] /\ mandos'[m].fase = "extraer_storage"
        /\ mandos'[m].orden = mandos[m].orden /\ mandos'[m].copia = mandos[m].copia
        /\ mandos'[m].recupera = mandos[m].recupera
        /\ \A q \in Mandos \ {m} : mandos'[q] = mandos[q]
    BY PasaTipo DEF TypeOK, Fase, Parada, Lectura, Reemplazo, Arranque, Publicacion, Vaciar
  <1>b. /\ \A q \in Mandos \ {m} : mandos[q].fase \in {"libre", "cerrojo", "soltar_candado"}
        /\ mandos[m] \in Mando /\ cerrojo = m /\ Restaurando(m) /\ ~mandos[m].recupera
        /\ mandos[m].copia \in Ids /\ Verificable(mandos[m].copia)
        /\ Coherente(mandos[m].copia) /\ "godel" \notin corre /\ "resto" \notin corre
    BY Demas DEF Posee, TypeOK, Papel, Detenido, CopiaCoherente, Reemplazo, Arranque, Vaciar
  <1>c. /\ instalado' \in Instalado /\ instalado'.storage = Nada /\ instalado'.atributos = Nada
        /\ instalado'.bd = instalado.bd /\ instalado'.clave = instalado.clave
    BY <1>b DEF TypeOK, Instalado, Copia, Parte
  <1>1. TypeOK'
    BY <1>a, <1>b, <1>c DEF TypeOK
  <1>2. Posee'
    BY <1>a, <1>b, <1>c DEF Posee
  <1>3. Papel'
    BY <1>a, <1>b, <1>c DEF Papel, Verificable, Lectura, Publicacion, Reemplazo, Arranque, Parada
  <1>4. Detenido'
    BY <1>a, <1>b, <1>c DEF Detenido, Lectura, Reemplazo, Arranque
  <1>5. Custodia'
    BY <1>a, <1>b, <1>c, Titulares DEF Custodia, LibreEsEntera, Mutada, Sana, Entera, Reemplazo, Arranque
  <1>6. Avance'
    BY SMTT(30), <1>a, <1>b, <1>c DEF Avance, Coherente, Parada, Lectura, Arranque, Publicacion
  <1>7. Reposicion'
    BY <1>a, <1>b, <1>c DEF Reposicion, Entera, Coherente, Parada, Reemplazo, Arranque
  <1>8. CopiaCoherente'
    BY <1>a, <1>b, <1>c DEF CopiaCoherente, Coherente, Verificable
  <1>9. CompletaTieneClave'
    BY <1>a, <1>b, <1>c DEF CompletaTieneClave
  <1>10. SirveEntero'
    BY <1>a, <1>b, <1>c DEF SirveEntero, Sana, Entera
  <1>11. MutaConSuGeneracion'
    BY <1>a, <1>b, <1>c DEF MutaConSuGeneracion, Mutada, Reemplazo, Arranque
  <1> QED BY <1>1, <1>2, <1>3, <1>4, <1>5, <1>6, <1>7, <1>8, <1>9, <1>10, <1>11

LEMMA PasoConfig ==
  ASSUME InvInductivo, NEW m \in Mandos, Vaciar(m), mandos[m].fase = "config"
  PROVE  InvInductivo'
  <1> USE DEF InvInductivo, Copiando, Restaurando, En, Vaciar
  <1>a. /\ mandos' \in [Mandos -> Mando] /\ mandos'[m].fase = "poner_clave"
        /\ mandos'[m].orden = mandos[m].orden /\ mandos'[m].copia = mandos[m].copia
        /\ mandos'[m].recupera = mandos[m].recupera
        /\ \A q \in Mandos \ {m} : mandos'[q] = mandos[q]
    BY PasaTipo DEF TypeOK, Fase, Parada, Lectura, Reemplazo, Arranque, Publicacion, Vaciar
  <1>b. /\ \A q \in Mandos \ {m} : mandos[q].fase \in {"libre", "cerrojo", "soltar_candado"}
        /\ mandos[m] \in Mando /\ cerrojo = m /\ Restaurando(m) /\ ~mandos[m].recupera
        /\ mandos[m].copia \in Ids /\ Verificable(mandos[m].copia)
        /\ Coherente(mandos[m].copia) /\ "godel" \notin corre /\ "resto" \notin corre
    BY Demas DEF Posee, TypeOK, Papel, Detenido, CopiaCoherente, Reemplazo, Arranque, Vaciar
  <1>c. /\ instalado' \in Instalado /\ instalado'.clave = FALSE
        /\ instalado'.bd = instalado.bd /\ instalado'.storage = instalado.storage /\ instalado'.atributos = instalado.atributos
    BY <1>b DEF TypeOK, Instalado, Copia, Parte
  <1>1. TypeOK'
    BY <1>a, <1>b, <1>c DEF TypeOK
  <1>2. Posee'
    BY <1>a, <1>b, <1>c DEF Posee
  <1>3. Papel'
    BY <1>a, <1>b, <1>c DEF Papel, Verificable, Lectura, Publicacion, Reemplazo, Arranque, Parada
  <1>4. Detenido'
    BY <1>a, <1>b, <1>c DEF Detenido, Lectura, Reemplazo, Arranque
  <1>5. Custodia'
    BY <1>a, <1>b, <1>c, Titulares DEF Custodia, LibreEsEntera, Mutada, Sana, Entera, Reemplazo, Arranque
  <1>6. Avance'
    BY <1>a, <1>b, <1>c DEF Avance, Coherente, Parada, Lectura, Arranque, Publicacion
  <1>7. Reposicion'
    BY <1>a, <1>b, <1>c DEF Reposicion, Entera, Coherente, Parada, Reemplazo, Arranque
  <1>8. CopiaCoherente'
    BY <1>a, <1>b, <1>c DEF CopiaCoherente, Coherente, Verificable
  <1>9. CompletaTieneClave'
    BY <1>a, <1>b, <1>c DEF CompletaTieneClave
  <1>10. SirveEntero'
    BY <1>a, <1>b, <1>c DEF SirveEntero, Sana, Entera
  <1>11. MutaConSuGeneracion'
    BY <1>a, <1>b, <1>c DEF MutaConSuGeneracion, Mutada, Reemplazo, Arranque
  <1> QED BY <1>1, <1>2, <1>3, <1>4, <1>5, <1>6, <1>7, <1>8, <1>9, <1>10, <1>11

LEMMA PasoExtraerBd ==
  ASSUME InvInductivo, NEW m \in Mandos, Extraer(m), mandos[m].fase = "extraer_bd"
  PROVE  InvInductivo'
  <1> USE DEF InvInductivo, Copiando, Restaurando, En, Extraer
  <1>a. /\ mandos' \in [Mandos -> Mando] /\ mandos'[m].fase = "vaciar_storage"
        /\ mandos'[m].orden = mandos[m].orden /\ mandos'[m].copia = mandos[m].copia
        /\ mandos'[m].recupera = mandos[m].recupera
        /\ \A q \in Mandos \ {m} : mandos'[q] = mandos[q]
    BY PasaTipo DEF TypeOK, Fase, Parada, Lectura, Reemplazo, Arranque, Publicacion, Extraer
  <1>b. /\ \A q \in Mandos \ {m} : mandos[q].fase \in {"libre", "cerrojo", "soltar_candado"}
        /\ mandos[m] \in Mando /\ cerrojo = m /\ Restaurando(m) /\ ~mandos[m].recupera
        /\ mandos[m].copia \in Ids /\ Verificable(mandos[m].copia)
        /\ Coherente(mandos[m].copia) /\ "godel" \notin corre /\ "resto" \notin corre
    BY Demas DEF Posee, TypeOK, Papel, Detenido, CopiaCoherente, Reemplazo, Arranque, Extraer
  <1>c. /\ instalado' \in Instalado /\ instalado'.bd = copias[mandos[m].copia].bd
        /\ instalado'.storage = instalado.storage /\ instalado'.atributos = instalado.atributos /\ instalado'.clave = instalado.clave
    BY <1>b DEF TypeOK, Instalado, Copia, Parte
  <1>1. TypeOK'
    BY <1>a, <1>b, <1>c DEF TypeOK
  <1>2. Posee'
    BY <1>a, <1>b, <1>c DEF Posee
  <1>3. Papel'
    BY <1>a, <1>b, <1>c DEF Papel, Verificable, Lectura, Publicacion, Reemplazo, Arranque, Parada
  <1>4. Detenido'
    BY <1>a, <1>b, <1>c DEF Detenido, Lectura, Reemplazo, Arranque
  <1>5. Custodia'
    BY <1>a, <1>b, <1>c, Titulares DEF Custodia, LibreEsEntera, Mutada, Sana, Entera, Reemplazo, Arranque
  <1>6. Avance'
    BY <1>a, <1>b, <1>c DEF Avance, Coherente, Parada, Lectura, Arranque, Publicacion
  <1>7. Reposicion'
    BY <1>a, <1>b, <1>c DEF Reposicion, Entera, Coherente, Parada, Reemplazo, Arranque
  <1>8. CopiaCoherente'
    BY <1>a, <1>b, <1>c DEF CopiaCoherente, Coherente, Verificable
  <1>9. CompletaTieneClave'
    BY <1>a, <1>b, <1>c DEF CompletaTieneClave
  <1>10. SirveEntero'
    BY <1>a, <1>b, <1>c DEF SirveEntero, Sana, Entera
  <1>11. MutaConSuGeneracion'
    BY <1>a, <1>b, <1>c DEF MutaConSuGeneracion, Mutada, Reemplazo, Arranque
  <1> QED BY <1>1, <1>2, <1>3, <1>4, <1>5, <1>6, <1>7, <1>8, <1>9, <1>10, <1>11

LEMMA PasoExtraerStorage ==
  ASSUME InvInductivo, NEW m \in Mandos, Extraer(m), mandos[m].fase = "extraer_storage"
  PROVE  InvInductivo'
  <1> USE DEF InvInductivo, Copiando, Restaurando, En, Extraer
  <1>a. /\ mandos' \in [Mandos -> Mando] /\ mandos'[m].fase = "config"
        /\ mandos'[m].orden = mandos[m].orden /\ mandos'[m].copia = mandos[m].copia
        /\ mandos'[m].recupera = mandos[m].recupera
        /\ \A q \in Mandos \ {m} : mandos'[q] = mandos[q]
    BY PasaTipo DEF TypeOK, Fase, Parada, Lectura, Reemplazo, Arranque, Publicacion, Extraer
  <1>b. /\ \A q \in Mandos \ {m} : mandos[q].fase \in {"libre", "cerrojo", "soltar_candado"}
        /\ mandos[m] \in Mando /\ cerrojo = m /\ Restaurando(m) /\ ~mandos[m].recupera
        /\ mandos[m].copia \in Ids /\ Verificable(mandos[m].copia)
        /\ Coherente(mandos[m].copia) /\ "godel" \notin corre /\ "resto" \notin corre
    BY Demas DEF Posee, TypeOK, Papel, Detenido, CopiaCoherente, Reemplazo, Arranque, Extraer
  <1>c. /\ instalado' \in Instalado /\ instalado'.storage = copias[mandos[m].copia].storage
        /\ instalado'.bd = instalado.bd /\ instalado'.atributos = instalado.atributos /\ instalado'.clave = instalado.clave
    BY <1>b DEF TypeOK, Instalado, Copia, Parte
  <1>1. TypeOK'
    BY <1>a, <1>b, <1>c DEF TypeOK
  <1>2. Posee'
    BY <1>a, <1>b, <1>c DEF Posee
  <1>3. Papel'
    BY <1>a, <1>b, <1>c DEF Papel, Verificable, Lectura, Publicacion, Reemplazo, Arranque, Parada
  <1>4. Detenido'
    BY <1>a, <1>b, <1>c DEF Detenido, Lectura, Reemplazo, Arranque
  <1>5. Custodia'
    BY <1>a, <1>b, <1>c, Titulares DEF Custodia, LibreEsEntera, Mutada, Sana, Entera, Reemplazo, Arranque
  <1>6. Avance'
    BY <1>a, <1>b, <1>c DEF Avance, Coherente, Parada, Lectura, Arranque, Publicacion
  <1>7. Reposicion'
    BY <1>a, <1>b, <1>c DEF Reposicion, Entera, Coherente, Parada, Reemplazo, Arranque
  <1>8. CopiaCoherente'
    BY <1>a, <1>b, <1>c DEF CopiaCoherente, Coherente, Verificable
  <1>9. CompletaTieneClave'
    BY <1>a, <1>b, <1>c DEF CompletaTieneClave
  <1>10. SirveEntero'
    BY <1>a, <1>b, <1>c DEF SirveEntero, Sana, Entera
  <1>11. MutaConSuGeneracion'
    BY <1>a, <1>b, <1>c DEF MutaConSuGeneracion, Mutada, Reemplazo, Arranque
  <1> QED BY <1>1, <1>2, <1>3, <1>4, <1>5, <1>6, <1>7, <1>8, <1>9, <1>10, <1>11

LEMMA PasoPonerClave ==
  ASSUME InvInductivo, NEW m \in Mandos, Extraer(m), mandos[m].fase = "poner_clave"
  PROVE  InvInductivo'
  <1> USE DEF InvInductivo, Copiando, Restaurando, En, Extraer
  <1>a. /\ mandos' \in [Mandos -> Mando] /\ mandos'[m].fase = "reponer"
        /\ mandos'[m].orden = mandos[m].orden /\ mandos'[m].copia = mandos[m].copia
        /\ mandos'[m].recupera = mandos[m].recupera
        /\ \A q \in Mandos \ {m} : mandos'[q] = mandos[q]
    BY PasaTipo DEF TypeOK, Fase, Parada, Lectura, Reemplazo, Arranque, Publicacion, Extraer
  <1>b. /\ \A q \in Mandos \ {m} : mandos[q].fase \in {"libre", "cerrojo", "soltar_candado"}
        /\ mandos[m] \in Mando /\ cerrojo = m /\ Restaurando(m) /\ ~mandos[m].recupera
        /\ mandos[m].copia \in Ids /\ Verificable(mandos[m].copia)
        /\ Coherente(mandos[m].copia) /\ "godel" \notin corre /\ "resto" \notin corre
    BY Demas DEF Posee, TypeOK, Papel, Detenido, CopiaCoherente, Reemplazo, Arranque, Extraer
  <1>c. /\ instalado' \in Instalado /\ instalado'.clave = TRUE
        /\ instalado'.bd = instalado.bd /\ instalado'.storage = instalado.storage /\ instalado'.atributos = instalado.atributos
    BY <1>b DEF TypeOK, Instalado, Copia, Parte
  <1>1. TypeOK'
    BY <1>a, <1>b, <1>c DEF TypeOK
  <1>2. Posee'
    BY <1>a, <1>b, <1>c DEF Posee
  <1>3. Papel'
    BY <1>a, <1>b, <1>c DEF Papel, Verificable, Lectura, Publicacion, Reemplazo, Arranque, Parada
  <1>4. Detenido'
    BY <1>a, <1>b, <1>c DEF Detenido, Lectura, Reemplazo, Arranque
  <1>5. Custodia'
    BY <1>a, <1>b, <1>c, Titulares DEF Custodia, LibreEsEntera, Mutada, Sana, Entera, Reemplazo, Arranque
  <1>6. Avance'
    BY SMTT(30), <1>a, <1>b, <1>c DEF Avance, Coherente, Parada, Lectura, Arranque, Publicacion
  <1>7. Reposicion'
    BY <1>a, <1>b, <1>c DEF Reposicion, Entera, Coherente, Parada, Reemplazo, Arranque
  <1>8. CopiaCoherente'
    BY <1>a, <1>b, <1>c DEF CopiaCoherente, Coherente, Verificable
  <1>9. CompletaTieneClave'
    BY <1>a, <1>b, <1>c DEF CompletaTieneClave
  <1>10. SirveEntero'
    BY <1>a, <1>b, <1>c DEF SirveEntero, Sana, Entera
  <1>11. MutaConSuGeneracion'
    BY <1>a, <1>b, <1>c DEF MutaConSuGeneracion, Mutada, Reemplazo, Arranque
  <1> QED BY <1>1, <1>2, <1>3, <1>4, <1>5, <1>6, <1>7, <1>8, <1>9, <1>10, <1>11

LEMMA PasoReponer ==
  ASSUME InvInductivo, NEW m \in Mandos, Extraer(m), mandos[m].fase = "reponer"
  PROVE  InvInductivo'
  <1> USE DEF InvInductivo, Copiando, Restaurando, En, Extraer
  <1>a. /\ mandos' \in [Mandos -> Mando] /\ mandos'[m].fase = "arrancar_bd"
        /\ mandos'[m].orden = mandos[m].orden /\ mandos'[m].copia = mandos[m].copia
        /\ mandos'[m].recupera = mandos[m].recupera
        /\ \A q \in Mandos \ {m} : mandos'[q] = mandos[q]
    BY PasaTipo DEF TypeOK, Fase, Parada, Lectura, Reemplazo, Arranque, Publicacion, Extraer
  <1>b. /\ \A q \in Mandos \ {m} : mandos[q].fase \in {"libre", "cerrojo", "soltar_candado"}
        /\ mandos[m] \in Mando /\ cerrojo = m /\ Restaurando(m) /\ ~mandos[m].recupera
        /\ mandos[m].copia \in Ids /\ Verificable(mandos[m].copia)
        /\ Coherente(mandos[m].copia) /\ "godel" \notin corre /\ "resto" \notin corre
    BY Demas DEF Posee, TypeOK, Papel, Detenido, CopiaCoherente, Reemplazo, Arranque, Extraer
  <1>c. /\ instalado' \in Instalado /\ instalado'.atributos = copias[mandos[m].copia].atributos
        /\ instalado'.bd = instalado.bd /\ instalado'.storage = instalado.storage /\ instalado'.clave = instalado.clave
    BY <1>b DEF TypeOK, Instalado, Copia, Parte
  <1>1. TypeOK'
    BY <1>a, <1>b, <1>c DEF TypeOK
  <1>2. Posee'
    BY <1>a, <1>b, <1>c DEF Posee
  <1>3. Papel'
    BY <1>a, <1>b, <1>c DEF Papel, Verificable, Lectura, Publicacion, Reemplazo, Arranque, Parada
  <1>4. Detenido'
    BY <1>a, <1>b, <1>c DEF Detenido, Lectura, Reemplazo, Arranque
  <1>5. Custodia'
    BY <1>a, <1>b, <1>c, Titulares DEF Custodia, LibreEsEntera, Mutada, Sana, Entera, Reemplazo, Arranque
  <1>6. Avance'
    BY <1>a, <1>b, <1>c DEF Avance, Coherente, Parada, Lectura, Arranque, Publicacion
  <1>7. Reposicion'
    BY <1>a, <1>b, <1>c DEF Reposicion, Entera, Coherente, Parada, Reemplazo, Arranque
  <1>8. CopiaCoherente'
    BY <1>a, <1>b, <1>c DEF CopiaCoherente, Coherente, Verificable
  <1>9. CompletaTieneClave'
    BY <1>a, <1>b, <1>c DEF CompletaTieneClave
  <1>10. SirveEntero'
    BY <1>a, <1>b, <1>c DEF SirveEntero, Sana, Entera
  <1>11. MutaConSuGeneracion'
    BY <1>a, <1>b, <1>c DEF MutaConSuGeneracion, Mutada, Reemplazo, Arranque
  <1> QED BY <1>1, <1>2, <1>3, <1>4, <1>5, <1>6, <1>7, <1>8, <1>9, <1>10, <1>11

LEMMA PasoEscribir ==
  ASSUME InvInductivo, Escribir
  PROVE  InvInductivo'
  <1> USE DEF InvInductivo, Copiando, Restaurando, En, Escribir
  <1>a. /\ instalado' \in Instalado /\ instalado'.clave = instalado.clave
        /\ instalado'.bd # Nada /\ instalado'.storage = instalado'.bd
        /\ instalado'.atributos = instalado'.bd /\ instalado'.bd.gen = instalado.bd.gen
        /\ ultima' \in 0..MaxVersion
    <2> DEFINE v == [n |-> ultima + 1, gen |-> instalado.bd.gen]
    <2>1. v \in Version /\ v # Nada /\ ultima + 1 \in 0..MaxVersion /\ v.gen = instalado.bd.gen
      BY CopiasAssumption DEF TypeOK, Version, Instalado, Parte, Cambiar, Sana, Entera, SirveEntero, Servicios
    <2>2. instalado' = [instalado EXCEPT !.bd = v, !.storage = v, !.atributos = v]
      BY DEF Cambiar
    <2> HIDE DEF v
    <2> QED BY <2>1, <2>2 DEF Cambiar, TypeOK, Instalado, Parte
  <1>b. Sana => Sana'
    BY <1>a DEF Sana, Entera
  <1>c. \A m \in Mandos : ~mandos[m].recupera =>
          mandos[m].fase \notin Lectura \cup Reemplazo \cup {"parar_bd", "arrancar_bd", "arrancar_resto"}
    BY DEF Detenido
  <1>1. TypeOK'
    BY <1>a, <1>b, <1>c DEF TypeOK
  <1>2. Posee'
    BY <1>a, <1>b, <1>c DEF Posee
  <1>3. Papel'
    BY <1>a, <1>b, <1>c DEF Papel, Verificable, Lectura, Publicacion, Reemplazo, Arranque, Parada
  <1>4. Detenido'
    BY <1>a, <1>b, <1>c DEF Detenido, Lectura, Reemplazo, Arranque
  <1>5. Custodia'
    BY <1>a, <1>b, <1>c DEF Custodia, LibreEsEntera, Mutada, Reemplazo, Arranque
  <1>6. Avance'
    BY <1>a, <1>b, <1>c DEF Avance, Coherente, Parada, Lectura, Arranque, Publicacion
  <1>7. Reposicion'
    BY <1>a, <1>b, <1>c DEF Reposicion, Entera, Parada, Reemplazo, Arranque
  <1>8. CopiaCoherente'
    BY <1>a, <1>b, <1>c DEF CopiaCoherente, Coherente, Verificable
  <1>9. CompletaTieneClave'
    BY <1>a, <1>b, <1>c DEF CompletaTieneClave
  <1>10. SirveEntero'
    BY <1>a, <1>b, <1>c DEF SirveEntero
  <1>11. MutaConSuGeneracion'
    BY <1>a, <1>b, <1>c DEF MutaConSuGeneracion, Mutada, Reemplazo, Arranque
  <1> QED BY <1>1, <1>2, <1>3, <1>4, <1>5, <1>6, <1>7, <1>8, <1>9, <1>10, <1>11

LEMMA PasoRotar ==
  ASSUME InvInductivo, Rotar
  PROVE  InvInductivo'
  <1> USE DEF InvInductivo, Copiando, Restaurando, En, Rotar
  <1>0. Sana /\ instalado.bd \in Version /\ gen + 1 \in 0..MaxGen
    BY CopiasAssumption DEF SirveEntero, Servicios, Sana, Entera, TypeOK, Instalado, Parte
  <1>a. /\ instalado' \in Instalado /\ instalado'.clave = instalado.clave
        /\ instalado'.bd # Nada /\ instalado'.storage = instalado'.bd
        /\ instalado'.atributos = instalado'.bd /\ instalado'.bd.gen = gen + 1
        /\ ultima' \in 0..MaxVersion
    <2> DEFINE v == [n |-> ultima + 1, gen |-> gen + 1]
    <2>1. v \in Version /\ v # Nada /\ ultima + 1 \in 0..MaxVersion /\ v.gen = gen + 1
      BY <1>0, CopiasAssumption DEF TypeOK, Version, Instalado, Parte, Cambiar, Sana, Entera, SirveEntero, Servicios
    <2>2. instalado' = [instalado EXCEPT !.bd = v, !.storage = v, !.atributos = v]
      BY DEF Cambiar
    <2> HIDE DEF v
    <2> QED BY <2>1, <2>2 DEF Cambiar, TypeOK, Instalado, Parte
  <1>b. Sana'
    BY <1>0, <1>a DEF Sana, Entera
  <1>c. \A m \in Mandos : mandos[m].fase \in {"libre", "cerrojo", "candado", "limpiar", "soltar"}
    BY Titulares DEF Posee
  <1>1. TypeOK'
    BY <1>0, <1>a, <1>b, <1>c DEF TypeOK
  <1>2. Posee'
    BY <1>0, <1>a, <1>b, <1>c DEF Posee
  <1>3. Papel'
    BY <1>0, <1>a, <1>b, <1>c DEF Papel, Verificable, Lectura, Publicacion, Reemplazo, Arranque, Parada
  <1>4. Detenido'
    BY <1>0, <1>a, <1>b, <1>c DEF Detenido, Lectura, Reemplazo, Arranque
  <1>5. Custodia'
    BY <1>0, <1>a, <1>b, <1>c DEF Custodia, LibreEsEntera, Mutada, Reemplazo, Arranque
  <1>6. Avance'
    BY <1>0, <1>a, <1>b, <1>c DEF Avance, Coherente, Parada, Lectura, Arranque, Publicacion
  <1>7. Reposicion'
    BY <1>0, <1>a, <1>b, <1>c DEF Reposicion, Entera, Parada, Reemplazo, Arranque
  <1>8. CopiaCoherente'
    BY <1>0, <1>a, <1>b, <1>c DEF CopiaCoherente, Coherente, Verificable
  <1>9. CompletaTieneClave'
    BY <1>0, <1>a, <1>b, <1>c DEF CompletaTieneClave
  <1>10. SirveEntero'
    BY <1>0, <1>a, <1>b, <1>c DEF SirveEntero
  <1>11. MutaConSuGeneracion'
    BY <1>0, <1>a, <1>b, <1>c DEF MutaConSuGeneracion, Mutada, Reemplazo, Arranque
  <1> QED BY <1>1, <1>2, <1>3, <1>4, <1>5, <1>6, <1>7, <1>8, <1>9, <1>10, <1>11

LEMMA PasoTomarOtro ==
  ASSUME InvInductivo, TomarOtro
  PROVE  InvInductivo'
  <1> USE DEF InvInductivo, Copiando, Restaurando, En, TomarOtro
  <1>1. TypeOK'
    BY Titulares DEF TypeOK
  <1>2. Posee'
    BY Titulares DEF Posee
  <1>3. Papel'
    BY Titulares DEF Papel, Verificable, Lectura, Publicacion, Reemplazo, Arranque, Parada
  <1>4. Detenido'
    BY Titulares DEF Detenido, Lectura, Reemplazo, Arranque
  <1>5. Custodia'
    BY Titulares DEF Custodia, LibreEsEntera, Mutada, Sana, Entera, Reemplazo, Arranque
  <1>6. Avance'
    BY Titulares DEF Avance, Coherente, Parada, Lectura, Arranque, Publicacion
  <1>7. Reposicion'
    BY Titulares DEF Reposicion, Entera, Parada, Reemplazo, Arranque
  <1>8. CopiaCoherente'
    BY Titulares DEF CopiaCoherente, Coherente, Verificable
  <1>9. CompletaTieneClave'
    BY Titulares DEF CompletaTieneClave
  <1>10. SirveEntero'
    BY Titulares DEF SirveEntero, Sana, Entera
  <1>11. MutaConSuGeneracion'
    BY Titulares DEF MutaConSuGeneracion, Mutada, Reemplazo, Arranque
  <1> QED BY <1>1, <1>2, <1>3, <1>4, <1>5, <1>6, <1>7, <1>8, <1>9, <1>10, <1>11

LEMMA PasoSoltarOtro ==
  ASSUME InvInductivo, SoltarOtro
  PROVE  InvInductivo'
  <1> USE DEF InvInductivo, Copiando, Restaurando, En, SoltarOtro
  <1>1. TypeOK'
    BY Titulares DEF TypeOK
  <1>2. Posee'
    BY Titulares DEF Posee
  <1>3. Papel'
    BY Titulares DEF Papel, Verificable, Lectura, Publicacion, Reemplazo, Arranque, Parada
  <1>4. Detenido'
    BY Titulares DEF Detenido, Lectura, Reemplazo, Arranque
  <1>5. Custodia'
    BY Titulares DEF Custodia, LibreEsEntera, Mutada, Sana, Entera, Reemplazo, Arranque
  <1>6. Avance'
    BY Titulares DEF Avance, Coherente, Parada, Lectura, Arranque, Publicacion
  <1>7. Reposicion'
    BY Titulares DEF Reposicion, Entera, Parada, Reemplazo, Arranque
  <1>8. CopiaCoherente'
    BY Titulares DEF CopiaCoherente, Coherente, Verificable
  <1>9. CompletaTieneClave'
    BY Titulares DEF CompletaTieneClave
  <1>10. SirveEntero'
    BY Titulares DEF SirveEntero, Sana, Entera
  <1>11. MutaConSuGeneracion'
    BY Titulares DEF MutaConSuGeneracion, Mutada, Reemplazo, Arranque
  <1> QED BY <1>1, <1>2, <1>3, <1>4, <1>5, <1>6, <1>7, <1>8, <1>9, <1>10, <1>11

LEMMA PasoRegistrar ==
  ASSUME InvInductivo, Registrar
  PROVE  InvInductivo'
  <1> USE DEF InvInductivo, Copiando, Restaurando, En, Registrar
  <1>1. TypeOK'
    BY Titulares DEF TypeOK
  <1>2. Posee'
    BY Titulares DEF Posee
  <1>3. Papel'
    BY Titulares DEF Papel, Verificable, Lectura, Publicacion, Reemplazo, Arranque, Parada
  <1>4. Detenido'
    BY Titulares DEF Detenido, Lectura, Reemplazo, Arranque
  <1>5. Custodia'
    BY Titulares DEF Custodia, LibreEsEntera, Mutada, Sana, Entera, Reemplazo, Arranque
  <1>6. Avance'
    BY Titulares DEF Avance, Coherente, Parada, Lectura, Arranque, Publicacion
  <1>7. Reposicion'
    BY Titulares DEF Reposicion, Entera, Parada, Reemplazo, Arranque
  <1>8. CopiaCoherente'
    BY Titulares DEF CopiaCoherente, Coherente, Verificable
  <1>9. CompletaTieneClave'
    BY Titulares DEF CompletaTieneClave
  <1>10. SirveEntero'
    BY Titulares DEF SirveEntero, Sana, Entera
  <1>11. MutaConSuGeneracion'
    BY Titulares DEF MutaConSuGeneracion, Mutada, Reemplazo, Arranque
  <1> QED BY <1>1, <1>2, <1>3, <1>4, <1>5, <1>6, <1>7, <1>8, <1>9, <1>10, <1>11

LEMMA Siguiente == InvInductivo /\ [Next]_vars => InvInductivo'
  <1> SUFFICES ASSUME InvInductivo, [Next]_vars PROVE InvInductivo'
    OBVIOUS
  <1>1. ASSUME NEW m \in Mandos, Comun(m) PROVE InvInductivo'
    BY <1>1, PasoTomarCerrojo, PasoSinCerrojo, PasoTomarCandado, PasoSinCandadoCopia,
       PasoSinCandadoRestauracion, PasoPararGodel, PasoPararResto, PasoPararBd, PasoArrancarBd,
       PasoArrancarResto, PasoArrancarGodel, PasoSoltarCerrojo, PasoSoltarSinCandado,
       PasoSoltarCandado, PasoMorir DEF Comun
  <1>2. ASSUME NEW m \in Mandos, Copiar(m) PROVE InvInductivo'
    BY <1>2, PasoPrepararCopia, PasoEscribirManifiesto, PasoVolcar, PasoTarBd, PasoTarStorage,
       PasoCapturar, PasoTarClave, PasoFinalizarClave, PasoFinalizarDatos, PasoCompletar,
       PasoLimpiar, PasoLimpiarNada DEF Copiar
  <1>3. ASSUME NEW m \in Mandos, Restaurar(m) PROVE InvInductivo'
    <2>1. CASE Vaciar(m)
      BY <2>1, PasoVaciarBd, PasoVaciarStorage, PasoConfig DEF Vaciar, En
    <2>2. CASE Extraer(m)
      BY <2>2, PasoExtraerBd, PasoExtraerStorage, PasoPonerClave, PasoReponer DEF Extraer, En
    <2> QED BY <1>3, <2>1, <2>2, PasoPrepararRestauracion, PasoReverificar, PasoAquietar DEF Restaurar
  <1>4. ASSUME NEW m \in Mandos, Fallar(m) PROVE InvInductivo'
    BY <1>4, PasoFallarEnMantenimiento, PasoFallarMutada, PasoFallarRecuperacion,
       PasoFallarRecuperacionCopia, PasoFallarCopia, PasoFallarReverificar DEF Fallar
  <1>5. ASSUME Entorno PROVE InvInductivo'
    BY <1>5, PasoEscribir, PasoRotar, PasoTomarOtro, PasoSoltarOtro, PasoRegistrar DEF Entorno
  <1>6. CASE UNCHANGED vars
    BY <1>6 DEF vars, InvInductivo, TypeOK, Posee, Papel, Detenido, Custodia, LibreEsEntera, Avance,
       Reposicion, CopiaCoherente, CompletaTieneClave, SirveEntero, MutaConSuGeneracion, Coherente,
       Verificable, Sana, Entera, Mutada, Copiando, Restaurando
  <1> QED BY <1>1, <1>2, <1>3, <1>4, <1>5, <1>6 DEF Next

LEMMA AlEmpezar == Init => InvInductivo
  <1> SUFFICES ASSUME Init PROVE InvInductivo
    OBVIOUS
  <1>1. Inicial \in Version /\ Inicial # Nada /\ Inicial.gen = 0 /\ 0 \in 0..MaxGen /\ 0 \in 0..MaxVersion
    BY CopiasAssumption DEF Inicial, Version
  <1>2. Ausente \in Copia /\ Ausente.estado = "ausente"
    BY DEF Ausente, Copia, Parte
  <1>3. TypeOK
    BY <1>1, <1>2, LibreMando DEF Init, TypeOK, Instalado, Parte
  <1>4. Sana
    BY <1>1 DEF Init, Sana, Entera
  <1>5. \A m \in Mandos : mandos[m] = Libre
    BY DEF Init
  <1>6. Posee /\ Papel /\ Detenido /\ Avance /\ Reposicion /\ MutaConSuGeneracion
    BY <1>5, LibreMando DEF Posee, Papel, Detenido, Avance, Reposicion, MutaConSuGeneracion, Mutada,
       Copiando, Restaurando, Lectura, Publicacion, Reemplazo, Arranque, Parada
  <1>7. Custodia /\ SirveEntero
    BY <1>4 DEF Custodia, LibreEsEntera, SirveEntero
  <1>8. CopiaCoherente /\ CompletaTieneClave
    BY <1>2 DEF Init, CopiaCoherente, CompletaTieneClave, Verificable
  <1> QED BY <1>3, <1>6, <1>7, <1>8 DEF InvInductivo

\* The invariant holds of every execution.
THEOREM Invariante == Spec => []InvInductivo
  BY AlEmpezar, Siguiente, PTL DEF Spec

\* A backup that verifies is of one instant and one generation.
THEOREM TodaCopiaCoherente == Spec => [](CopiaCoherente /\ CompletaTieneClave)
  BY Invariante, PTL DEF InvInductivo

\* The application serves whole volumes only, and only whole volumes are left unlocked.
THEOREM NuncaSirveMezcla == Spec => [](SirveEntero /\ LibreEsEntera)
  <1>1. InvInductivo => SirveEntero /\ LibreEsEntera
    BY DEF InvInductivo, Custodia
  <1> QED BY Invariante, <1>1, PTL

\* A restore works under the generation its backup names.
THEOREM RestauraConSuGeneracion == Spec => []MutaConSuGeneracion
  BY Invariante, PTL DEF InvInductivo

-------------------------------------------------------------------------------
(* What is served is one instant. *)

\* The steps of a backup before it copies the attributes.
Antes == Parada \cup {"volcar", "tar_bd", "tar_storage", "capturar"}

\* The actions that leave alone the data, the passwords and the backups.
Aparte(m) ==
    \/ TomarCerrojo(m) \/ TomarCandado(m) \/ PararGodel(m) \/ PararResto(m) \/ PararBd(m)
    \/ ArrancarBd(m) \/ ArrancarResto(m) \/ ArrancarGodel(m)
    \/ SoltarCerrojo(m) \/ SoltarCandado(m) \/ Morir(m)
    \/ PrepararCopia(m) \/ TarClave(m) \/ PrepararRestauracion(m) \/ Reverificar(m) \/ Aquietar(m)
    \/ Fallar(m)

LEMMA ApartadoDeDatos ==
  ASSUME NEW m \in Mandos, Aparte(m)
  PROVE  UNCHANGED <<gen, ultima, instalado, copias>>
  BY DEF Aparte, TomarCerrojo, TomarCandado, PararGodel, PararResto, PararBd, ArrancarBd,
         ArrancarResto, ArrancarGodel, SoltarCerrojo, SoltarCandado, Morir, PrepararCopia, TarClave,
         PrepararRestauracion, Reverificar, Aquietar, Fallar, FallarEnMantenimiento, FallarMutada,
         FallarRecuperacion, FallarSinMas

LEMMA MismaVersion ==
  ASSUME UNCHANGED <<gen, instalado>>
  PROVE  (Sana' <=> Sana) /\ Vigente' = Vigente
  BY DEF Sana, Entera, Vigente

LEMMA MismasCopias ==
  ASSUME UNCHANGED copias
  PROVE  Guardadas' = Guardadas /\ Publicadas' = Publicadas
  BY DEF Guardadas, Publicadas, Verificable

\* Supabase, and then the application, start over whole volumes only: the volumes are in
\* custody, or the restore has replaced them all and the passwords open them.
LEMMA ArrancaSana ==
  ASSUME InvInductivo, NEW m \in Mandos, ArrancarResto(m) \/ ArrancarGodel(m)
  PROVE  Sana
  <1>1. cerrojo = m /\ mandos[m] \in Mando /\ mandos[m].fase \in {"arrancar_resto", "arrancar_godel"}
    BY DEF InvInductivo, Posee, TypeOK, ArrancarResto, ArrancarGodel, En
  <1>2. CASE ~Mutada(m)
    BY <1>1, <1>2 DEF InvInductivo, Custodia
  <1>3. CASE Mutada(m)
    <2>1. Restaurando(m) /\ ~mandos[m].recupera
      BY <1>1, <1>3 DEF Mutada, Reemplazo
    <2>2. Entera /\ (mandos[m].fase = "arrancar_godel" => instalado.bd.gen = gen)
      BY <1>1, <2>1 DEF InvInductivo, Reposicion, Arranque
    <2> QED BY <1>1, <2>2 DEF Sana, Entera, ArrancarResto, ArrancarGodel, Entran, En
  <1> QED BY <1>2, <1>3

LEMMA ApartadoEntero ==
  ASSUME InvInstantes, NEW m \in Mandos, Aparte(m)
  PROVE  AtiendeEntero'
  <1>1. UNCHANGED <<gen, ultima, instalado, copias>> /\ (Sana' <=> Sana)
    BY ApartadoDeDatos, MismaVersion
  <1>2. Atiende' => Atiende \/ ArrancarResto(m) \/ ArrancarGodel(m)
    BY DEF Atiende, Aparte, TomarCerrojo, TomarCandado, PararGodel, PararResto, PararBd, ArrancarBd,
         SoltarCerrojo, SoltarCandado, Morir, PrepararCopia, TarClave,
         PrepararRestauracion, Reverificar, Aquietar, Fallar, FallarEnMantenimiento, FallarMutada,
         FallarRecuperacion, FallarSinMas
  <1> QED BY <1>1, <1>2, ArrancaSana DEF InvInstantes, AtiendeEntero

LEMMA SinCapturarSigue ==
  ASSUME SinCapturar, NEW m \in Mandos, UNCHANGED copias,
         \A q \in Mandos \ {m} : mandos'[q] = mandos[q],
         mandos'[m].orden = "copiar" /\ mandos'[m].fase \in Antes =>
            /\ mandos[m].orden = "copiar" /\ mandos[m].fase \in Antes
            /\ mandos'[m].copia = mandos[m].copia
  PROVE  SinCapturar'
  BY DEF SinCapturar, Antes, Copiando

LEMMA ApartadoSinCapturar ==
  ASSUME InvInstantes, NEW m \in Mandos, Aparte(m)
  PROVE  SinCapturar'
  <1> USE DEF Copiando, Restaurando, En
  <1>0. UNCHANGED copias
    BY ApartadoDeDatos
  <1>1. SinCapturar /\ mandos \in [Mandos -> Mando] /\ mandos[m] \in Mando
    BY DEF InvInstantes, InvInductivo, TypeOK
  <1>2. CASE \/ PararGodel(m) \/ PararResto(m) \/ PararBd(m)
    BY <1>0, <1>1, <1>2, PasaTipo, SinCapturarSigue
       DEF PararGodel, PararResto, PararBd, Fase, Antes, Parada, Lectura, Reemplazo, Arranque
  <1>3. CASE ArrancarBd(m) \/ ArrancarResto(m) \/ TarClave(m) \/ FallarMutada(m) \/ FallarSinMas(m)
             \/ PrepararCopia(m)
    BY <1>0, <1>1, <1>3, PasaTipo, SinCapturarSigue
       DEF ArrancarBd, ArrancarResto, TarClave, FallarMutada, FallarSinMas, PrepararCopia,
           Fase, Antes, Parada, Lectura, Arranque
  <1>4. CASE ArrancarGodel(m)
    <2>1. TrasArrancar(m) \in {"limpiar", "finalizar_clave", "soltar"}
      BY <1>1, <1>4 DEF ArrancarGodel, TrasArrancar, Mando
    <2> QED BY <1>0, <1>1, <1>4, <2>1, PasaTipo, SinCapturarSigue
       DEF ArrancarGodel, Fase, Antes, Parada, Publicacion
  <1>5. CASE SoltarCandado(m) \/ Morir(m) \/ Aquietar(m)
    BY <1>0, <1>1, <1>5, AcabaTipo, SinCapturarSigue
       DEF SoltarCandado, Morir, Aquietar, Antes, Parada
  <1>6. CASE TomarCerrojo(m) \/ SoltarCerrojo(m) \/ FallarRecuperacion(m)
    BY <1>0, <1>1, <1>6, PasaTipo, AcabaTipo, SinCapturarSigue
       DEF TomarCerrojo, SoltarCerrojo, FallarRecuperacion, Fase, Antes, Parada
  <1>7. CASE TomarCandado(m)
    BY <1>0, <1>1, <1>7, PasaTipo, AcabaTipo, SinCapturarSigue
       DEF TomarCandado, Fase, Antes, Parada
  <1>8. CASE PrepararRestauracion(m)
    <2>1. mandos'[m].orden = "restaurar" /\ \A q \in Mandos \ {m} : mandos'[q] = mandos[q]
      BY <1>1, <1>8 DEF PrepararRestauracion, Libre
    <2> QED BY <1>0, <1>1, <2>1, SinCapturarSigue
  <1>9. CASE Reverificar(m)
    <2>1. mandos[m].orden = "restaurar"
      BY <1>9 DEF Reverificar, InvInstantes, InvInductivo, Papel
    <2> QED BY <1>0, <1>1, <1>9, <2>1, PasaTipo, SinCapturarSigue DEF Reverificar, Fase, Parada
  <1>10. CASE FallarEnMantenimiento(m)
    <2>1. mandos'[m].fase = "arrancar_bd" /\ \A q \in Mandos \ {m} : mandos'[q] = mandos[q]
      BY <1>1, <1>10 DEF FallarEnMantenimiento, Recuperar, Mando
    <2> QED BY <1>0, <1>1, <2>1, SinCapturarSigue DEF Antes, Parada
  <1> QED BY <1>2, <1>3, <1>4, <1>5, <1>6, <1>7, <1>8, <1>9, <1>10 DEF Aparte, Fallar

\* Whatever starts, stops or takes a lock is a start or a stop of the whole.
LEMMA ApartadoImplementa ==
  ASSUME InvInstantes, NEW m \in Mandos, Aparte(m)
  PROVE  I!Parar \/ I!Atender
  <1>1. UNCHANGED <<gen, ultima, instalado, copias>>
    BY ApartadoDeDatos
  <1>2. Vigente' = Vigente /\ Guardadas' = Guardadas /\ Publicadas' = Publicadas /\ (Sana' <=> Sana)
    BY <1>1, MismaVersion, MismasCopias
  <1>3. CASE Atiende'
    <2>1. Vigente # Nada
      BY <1>2, <1>3, ApartadoEntero DEF AtiendeEntero, Vigente, Sana, Entera
    <2>2. Atiende' = TRUE
      BY <1>3 DEF Atiende
    <2> QED BY <1>1, <1>2, <2>1, <2>2 DEF I!Atender
  <1>4. CASE ~Atiende'
    <2>1. Atiende' = FALSE
      BY <1>4 DEF Atiende
    <2> QED BY <1>1, <1>2, <2>1 DEF I!Parar
  <1> QED BY <1>3, <1>4

\* The instant a backup holds, of one backup.
Contenido(c) == IF c.logica = c.bd /\ c.storage = c.bd /\ c.atributos = c.bd THEN c.bd ELSE Nada

LEMMA GuardadasContenido == Guardadas = [b \in Ids |-> Contenido(copias[b])]
  BY DEF Guardadas, Contenido

\* What a step that only writes to one backup leaves as it was.
LEMMA SoloCopia ==
  ASSUME InvInstantes, UNCHANGED <<corre, gen, instalado>>
  PROVE  AtiendeEntero' /\ Atiende' = Atiende /\ Vigente' = Vigente
  BY MismaVersion DEF InvInstantes, AtiendeEntero, Atiende

LEMMA CopiaIgual ==
  ASSUME NEW b \in Ids, \A d \in Ids \ {b} : copias'[d] = copias[d],
         Contenido(copias'[b]) = Contenido(copias[b]), Verificable(b)' <=> Verificable(b)
  PROVE  Guardadas' = Guardadas /\ Publicadas' = Publicadas
  <1>1. \A d \in Ids : Contenido(copias'[d]) = Contenido(copias[d])
    OBVIOUS
  <1>2. Guardadas' = [d \in Ids |-> Contenido(copias'[d])]
    BY GuardadasContenido DEF Guardadas, Contenido
  <1>3. \A d \in Ids : Verificable(d)' <=> Verificable(d)
    BY DEF Verificable
  <1> QED BY <1>1, <1>2, <1>3, GuardadasContenido DEF Publicadas

\* What a command that copies may rely on before it has copied the attributes.
LEMMA LeyendoCopia ==
  ASSUME InvInstantes, NEW m \in Mandos, mandos[m].fase \in Lectura \cup Publicacion
  PROVE  /\ cerrojo = m /\ Copiando(m) /\ ~mandos[m].recupera /\ Sana /\ copias \in [Ids -> Copia]
         /\ mandos \in [Mandos -> Mando] /\ mandos[m] \in Mando /\ mandos[m].copia \in Ids
         /\ copias[mandos[m].copia].estado # "completa"
         /\ \A q \in Mandos \ {m} : mandos[q].fase \in {"libre", "cerrojo", "soltar_candado"}
         /\ mandos[m].fase \in Lectura => ~Atiende
         /\ mandos[m].fase \in Lectura \ {"tar_clave"} => copias[mandos[m].copia].atributos = Nada
  <1> USE DEF InvInstantes, InvInductivo
  <1>1. cerrojo = m /\ Copiando(m) /\ ~mandos[m].recupera
    BY DEF Posee, Papel, Lectura, Publicacion, Arranque
  <1>2. mandos[m].copia \in Ids /\ copias[mandos[m].copia].estado # "completa"
    BY <1>1 DEF Papel
  <1>3. Sana
    BY <1>1 DEF Custodia, Mutada, Copiando, Restaurando
  <1>4. \A q \in Mandos \ {m} : mandos[q].fase \in {"libre", "cerrojo", "soltar_candado"}
    BY <1>1, Demas
  <1>5. mandos[m].fase \in Lectura => ~Atiende
    BY <1>1 DEF Detenido, Atiende
  <1>6. mandos[m].fase \in Lectura \ {"tar_clave"} => copias[mandos[m].copia].atributos = Nada
    BY <1>1 DEF SinCapturar, Lectura
  <1> QED BY <1>1, <1>2, <1>3, <1>4, <1>5, <1>6 DEF TypeOK

LEMMA InstantesManifiesto ==
  ASSUME InvInstantes, NEW m \in Mandos, EscribirManifiesto(m)
  PROVE  AtiendeEntero' /\ SinCapturar' /\ UNCHANGED I!vars
  <1> USE DEF EscribirManifiesto, En
  <1>1. /\ cerrojo = m /\ mandos \in [Mandos -> Mando] /\ mandos[m] \in Mando
        /\ copias \in [Ids -> Copia]
        /\ \A q \in Mandos \ {m} : mandos[q].fase \in {"libre", "cerrojo", "soltar_candado"}
    BY Demas DEF InvInstantes, InvInductivo, Posee, TypeOK
  <1>2. PICK b \in Ids :
         /\ copias[b] = Ausente
         /\ copias' = [copias EXCEPT ![b] =
              [Ausente EXCEPT !.estado = "incompleta", !.protegida = "incompleta",
                              !.nombre = IF registro THEN gen ELSE Nada]]
         /\ mandos' = [mandos EXCEPT ![m] = [@ EXCEPT !.fase = "parar_godel", !.copia = b]]
    OBVIOUS
  <1>3. /\ copias'[b].estado = "incompleta" /\ copias'[b].logica = Nada /\ copias'[b].bd = Nada
        /\ copias'[b].storage = Nada /\ copias'[b].atributos = Nada
        /\ \A d \in Ids \ {b} : copias'[d] = copias[d]
    BY <1>1, <1>2 DEF Ausente
  <1>4. mandos'[m].copia = b /\ \A q \in Mandos \ {m} : mandos'[q] = mandos[q]
    BY <1>1, <1>2 DEF Mando
  <1>5. SinCapturar'
    BY <1>1, <1>3, <1>4 DEF SinCapturar, Parada
  <1>6. Guardadas' = Guardadas /\ Publicadas' = Publicadas
    <2>1. Contenido(copias'[b]) = Nada /\ Contenido(copias[b]) = Nada
      BY <1>2, <1>3 DEF Contenido, Ausente
    <2>2. ~Verificable(b) /\ ~Verificable(b)'
      BY <1>2, <1>3 DEF Verificable, Ausente
    <2> QED BY <1>3, <2>1, <2>2, CopiaIgual
  <1> QED BY <1>5, <1>6, SoloCopia DEF I!vars

\* Until the attributes are copied a backup holds no instant.
LEMMA InstantesLectura ==
  ASSUME InvInstantes, NEW m \in Mandos, Volcar(m) \/ TarBd(m) \/ TarStorage(m)
  PROVE  AtiendeEntero' /\ SinCapturar' /\ UNCHANGED I!vars
  <1> USE DEF En
  <1>0. mandos[m].fase \in {"volcar", "tar_bd", "tar_storage"}
    BY DEF Volcar, TarBd, TarStorage
  <1>b. PICK b \in Ids : b = mandos[m].copia
    BY <1>0, LeyendoCopia DEF Lectura
  <1>1. /\ Copiando(m) /\ copias \in [Ids -> Copia]
        /\ mandos \in [Mandos -> Mando] /\ mandos[m] \in Mando
        /\ copias[b].estado # "completa" /\ copias[b].atributos = Nada
        /\ \A q \in Mandos \ {m} : mandos[q].fase \in {"libre", "cerrojo", "soltar_candado"}
    BY <1>0, <1>b, LeyendoCopia DEF Lectura
  <1>2. /\ mandos'[m].copia = b /\ mandos'[m].fase \in {"parar_bd", "tar_storage", "capturar"}
        /\ \A q \in Mandos \ {m} : mandos'[q] = mandos[q]
    BY <1>1, <1>b, PasaTipo DEF Volcar, TarBd, TarStorage, Fase, Parada, Lectura
  <1>3. /\ copias'[b].estado # "completa" /\ copias'[b].atributos = Nada
        /\ \A d \in Ids \ {b} : copias'[d] = copias[d]
    BY <1>1, <1>b DEF Volcar, TarBd, TarStorage, Anota, Copia
  <1>4. UNCHANGED <<corre, gen, instalado, ultima>>
    BY DEF Volcar, TarBd, TarStorage
  <1>5. SinCapturar'
    BY <1>1, <1>2, <1>3 DEF SinCapturar, Parada
  <1>6. Guardadas' = Guardadas /\ Publicadas' = Publicadas
    <2>1. Contenido(copias'[b]) = Nada /\ Contenido(copias[b]) = Nada
      BY <1>1, <1>3 DEF Contenido
    <2>2. ~Verificable(b) /\ ~Verificable(b)'
      BY <1>1, <1>3 DEF Verificable
    <2> QED BY <1>1, <1>3, <2>1, <2>2, CopiaIgual
  <1> QED BY <1>4, <1>5, <1>6, SoloCopia DEF I!vars

\* The attributes are the last of the data: with them the backup holds the instant that the
\* volumes, stopped, have held since its first artifact.
LEMMA InstantesCapturar ==
  ASSUME InvInstantes, NEW m \in Mandos, Capturar(m)
  PROVE  AtiendeEntero' /\ SinCapturar' /\ \E b \in Ids : I!Guardar(b)
  <1> USE DEF En
  <1>b. PICK b \in Ids : b = mandos[m].copia
    BY LeyendoCopia DEF Capturar, Lectura
  <1>1. /\ Copiando(m) /\ ~mandos[m].recupera /\ Sana /\ ~Atiende /\ copias \in [Ids -> Copia]
        /\ mandos \in [Mandos -> Mando] /\ mandos[m] \in Mando
        /\ copias[b].estado # "completa" /\ copias[b].atributos = Nada
        /\ \A q \in Mandos \ {m} : mandos[q].fase \in {"libre", "cerrojo", "soltar_candado"}
    BY <1>b, LeyendoCopia DEF Capturar, Lectura
  <1>2. mandos'[m].fase = "tar_clave" /\ \A q \in Mandos \ {m} : mandos'[q] = mandos[q]
    BY <1>1, PasaTipo DEF Capturar, Fase, Lectura
  <1>3. copias' = [copias EXCEPT ![b].atributos = instalado.atributos]
    BY <1>b DEF Capturar, Anota
  <1>4. /\ copias'[b].logica = copias[b].logica /\ copias'[b].bd = copias[b].bd
        /\ copias'[b].storage = copias[b].storage /\ copias'[b].atributos = instalado.atributos
        /\ copias'[b].estado = copias[b].estado
        /\ \A d \in Ids \ {b} : copias'[d] = copias[d]
    BY <1>1, <1>3 DEF Copia
  <1>5. UNCHANGED <<corre, gen, instalado, ultima>>
    BY DEF Capturar
  <1>6. SinCapturar'
    BY <1>1, <1>2, <1>4 DEF InvInstantes, SinCapturar, Parada
  <1>7. /\ copias[b].logica = instalado.bd /\ copias[b].bd = instalado.bd
        /\ copias[b].storage = instalado.storage
    BY <1>1, <1>b DEF InvInstantes, InvInductivo, Avance, Capturar, Lectura
  <1>8. /\ instalado.storage = instalado.bd /\ instalado.atributos = instalado.bd
        /\ instalado.bd # Nada /\ Vigente = instalado.bd
    BY <1>1 DEF Sana, Entera, Vigente
  <1>9. Guardadas[b] = Nada /\ Guardadas' = [Guardadas EXCEPT ![b] = Vigente]
    <2>1. Contenido(copias[b]) = Nada /\ Contenido(copias'[b]) = Vigente
      BY <1>1, <1>4, <1>7, <1>8 DEF Contenido
    <2>2. \A d \in Ids \ {b} : Contenido(copias'[d]) = Contenido(copias[d])
      BY <1>4
    <2>3. Guardadas' = [d \in Ids |-> Contenido(copias'[d])]
      BY GuardadasContenido DEF Guardadas, Contenido
    <2> QED BY <2>1, <2>2, <2>3, GuardadasContenido
  <1>10. Publicadas' = Publicadas
    BY <1>1, <1>4 DEF Publicadas, Verificable
  <1>11. I!Guardar(b)
    BY <1>1, <1>5, <1>8, <1>9, <1>10, SoloCopia DEF I!Guardar, Atiende
  <1> QED BY <1>5, <1>6, <1>11, SoloCopia

\* What the publication and the cleanup of a backup write does not verify yet.
LEMMA InstantesFinalizar ==
  ASSUME InvInstantes, NEW m \in Mandos, FinalizarClave(m) \/ FinalizarDatos(m)
  PROVE  AtiendeEntero' /\ SinCapturar' /\ UNCHANGED I!vars
  <1> USE DEF En
  <1>0. mandos[m].fase \in {"finalizar_clave", "finalizar_datos"}
    BY DEF FinalizarClave, FinalizarDatos
  <1>b. PICK b \in Ids : b = mandos[m].copia
    BY <1>0, LeyendoCopia DEF Publicacion
  <1>1. /\ Copiando(m) /\ copias \in [Ids -> Copia]
        /\ mandos \in [Mandos -> Mando] /\ mandos[m] \in Mando
        /\ copias[b].estado # "completa"
        /\ \A q \in Mandos \ {m} : mandos[q].fase \in {"libre", "cerrojo", "soltar_candado"}
    BY <1>0, <1>b, LeyendoCopia DEF Publicacion
  <1>2. /\ mandos'[m].fase \in {"finalizar_datos", "completar"}
        /\ \A q \in Mandos \ {m} : mandos'[q] = mandos[q]
    BY <1>1, PasaTipo DEF FinalizarClave, FinalizarDatos, TrasArrancar, Fase, Publicacion
  <1>3. /\ copias'[b].logica = copias[b].logica /\ copias'[b].bd = copias[b].bd
        /\ copias'[b].storage = copias[b].storage /\ copias'[b].atributos = copias[b].atributos
        /\ copias'[b].estado # "completa"
        /\ \A d \in Ids \ {b} : copias'[d] = copias[d]
    BY <1>1, <1>b DEF FinalizarClave, FinalizarDatos, Anota, Copia
  <1>4. UNCHANGED <<corre, gen, instalado, ultima>>
    BY DEF FinalizarClave, FinalizarDatos
  <1>5. SinCapturar'
    BY <1>1, <1>2, <1>3 DEF InvInstantes, SinCapturar, Parada
  <1>6. Contenido(copias'[b]) = Contenido(copias[b]) /\ ~Verificable(b) /\ ~Verificable(b)'
    BY <1>1, <1>3 DEF Contenido, Verificable
  <1> QED BY <1>3, <1>4, <1>5, <1>6, SoloCopia, CopiaIgual DEF I!vars

LEMMA InstantesLimpiar ==
  ASSUME InvInstantes, NEW m \in Mandos, Limpiar(m)
  PROVE  AtiendeEntero' /\ SinCapturar' /\ UNCHANGED I!vars
  <1> USE DEF En
  <1>1. /\ copias \in [Ids -> Copia] /\ mandos \in [Mandos -> Mando] /\ mandos[m] \in Mando
        /\ cerrojo = m
        /\ \A q \in Mandos \ {m} : mandos[q].fase \in {"libre", "cerrojo", "soltar_candado"}
    BY Demas DEF InvInstantes, InvInductivo, TypeOK, Posee, Limpiar
  <1>2. mandos'[m].fase = "soltar" /\ \A q \in Mandos \ {m} : mandos'[q] = mandos[q]
    BY <1>1, PasaTipo DEF Limpiar, Fase
  <1>3. UNCHANGED <<corre, gen, instalado, ultima>>
    BY DEF Limpiar
  <1>4. SinCapturar'
    BY <1>1, <1>2 DEF InvInstantes, SinCapturar, Parada
  <1>5. CASE UNCHANGED copias
    BY <1>3, <1>4, <1>5, SoloCopia, MismasCopias DEF I!vars
  <1>6. CASE /\ mandos[m].copia # Nada /\ copias[mandos[m].copia].estado # "completa"
             /\ Anota(m, "protegida", "no")
    <2>1. PICK b \in Ids : b = mandos[m].copia
      BY <1>1, <1>6 DEF Mando
    <2>2. copias' = [copias EXCEPT ![b].protegida = "no"]
      BY <1>6, <2>1 DEF Anota
    <2>3. /\ copias'[b].logica = copias[b].logica /\ copias'[b].bd = copias[b].bd
          /\ copias'[b].storage = copias[b].storage /\ copias'[b].atributos = copias[b].atributos
          /\ copias'[b].estado = copias[b].estado
          /\ \A d \in Ids \ {b} : copias'[d] = copias[d]
      BY <1>1, <2>2 DEF Copia
    <2>4. Contenido(copias'[b]) = Contenido(copias[b]) /\ ~Verificable(b) /\ ~Verificable(b)'
      BY <1>6, <2>1, <2>3 DEF Contenido, Verificable
    <2> QED BY <1>3, <1>4, <2>3, <2>4, SoloCopia, CopiaIgual DEF I!vars
  <1> QED BY <1>5, <1>6 DEF Limpiar

\* A backup that comes to verify holds one instant.
LEMMA InstantesCompletar ==
  ASSUME InvInstantes, NEW m \in Mandos, Completar(m)
  PROVE  AtiendeEntero' /\ SinCapturar' /\ \E b \in Ids : I!Publicar(b)
  <1> USE DEF En
  <1>b. PICK b \in Ids : b = mandos[m].copia
    BY LeyendoCopia DEF Completar, Publicacion
  <1>1. /\ Copiando(m) /\ ~mandos[m].recupera /\ copias \in [Ids -> Copia]
        /\ mandos \in [Mandos -> Mando] /\ mandos[m] \in Mando
        /\ \A q \in Mandos \ {m} : mandos[q].fase \in {"libre", "cerrojo", "soltar_candado"}
    BY LeyendoCopia DEF Completar, Publicacion
  <1>2. mandos'[m].fase = "soltar" /\ \A q \in Mandos \ {m} : mandos'[q] = mandos[q]
    BY <1>1, PasaTipo DEF Completar, TrasArrancar, Fase
  <1>3. copias' = [copias EXCEPT ![b].estado = "completa"]
    BY <1>b DEF Completar, Anota
  <1>4. /\ copias'[b].logica = copias[b].logica /\ copias'[b].bd = copias[b].bd
        /\ copias'[b].storage = copias[b].storage /\ copias'[b].atributos = copias[b].atributos
        /\ copias'[b].estado = "completa" /\ copias'[b].protegida = copias[b].protegida
        /\ \A d \in Ids \ {b} : copias'[d] = copias[d]
    BY <1>1, <1>3 DEF Copia
  <1>5. UNCHANGED <<corre, gen, instalado, ultima>>
    BY DEF Completar
  <1>6. SinCapturar'
    BY <1>1, <1>2, <1>4 DEF InvInstantes, SinCapturar, Parada
  <1>7. Coherente(b) /\ copias[b].protegida = "final"
    BY <1>1, <1>b DEF InvInstantes, InvInductivo, Avance, Completar, Publicacion
  <1>8. Guardadas[b] # Nada /\ Guardadas' = Guardadas
    <2>1. \A d \in Ids : Contenido(copias'[d]) = Contenido(copias[d])
      BY <1>4 DEF Contenido
    <2>2. Guardadas' = [d \in Ids |-> Contenido(copias'[d])]
      BY GuardadasContenido DEF Guardadas, Contenido
    <2>3. Contenido(copias[b]) # Nada
      BY <1>7 DEF Coherente, Contenido
    <2> QED BY <2>1, <2>2, <2>3, GuardadasContenido
  <1>9. Publicadas' = Publicadas \cup {b}
    BY <1>4, <1>7 DEF Publicadas, Verificable
  <1>10. I!Publicar(b)
    BY <1>5, <1>8, <1>9, SoloCopia DEF I!Publicar
  <1> QED BY <1>5, <1>6, <1>10, SoloCopia

\* What a restore may rely on while it replaces the volumes.
LEMMA Reemplazando ==
  ASSUME InvInstantes, NEW m \in Mandos, mandos[m].fase \in Reemplazo
  PROVE  /\ Restaurando(m) /\ ~mandos[m].recupera /\ ~Atiende /\ mandos[m].copia \in Ids
         /\ Verificable(mandos[m].copia) /\ Coherente(mandos[m].copia)
         /\ instalado \in Instalado /\ mandos \in [Mandos -> Mando] /\ mandos[m] \in Mando
         /\ copias \in [Ids -> Copia]
  <1> USE DEF InvInstantes, InvInductivo
  <1>1. Restaurando(m) /\ ~mandos[m].recupera
    BY DEF Papel, Reemplazo, Arranque
  <1>2. mandos[m].copia \in Ids /\ Verificable(mandos[m].copia)
    BY <1>1 DEF Papel
  <1>3. ~Atiende
    BY <1>1 DEF Detenido, Atiende
  <1> QED BY <1>1, <1>2, <1>3 DEF CopiaCoherente, TypeOK

LEMMA ReemplazoSinCapturar ==
  ASSUME InvInstantes, NEW m \in Mandos, mandos[m].fase \in Reemplazo, NEW f \in Fase, Pasa(m, f),
         UNCHANGED <<corre, copias>>
  PROVE  AtiendeEntero' /\ SinCapturar' /\ Atiende' = Atiende
  <1>1. ~Atiende /\ ~Atiende' /\ Restaurando(m) /\ mandos \in [Mandos -> Mando]
    BY Reemplazando DEF Atiende
  <1>2. mandos'[m].orden # "copiar" /\ \A q \in Mandos \ {m} : mandos'[q] = mandos[q]
    BY <1>1, PasaTipo DEF Restaurando
  <1>3. Atiende' = Atiende
    BY DEF Atiende
  <1> QED BY <1>1, <1>2, <1>3, SinCapturarSigue DEF AtiendeEntero, InvInstantes

\* A restore that empties a volume leaves nothing to serve.
LEMMA InstantesVaciar ==
  ASSUME InvInstantes, NEW m \in Mandos, Vaciar(m)
  PROVE  AtiendeEntero' /\ SinCapturar' /\ I!Perder
  <1> USE DEF En
  <1>1. mandos[m].fase \in Reemplazo /\ UNCHANGED <<gen, ultima, corre, copias>>
    BY DEF Vaciar, Reemplazo
  <1>2. PICK f \in Fase : Pasa(m, f)
    BY DEF Vaciar, Fase, Reemplazo
  <1>3. AtiendeEntero' /\ SinCapturar' /\ Atiende' = Atiende /\ ~Atiende /\ instalado \in Instalado
    BY <1>1, <1>2, ReemplazoSinCapturar, Reemplazando
  <1>4. ~Sana'
    BY <1>3 DEF Vaciar, Instalado, Sana, Entera
  <1>5. Vigente' = Nada
    BY <1>4 DEF Vigente
  <1> QED BY <1>1, <1>3, <1>5, MismasCopias DEF I!Perder

\* A restore that fills one leaves whole volumes only if every part came from its backup.
LEMMA InstantesExtraer ==
  ASSUME InvInstantes, NEW m \in Mandos, Extraer(m)
  PROVE  AtiendeEntero' /\ SinCapturar' /\ (I!Perder \/ \E b \in Ids : I!Reponer(b))
  <1> USE DEF En
  <1>1. mandos[m].fase \in Reemplazo /\ UNCHANGED <<gen, ultima, corre, copias>>
    BY DEF Extraer, Reemplazo
  <1>2. PICK f \in Fase : Pasa(m, f)
    BY DEF Extraer, Fase, Reemplazo, Arranque
  <1>3. AtiendeEntero' /\ SinCapturar' /\ Atiende' = Atiende
    BY <1>1, <1>2, ReemplazoSinCapturar
  <1>4. PICK b \in Ids : b = mandos[m].copia
    BY <1>1, Reemplazando
  <1>5. /\ Restaurando(m) /\ ~mandos[m].recupera /\ ~Atiende /\ instalado \in Instalado
        /\ Verificable(b) /\ Coherente(b)
    BY <1>1, <1>4, Reemplazando
  <1>6. Guardadas' = Guardadas /\ Publicadas' = Publicadas /\ b \in Publicadas
        /\ Guardadas[b] = copias[b].bd
    BY <1>1, <1>5, MismasCopias DEF Publicadas, Guardadas, Coherente
  <1>7. instalado'.bd = copias[b].bd
    <2>1. CASE mandos[m].fase = "extraer_bd"
      BY <1>4, <1>5, <2>1 DEF Extraer, Instalado
    <2>2. CASE mandos[m].fase # "extraer_bd"
      <3>1. mandos[m].fase \in Reemplazo \ {"vaciar_bd", "extraer_bd"}
        BY <2>2 DEF Extraer, Reemplazo
      <3>2. instalado.bd = copias[b].bd
        BY <1>4, <1>5, <3>1 DEF InvInstantes, InvInductivo, Reposicion
      <3> QED BY <1>5, <2>2, <3>2 DEF Extraer, Instalado
    <2> QED BY <2>1, <2>2
  <1>8. CASE Sana'
    BY <1>1, <1>3, <1>5, <1>6, <1>7, <1>8 DEF Vigente, I!Reponer
  <1>9. CASE ~Sana'
    BY <1>1, <1>3, <1>5, <1>6, <1>9 DEF Vigente, I!Perder
  <1> QED BY <1>3, <1>8, <1>9

\* What is written while the services are up is one new instant of them all.
LEMMA InstantesCambiar ==
  ASSUME InvInstantes, NEW g \in {gen, gen + 1}, g \in 0..MaxGen, gen' = g, Cambiar(g), Atiende,
         UNCHANGED <<corre, copias, mandos>>
  PROVE  AtiendeEntero' /\ SinCapturar' /\ I!Cambiar
  <1> DEFINE v == [n |-> ultima', gen |-> g]
  <1>1. Sana /\ instalado \in Instalado /\ ultima \in 0..MaxVersion
        /\ gen \in 0..MaxGen
    BY DEF InvInstantes, InvInductivo, TypeOK, AtiendeEntero
  <1>2. Vigente = instalado.bd /\ Vigente # Nada /\ Vigente.gen = gen
    BY <1>1 DEF Vigente, Sana, Entera
  <1>3. ultima' = ultima + 1 /\ instalado' = [instalado EXCEPT !.bd = v, !.storage = v, !.atributos = v]
    BY DEF Cambiar
  <1>4. v # Nada
    <2>1. v \in Version
      BY <1>1, CopiasAssumption DEF Cambiar, Version
    <2> QED BY <2>1, CopiasAssumption DEF Version
  <1>5. v.gen = g
    OBVIOUS
  <1> HIDE DEF v
  <1>6. /\ instalado'.bd = v /\ instalado'.storage = v /\ instalado'.atributos = v
        /\ instalado'.clave = instalado.clave
    BY <1>1, <1>3 DEF Instalado
  <1>7. Sana' /\ Vigente' = v
    BY <1>1, <1>4, <1>5, <1>6 DEF Sana, Entera, Vigente
  <1>8. Atiende' = Atiende /\ SinCapturar'
    BY DEF Atiende, InvInstantes, SinCapturar, Copiando
  <1>9. AtiendeEntero'
    BY <1>7 DEF AtiendeEntero
  <1>10. \E h \in {Vigente.gen, Vigente.gen + 1} : Vigente' = [n |-> ultima', gen |-> h]
    BY <1>2, <1>7 DEF v
  <1>11. I!Cambiar
    BY <1>2, <1>3, <1>8, <1>10, MismasCopias DEF I!Cambiar
  <1> QED BY <1>8, <1>9, <1>11

LEMMA InstantesUso ==
  ASSUME InvInstantes, Escribir \/ Rotar
  PROVE  AtiendeEntero' /\ SinCapturar' /\ I!Cambiar
  <1>1. Atiende /\ UNCHANGED <<corre, copias, mandos>>
    BY DEF Escribir, Rotar, Atiende, Servicios
  <1>2. Sana /\ gen \in 0..MaxGen
    BY <1>1 DEF InvInstantes, AtiendeEntero, InvInductivo, TypeOK
  <1>3. CASE Escribir
    BY <1>1, <1>2, <1>3, InstantesCambiar DEF Escribir, Sana
  <1>4. CASE Rotar
    <2>1. gen + 1 \in 0..MaxGen
      BY <1>2, <1>4, CopiasAssumption DEF Rotar
    <2> QED BY <1>1, <1>4, <2>1, InstantesCambiar DEF Rotar
  <1> QED BY <1>3, <1>4

\* The registry and its lock are nothing to the data.
LEMMA InstantesIguales ==
  ASSUME InvInstantes, TomarOtro \/ SoltarOtro \/ Registrar \/ UNCHANGED vars
  PROVE  AtiendeEntero' /\ SinCapturar' /\ UNCHANGED I!vars
  <1>1. UNCHANGED <<gen, ultima, corre, instalado, copias, mandos>>
    BY DEF TomarOtro, SoltarOtro, Registrar, vars
  <1>2. SinCapturar'
    BY <1>1 DEF InvInstantes, SinCapturar, Copiando
  <1> QED BY <1>1, <1>2, SoloCopia, MismasCopias DEF I!vars

\* Each step keeps what is said of the instants and is a step of Instalacion or none of it.
LEMMA PasoInstantes ==
  ASSUME InvInstantes, [Next]_vars
  PROVE  AtiendeEntero' /\ SinCapturar' /\ [I!Next]_(I!vars)
  <1>1. ASSUME NEW m \in Mandos, Aparte(m) PROVE AtiendeEntero' /\ SinCapturar' /\ I!Next
    BY <1>1, ApartadoEntero, ApartadoSinCapturar, ApartadoImplementa DEF I!Next
  <1>2. ASSUME NEW m \in Mandos, Copiar(m), ~Aparte(m)
        PROVE  AtiendeEntero' /\ SinCapturar' /\ [I!Next]_(I!vars)
    BY <1>2, InstantesManifiesto, InstantesLectura, InstantesCapturar, InstantesFinalizar,
       InstantesCompletar, InstantesLimpiar DEF Copiar, Aparte, I!Next
  <1>3. ASSUME NEW m \in Mandos, Restaurar(m), ~Aparte(m)
        PROVE  AtiendeEntero' /\ SinCapturar' /\ I!Next
    BY <1>3, InstantesVaciar, InstantesExtraer DEF Restaurar, Aparte, I!Next
  <1>4. ASSUME NEW m \in Mandos, Comun(m) \/ Fallar(m) PROVE Aparte(m)
    BY <1>4 DEF Comun, Aparte
  <1>5. ASSUME Entorno \/ UNCHANGED vars
        PROVE  AtiendeEntero' /\ SinCapturar' /\ [I!Next]_(I!vars)
    BY <1>5, InstantesUso, InstantesIguales DEF Entorno, I!Next
  <1> QED BY <1>1, <1>2, <1>3, <1>4, <1>5 DEF Next

LEMMA SiguienteInstantes == InvInstantes /\ [Next]_vars => InvInstantes'
  BY Siguiente, PasoInstantes DEF InvInstantes

LEMMA PrimerInstante == Init => InvInstantes /\ I!Init
  <1> SUFFICES ASSUME Init PROVE InvInstantes /\ I!Init
    OBVIOUS
  <1>1. Inicial # Nada /\ Inicial.gen = 0 /\ Inicial = [n |-> 0, gen |-> 0]
    BY CopiasAssumption DEF Inicial
  <1>2. Sana /\ Vigente = Inicial
    BY <1>1 DEF Init, Sana, Entera, Vigente
  <1>3. Atiende = TRUE
    BY DEF Init, Atiende, Servicios
  <1>4. \A m \in Mandos : mandos[m].fase = "libre"
    BY LibreMando DEF Init
  <1>5. AtiendeEntero /\ SinCapturar
    BY <1>2, <1>4 DEF AtiendeEntero, SinCapturar, Parada
  <1>6. \A b \in Ids : Contenido(copias[b]) = Nada /\ ~Verificable(b)
    BY DEF Init, Ausente, Contenido, Verificable
  <1>7. Guardadas = [b \in Ids |-> Nada] /\ Publicadas = {}
    BY <1>6, GuardadasContenido DEF Publicadas
  <1>8. ultima = 0
    BY DEF Init
  <1> QED BY <1>1, <1>2, <1>3, <1>5, <1>7, <1>8, AlEmpezar DEF InvInstantes, I!Init

\* Whatever is under way, what answers, the application or the API of Supabase, answers
\* from whole volumes with the passwords in force, and a backup holds no instant before
\* its last artifact: create() and restore() with all their failures.
THEOREM InvarianteDeInstantes == Spec => []InvInstantes
  BY PrimerInstante, SiguienteInstantes, PTL DEF Spec

\* To whoever uses it the installation is one instant of its data: writes move it, a
\* backup copies it whole while nobody is served, and a restore, complete, failed or
\* dead at any step, leaves nothing or the instant of a backup that verifies.
THEOREM ImplementaInstalacion == Spec => InstalacionSpec
  <1>1. InvInstantes /\ [Next]_vars => [I!Next]_(I!vars)
    BY PasoInstantes
  <1> QED BY <1>1, PrimerInstante, InvarianteDeInstantes, PTL DEF Spec, InstalacionSpec, I!Spec

===============================================================================
