----------------------------- MODULE PedidosProof -----------------------------
(***************************************************************************)
(* How a pedido is opened and how it lives.  Of Solicitudes, for any       *)
(* number of transactions, rows, references and years: what the locks, the *)
(* unique keys and the triggers guarantee.  Of Pedidos, for any set of     *)
(* tasks, users and edits in flight, and for any price.                    *)
(***************************************************************************)
EXTENDS Pedidos, Solicitudes, FiniteSetTheorems, TLAPS

-----------------------------------------------------------------------------
(* Pedidos.                                                                *)

\* The initial state satisfies the inductive invariant.
LEMMA Inicio == Init => InvInductivo
  BY CantidadesAssumption, ActoresAssumption, ImportesAssumption, SinAssumption
  DEF Init, InvInductivo, TypeOK, EncargoTerminado, RestriccionesDeTarea, PagoCubierto,
      CopiaValida, Registradas, PedidoEstado

\* A task as it is created, by a person or from a template.
LEMMA NuevaValida ==
  ASSUME NEW n \in Titulos
  PROVE  Nueva(n) \in Tarea /\ FilaValida(Nueva(n)) /\ ~Nueva(n).completa
  BY CantidadesAssumption DEF Nueva, Tarea, Titulos, FilaValida

\* Every edit turns a valid copy into valid columns.
LEMMA EdicionValida ==
  ASSUME NEW c \in Tarea, FilaValida(c)
  PROVE  /\ \A n \in Titulos : ConTitulo(c, n) \in Tarea /\ FilaValida(ConTitulo(c, n))
         /\ \A q \in Nat : q <= c.objetivo => ConAvance(c, q) \in Tarea /\ FilaValida(ConAvance(c, q))
         /\ Completada(c) \in Tarea /\ FilaValida(Completada(c))
         /\ Reabierta(c) \in Tarea /\ FilaValida(Reabierta(c))
  <1>0. c.objetivo \in Nat /\ c.objetivo \in Titulos /\ c.avance \in Nat /\ c.completa \in BOOLEAN
    <2>1. c.objetivo \in Titulos /\ c.avance \in Nat /\ c.completa \in BOOLEAN
      BY Zenon DEF Tarea
    <2>2. Titulos \subseteq Nat
      BY CantidadesAssumption DEF Titulos
    <2> QED BY <2>1, <2>2
  <1>1. ASSUME NEW n \in Titulos
        PROVE  ConTitulo(c, n) \in Tarea /\ FilaValida(ConTitulo(c, n))
    <2>1. (c.completa /\ n \in {0, c.objetivo}) \in BOOLEAN
      OBVIOUS
    <2>2. ConTitulo(c, n) \in Tarea
      BY <1>0, <1>1, <2>1 DEF ConTitulo, Tarea
    <2>3. /\ ConTitulo(c, n).objetivo = n
          /\ ConTitulo(c, n).avance = IF n = c.objetivo THEN c.avance ELSE 0
          /\ ConTitulo(c, n).completa => c.completa /\ n \in {0, c.objetivo}
      BY DEF ConTitulo
    <2>4. n \in Nat
      BY <1>1, CantidadesAssumption DEF Titulos
    <2>5. FilaValida(ConTitulo(c, n))
      BY <1>0, <2>3, <2>4 DEF FilaValida
    <2> QED BY <2>2, <2>5
  <1>2. ASSUME NEW q \in Nat, q <= c.objetivo
        PROVE  ConAvance(c, q) \in Tarea /\ FilaValida(ConAvance(c, q))
    BY <1>2, CantidadesAssumption DEF ConAvance, Tarea, Titulos, FilaValida
  <1>3. Completada(c) \in Tarea /\ FilaValida(Completada(c))
    <2>1. Completada(c) \in Tarea
      BY <1>0 DEF Completada, Tarea
    <2>2. Completada(c).avance = c.objetivo /\ Completada(c).objetivo = c.objetivo
      BY DEF Completada, Tarea
    <2> QED BY <1>0, <2>1, <2>2 DEF FilaValida
  <1>4. Reabierta(c) \in Tarea /\ FilaValida(Reabierta(c))
    BY CantidadesAssumption DEF Reabierta, Tarea, Titulos, FilaValida
  <1> QED BY <1>1, <1>2, <1>3, <1>4

\* The row that is written takes its columns from the edit, whatever became of
\* the title: valid columns make a valid row.
LEMMA FilaEscritaValida ==
  ASSUME NEW actual \in Tarea, NEW nueva \in Tarea, FilaValida(nueva), NEW b \in BOOLEAN
  PROVE  FilaEscrita(actual, nueva, b) \in Tarea /\ FilaValida(FilaEscrita(actual, nueva, b))
  BY DEF FilaEscrita, Tarea, FilaValida

\* Writing an edit preserves the invariant: the policy let it through, so the
\* pedido is not in a status that depends on its tasks.
LEMMA EscribirConserva ==
  ASSUME InvInductivo, NEW r \in Peticiones, petTarea[r] # Sin,
         NEW nueva \in Tarea, FilaValida(nueva), NEW b \in BOOLEAN,
         Escribir(r, nueva, b)
  PROVE  InvInductivo'
  <1> USE DEF InvInductivo
  <1> DEFINE t == petTarea[r]
             fila == FilaEscrita(tareas[t], nueva, b)
  <1>1. t \in Tareas /\ tareas[t] \in Tarea
    BY DEF TypeOK, Escribir, Registradas
  <1>2. fila \in Tarea /\ FilaValida(fila)
    BY <1>1, FilaEscritaValida
  <1>3. /\ tareas' = [tareas EXCEPT ![t] = fila]
        /\ petTarea' = [petTarea EXCEPT ![r] = Sin]
        /\ petCopia' = [petCopia EXCEPT ![r] = Sin]
        /\ estado \in EstadoMutable
        /\ UNCHANGED <<estado, flujo, total, pagado, acceso, petLlamada>>
    BY DEF Escribir, PuedeMutar
  <1> HIDE DEF fila
  <1>4. TypeOK'
    BY <1>1, <1>2, <1>3 DEF TypeOK
  <1>5. EncargoTerminado'
    BY <1>3 DEF EncargoTerminado, EstadoMutable, PedidoInicial
  <1>6. RestriccionesDeTarea'
    <2>1. ASSUME NEW u \in Registradas' PROVE FilaValida(tareas'[u])
      BY <1>1, <1>2, <1>3, <2>1 DEF TypeOK, RestriccionesDeTarea, Registradas
    <2> QED BY <2>1 DEF RestriccionesDeTarea
  <1>7. PagoCubierto' /\ (estado = "no_existe" => pagado = 0)'
    BY <1>3 DEF PagoCubierto
  <1>8. CopiaValida'
    BY <1>3 DEF CopiaValida, TypeOK
  <1> QED BY <1>4, <1>5, <1>6, <1>7, <1>8

\* The actions that touch neither the tasks nor what is in flight.
LEMMA PedidoConserva ==
  ASSUME InvInductivo
  PROVE  /\ \A a \in Actores, e \in PedidoEstado : CambiarEstado(a, e) => InvInductivo'
         /\ \A a \in Actores : CambiarAcceso(a) => InvInductivo'
  <1> USE DEF InvInductivo, TypeOK, RestriccionesDeTarea, CopiaValida, Registradas, PagoCubierto
  <1>1. ASSUME NEW a \in Actores, NEW e \in PedidoEstado, CambiarEstado(a, e)
        PROVE  InvInductivo'
    BY <1>1 DEF CambiarEstado, TareasPermiten, edicion, EncargoTerminado, Terminado,
                TransicionPedido, PedidoInicial, PedidoCerrado, PedidoEstado
  <1>2. ASSUME NEW a \in Actores, CambiarAcceso(a)
        PROVE  InvInductivo'
    BY <1>2 DEF CambiarAcceso, edicion, EncargoTerminado, Terminado
  <1> QED BY <1>1, <1>2

\* A call of a manager, from its access test to its write.
LEMMA LlamadaConserva ==
  ASSUME InvInductivo, NEW r \in Peticiones, LlamarGestor(r)
  PROVE  InvInductivo'
  <1> USE DEF InvInductivo, TypeOK, RestriccionesDeTarea, CopiaValida, Registradas, PagoCubierto,
              EncargoTerminado, Terminado, Ejecutar
  <1>0. \A n \in Precios \cup Cobros \cup {0} : n \in Nat
    BY ImportesAssumption
  <1>1. ASSUME NEW f \in Llamada, Admitir(r, f) PROVE InvInductivo'
    BY <1>1 DEF Admitir
  <1>2. ASSUME NEW e \in PedidoInicial, NEW n \in Precios, CrearPedido(r, e, n)
        PROVE  InvInductivo'
    BY <1>0, <1>2 DEF CrearPedido, PedidoInicial, PedidoEstado
  <1>3. ASSUME NEW n \in Precios, ActualizarDatos(r, n) PROVE InvInductivo'
    BY <1>0, <1>3 DEF ActualizarDatos, PedidoEstado
  <1>4. ASSUME NEW n \in Cobros, ActualizarPago(r, n) PROVE InvInductivo'
    BY <1>0, <1>4 DEF ActualizarPago
  <1> QED BY <1>1, <1>2, <1>3, <1>4 DEF LlamarGestor

\* Creating and deleting tasks, by hand or from a template.
LEMMA TareasConserva ==
  ASSUME InvInductivo
  PROVE  /\ \A a \in Actores, t \in Tareas, n \in Titulos : CrearTarea(a, t, n) => InvInductivo'
         /\ \A a \in Actores, S \in SUBSET Tareas : \A titulo \in [S -> Titulos] :
                AplicarPlantilla(a, S, titulo) => InvInductivo'
         /\ \A a \in Actores, t \in Tareas : BorrarTarea(a, t) => InvInductivo'
  <1> USE DEF InvInductivo, TypeOK, RestriccionesDeTarea, CopiaValida, Registradas, PagoCubierto,
              EncargoTerminado, EstadoMutable, PedidoInicial, PuedeMutar, edicion
  <1>1. ASSUME NEW a \in Actores, NEW t \in Tareas, NEW n \in Titulos, CrearTarea(a, t, n)
        PROVE  InvInductivo'
    BY <1>1, NuevaValida DEF CrearTarea
  <1>2. ASSUME NEW a \in Actores, NEW S \in SUBSET Tareas, NEW titulo \in [S -> Titulos],
               AplicarPlantilla(a, S, titulo)
        PROVE  InvInductivo'
    BY <1>2, NuevaValida DEF AplicarPlantilla
  <1>3. ASSUME NEW a \in Actores, NEW t \in Tareas, BorrarTarea(a, t)
        PROVE  InvInductivo'
    BY <1>3, SinAssumption DEF BorrarTarea
  <1> QED BY <1>1, <1>2, <1>3

\* An edit of a task, from its read to its write.
LEMMA EdicionConserva ==
  ASSUME InvInductivo, NEW r \in Peticiones, EditarTarea(r)
  PROVE  InvInductivo'
  <1> USE DEF InvInductivo
  <1>1. petTarea[r] # Sin => petCopia[r] \in Tarea /\ FilaValida(petCopia[r])
    BY DEF CopiaValida
  <1>2. ASSUME NEW t \in Tareas, LeerTarea(r, t) PROVE InvInductivo'
    <2>1. tareas[t] \in Tarea /\ FilaValida(tareas[t])
      BY <1>2 DEF LeerTarea, TypeOK, Registradas, RestriccionesDeTarea
    <2>2. TypeOK' /\ CopiaValida'
      BY <1>2, <2>1 DEF LeerTarea, TypeOK, CopiaValida
    <2> QED BY <1>2, <2>2 DEF LeerTarea, EncargoTerminado, Terminado, Registradas,
                              RestriccionesDeTarea, PagoCubierto
  <1>3. ASSUME NEW n \in Titulos, CambiarTitulo(r, n) PROVE InvInductivo'
    BY <1>1, <1>3, EdicionValida, EscribirConserva DEF CambiarTitulo
  <1>4. ASSUME NEW c \in Cantidades, NEW q \in 0..c, RegistrarAvance(r, q) PROVE InvInductivo'
    <2>1. q \in Nat /\ q <= petCopia[r].objetivo
      BY <1>4, CantidadesAssumption DEF RegistrarAvance
    <2> QED BY <1>1, <1>4, <2>1, EdicionValida, EscribirConserva DEF RegistrarAvance
  <1>5. CASE Completar(r)
    BY <1>1, <1>5, EdicionValida, EscribirConserva DEF Completar
  <1>6. CASE Reabrir(r)
    BY <1>1, <1>6, EdicionValida, EscribirConserva DEF Reabrir
  <1>7. CASE Abandonar(r)
    BY <1>7 DEF Abandonar, TypeOK, EncargoTerminado, Terminado, Registradas,
                RestriccionesDeTarea, PagoCubierto, CopiaValida
  <1> QED BY <1>2, <1>3, <1>4, <1>5, <1>6, <1>7 DEF EditarTarea

\* Every step, and every stutter, preserves the invariant.
LEMMA Paso == InvInductivo /\ [Next]_vars => InvInductivo'
  <1> SUFFICES ASSUME InvInductivo, [Next]_vars PROVE InvInductivo'
    OBVIOUS
  <1>1. CASE Next
    BY <1>1, PedidoConserva, TareasConserva, EdicionConserva, LlamadaConserva DEF Next
  <1>2. CASE UNCHANGED vars
    BY <1>2 DEF vars, edicion, InvInductivo, TypeOK, EncargoTerminado, Terminado, Registradas,
                RestriccionesDeTarea, PagoCubierto, CopiaValida
  <1> QED BY <1>1, <1>2

\* InvInductivo holds in every reachable state.
THEOREM Invariante == Spec => []InvInductivo
  BY Inicio, Paso, PTL DEF Spec

\* Every variable keeps its type.
THEOREM TiposCorrectos == Spec => []TypeOK
  <1>1. InvInductivo => TypeOK
    BY DEF InvInductivo
  <1> QED BY <1>1, Invariante, PTL

\* actualizar_estado_pedido and the task policies together: an encargo that is
\* ready or delivered has tasks, all of them complete.
THEOREM EncargoSiempreTerminado == Spec => []EncargoTerminado
  <1>1. InvInductivo => EncargoTerminado
    BY DEF InvInductivo
  <1> QED BY <1>1, Invariante, PTL

\* No write of updatePedidoTask meets a CHECK constraint, however old its copy.
THEOREM FilasConRestricciones == Spec => []RestriccionesDeTarea
  <1>1. InvInductivo => RestriccionesDeTarea
    BY DEF InvInductivo
  <1> QED BY <1>1, Invariante, PTL

\* Payments never exceed the price.
THEOREM PagoSiempreCubierto == Spec => []PagoCubierto
  <1>1. InvInductivo => PagoCubierto
    BY DEF InvInductivo
  <1> QED BY <1>1, Invariante, PTL

\* Whoever changes the tasks passes the policy, at the moment of the change.
LEMMA SoloQuienPuede ==
  ASSUME TypeOK, [Next]_vars, tareas' # tareas
  PROVE  acceso # {} /\ estado \in EstadoMutable /\ estado' = estado
  <1>1. ASSUME NEW a, PuedeMutar(a) PROVE acceso # {} /\ estado \in EstadoMutable
    BY <1>1 DEF PuedeMutar
  <1>2. ASSUME NEW a \in Actores, NEW t \in Tareas, NEW n \in Titulos,
               CrearTarea(a, t, n)
        PROVE  acceso # {} /\ estado \in EstadoMutable /\ estado' = estado
    BY <1>1, <1>2 DEF CrearTarea
  <1>3. ASSUME NEW a \in Actores, NEW S \in SUBSET Tareas, NEW titulo \in [S -> Titulos],
               AplicarPlantilla(a, S, titulo)
        PROVE  acceso # {} /\ estado \in EstadoMutable /\ estado' = estado
    BY <1>1, <1>3 DEF AplicarPlantilla
  <1>4. ASSUME NEW r \in Peticiones, EditarTarea(r)
        PROVE  acceso # {} /\ estado \in EstadoMutable /\ estado' = estado
    BY <1>1, <1>4 DEF EditarTarea, LeerTarea, CambiarTitulo, RegistrarAvance, Completar,
                      Reabrir, Abandonar, Escribir
  <1>5. /\ \A a, e : ~CambiarEstado(a, e)
        /\ \A a : ~CambiarAcceso(a)
        /\ \A r : ~LlamarGestor(r)
        /\ ~UNCHANGED vars
    BY DEF CambiarEstado, CambiarAcceso, LlamarGestor, Admitir, CrearPedido, ActualizarDatos,
           ActualizarPago, vars
  <1>6. CASE Next
    <2>1. CASE \E r \in Peticiones : EditarTarea(r)
      BY <1>4, <2>1
    <2>2. CASE \E a \in Actores : \E t \in Tareas, n \in Titulos : CrearTarea(a, t, n)
      BY <1>2, <2>2
    <2>3. CASE \E a \in Actores, S \in SUBSET Tareas :
                   \E titulo \in [S -> Titulos] : AplicarPlantilla(a, S, titulo)
      BY <1>3, <2>3
    <2>4. CASE \E a \in Actores : \E t \in Tareas : BorrarTarea(a, t)
      <3>1. PICK a \in Actores, t \in Tareas : BorrarTarea(a, t)
        BY <2>4
      <3> QED BY <1>1, <3>1 DEF BorrarTarea
    <2> QED BY <1>5, <1>6, <2>1, <2>2, <2>3, <2>4 DEF Next
  <1> QED BY <1>5, <1>6

\* From listo_entrega on, no step of anyone changes the tasks.
THEOREM TareasSiempreCongeladas == Spec => TareasCongeladas
  <1>1. TypeOK /\ [Next]_vars =>
          [(estado \in {"listo_entrega"} \cup PedidoCerrado) => (tareas' = tareas)]_vars
    BY SoloQuienPuede DEF EstadoMutable, PedidoInicial, PedidoCerrado
  <1> QED BY <1>1, TiposCorrectos, PTL DEF Spec, TareasCongeladas

\* A closed pedido keeps its status and its price.
THEOREM CierreSiempreDefinitivo == Spec => CierreDefinitivo
  <1>1. [Next]_vars =>
          [(estado \in PedidoCerrado) => (estado' = estado /\ total' = total)]_vars
    BY DEF Next, LlamarGestor, Admitir, CrearPedido, CambiarEstado, ActualizarDatos,
           ActualizarPago, Ejecutar, CambiarAcceso,
           CrearTarea, AplicarPlantilla, BorrarTarea, EditarTarea, LeerTarea, CambiarTitulo,
           RegistrarAvance, Completar, Reabrir, Abandonar, Escribir,
           TransicionPedido, PedidoInicial, PedidoCerrado, PedidoEstado
  <1> QED BY <1>1, PTL DEF Spec, CierreDefinitivo

\* Of the calls in flight only those that were past their access test change
\* the price, the payment or an absent row, and each is used up by its write.
LEMMA SoloLoAdmitido ==
  ASSUME TypeOK, [Next]_vars, acceso = {}
  PROVE  /\ \A r \in Peticiones : petLlamada'[r] \in {petLlamada[r], "nada"}
         /\ estado' # estado => estado = "no_existe" /\ Consumida("crear")
         /\ total' # total => Consumida("crear") \/ Consumida("datos")
         /\ pagado' # pagado => Consumida("pago")
  <1> DEFINE Permitido ==
        /\ \A r \in Peticiones : petLlamada'[r] \in {petLlamada[r], "nada"}
        /\ estado' # estado => estado = "no_existe" /\ Consumida("crear")
        /\ total' # total => Consumida("crear") \/ Consumida("datos")
        /\ pagado' # pagado => Consumida("pago")
  <1>0. ASSUME petLlamada' = petLlamada, estado' = estado, total' = total, pagado' = pagado
        PROVE  Permitido
    BY <1>0
  <1>1. ASSUME NEW r \in Peticiones, NEW f \in Llamada, Ejecutar(r, f)
        PROVE  /\ \A u \in Peticiones : petLlamada'[u] \in {petLlamada[u], "nada"}
               /\ Consumida(f)
    BY <1>1 DEF Ejecutar, Consumida, TypeOK
  <1>2. \A r, f : ~Admitir(r, f)
    BY DEF Admitir, GestorActivo
  <1>3. ASSUME NEW r \in Peticiones, LlamarGestor(r) PROVE Permitido
    <2>1. ASSUME NEW e, NEW n, CrearPedido(r, e, n) PROVE Permitido
      BY <1>1, <2>1 DEF CrearPedido, Llamada
    <2>2. ASSUME NEW n, ActualizarDatos(r, n) PROVE Permitido
      BY <1>1, <2>2 DEF ActualizarDatos, Llamada
    <2>3. ASSUME NEW n, ActualizarPago(r, n) PROVE Permitido
      BY <1>1, <2>3 DEF ActualizarPago, Llamada
    <2> QED BY <1>2, <1>3, <2>1, <2>2, <2>3 DEF LlamarGestor
  <1>4. ASSUME NEW r \in Peticiones, Abandonar(r) PROVE Permitido
    BY <1>4 DEF Abandonar, TypeOK
  <1>5. ASSUME NEW r \in Peticiones, EditarTarea(r) PROVE Permitido
    <2>1. ASSUME NEW nueva, NEW b, Escribir(r, nueva, b) PROVE Permitido
      BY <1>0, <2>1 DEF Escribir
    <2>2. ASSUME NEW t, LeerTarea(r, t) PROVE Permitido
      BY <1>0, <2>2 DEF LeerTarea
    <2> QED BY <1>4, <1>5, <2>1, <2>2
            DEF EditarTarea, CambiarTitulo, RegistrarAvance, Completar, Reabrir
  <1>6. ASSUME NEW a \in Actores, CambiarAcceso(a) PROVE Permitido
    BY <1>0, <1>6 DEF CambiarAcceso, edicion
  <1>7. /\ \A a, e : ~CambiarEstado(a, e)
        /\ \A a, t, n : ~CrearTarea(a, t, n)
        /\ \A a, S, titulo : ~AplicarPlantilla(a, S, titulo)
        /\ \A a, t : ~BorrarTarea(a, t)
    BY DEF CambiarEstado, CrearTarea, AplicarPlantilla, BorrarTarea, PuedeMutar
  <1>8. CASE UNCHANGED vars
    BY <1>0, <1>8 DEF vars, edicion
  <1>9. CASE Next
    BY <1>3, <1>5, <1>6, <1>7, <1>9 DEF Next
  <1> QED BY <1>8, <1>9

\* With nobody active and with access no task and no status changes, and the
\* price, the payment and the creation only through calls already admitted.
THEOREM SinAccesoSiempreSoloLoAdmitido == Spec => SinAccesoSoloLoAdmitido
  <1>1. TypeOK /\ [Next]_vars =>
          [(acceso = {}) =>
            /\ tareas' = tareas
            /\ \A r \in Peticiones : petLlamada'[r] \in {petLlamada[r], "nada"}
            /\ estado' # estado => estado = "no_existe" /\ Consumida("crear")
            /\ total' # total => Consumida("crear") \/ Consumida("datos")
            /\ pagado' # pagado => Consumida("pago")]_vars
    BY SoloQuienPuede, SoloLoAdmitido
  <1> QED BY <1>1, TiposCorrectos, PTL DEF Spec, SinAccesoSoloLoAdmitido
-----------------------------------------------------------------------------
(* Pedidos implements CicloPedido: terminado and saldado are read from the *)
(* rows, and each function is one step of the abstract life or a stutter.  *)

\* Both modules draw the same status graph.
LEMMA MismoGrafo ==
  Ciclo!PedidoInicial = PedidoInicial /\ Ciclo!TransicionPedido = TransicionPedido
  BY DEF Ciclo!PedidoInicial, PedidoInicial, Ciclo!TransicionPedido, TransicionPedido,
         Ciclo!PedidoEstado, PedidoEstado, Ciclo!PedidoCerrado, PedidoCerrado

\* The initial states map to initial states.
LEMMA InicioCiclo == Init => Ciclo!Init
  BY SinAssumption DEF Init, Ciclo!Init, Terminado, Registradas, Saldado

\* A step that leaves the tasks alone leaves the work as it was.
LEMMA TerminadoIgual == tareas' = tareas => Terminado' = Terminado
  BY DEF Terminado, Registradas

\* Every step maps to a step or a stutter.
LEMMA PasoCiclo == InvInductivo /\ InvInductivo' /\ [Next]_vars => [Ciclo!Next]_(Ciclo!vars)
  <1> SUFFICES ASSUME InvInductivo, InvInductivo', [Next]_vars
               PROVE  [Ciclo!Next]_(Ciclo!vars)
    OBVIOUS
  <1>0. Terminado \in BOOLEAN /\ Terminado' \in BOOLEAN /\ Saldado(total, pagado)' \in BOOLEAN
    BY DEF Terminado, Saldado
  <1>1. ASSUME tareas' # tareas PROVE [Ciclo!Next]_(Ciclo!vars)
    <2>1. estado \in EstadoMutable /\ estado' = estado
      BY <1>1, SoloQuienPuede DEF InvInductivo
    <2>2. flujo' = flujo /\ total' = total /\ pagado' = pagado
      BY <1>1 DEF Next, LlamarGestor, Admitir, CrearPedido, CambiarEstado, ActualizarDatos,
           ActualizarPago, CambiarAcceso, CrearTarea, AplicarPlantilla, BorrarTarea, EditarTarea, LeerTarea,
           CambiarTitulo, RegistrarAvance, Completar, Reabrir, Abandonar, Escribir, vars
    <2>3. Ciclo!Trabajar
      <3>1. Saldado(total, pagado)' = Saldado(total, pagado)
        BY <2>2 DEF Saldado
      <3> QED BY <1>0, <2>1, <2>2, <3>1, MismoGrafo, Zenon
             DEF Ciclo!Trabajar, Ciclo!EnTrabajo, EstadoMutable
    <2> QED BY <2>3 DEF Ciclo!Next
  <1>2. ASSUME NEW r, NEW e \in PedidoInicial, NEW n \in Precios, CrearPedido(r, e, n)
        PROVE  Ciclo!Next
    <2>1. Terminado' = Terminado
      BY <1>2, TerminadoIgual DEF CrearPedido
    <2>2. estado = "no_existe" /\ estado' \in PedidoInicial /\ flujo' = flujo
      BY <1>2 DEF CrearPedido
    <2> QED BY <1>0, <2>1, <2>2, MismoGrafo, Zenon DEF Ciclo!Next, Ciclo!Crear
  <1>3. ASSUME NEW a \in Actores, NEW e \in PedidoEstado, CambiarEstado(a, e)
        PROVE  Ciclo!Next
    <2>1. Terminado' = Terminado /\ Saldado(total, pagado)' = Saldado(total, pagado)
      BY <1>3, TerminadoIgual DEF CambiarEstado, Saldado
    <2>2. <<estado, e>> \in TransicionPedido /\ estado' = e /\ flujo' = flujo
      BY <1>3 DEF CambiarEstado
    <2>3. flujo = "encargo" /\ e = "listo_entrega" => Terminado
      BY <1>3 DEF CambiarEstado, TareasPermiten
    <2>4. e = "entregado" => estado = "listo_entrega" /\ Saldado(total, pagado)
      BY <1>3, <2>2 DEF CambiarEstado, PagoPermite, TransicionPedido, PedidoInicial,
                        PedidoEstado, PedidoCerrado
    <2>5. flujo = "encargo" /\ e = "entregado" => Terminado
      BY <2>4 DEF InvInductivo, EncargoTerminado
    <2>6. Ciclo!Avanzar
      BY <2>1, <2>2, <2>3, <2>4, <2>5, MismoGrafo, Zenon DEF Ciclo!Avanzar
    <2> QED BY <2>6 DEF Ciclo!Next
  <1>4. ASSUME NEW r, NEW n, ActualizarDatos(r, n) \/ ActualizarPago(r, n)
        PROVE  Ciclo!Next
    <2>1. Terminado' = Terminado /\ estado' = estado /\ flujo' = flujo /\ estado # "no_existe"
      BY <1>4, TerminadoIgual DEF ActualizarDatos, ActualizarPago, PedidoEstado
    <2> QED BY <1>0, <2>1, Zenon DEF Ciclo!Next, Ciclo!Cobrar
  <1>5. ASSUME tareas' = tareas, estado' = estado, flujo' = flujo, total' = total, pagado' = pagado
        PROVE  UNCHANGED Ciclo!vars
    BY <1>5, TerminadoIgual DEF Ciclo!vars, Saldado
  <1>6. ASSUME tareas' = tareas PROVE [Ciclo!Next]_(Ciclo!vars)
    <2>1. ASSUME NEW a \in Actores, CambiarAcceso(a) PROVE UNCHANGED Ciclo!vars
      BY <2>1, <1>5 DEF CambiarAcceso
    <2>2. ASSUME NEW a \in Actores, NEW t \in Tareas, NEW n \in Titulos,
                 CrearTarea(a, t, n)
          PROVE  UNCHANGED Ciclo!vars
      BY <1>6, <2>2, <1>5 DEF CrearTarea
    <2>3. ASSUME NEW a \in Actores, NEW S \in SUBSET Tareas, NEW titulo \in [S -> Titulos],
                 AplicarPlantilla(a, S, titulo)
          PROVE  UNCHANGED Ciclo!vars
      BY <1>6, <2>3, <1>5 DEF AplicarPlantilla
    <2>4. ASSUME NEW r \in Peticiones, EditarTarea(r) PROVE UNCHANGED Ciclo!vars
      BY <1>6, <2>4, <1>5 DEF EditarTarea, LeerTarea, CambiarTitulo, RegistrarAvance,
                              Completar, Reabrir, Abandonar, Escribir
    <2>5. CASE UNCHANGED vars
      BY <2>5, <1>5 DEF vars
    <2>6. ASSUME NEW a \in Actores, NEW t \in Tareas, BorrarTarea(a, t)
          PROVE  UNCHANGED Ciclo!vars
      BY <1>6, <2>6, <1>5 DEF BorrarTarea
    <2>7. ASSUME NEW r \in Peticiones, LlamarGestor(r) PROVE [Ciclo!Next]_(Ciclo!vars)
      <3>1. ASSUME NEW f, Admitir(r, f) PROVE UNCHANGED Ciclo!vars
        BY <1>5, <1>6, <3>1 DEF Admitir
      <3> QED BY <1>2, <1>4, <2>7, <3>1 DEF LlamarGestor
    <2>8. CASE Next
      BY <1>3, <2>1, <2>2, <2>3, <2>4, <2>6, <2>7, <2>8 DEF Next
    <2> QED BY <2>5, <2>8
  <1> QED BY <1>1, <1>6

\* The tasks, the edits in flight and the payments implement the life that the
\* status of the pedido announces.
THEOREM ImplementaCiclo == Spec => CicloSpec
  BY InicioCiclo, PasoCiclo, Invariante, PTL DEF Spec, CicloSpec, Ciclo!Spec

-----------------------------------------------------------------------------
(* Solicitudes.                                                            *)

\* The initial state satisfies the inductive invariant.
LEMMA InicioSolicitudes == InitSolicitudes => InvSolicitudes
  <1> SUFFICES ASSUME InitSolicitudes PROVE InvSolicitudes
    OBVIOUS
  <1>0. \A r \in Transacciones : tx[r] = Libre
    BY DEF InitSolicitudes
  <1>1. Libre \in Tx /\ Libre.fase = "libre" /\ Libre.sol = Nulo /\ Libre.ped = Nulo
    BY SolicitudesAssumption DEF Libre, Tx, Fase
  <1>2. \A q \in Solicitudes : ~Hay(q)
    BY DEF InitSolicitudes, Hay
  <1>3. \A p \in Pedidos : ~HayPedido(p)
    BY DEF InitSolicitudes, HayPedido
  <1>4. TipoSolicitudes
    BY <1>1, SolicitudesAssumption DEF InitSolicitudes, TipoSolicitudes, Anios
  <1>5. FaseCoherente /\ CruceAnotado
    BY <1>0, <1>1 DEF FaseCoherente, SolicitudPendiente, ConversionPendiente, PedidoPendiente,
                      ClavesUnicas, CruceAnotado, Bloqueante, Numerada
  <1>6. Exclusion
    BY <1>0, <1>1 DEF Exclusion, Ajenas, Numerada
  <1>7. ConversionCoherente /\ ReferenciaSalvoCruce
    BY <1>2, <1>3 DEF ConversionCoherente, ReferenciaSalvoCruce
  <1>8. NumeracionSinHuecos
    <2> SUFFICES ASSUME NEW a \in Anios
                 PROVE  /\ {pedido[p].num : p \in DelAnio(a)} = 1 .. contador[a]
                        /\ IsFiniteSet(DelAnio(a)) /\ Cardinality(DelAnio(a)) = contador[a]
      BY DEF NumeracionSinHuecos
    <2>1. DelAnio(a) = {} /\ contador[a] = 0
      BY <1>3 DEF DelAnio, InitSolicitudes
    <2> QED BY <2>1, FS_EmptySet
  <1> QED BY <1>4, <1>5, <1>6, <1>7, <1>8 DEF InvSolicitudes

\* A step that changes one transaction and no row preserves the invariant when the new
\* record t of the transaction is coherent with the rows, holds nothing another one holds,
\* and any reference it shares with the other table is noted as a cross.
LEMMA TransaccionConserva ==
  ASSUME InvSolicitudes, NEW r \in Transacciones, NEW t \in Tx,
         tx' = [tx EXCEPT ![r] = t],
         UNCHANGED <<solicitud, pedido, clientes, contador, hoy>>,
         cruces \subseteq cruces', cruces' \subseteq Refs,
         t.fase \in {"libre", "publica"} => t.sol = Nulo,
         SolicitudPendiente(t), ConversionPendiente(t), PedidoPendiente(t), ClavesUnicas(t),
         \A s \in Transacciones \ {r} : Ajenas(t, tx[s]),
         t.fase \in {"comprobada", "insertada"} =>
            \/ t.ref \in cruces' \/ EnSolicitudes(t.ref)
            \/ ~EnPedidos(t.ref) /\ ~Insertando(r, {"revisada", "escrita"}, t.ref),
         t.fase \in {"revisada", "escrita"} =>
            \/ t.ref \in cruces' \/ EnSolicitudes(t.ref)
            \/ ~Insertando(r, {"comprobada", "insertada"}, t.ref),
         t.fase \in {"revisada", "escrita"} /\ t.sol = Nulo /\ EnSolicitudes(t.ref)
            => t.ref \in cruces'
  PROVE  InvSolicitudes'
  <1> USE DEF InvSolicitudes
  <1>1. tx[r] \in Tx /\ tx' \in [Transacciones -> Tx] /\ tx'[r] = t
        /\ \A s \in Transacciones : s # r => tx'[s] = tx[s]
    BY DEF TipoSolicitudes
  <1>2. TipoSolicitudes'
    BY <1>1 DEF TipoSolicitudes
  <1>3. ConversionCoherente'
    BY DEF ConversionCoherente, Hay, HayPedido
  <1>4. NumeracionSinHuecos'
    BY DEF NumeracionSinHuecos, DelAnio, HayPedido
  <1>5. ReferenciaSalvoCruce'
    BY DEF ReferenciaSalvoCruce, Hay, HayPedido
  <1>6. \A ref : /\ EnSolicitudes(ref)' <=> EnSolicitudes(ref)
                 /\ EnPedidos(ref)' <=> EnPedidos(ref)
    BY DEF EnSolicitudes, EnPedidos, Hay, HayPedido
  <1>7. FaseCoherente'
    <2> SUFFICES ASSUME NEW s \in Transacciones
                 PROVE  (/\ tx[s].fase \in {"libre", "publica"} => tx[s].sol = Nulo
                         /\ SolicitudPendiente(tx[s]) /\ ConversionPendiente(tx[s])
                         /\ PedidoPendiente(tx[s]) /\ ClavesUnicas(tx[s]))'
      BY DEF FaseCoherente
    <2> DEFINE u == tx'[s]
    <2>1. /\ u.fase \in {"libre", "publica"} => u.sol = Nulo
          /\ SolicitudPendiente(u) /\ ConversionPendiente(u)
          /\ PedidoPendiente(u) /\ ClavesUnicas(u)
      BY <1>1 DEF FaseCoherente
    <2> QED BY <2>1, <1>6 DEF SolicitudPendiente, ConversionPendiente, PedidoPendiente,
                              ClavesUnicas, Hay, HayPedido
  <1>8. Exclusion'
    BY <1>1 DEF Exclusion, Ajenas
  <1>9. CruceAnotado'
    <2> SUFFICES ASSUME NEW s \in Transacciones
                 PROVE  (/\ tx[s].fase \in {"comprobada", "insertada"} =>
                              /\ EnPedidos(tx[s].ref) => CruceConocido(tx[s].ref)
                              /\ Insertando(s, {"revisada", "escrita"}, tx[s].ref)
                                    => CruceConocido(tx[s].ref)
                         /\ tx[s].fase \in {"revisada", "escrita"} /\ tx[s].sol = Nulo
                            /\ EnSolicitudes(tx[s].ref) => tx[s].ref \in cruces)'
      BY DEF CruceAnotado
    <2>1. CASE s = r
      BY <1>1, <1>6, <2>1 DEF CruceConocido, Insertando
    <2>2. CASE s # r
      BY <1>1, <1>6, <2>2 DEF CruceAnotado, CruceConocido, Insertando
    <2> QED BY <2>1, <2>2
  <1> QED BY <1>2, <1>3, <1>4, <1>5, <1>7, <1>8, <1>9

\* A call that is not in a transaction holds nothing.
LEMMA SinTransaccion ==
  ASSUME InvSolicitudes, NEW r \in Transacciones, NEW t \in Tx,
         tx' = [tx EXCEPT ![r] = t],
         UNCHANGED <<solicitud, pedido, clientes, contador, hoy, cruces>>,
         t.fase \in {"libre", "publica"}, t.sol = Nulo, t.ped = Nulo
  PROVE  InvSolicitudes'
  <1>1. SolicitudPendiente(t) /\ ConversionPendiente(t) /\ PedidoPendiente(t) /\ ClavesUnicas(t)
    BY DEF SolicitudPendiente, ConversionPendiente, PedidoPendiente, ClavesUnicas,
           Bloqueante, Numerada
  <1>2. \A s \in Transacciones \ {r} : Ajenas(t, tx[s])
    BY DEF Ajenas, Numerada
  <1>3. cruces \subseteq cruces' /\ cruces' \subseteq Refs
    BY DEF InvSolicitudes, TipoSolicitudes
  <1> QED BY <1>1, <1>2, <1>3, TransaccionConserva

\* A call before its transaction is a legal one.
LEMMA LibreEsTx == Libre \in Tx /\ Libre.fase = "libre" /\ Libre.sol = Nulo /\ Libre.ped = Nulo
  BY SolicitudesAssumption DEF Libre, Tx, Fase

\* A call starts.
LEMMA SolicitarConserva ==
  ASSUME InvSolicitudes, NEW r \in Transacciones, Solicitar(r)
  PROVE  InvSolicitudes'
  <1> DEFINE t == [tx[r] EXCEPT !.fase = "publica", !.intento = 1]
  <1>1. tx[r] \in Tx /\ tx[r].sol = Nulo /\ tx[r].ped = Nulo
    BY DEF InvSolicitudes, TipoSolicitudes, FaseCoherente, PedidoPendiente, Solicitar, En
  <1>2. 1 \in 0 .. MaxIntentos
    BY SolicitudesAssumption
  <1>4. t \in Tx /\ t.fase = "publica" /\ t.sol = Nulo /\ t.ped = Nulo
    BY <1>1, <1>2 DEF Tx, Fase
  <1>3. tx' = [tx EXCEPT ![r] = t]
    BY DEF Solicitar
  <1> QED BY <1>3, <1>4, SinTransaccion DEF Solicitar

\* A conflict of the reference gives the call one more attempt.
LEMMA ReintentarConserva ==
  ASSUME InvSolicitudes, NEW r \in Transacciones, Reintentar(r)
  PROVE  InvSolicitudes'
  <1> DEFINE t == [Libre EXCEPT !.fase = "publica", !.intento = tx[r].intento + 1]
  <1>1. tx[r] \in Tx
    BY DEF InvSolicitudes, TipoSolicitudes
  <1>2. tx[r].intento + 1 \in 0 .. MaxIntentos
    BY <1>1, SolicitudesAssumption DEF Reintentar, Tx
  <1>3. t \in Tx /\ t.fase = "publica" /\ t.sol = Nulo /\ t.ped = Nulo
    BY <1>2 DEF Tx, Fase, Libre
  <1> QED BY <1>3, SinTransaccion DEF Reintentar

\* A rollback frees all that the transaction held, and nothing had been written.
LEMMA AbortarConserva ==
  ASSUME InvSolicitudes, NEW r \in Transacciones, Abortar(r)
  PROVE  InvSolicitudes'
  BY LibreEsTx, SinTransaccion DEF Abortar

\* The trigger of the solicitudes: what it cannot see is noted as a cross.
LEMMA ComprobarSolicitudConserva ==
  ASSUME InvSolicitudes, NEW r \in Transacciones, NEW q \in Solicitudes, NEW ref \in Refs,
         ComprobarSolicitud(r, q, ref)
  PROVE  InvSolicitudes'
  <1> DEFINE t == [tx[r] EXCEPT !.fase = "comprobada", !.sol = q, !.ref = ref]
  <1>1. tx[r] \in Tx /\ tx[r].ped = Nulo
    BY DEF InvSolicitudes, TipoSolicitudes, FaseCoherente, PedidoPendiente,
           ComprobarSolicitud, En
  <1>2. t \in Tx /\ t.fase = "comprobada" /\ t.sol = q /\ t.ref = ref /\ t.ped = Nulo
    BY <1>1 DEF Tx, Fase
  <1>3. tx' = [tx EXCEPT ![r] = t]
    BY DEF ComprobarSolicitud
  <1>4. SolicitudPendiente(t) /\ ConversionPendiente(t) /\ PedidoPendiente(t) /\ ClavesUnicas(t)
    BY <1>2, SolicitudesAssumption
    DEF SolicitudPendiente, ConversionPendiente, PedidoPendiente, ClavesUnicas,
        Bloqueante, Numerada, ComprobarSolicitud
  <1>5. \A s \in Transacciones \ {r} : Ajenas(t, tx[s])
    BY <1>2 DEF Ajenas, Numerada, ComprobarSolicitud
  <1>6. /\ cruces \subseteq cruces' /\ cruces' \subseteq Refs
        /\ ref \in cruces' \/ EnSolicitudes(ref) \/ ~Insertando(r, {"revisada", "escrita"}, ref)
    BY DEF ComprobarSolicitud, Cruza, InvSolicitudes, TipoSolicitudes
  <1>7. ~EnPedidos(ref)
    BY DEF ComprobarSolicitud
  <1> QED BY <1>2, <1>3, <1>4, <1>5, <1>6, <1>7, TransaccionConserva DEF ComprobarSolicitud

\* The unique key of the solicitudes.
LEMMA InsertarSolicitudConserva ==
  ASSUME InvSolicitudes, NEW r \in Transacciones, InsertarSolicitud(r)
  PROVE  InvSolicitudes'
  <1> DEFINE t == [tx[r] EXCEPT !.fase = "insertada"]
  <1>1. tx[r] \in Tx /\ tx[r].fase = "comprobada"
    BY DEF InvSolicitudes, TipoSolicitudes, InsertarSolicitud, En
  <1>2. t \in Tx /\ t.fase = "insertada" /\ t.sol = tx[r].sol /\ t.ref = tx[r].ref
        /\ t.ped = tx[r].ped
    BY <1>1 DEF Tx, Fase
  <1>3. tx' = [tx EXCEPT ![r] = t]
    BY DEF InsertarSolicitud
  <1>4. SolicitudPendiente(t) /\ ConversionPendiente(t) /\ PedidoPendiente(t) /\ ClavesUnicas(t)
    BY <1>1, <1>2
    DEF SolicitudPendiente, ConversionPendiente, PedidoPendiente, ClavesUnicas,
        Bloqueante, Numerada, InsertarSolicitud, InvSolicitudes, FaseCoherente
  <1>5. \A s \in Transacciones \ {r} : Ajenas(t, tx[s])
    BY <1>1, <1>2
    DEF Ajenas, Numerada, InsertarSolicitud, Insertando, InvSolicitudes, Exclusion
  <1>6. /\ cruces' = cruces /\ cruces' \subseteq Refs
        /\ \/ t.ref \in cruces' \/ EnSolicitudes(t.ref)
           \/ ~EnPedidos(t.ref) /\ ~Insertando(r, {"revisada", "escrita"}, t.ref)
    BY <1>1, <1>2
    DEF InsertarSolicitud, InvSolicitudes, TipoSolicitudes, CruceAnotado, CruceConocido
  <1> QED BY <1>2, <1>3, <1>4, <1>5, <1>6, TransaccionConserva DEF InsertarSolicitud

\* A pedido by hand holds no row yet.
LEMMA AbrirManualConserva ==
  ASSUME InvSolicitudes, NEW r \in Transacciones, NEW c \in Clientes \cup {Nulo},
         AbrirManual(r, c)
  PROVE  InvSolicitudes'
  <1> DEFINE t == [Libre EXCEPT !.fase = "numera", !.cliente = c, !.anio = hoy]
  <1>0. hoy \in Anios
    BY DEF InvSolicitudes, TipoSolicitudes
  <1>2. t \in Tx /\ t.fase = "numera" /\ t.sol = Nulo /\ t.ped = Nulo /\ t.anio = hoy
    BY <1>0, LibreEsTx, Zenon DEF Tx, Fase, Libre
  <1>4. SolicitudPendiente(t) /\ ConversionPendiente(t) /\ PedidoPendiente(t) /\ ClavesUnicas(t)
    BY <1>0, <1>2
    DEF SolicitudPendiente, ConversionPendiente, PedidoPendiente, ClavesUnicas,
        Bloqueante, Numerada
  <1>5. \A s \in Transacciones \ {r} : Ajenas(t, tx[s])
    BY <1>2 DEF Ajenas, Numerada
  <1>6. cruces' = cruces /\ cruces' \subseteq Refs
    BY DEF AbrirManual, InvSolicitudes, TipoSolicitudes
  <1> QED BY <1>2, <1>4, <1>5, <1>6, TransaccionConserva DEF AbrirManual

\* The row that SELECT FOR UPDATE returns is nobody else's: those who hold a lock are
\* known by it, and those who insert hold a row that does not exist.
LEMMA AbrirConversionConserva ==
  ASSUME InvSolicitudes, NEW r \in Transacciones, NEW q \in Solicitudes,
         AbrirConversion(r, q)
  PROVE  InvSolicitudes'
  <1> DEFINE t == [Libre EXCEPT !.fase = "numera", !.sol = q, !.cliente = solicitud[q].cliente,
                                !.ref = solicitud[q].ref, !.anio = hoy]
  <1>0. hoy \in Anios /\ solicitud[q] \in Solicitud
    BY DEF InvSolicitudes, TipoSolicitudes, AbrirConversion, Hay
  <1>2. /\ t \in Tx /\ t.fase = "numera" /\ t.sol = q /\ t.ped = Nulo /\ t.anio = hoy
        /\ t.cliente = solicitud[q].cliente /\ t.ref = solicitud[q].ref
    BY <1>0, LibreEsTx DEF Tx, Fase, Libre, Solicitud
  <1>4. SolicitudPendiente(t) /\ ConversionPendiente(t) /\ PedidoPendiente(t) /\ ClavesUnicas(t)
    BY <1>0, <1>2
    DEF SolicitudPendiente, ConversionPendiente, PedidoPendiente, ClavesUnicas,
        Bloqueante, Numerada, AbrirConversion
  <1>5. \A s \in Transacciones \ {r} : Ajenas(t, tx[s])
    <2> SUFFICES ASSUME NEW s \in Transacciones \ {r} PROVE tx[s].sol # q
      BY <1>2 DEF Ajenas, Numerada
    <2>1. tx[s] \in Tx
      BY DEF InvSolicitudes, TipoSolicitudes
    <2>2. CASE tx[s].fase \in Bloqueante
      BY <2>2 DEF AbrirConversion, Bloqueada
    <2>3. CASE tx[s].fase \in {"libre", "publica"}
      BY <2>3, SolicitudesAssumption DEF InvSolicitudes, FaseCoherente
    <2>4. CASE tx[s].fase \in {"comprobada", "insertada"}
      BY <2>4 DEF InvSolicitudes, FaseCoherente, SolicitudPendiente, AbrirConversion
    <2> QED BY <2>1, <2>2, <2>3, <2>4 DEF Tx, Fase, Bloqueante
  <1>6. cruces' = cruces /\ cruces' \subseteq Refs
    BY DEF AbrirConversion, InvSolicitudes, TipoSolicitudes
  <1> QED BY <1>2, <1>4, <1>5, <1>6, TransaccionConserva DEF AbrirConversion

\* The row of the counter is of one transaction at a time.
LEMMA NumerarConserva ==
  ASSUME InvSolicitudes, NEW r \in Transacciones, Numerar(r)
  PROVE  InvSolicitudes'
  <1> DEFINE t == [tx[r] EXCEPT !.fase = "numerada"]
  <1>1. tx[r] \in Tx /\ tx[r].fase = "numera"
    BY DEF InvSolicitudes, TipoSolicitudes, Numerar, En
  <1>2. /\ t \in Tx /\ t.fase = "numerada" /\ t.sol = tx[r].sol /\ t.ref = tx[r].ref
        /\ t.ped = tx[r].ped /\ t.anio = tx[r].anio /\ t.cliente = tx[r].cliente
    BY <1>1 DEF Tx, Fase, Numerada
  <1>3. tx' = [tx EXCEPT ![r] = t]
    BY DEF Numerar
  <1>4. SolicitudPendiente(t) /\ ConversionPendiente(t) /\ PedidoPendiente(t) /\ ClavesUnicas(t)
    BY <1>1, <1>2
    DEF SolicitudPendiente, ConversionPendiente, PedidoPendiente, ClavesUnicas,
        Bloqueante, Numerada, Numerar, InvSolicitudes, FaseCoherente
  <1>5. \A s \in Transacciones \ {r} : Ajenas(t, tx[s])
    BY <1>1, <1>2 DEF Ajenas, Numerada, Numerar, InvSolicitudes, Exclusion
  <1>6. cruces' = cruces /\ cruces' \subseteq Refs
    BY DEF Numerar, InvSolicitudes, TipoSolicitudes
  <1> QED BY <1>2, <1>3, <1>4, <1>5, <1>6, TransaccionConserva DEF Numerar

\* The trigger of the pedidos: what it cannot see is noted as a cross.
LEMMA RevisarReferenciaConserva ==
  ASSUME InvSolicitudes, NEW r \in Transacciones, NEW ref \in Refs, RevisarReferencia(r, ref)
  PROVE  InvSolicitudes'
  <1> DEFINE t == [tx[r] EXCEPT !.fase = "revisada", !.ref = ref]
  <1>1. tx[r] \in Tx /\ tx[r].fase = "numerada"
    BY DEF InvSolicitudes, TipoSolicitudes, RevisarReferencia, En
  <1>2. /\ t \in Tx /\ t.fase = "revisada" /\ t.sol = tx[r].sol /\ t.ref = ref
        /\ t.ped = tx[r].ped /\ t.anio = tx[r].anio /\ t.cliente = tx[r].cliente
    BY <1>1 DEF Tx, Fase, Numerada
  <1>3. tx' = [tx EXCEPT ![r] = t]
    BY DEF RevisarReferencia
  <1>4. SolicitudPendiente(t) /\ ConversionPendiente(t) /\ PedidoPendiente(t) /\ ClavesUnicas(t)
    BY <1>1, <1>2, SolicitudesAssumption
    DEF SolicitudPendiente, ConversionPendiente, PedidoPendiente, ClavesUnicas,
        Bloqueante, Numerada, RevisarReferencia, InvSolicitudes, FaseCoherente
  <1>5. \A s \in Transacciones \ {r} : Ajenas(t, tx[s])
    BY <1>1, <1>2 DEF Ajenas, Numerada, InvSolicitudes, Exclusion
  <1>6. /\ cruces \subseteq cruces' /\ cruces' \subseteq Refs
        /\ ref \in cruces' \/ EnSolicitudes(ref) \/ ~Insertando(r, {"comprobada", "insertada"}, ref)
    BY DEF RevisarReferencia, Cruza, InvSolicitudes, TipoSolicitudes
  <1>7. t.sol = Nulo => ~EnSolicitudes(ref)
    BY <1>2, SolicitudesAssumption DEF RevisarReferencia, Ajena, EnSolicitudes
  <1> QED BY <1>2, <1>3, <1>4, <1>5, <1>6, <1>7, TransaccionConserva DEF RevisarReferencia

\* The unique key of the pedidos; what was noted of the reference still stands.
LEMMA EscribirPedidoConserva ==
  ASSUME InvSolicitudes, NEW r \in Transacciones, NEW p \in Pedidos, EscribirPedido(r, p)
  PROVE  InvSolicitudes'
  <1> DEFINE t == [tx[r] EXCEPT !.fase = "escrita", !.ped = p]
  <1>1. tx[r] \in Tx /\ tx[r].fase = "revisada"
    BY DEF InvSolicitudes, TipoSolicitudes, EscribirPedido, En
  <1>2. /\ t \in Tx /\ t.fase = "escrita" /\ t.sol = tx[r].sol /\ t.ref = tx[r].ref
        /\ t.ped = p /\ t.anio = tx[r].anio /\ t.cliente = tx[r].cliente
    BY <1>1 DEF Tx, Fase, Numerada
  <1>3. tx' = [tx EXCEPT ![r] = t]
    BY DEF EscribirPedido
  <1>4. SolicitudPendiente(t) /\ ConversionPendiente(t) /\ PedidoPendiente(t) /\ ClavesUnicas(t)
    BY <1>1, <1>2
    DEF SolicitudPendiente, ConversionPendiente, PedidoPendiente, ClavesUnicas,
        Bloqueante, Numerada, EscribirPedido, InvSolicitudes, FaseCoherente
  <1>5. \A s \in Transacciones \ {r} : Ajenas(t, tx[s])
    BY <1>1, <1>2 DEF Ajenas, Numerada, EscribirPedido, Insertando, InvSolicitudes, Exclusion
  <1>6. /\ cruces' = cruces /\ cruces' \subseteq Refs
        /\ \/ t.ref \in cruces' \/ EnSolicitudes(t.ref)
           \/ ~Insertando(r, {"comprobada", "insertada"}, t.ref)
        /\ t.sol = Nulo /\ EnSolicitudes(t.ref) => t.ref \in cruces'
    <2>1. cruces' = cruces /\ cruces' \subseteq Refs
      BY DEF EscribirPedido, InvSolicitudes, TipoSolicitudes
    <2>2. ASSUME Insertando(r, {"comprobada", "insertada"}, t.ref)
          PROVE  t.ref \in cruces' \/ EnSolicitudes(t.ref)
      BY <1>1, <1>2, <2>1, <2>2 DEF InvSolicitudes, CruceAnotado, CruceConocido, Insertando
    <2> QED BY <1>1, <1>2, <2>1, <2>2 DEF InvSolicitudes, CruceAnotado
  <1> QED BY <1>2, <1>3, <1>4, <1>5, <1>6, TransaccionConserva DEF EscribirPedido

\* The status graph neither leaves nor reaches convertida.
LEMMA NadieConvierteAMano ==
  \A d, e : <<d, e>> \in TransicionSolicitud =>
     d \in SolicitudAdmiteCarga /\ e \in SolicitudEstado \ {"convertida"}
  BY DEF TransicionSolicitud, SolicitudAdmiteCarga, SolicitudEstado

\* A row that is not locked may change its status or its client, as long as it keeps its
\* reference, its pedido and whether it is converted.
LEMMA FilaConserva ==
  ASSUME InvSolicitudes, NEW q \in Solicitudes, NEW fila \in Solicitud,
         Hay(q), ~Bloqueada(q),
         solicitud' = [solicitud EXCEPT ![q] = fila],
         fila.ref = solicitud[q].ref, fila.pedido = solicitud[q].pedido,
         fila.estado = "convertida" <=> solicitud[q].estado = "convertida",
         clientes' \subseteq Clientes,
         UNCHANGED <<pedido, contador, hoy, tx, cruces>>
  PROVE  InvSolicitudes'
  <1> USE DEF InvSolicitudes
  <1>1. /\ fila # Nulo /\ solicitud'[q] = fila
        /\ \A s \in Solicitudes : s # q => solicitud'[s] = solicitud[s]
    BY NuloAssumption DEF TipoSolicitudes
  <1>2. /\ \A s \in Solicitudes : Hay(s)' <=> Hay(s)
        /\ \A s \in Solicitudes : /\ Hay(s) => solicitud'[s].ref = solicitud[s].ref
                                  /\ Hay(s) => solicitud'[s].pedido = solicitud[s].pedido
                                  /\ Hay(s) => (solicitud'[s].estado = "convertida"
                                                <=> solicitud[s].estado = "convertida")
        /\ \A p \in Pedidos : HayPedido(p)' <=> HayPedido(p)
    BY <1>1 DEF Hay, HayPedido
  <1>3. \A ref : /\ EnSolicitudes(ref)' <=> EnSolicitudes(ref)
                 /\ EnPedidos(ref)' <=> EnPedidos(ref)
    BY <1>2 DEF EnSolicitudes, EnPedidos
  <1>4. TipoSolicitudes'
    BY <1>1 DEF TipoSolicitudes
  <1>5. ConversionCoherente'
    <2>1. \A p \in Pedidos : HayPedido(p) => pedido[p] \in Pedido
      BY DEF TipoSolicitudes, HayPedido
    <2>2. \A s \in Solicitudes : Hay(s) => solicitud[s] \in Solicitud
      BY DEF TipoSolicitudes, Hay
    <2>3. \A p \in Pedidos : HayPedido(p) /\ pedido[p].sol # Nulo => pedido[p].sol \in Solicitudes
      BY <2>1 DEF Pedido
    <2>4. \A s \in Solicitudes :
             Hay(s) /\ solicitud[s].pedido # Nulo => solicitud[s].pedido \in Pedidos
      BY <2>2 DEF Solicitud
    <2> QED BY <1>2, <2>3, <2>4 DEF ConversionCoherente
  <1>6. NumeracionSinHuecos'
    BY DEF NumeracionSinHuecos, DelAnio, HayPedido
  <1>7. ReferenciaSalvoCruce'
    BY <1>2 DEF ReferenciaSalvoCruce
  <1>8. FaseCoherente'
    <2> SUFFICES ASSUME NEW s \in Transacciones
                 PROVE  (/\ tx[s].fase \in {"libre", "publica"} => tx[s].sol = Nulo
                         /\ SolicitudPendiente(tx[s]) /\ ConversionPendiente(tx[s])
                         /\ PedidoPendiente(tx[s]) /\ ClavesUnicas(tx[s]))'
      BY DEF FaseCoherente
    <2>1. tx[s].fase \in Bloqueante => tx[s].sol # q
      BY DEF Bloqueada
    <2>2. tx[s].sol # Nulo => tx[s].sol \in Solicitudes
      BY DEF TipoSolicitudes, Tx
    <2>3. ConversionPendiente(tx[s])'
      BY <1>1, <1>2, <2>1, <2>2 DEF FaseCoherente, ConversionPendiente
    <2>4. SolicitudPendiente(tx[s])'
      BY <1>2 DEF FaseCoherente, SolicitudPendiente
    <2>5. PedidoPendiente(tx[s])'
      BY DEF FaseCoherente, PedidoPendiente, HayPedido
    <2>6. ClavesUnicas(tx[s])'
      BY <1>3 DEF FaseCoherente, ClavesUnicas
    <2> QED BY <2>3, <2>4, <2>5, <2>6 DEF FaseCoherente
  <1>9. Exclusion'
    BY DEF Exclusion, Ajenas
  <1>10. CruceAnotado'
    BY <1>3 DEF CruceAnotado, CruceConocido, Insertando
  <1> QED BY <1>4, <1>5, <1>6, <1>7, <1>8, <1>9, <1>10

\* The review and the clients do no more than that to a solicitud.
LEMMA GestionConserva ==
  ASSUME InvSolicitudes, NEW q \in Solicitudes,
         \/ \E e \in SolicitudEstado : CambiarEstadoSolicitud(q, e)
         \/ \E c \in Clientes : AsociarCliente(q, c) \/ CrearClienteDesdeSolicitud(q, c)
  PROVE  InvSolicitudes'
  <1>0. clientes \subseteq Clientes /\ (Hay(q) => solicitud[q] \in Solicitud)
    BY DEF InvSolicitudes, TipoSolicitudes, Hay
  <1>1. ASSUME NEW e \in SolicitudEstado, CambiarEstadoSolicitud(q, e) PROVE InvSolicitudes'
    <2> DEFINE fila == [solicitud[q] EXCEPT !.estado = e]
    <2>1. Hay(q) /\ solicitud[q] \in Solicitud
      BY <1>0, <1>1 DEF CambiarEstadoSolicitud
    <2>2. /\ fila \in Solicitud /\ fila.estado = e
          /\ fila.ref = solicitud[q].ref /\ fila.pedido = solicitud[q].pedido
      BY <2>1 DEF Solicitud
    <2>3. e # "convertida" /\ solicitud[q].estado # "convertida"
      BY <1>1, NadieConvierteAMano DEF CambiarEstadoSolicitud, SolicitudAdmiteCarga
    <2>4. solicitud' = [solicitud EXCEPT ![q] = fila]
      BY <1>1 DEF CambiarEstadoSolicitud
    <2> QED BY <1>0, <1>1, <2>2, <2>3, <2>4, FilaConserva DEF CambiarEstadoSolicitud
  <1>2. ASSUME NEW c \in Clientes, AsociarCliente(q, c) \/ CrearClienteDesdeSolicitud(q, c)
        PROVE  InvSolicitudes'
    <2> DEFINE fila == [solicitud[q] EXCEPT !.cliente = c]
    <2>1. /\ Hay(q) /\ ~Bloqueada(q) /\ solicitud[q] \in Solicitud
          /\ clientes' \subseteq Clientes /\ UNCHANGED <<pedido, contador, hoy, tx, cruces>>
      BY <1>0, <1>2 DEF AsociarCliente, CrearClienteDesdeSolicitud
    <2>2. /\ fila \in Solicitud /\ fila.estado = solicitud[q].estado
          /\ fila.ref = solicitud[q].ref /\ fila.pedido = solicitud[q].pedido
      BY <2>1 DEF Solicitud
    <2>4. solicitud' = [solicitud EXCEPT ![q] = fila]
      BY <1>2 DEF AsociarCliente, CrearClienteDesdeSolicitud
    <2> QED BY <2>1, <2>2, <2>4, FilaConserva
  <1> QED BY <1>1, <1>2

\* New clients and a new year concern no transaction.
LEMMA EntornoConserva ==
  ASSUME InvSolicitudes, clientes' \subseteq Clientes, hoy' \in Anios,
         UNCHANGED <<solicitud, pedido, contador, tx, cruces>>
  PROVE  InvSolicitudes'
  <1> USE DEF InvSolicitudes
  <1>1. TipoSolicitudes'
    BY DEF TipoSolicitudes
  <1>2. ConversionCoherente' /\ ReferenciaSalvoCruce'
    BY DEF ConversionCoherente, ReferenciaSalvoCruce, Hay, HayPedido
  <1>3. NumeracionSinHuecos'
    BY DEF NumeracionSinHuecos, DelAnio, HayPedido
  <1>4. FaseCoherente'
    BY DEF FaseCoherente, SolicitudPendiente, ConversionPendiente, PedidoPendiente,
           ClavesUnicas, EnSolicitudes, EnPedidos, Hay, HayPedido
  <1>5. Exclusion'
    BY DEF Exclusion, Ajenas
  <1>6. CruceAnotado'
    BY DEF CruceAnotado, CruceConocido, Insertando, EnSolicitudes, EnPedidos, Hay, HayPedido
  <1> QED BY <1>1, <1>2, <1>3, <1>4, <1>5, <1>6

\* What a request holds when it commits: a row and a reference that nobody has.
LEMMA SolicitudPorConfirmar ==
  ASSUME InvSolicitudes, NEW r \in Transacciones, ConfirmarSolicitud(r)
  PROVE  LET t == tx[r] IN
          /\ t \in Tx /\ t.fase = "insertada" /\ t.sol \in Solicitudes /\ ~Hay(t.sol)
          /\ t.ref # Nulo /\ t.ref \in Refs /\ ~EnSolicitudes(t.ref) /\ t.sol # Nulo
  <1> USE DEF InvSolicitudes
  <1> DEFINE t == tx[r]
  <1>1. t \in Tx /\ t.fase = "insertada"
    BY DEF ConfirmarSolicitud, En, TipoSolicitudes
  <1>2. t.sol \in Solicitudes /\ ~Hay(t.sol) /\ t.ref # Nulo /\ ~EnSolicitudes(t.ref)
    BY <1>1 DEF FaseCoherente, SolicitudPendiente, ClavesUnicas
  <1> QED BY <1>1, <1>2, SolicitudesAssumption DEF Tx

\* The commit of a request: a solicitud appears, and a pedido that has its reference
\* makes it a known cross.
LEMMA ConfirmarSolicitudConserva ==
  ASSUME InvSolicitudes, NEW r \in Transacciones, ConfirmarSolicitud(r)
  PROVE  InvSolicitudes'
  <1> USE DEF InvSolicitudes
  <1> DEFINE t == tx[r]
             q == t.sol
             fila == [estado |-> "nueva", cliente |-> Nulo, pedido |-> Nulo, ref |-> t.ref]
  <1>1. /\ t \in Tx /\ t.fase = "insertada" /\ q \in Solicitudes /\ ~Hay(q)
        /\ t.ref # Nulo /\ t.ref \in Refs /\ ~EnSolicitudes(t.ref) /\ q # Nulo
    BY SolicitudPorConfirmar
  <1>2. /\ fila \in Solicitud /\ fila # Nulo /\ fila.ref = t.ref
        /\ fila.estado # "convertida" /\ fila.pedido = Nulo
    BY <1>1, NuloAssumption DEF Solicitud, SolicitudEstado
  <1>3. /\ solicitud' = [solicitud EXCEPT ![q] = fila] /\ tx' = [tx EXCEPT ![r] = Libre]
        /\ UNCHANGED <<pedido, clientes, contador, hoy, cruces>>
    BY DEF ConfirmarSolicitud
  <1> HIDE DEF fila
  <1>4. TipoSolicitudes'
    BY <1>2, <1>3, LibreEsTx DEF TipoSolicitudes
  <1>5. /\ solicitud'[q] = fila /\ solicitud'[q] # Nulo
        /\ \A s \in Solicitudes : s # q => solicitud'[s] = solicitud[s] /\ (Hay(s)' <=> Hay(s))
        /\ \A p \in Pedidos : HayPedido(p)' <=> HayPedido(p)
        /\ tx'[r] = Libre /\ \A s \in Transacciones : s # r => tx'[s] = tx[s]
    <2>1. /\ solicitud'[q] = fila /\ \A s \in Solicitudes : s # q => solicitud'[s] = solicitud[s]
          /\ tx'[r] = Libre /\ \A s \in Transacciones : s # r => tx'[s] = tx[s]
      BY <1>1, <1>3 DEF TipoSolicitudes
    <2> QED BY <1>2, <1>3, <2>1 DEF Hay, HayPedido
  <1>6. /\ \A ref : EnSolicitudes(ref)' <=> EnSolicitudes(ref) \/ ref = t.ref
        /\ \A ref : EnPedidos(ref)' <=> EnPedidos(ref)
    <2>1. ASSUME NEW ref PROVE EnSolicitudes(ref)' <=> EnSolicitudes(ref) \/ ref = t.ref
      <3>1. ASSUME NEW s \in Solicitudes, Hay(s)', solicitud'[s].ref = ref
            PROVE  EnSolicitudes(ref) \/ ref = t.ref
        BY <1>2, <1>5, <3>1 DEF EnSolicitudes
      <3>2. ASSUME NEW s \in Solicitudes, Hay(s), solicitud[s].ref = ref
            PROVE  Hay(s)' /\ solicitud'[s].ref = ref
        BY <1>1, <1>5, <3>2
      <3>3. solicitud'[q] # Nulo /\ solicitud'[q].ref = t.ref
        BY <1>2, <1>5
      <3> QED BY <1>1, <3>1, <3>2, <3>3 DEF EnSolicitudes, Hay
    <2> QED BY <1>3, <2>1 DEF EnPedidos, HayPedido
  <1>7. \A p \in Pedidos : HayPedido(p) /\ pedido[p].sol # Nulo =>
           pedido[p].sol \in Solicitudes /\ pedido[p].sol # q
    <2>1. \A p \in Pedidos : HayPedido(p) => pedido[p] \in Pedido
      BY DEF TipoSolicitudes, HayPedido
    <2> QED BY <1>1, <2>1 DEF Pedido, ConversionCoherente
  <1>8. ConversionCoherente'
    <2>1. \A s \in Solicitudes : Hay(s) /\ solicitud[s].pedido # Nulo =>
             solicitud[s].pedido \in Pedidos
      BY DEF TipoSolicitudes, Hay, Solicitud
    <2>2. ASSUME NEW s \in Solicitudes, Hay(s)'
          PROVE  /\ solicitud'[s].estado = "convertida" <=> solicitud'[s].pedido # Nulo
                 /\ solicitud'[s].pedido # Nulo =>
                       HayPedido(solicitud[s].pedido)' /\ pedido'[solicitud'[s].pedido].sol = s
      BY <1>2, <1>3, <1>5, <2>1, <2>2 DEF ConversionCoherente
    <2>3. ASSUME NEW x \in Pedidos, HayPedido(x)', pedido'[x].sol # Nulo
          PROVE  /\ Hay(pedido[x].sol)' /\ solicitud'[pedido'[x].sol].pedido = x
                 /\ pedido'[x].ref = solicitud'[pedido'[x].sol].ref /\ pedido'[x].cliente # Nulo
      BY <1>3, <1>5, <1>7, <2>3 DEF ConversionCoherente
    <2> QED BY <2>2, <2>3 DEF ConversionCoherente
  <1>9. NumeracionSinHuecos'
    BY <1>3 DEF NumeracionSinHuecos, DelAnio, HayPedido
  <1>10. EnPedidos(t.ref) => t.ref \in cruces
    BY <1>1 DEF CruceAnotado, CruceConocido
  <1>11. ReferenciaSalvoCruce'
    <2>1. \A s \in Solicitudes : Hay(s) => solicitud[s].ref # t.ref
      BY <1>1 DEF EnSolicitudes
    <2>2. \A p \in Pedidos : HayPedido(p) /\ pedido[p].ref = t.ref => t.ref \in cruces
      BY <1>10 DEF EnPedidos
    <2> QED BY <1>2, <1>3, <1>5, <2>1, <2>2 DEF ReferenciaSalvoCruce
  <1>12. FaseCoherente'
    <2> SUFFICES ASSUME NEW s \in Transacciones
                 PROVE  (/\ tx[s].fase \in {"libre", "publica"} => tx[s].sol = Nulo
                         /\ SolicitudPendiente(tx[s]) /\ ConversionPendiente(tx[s])
                         /\ PedidoPendiente(tx[s]) /\ ClavesUnicas(tx[s]))'
      BY DEF FaseCoherente
    <2>1. CASE s = r
      BY <1>5, <2>1, LibreEsTx DEF SolicitudPendiente, ConversionPendiente, PedidoPendiente,
                                   ClavesUnicas, Bloqueante, Numerada
    <2>2. CASE s # r
      <3>1. /\ tx'[s] = tx[s] /\ tx[s].sol # q
            /\ tx[s].fase = "insertada" => tx[s].ref # t.ref
        BY <1>1, <1>5, <2>2 DEF Exclusion, Ajenas
      <3>2. tx[s].sol # Nulo => tx[s].sol \in Solicitudes
        BY DEF TipoSolicitudes, Tx
      <3>3. SolicitudPendiente(tx[s])' /\ ConversionPendiente(tx[s])'
        BY <1>5, <3>1, <3>2 DEF FaseCoherente, SolicitudPendiente, ConversionPendiente
      <3>4. PedidoPendiente(tx[s])' /\ ClavesUnicas(tx[s])'
        BY <1>3, <1>6, <3>1 DEF FaseCoherente, PedidoPendiente, ClavesUnicas, HayPedido
      <3> QED BY <3>1, <3>3, <3>4 DEF FaseCoherente
    <2> QED BY <2>1, <2>2
  <1>13. Exclusion'
    <2> SUFFICES ASSUME NEW s \in Transacciones, NEW u \in Transacciones, s # u
                 PROVE  Ajenas(tx[s], tx[u])'
      BY DEF Exclusion
    <2> QED BY <1>5, LibreEsTx DEF Exclusion, Ajenas, Numerada
  <1>14. CruceAnotado'
    <2> SUFFICES ASSUME NEW s \in Transacciones
                 PROVE  (/\ tx[s].fase \in {"comprobada", "insertada"} =>
                              /\ EnPedidos(tx[s].ref) => CruceConocido(tx[s].ref)
                              /\ Insertando(s, {"revisada", "escrita"}, tx[s].ref)
                                    => CruceConocido(tx[s].ref)
                         /\ tx[s].fase \in {"revisada", "escrita"} /\ tx[s].sol = Nulo
                            /\ EnSolicitudes(tx[s].ref) => tx[s].ref \in cruces)'
      BY DEF CruceAnotado
    <2>1. CASE s = r
      BY <1>5, <2>1, LibreEsTx
    <2>2. CASE s # r
      <3>1. tx'[s] = tx[s]
        BY <1>5, <2>2
      <3>2. \A f : Insertando(s, {"revisada", "escrita"}, f)' =>
                   Insertando(s, {"revisada", "escrita"}, f)
        BY <1>5, LibreEsTx DEF Insertando
      <3>3. tx[s].fase \in {"revisada", "escrita"} /\ tx[s].ref = t.ref => t.ref \in cruces
        BY <1>1, <2>2 DEF CruceAnotado, CruceConocido, Insertando
      <3> QED BY <1>3, <1>6, <3>1, <3>2, <3>3 DEF CruceAnotado, CruceConocido
    <2> QED BY <2>1, <2>2
  <1> QED BY <1>4, <1>8, <1>9, <1>11, <1>12, <1>13, <1>14

\* What a pedido holds when it commits: a row and a reference that nobody has, a number
\* left in its year and, of a conversion, the solicitud as it was read.
LEMMA PedidoPorConfirmar ==
  ASSUME InvSolicitudes, NEW r \in Transacciones, ConfirmarPedido(r)
  PROVE  LET t == tx[r] IN
          /\ t \in Tx /\ t.fase = "escrita" /\ t.ped \in Pedidos /\ ~HayPedido(t.ped) /\ t.ped # Nulo
          /\ t.ref \in Refs /\ t.anio \in Anios /\ ~EnPedidos(t.ref)
          /\ contador[t.anio] < MaxNumero /\ contador[t.anio] \in Nat
          /\ t.sol # Nulo =>
                /\ t.sol \in Solicitudes /\ Hay(t.sol) /\ solicitud[t.sol].pedido = Nulo
                /\ solicitud[t.sol].estado = "aprobada"
                /\ solicitud[t.sol].cliente = t.cliente /\ t.cliente # Nulo
                /\ solicitud[t.sol].ref = t.ref
  <1> USE DEF InvSolicitudes
  <1> DEFINE t == tx[r]
  <1>1. t \in Tx /\ t.fase = "escrita"
    BY DEF ConfirmarPedido, En, TipoSolicitudes
  <1>2. /\ t.ped \in Pedidos /\ ~HayPedido(t.ped) /\ t.ref # Nulo /\ t.anio \in Anios
        /\ ~EnPedidos(t.ref) /\ contador[t.anio] < MaxNumero
    BY <1>1 DEF FaseCoherente, PedidoPendiente, ConversionPendiente, ClavesUnicas,
                Bloqueante, Numerada
  <1>3. contador[t.anio] \in Nat
    BY <1>2, SolicitudesAssumption DEF TipoSolicitudes
  <1>4. t.sol # Nulo =>
            /\ Hay(t.sol) /\ solicitud[t.sol].pedido = Nulo
            /\ solicitud[t.sol].estado = "aprobada"
            /\ solicitud[t.sol].cliente = t.cliente /\ t.cliente # Nulo
            /\ solicitud[t.sol].ref = t.ref
    BY <1>1 DEF FaseCoherente, ConversionPendiente, Bloqueante, Numerada
  <1> QED BY <1>1, <1>2, <1>3, <1>4, SolicitudesAssumption DEF Tx

\* The commit of a pedido: it takes the number after the last of its year, and closes the
\* solicitud it comes from, which no other transaction holds.
LEMMA ConfirmarPedidoConserva ==
  ASSUME InvSolicitudes, NEW r \in Transacciones, ConfirmarPedido(r)
  PROVE  InvSolicitudes'
  <1> USE DEF InvSolicitudes
  <1> DEFINE t == tx[r]
             p == t.ped
             fila == [sol |-> t.sol, cliente |-> t.cliente, ref |-> t.ref,
                      anio |-> t.anio, num |-> contador[t.anio] + 1]
  <1>1. /\ t \in Tx /\ t.fase = "escrita" /\ p \in Pedidos /\ ~HayPedido(p) /\ p # Nulo
        /\ t.ref \in Refs /\ t.anio \in Anios /\ ~EnPedidos(t.ref)
        /\ contador[t.anio] < MaxNumero /\ contador[t.anio] \in Nat
        /\ t.sol # Nulo =>
              /\ t.sol \in Solicitudes /\ Hay(t.sol) /\ solicitud[t.sol].pedido = Nulo
              /\ solicitud[t.sol].cliente = t.cliente /\ t.cliente # Nulo
              /\ solicitud[t.sol].ref = t.ref
    BY PedidoPorConfirmar
  <1>2. /\ fila \in Pedido /\ fila # Nulo
        /\ fila.sol = t.sol /\ fila.cliente = t.cliente /\ fila.ref = t.ref
        /\ fila.anio = t.anio /\ fila.num = contador[t.anio] + 1
    <2>1. contador[t.anio] + 1 \in 1 .. MaxNumero
      BY <1>1, SolicitudesAssumption
    <2>2. t.sol \in Solicitudes \cup {Nulo} /\ t.cliente \in Clientes \cup {Nulo}
      BY <1>1 DEF Tx
    <2> QED BY <1>1, <2>1, <2>2, NuloAssumption DEF Pedido
  <1>3. /\ pedido' = [pedido EXCEPT ![p] = fila] /\ tx' = [tx EXCEPT ![r] = Libre]
        /\ contador' = [contador EXCEPT ![t.anio] = contador[t.anio] + 1]
        /\ UNCHANGED <<clientes, hoy, cruces>>
    BY DEF ConfirmarPedido
  <1> HIDE DEF fila
  <1>4. /\ pedido'[p] = fila /\ pedido'[p] # Nulo
        /\ \A x \in Pedidos : x # p => pedido'[x] = pedido[x] /\ (HayPedido(x)' <=> HayPedido(x))
        /\ tx'[r] = Libre /\ \A s \in Transacciones : s # r => tx'[s] = tx[s]
        /\ contador'[t.anio] = contador[t.anio] + 1
        /\ \A a \in Anios : a # t.anio => contador'[a] = contador[a]
    <2>1. pedido'[p] = fila /\ \A x \in Pedidos : x # p => pedido'[x] = pedido[x]
      BY <1>1, <1>3 DEF TipoSolicitudes
    <2>2. tx'[r] = Libre /\ \A s \in Transacciones : s # r => tx'[s] = tx[s]
      BY <1>3 DEF TipoSolicitudes
    <2>3. /\ contador'[t.anio] = contador[t.anio] + 1
          /\ \A a \in Anios : a # t.anio => contador'[a] = contador[a]
      BY <1>1, <1>3 DEF TipoSolicitudes
    <2> QED BY <1>2, <2>1, <2>2, <2>3 DEF HayPedido
  <1>5. /\ \A s \in Solicitudes :
             /\ s # t.sol => solicitud'[s] = solicitud[s]
             /\ (Hay(s)' <=> Hay(s)) /\ (Hay(s) => solicitud'[s].ref = solicitud[s].ref)
        /\ t.sol # Nulo => solicitud'[t.sol].pedido = p /\ solicitud'[t.sol].estado = "convertida"
        /\ solicitud' \in [Solicitudes -> Solicitud \cup {Nulo}]
    <2>1. CASE t.sol = Nulo
      <3>1. solicitud' = solicitud
        BY <2>1 DEF ConfirmarPedido
      <3> QED BY <2>1, <3>1 DEF TipoSolicitudes, Hay
    <2>2. CASE t.sol # Nulo
      <3> DEFINE nueva == [solicitud[t.sol] EXCEPT !.estado = "convertida", !.pedido = p]
      <3>1. solicitud[t.sol] \in Solicitud
        BY <1>1, <2>2 DEF TipoSolicitudes, Hay
      <3>2. /\ nueva \in Solicitud /\ nueva.estado = "convertida" /\ nueva.pedido = p
            /\ nueva.ref = solicitud[t.sol].ref
        BY <1>1, <3>1 DEF Solicitud, SolicitudEstado
      <3>3. solicitud' = [solicitud EXCEPT ![t.sol] = nueva]
        BY <2>2 DEF ConfirmarPedido
      <3> QED BY <1>1, <2>2, <3>2, <3>3, NuloAssumption DEF TipoSolicitudes, Hay
    <2> QED BY <2>1, <2>2
  <1>6. /\ \A ref : EnPedidos(ref)' <=> EnPedidos(ref) \/ ref = t.ref
        /\ \A ref : EnSolicitudes(ref)' <=> EnSolicitudes(ref)
    <2>1. ASSUME NEW ref PROVE EnPedidos(ref)' <=> EnPedidos(ref) \/ ref = t.ref
      <3>1. ASSUME NEW x \in Pedidos, HayPedido(x)', pedido'[x].ref = ref
            PROVE  EnPedidos(ref) \/ ref = t.ref
        BY <1>2, <1>4, <3>1 DEF EnPedidos
      <3>2. ASSUME NEW x \in Pedidos, HayPedido(x), pedido[x].ref = ref
            PROVE  HayPedido(x)' /\ pedido'[x].ref = ref
        BY <1>1, <1>4, <3>2
      <3>3. pedido'[p] # Nulo /\ pedido'[p].ref = t.ref
        BY <1>2, <1>4
      <3> QED BY <1>1, <3>1, <3>2, <3>3 DEF EnPedidos, HayPedido
    <2> QED BY <1>5, <2>1 DEF EnSolicitudes
  <1>7. TipoSolicitudes'
    <2>1. contador' \in [Anios -> 0 .. MaxNumero]
      BY <1>1, <1>3, SolicitudesAssumption DEF TipoSolicitudes
    <2> QED BY <1>2, <1>3, <1>5, <2>1, LibreEsTx DEF TipoSolicitudes
  <1>8. /\ \A x \in Pedidos : HayPedido(x) => pedido[x] \in Pedido
        /\ \A s \in Solicitudes : Hay(s) => solicitud[s] \in Solicitud
    BY DEF TipoSolicitudes, HayPedido, Hay
  <1>9. ConversionCoherente'
    <2>1. \A x \in Pedidos : HayPedido(x) /\ pedido[x].sol # Nulo =>
             pedido[x].sol \in Solicitudes /\ pedido[x].sol # t.sol
      BY <1>1, <1>8, SolicitudesAssumption DEF Pedido, ConversionCoherente
    <2>2. \A s \in Solicitudes : Hay(s) /\ solicitud[s].pedido # Nulo =>
             solicitud[s].pedido \in Pedidos /\ solicitud[s].pedido # p
      BY <1>1, <1>8 DEF Solicitud, ConversionCoherente
    <2>3. ASSUME NEW s \in Solicitudes, Hay(s)'
          PROVE  /\ solicitud'[s].estado = "convertida" <=> solicitud'[s].pedido # Nulo
                 /\ solicitud'[s].pedido # Nulo =>
                       HayPedido(solicitud[s].pedido)' /\ pedido'[solicitud'[s].pedido].sol = s
      <3>1. CASE s = t.sol
        BY <1>1, <1>2, <1>4, <1>5, <2>3, <3>1, SolicitudesAssumption DEF HayPedido
      <3>2. CASE s # t.sol
        BY <1>4, <1>5, <2>2, <2>3, <3>2 DEF ConversionCoherente
      <3> QED BY <3>1, <3>2
    <2>4. ASSUME NEW x \in Pedidos, HayPedido(x)', pedido'[x].sol # Nulo
          PROVE  /\ Hay(pedido[x].sol)' /\ solicitud'[pedido'[x].sol].pedido = x
                 /\ pedido'[x].ref = solicitud'[pedido'[x].sol].ref /\ pedido'[x].cliente # Nulo
      <3>1. CASE x = p
        BY <1>1, <1>2, <1>4, <1>5, <2>4, <3>1
      <3>2. CASE x # p
        BY <1>4, <1>5, <2>1, <2>4, <3>2 DEF ConversionCoherente
      <3> QED BY <3>1, <3>2
    <2> QED BY <2>3, <2>4 DEF ConversionCoherente
  <1>10. NumeracionSinHuecos'
    <2> SUFFICES ASSUME NEW a \in Anios
                 PROVE  (/\ {pedido[x].num : x \in DelAnio(a)} = 1 .. contador[a]
                         /\ IsFiniteSet(DelAnio(a)) /\ Cardinality(DelAnio(a)) = contador[a])'
      BY DEF NumeracionSinHuecos
    <2>0. /\ {pedido[x].num : x \in DelAnio(a)} = 1 .. contador[a]
          /\ IsFiniteSet(DelAnio(a)) /\ Cardinality(DelAnio(a)) = contador[a]
      BY DEF NumeracionSinHuecos
    <2>1. CASE a # t.anio
      <3>1. DelAnio(a)' = DelAnio(a)
        BY <1>2, <1>4, <1>1, <2>1 DEF DelAnio
      <3>2. \A x \in DelAnio(a) : pedido'[x].num = pedido[x].num
        BY <1>1, <1>4 DEF DelAnio
      <3>3. {pedido'[x].num : x \in DelAnio(a)} = {pedido[x].num : x \in DelAnio(a)}
        BY <3>2
      <3> QED BY <1>4, <2>0, <2>1, <3>1, <3>3
    <2>2. CASE a = t.anio
      <3>1. DelAnio(a)' = DelAnio(a) \cup {p}
        BY <1>1, <1>2, <1>4, <2>2 DEF DelAnio, HayPedido
      <3>2. p \notin DelAnio(a)
        BY <1>1 DEF DelAnio
      <3>3. \A x \in DelAnio(a) : pedido'[x].num = pedido[x].num
        BY <1>4, <3>2 DEF DelAnio
      <3>4. {pedido'[x].num : x \in DelAnio(a) \cup {p}}
              = {pedido[x].num : x \in DelAnio(a)} \cup {contador[a] + 1}
        BY <1>2, <1>4, <2>2, <3>3
      <3>5. (1 .. contador[a]) \cup {contador[a] + 1} = 1 .. (contador[a] + 1)
        BY <1>1, <2>2
      <3>6. /\ IsFiniteSet(DelAnio(a) \cup {p})
            /\ Cardinality(DelAnio(a) \cup {p}) = contador[a] + 1
        BY <2>0, <3>2, FS_AddElement
      <3> QED BY <1>4, <2>0, <2>2, <3>1, <3>4, <3>5, <3>6
    <2> QED BY <2>1, <2>2
  <1>11. ReferenciaSalvoCruce'
    <2>1. \A x \in Pedidos : HayPedido(x) => pedido[x].ref # t.ref
      BY <1>1 DEF EnPedidos
    <2>2. ASSUME NEW q \in Solicitudes, Hay(q), solicitud[q].ref = t.ref
          PROVE  t.sol = q \/ t.ref \in cruces
      <3>1. CASE t.sol = Nulo
        BY <1>1, <2>2, <3>1 DEF CruceAnotado, EnSolicitudes
      <3>2. CASE t.sol # Nulo
        BY <1>1, <2>2, <3>2 DEF ReferenciaSalvoCruce
      <3> QED BY <3>1, <3>2
    <2>3. \A q, s \in Solicitudes :
             Hay(q)' /\ Hay(s)' /\ solicitud'[q].ref = solicitud'[s].ref => q = s
      BY <1>2, <1>5 DEF ReferenciaSalvoCruce
    <2>4. \A x, y \in Pedidos :
             HayPedido(x)' /\ HayPedido(y)' /\ pedido'[x].ref = pedido'[y].ref => x = y
      BY <1>2, <1>4, <2>1 DEF ReferenciaSalvoCruce
    <2>5. \A q \in Solicitudes, x \in Pedidos :
             Hay(q)' /\ HayPedido(x)' /\ solicitud'[q].ref = pedido'[x].ref =>
                pedido'[x].sol = q \/ pedido'[x].ref \in cruces'
      BY <1>2, <1>3, <1>4, <1>5, <2>2 DEF ReferenciaSalvoCruce
    <2> QED BY <2>3, <2>4, <2>5 DEF ReferenciaSalvoCruce
  <1>12. \A s \in Transacciones : s # r =>
           /\ tx'[s] = tx[s] /\ (tx[s].sol = t.sol => t.sol = Nulo) /\ tx[s].ped # p
           /\ tx[s].fase \in Numerada => tx[s].anio # t.anio
           /\ tx[s].fase = "escrita" => tx[s].ref # t.ref
    BY <1>1, <1>4 DEF Exclusion, Ajenas, Numerada
  <1>13. FaseCoherente'
    <2> SUFFICES ASSUME NEW s \in Transacciones
                 PROVE  (/\ tx[s].fase \in {"libre", "publica"} => tx[s].sol = Nulo
                         /\ SolicitudPendiente(tx[s]) /\ ConversionPendiente(tx[s])
                         /\ PedidoPendiente(tx[s]) /\ ClavesUnicas(tx[s]))'
      BY DEF FaseCoherente
    <2>1. CASE s = r
      BY <1>4, <2>1, LibreEsTx DEF SolicitudPendiente, ConversionPendiente, PedidoPendiente,
                                   ClavesUnicas, Bloqueante, Numerada
    <2>2. CASE s # r
      <3>1. tx[s] \in Tx /\ (tx[s].sol # Nulo => tx[s].sol \in Solicitudes)
        BY DEF TipoSolicitudes, Tx
      <3>2. SolicitudPendiente(tx[s])' /\ ConversionPendiente(tx[s])'
        BY <1>5, <1>12, <2>2, <3>1 DEF FaseCoherente, SolicitudPendiente, ConversionPendiente
      <3>3. PedidoPendiente(tx[s])'
        BY <1>4, <1>12, <2>2, <3>1
        DEF FaseCoherente, PedidoPendiente, ConversionPendiente, Bloqueante
      <3>4. ClavesUnicas(tx[s])'
        BY <1>6, <1>12, <2>2 DEF FaseCoherente, ClavesUnicas
      <3> QED BY <1>12, <2>2, <3>2, <3>3, <3>4 DEF FaseCoherente
    <2> QED BY <2>1, <2>2
  <1>14. Exclusion'
    <2> SUFFICES ASSUME NEW s \in Transacciones, NEW u \in Transacciones, s # u
                 PROVE  Ajenas(tx[s], tx[u])'
      BY DEF Exclusion
    <2> QED BY <1>4, LibreEsTx DEF Exclusion, Ajenas, Numerada
  <1>15. CruceAnotado'
    <2> SUFFICES ASSUME NEW s \in Transacciones
                 PROVE  (/\ tx[s].fase \in {"comprobada", "insertada"} =>
                              /\ EnPedidos(tx[s].ref) => CruceConocido(tx[s].ref)
                              /\ Insertando(s, {"revisada", "escrita"}, tx[s].ref)
                                    => CruceConocido(tx[s].ref)
                         /\ tx[s].fase \in {"revisada", "escrita"} /\ tx[s].sol = Nulo
                            /\ EnSolicitudes(tx[s].ref) => tx[s].ref \in cruces)'
      BY DEF CruceAnotado
    <2>1. CASE s = r
      BY <1>4, <2>1, LibreEsTx
    <2>2. CASE s # r
      <3>1. tx'[s] = tx[s]
        BY <1>4, <2>2
      <3>2. \A f : Insertando(s, {"revisada", "escrita"}, f)' =>
                   Insertando(s, {"revisada", "escrita"}, f)
        BY <1>4, LibreEsTx DEF Insertando
      <3>3. tx[s].fase \in {"comprobada", "insertada"} /\ tx[s].ref = t.ref =>
               CruceConocido(t.ref)
        BY <1>1, <2>2 DEF CruceAnotado, Insertando
      <3> QED BY <1>3, <1>6, <3>1, <3>2, <3>3 DEF CruceAnotado, CruceConocido
    <2> QED BY <2>1, <2>2
  <1> QED BY <1>7, <1>9, <1>10, <1>11, <1>13, <1>14, <1>15

\* Every step preserves the invariant.
LEMMA PasoSolicitudes == InvSolicitudes /\ [NextSolicitudes]_varsSolicitudes => InvSolicitudes'
  <1> SUFFICES ASSUME InvSolicitudes, [NextSolicitudes]_varsSolicitudes PROVE InvSolicitudes'
    OBVIOUS
  <1>0. clientes \subseteq Clientes /\ hoy \in Anios /\ cruces \subseteq Refs
    BY DEF InvSolicitudes, TipoSolicitudes
  <1>1. ASSUME NEW r \in Transacciones,
               \/ Solicitar(r) \/ InsertarSolicitud(r) \/ Reintentar(r) \/ ConfirmarSolicitud(r)
               \/ \E q \in Solicitudes, ref \in Refs : ComprobarSolicitud(r, q, ref)
        PROVE  InvSolicitudes'
    BY <1>1, SolicitarConserva, InsertarSolicitudConserva, ReintentarConserva,
       ConfirmarSolicitudConserva, ComprobarSolicitudConserva
  <1>2. ASSUME NEW r \in Transacciones,
               \/ \E c \in Clientes \cup {Nulo} : AbrirManual(r, c)
               \/ \E q \in Solicitudes : AbrirConversion(r, q)
               \/ Numerar(r)
               \/ \E ref \in Refs : RevisarReferencia(r, ref)
               \/ \E p \in Pedidos : EscribirPedido(r, p)
               \/ ConfirmarPedido(r) \/ Abortar(r)
        PROVE  InvSolicitudes'
    BY <1>2, AbrirManualConserva, AbrirConversionConserva, NumerarConserva,
       RevisarReferenciaConserva, EscribirPedidoConserva, ConfirmarPedidoConserva,
       AbortarConserva
  <1>3. ASSUME (\E c \in Clientes : CrearCliente(c)) \/ PasarAnio PROVE InvSolicitudes'
    <2>1. ASSUME NEW c \in Clientes, CrearCliente(c) PROVE InvSolicitudes'
      BY <1>0, <2>1, EntornoConserva DEF CrearCliente
    <2>2. CASE PasarAnio
      <3>1. hoy' \in Anios
        BY <1>0, <2>2, SolicitudesAssumption DEF PasarAnio, Anios
      <3> QED BY <1>0, <2>2, <3>1, EntornoConserva DEF PasarAnio
    <2> QED BY <1>3, <2>1, <2>2
  <1>4. CASE UNCHANGED varsSolicitudes
    BY <1>0, <1>4, EntornoConserva DEF varsSolicitudes
  <1> QED BY <1>1, <1>2, <1>3, <1>4, GestionConserva DEF NextSolicitudes

\* In every reachable state a transaction still finds what it read under its locks, and
\* no two hold one lock or one unique key: the three functions that insert.
THEOREM InvarianteSolicitudes == SpecSolicitudes => []InvSolicitudes
  BY InicioSolicitudes, PasoSolicitudes, PTL DEF SpecSolicitudes

\* Every variable keeps its type: in particular no year gets more than its numbers.
THEOREM TiposDeSolicitudes == SpecSolicitudes => []TipoSolicitudes
  BY InvarianteSolicitudes, PTL DEF InvSolicitudes

\* A solicitud is converted exactly when one pedido is of it, and they name each other
\* and share the reference: convertir_solicitud_a_pedido against any other call.
THEOREM ConversionSiempreCoherente == SpecSolicitudes => []ConversionCoherente
  BY InvarianteSolicitudes, PTL DEF InvSolicitudes

\* The pedidos of a year are numbered 1, 2, 3... with no repetition and no gap, whatever
\* is undone: generar_numero_pedido.
THEOREM NumeracionSiempreSinHuecos == SpecSolicitudes => []NumeracionSinHuecos
  BY InvarianteSolicitudes, PTL DEF InvSolicitudes

\* A reference names one job, unless both tables were inserting it at once: the two
\* triggers and the two unique keys.
THEOREM ReferenciaSiempreSalvoCruce == SpecSolicitudes => []ReferenciaSalvoCruce
  BY InvarianteSolicitudes, PTL DEF InvSolicitudes

\* Nobody else writes the rows or the counter.
LEMMA QuienEscribe ==
  ASSUME [NextSolicitudes]_varsSolicitudes
  PROVE  \/ UNCHANGED <<solicitud, pedido, contador>>
         \/ \E r \in Transacciones : ConfirmarSolicitud(r) \/ ConfirmarPedido(r)
         \/ \E q \in Solicitudes :
               \/ \E e \in SolicitudEstado : CambiarEstadoSolicitud(q, e)
               \/ \E c \in Clientes : AsociarCliente(q, c) \/ CrearClienteDesdeSolicitud(q, c)
  <1>1. ASSUME NEW r \in Transacciones,
               \/ Solicitar(r) \/ InsertarSolicitud(r) \/ Reintentar(r)
               \/ \E q \in Solicitudes, ref \in Refs : ComprobarSolicitud(r, q, ref)
               \/ \E c \in Clientes \cup {Nulo} : AbrirManual(r, c)
               \/ \E q \in Solicitudes : AbrirConversion(r, q)
               \/ Numerar(r)
               \/ \E ref \in Refs : RevisarReferencia(r, ref)
               \/ \E p \in Pedidos : EscribirPedido(r, p)
               \/ Abortar(r)
        PROVE  UNCHANGED <<solicitud, pedido, contador>>
    BY <1>1 DEF Solicitar, InsertarSolicitud, Reintentar, ComprobarSolicitud, AbrirManual,
                AbrirConversion, Numerar, RevisarReferencia, EscribirPedido, Abortar
  <1>2. ASSUME (\E c \in Clientes : CrearCliente(c)) \/ PasarAnio \/ UNCHANGED varsSolicitudes
        PROVE  UNCHANGED <<solicitud, pedido, contador>>
    BY <1>2 DEF CrearCliente, PasarAnio, varsSolicitudes
  <1> QED BY <1>1, <1>2 DEF NextSolicitudes

\* What a step may do to a closed solicitud, and what a new pedido gets from its own.
LEMMA PasoFirme ==
  ASSUME InvSolicitudes, [NextSolicitudes]_varsSolicitudes
  PROVE  /\ \A q \in Solicitudes : Hay(q) =>
               (solicitud[q].estado \in {"rechazada", "convertida"} =>
                   /\ solicitud'[q].estado = solicitud[q].estado
                   /\ solicitud'[q].pedido = solicitud[q].pedido)
         /\ \A p \in Pedidos : ~HayPedido(p) /\ HayPedido(p)' /\ pedido'[p].sol # Nulo =>
               pedido'[p].cliente = solicitud[pedido'[p].sol].cliente
  <1> DEFINE Firme == /\ \A q \in Solicitudes : Hay(q) =>
                            (solicitud[q].estado \in {"rechazada", "convertida"} =>
                                /\ solicitud'[q].estado = solicitud[q].estado
                                /\ solicitud'[q].pedido = solicitud[q].pedido)
                      /\ \A p \in Pedidos :
                            ~HayPedido(p) /\ HayPedido(p)' /\ pedido'[p].sol # Nulo =>
                               pedido'[p].cliente = solicitud[pedido'[p].sol].cliente
  <1>0. /\ solicitud \in [Solicitudes -> Solicitud \cup {Nulo}]
        /\ pedido \in [Pedidos -> Pedido \cup {Nulo}]
    BY DEF InvSolicitudes, TipoSolicitudes
  <1>1. CASE UNCHANGED <<solicitud, pedido, contador>>
    BY <1>1 DEF Hay, HayPedido
  <1>2. ASSUME NEW r \in Transacciones, ConfirmarSolicitud(r) PROVE Firme
    <2>1. ~Hay(tx[r].sol) /\ pedido' = pedido
      BY <1>2, SolicitudPorConfirmar DEF ConfirmarSolicitud
    <2>2. \A q \in Solicitudes : Hay(q) => solicitud'[q] = solicitud[q]
      BY <1>0, <1>2, <2>1 DEF ConfirmarSolicitud
    <2> QED BY <2>1, <2>2 DEF HayPedido
  <1>3. ASSUME NEW r \in Transacciones, ConfirmarPedido(r) PROVE Firme
    <2>1. /\ tx[r].ped \in Pedidos
          /\ tx[r].sol # Nulo =>
                /\ tx[r].sol \in Solicitudes /\ Hay(tx[r].sol)
                /\ solicitud[tx[r].sol].cliente = tx[r].cliente
                /\ solicitud[tx[r].sol].estado = "aprobada"
      BY <1>3, PedidoPorConfirmar
    <2>2. \A q \in Solicitudes : q # tx[r].sol => solicitud'[q] = solicitud[q]
      <3>1. CASE tx[r].sol = Nulo
        BY <1>3, <3>1 DEF ConfirmarPedido
      <3>2. CASE tx[r].sol # Nulo
        BY <1>0, <1>3, <3>2 DEF ConfirmarPedido
      <3> QED BY <3>1, <3>2
    <2>3. /\ \A p \in Pedidos : p # tx[r].ped => pedido'[p] = pedido[p]
          /\ pedido'[tx[r].ped].sol = tx[r].sol /\ pedido'[tx[r].ped].cliente = tx[r].cliente
      BY <1>0, <1>3, <2>1 DEF ConfirmarPedido
    <2>4. ASSUME NEW q \in Solicitudes, solicitud[q].estado \in {"rechazada", "convertida"}
          PROVE  solicitud'[q] = solicitud[q]
      <3>1. q # tx[r].sol
        BY <2>1, <2>4, SolicitudesAssumption
      <3> QED BY <2>2, <3>1
    <2>5. ASSUME NEW p \in Pedidos, ~HayPedido(p), HayPedido(p)', pedido'[p].sol # Nulo
          PROVE  pedido'[p].cliente = solicitud[pedido'[p].sol].cliente
      <3>1. p = tx[r].ped
        BY <2>3, <2>5 DEF HayPedido
      <3> QED BY <2>1, <2>3, <2>5, <3>1
    <2> QED BY <2>4, <2>5
  <1>4. ASSUME NEW q \in Solicitudes, NEW e \in SolicitudEstado, CambiarEstadoSolicitud(q, e)
        PROVE  Firme
    <2>1. pedido' = pedido /\ solicitud[q].estado \in SolicitudAdmiteCarga
      BY <1>4, NadieConvierteAMano DEF CambiarEstadoSolicitud
    <2>2. \A s \in Solicitudes : s # q => solicitud'[s] = solicitud[s]
      BY <1>0, <1>4 DEF CambiarEstadoSolicitud
    <2> QED BY <2>1, <2>2 DEF HayPedido, SolicitudAdmiteCarga
  <1>5. ASSUME NEW q \in Solicitudes, NEW c \in Clientes,
               AsociarCliente(q, c) \/ CrearClienteDesdeSolicitud(q, c)
        PROVE  Firme
    <2>1. /\ Hay(q) /\ pedido' = pedido
          /\ solicitud' = [solicitud EXCEPT ![q].cliente = c]
      BY <1>5 DEF AsociarCliente, CrearClienteDesdeSolicitud
    <2>2. solicitud[q] \in Solicitud
      BY <1>0, <2>1 DEF Hay
    <2>3. \A s \in Solicitudes : Hay(s) => /\ solicitud'[s].estado = solicitud[s].estado
                                           /\ solicitud'[s].pedido = solicitud[s].pedido
      BY <1>0, <2>1, <2>2 DEF Solicitud, Hay
    <2> QED BY <2>1, <2>3 DEF HayPedido
  <1>6. Firme
    BY <1>1, <1>2, <1>3, <1>4, <1>5, QuienEscribe
  <1> QED BY <1>6

\* A closed solicitud stays closed with its pedido, and a conversion gives its pedido the
\* client the solicitud has at that moment: FOR UPDATE in convertir_solicitud_a_pedido.
THEOREM ConversionSiempreFirme == SpecSolicitudes => ConversionFirme
  <1>1. InvSolicitudes /\ [NextSolicitudes]_varsSolicitudes =>
          [/\ \A q \in Solicitudes : Hay(q) =>
                 /\ solicitud[q].estado \in {"rechazada", "convertida"} =>
                       /\ solicitud'[q].estado = solicitud[q].estado
                       /\ solicitud'[q].pedido = solicitud[q].pedido
           /\ \A p \in Pedidos : ~HayPedido(p) /\ HayPedido(p)' /\ pedido'[p].sol # Nulo =>
                 pedido'[p].cliente = solicitud[pedido'[p].sol].cliente]_varsSolicitudes
    BY PasoFirme
  <1> QED BY <1>1, InvarianteSolicitudes, PTL DEF SpecSolicitudes, ConversionFirme

\* What the counter sees of a solicitud.
LEMMA LoQueVe ==
  ASSUME InvSolicitudes
  PROVE  \A q \in Solicitudes :
            /\ Tratos[q] = Trato(solicitud[q])
            /\ V!Hay(q) <=> Hay(q)
            /\ Hay(q) => /\ Tratos[q].ref = solicitud[q].ref
                         /\ Tratos[q].cliente = solicitud[q].cliente
                         /\ solicitud[q].estado \in SolicitudAdmiteCarga
                            => Tratos[q].estado = "abierta"
  <1> SUFFICES ASSUME NEW q \in Solicitudes
               PROVE  /\ Tratos[q] = Trato(solicitud[q])
                      /\ V!Hay(q) <=> Hay(q)
                      /\ Hay(q) => /\ Tratos[q].ref = solicitud[q].ref
                                   /\ Tratos[q].cliente = solicitud[q].cliente
                                   /\ solicitud[q].estado \in SolicitudAdmiteCarga
                                         => Tratos[q].estado = "abierta"
    OBVIOUS
  <1>1. Tratos[q] = Trato(solicitud[q])
    BY DEF Tratos
  <1>2. CASE ~Hay(q)
    BY <1>1, <1>2 DEF V!Hay, Hay, Trato
  <1>3. CASE Hay(q)
    <2> DEFINE fila == solicitud[q]
    <2>1. fila \in Solicitud /\ fila # Nulo
      BY <1>3 DEF InvSolicitudes, TipoSolicitudes, Hay
    <2>2. /\ Trato(fila).ref = fila.ref /\ Trato(fila).cliente = fila.cliente
          /\ fila.estado \in SolicitudAdmiteCarga => Trato(fila).estado = "abierta"
      BY <2>1 DEF Trato, Solicitud
    <2>3. Trato(fila) # Nulo
      <3>1. CASE fila.estado \in SolicitudAdmiteCarga
        BY <2>1, <3>1, NuloAssumption DEF Trato
      <3>2. CASE fila.estado \notin SolicitudAdmiteCarga
        BY <2>1, <3>2 DEF Trato
      <3> QED BY <3>1, <3>2
    <2> QED BY <1>1, <1>3, <2>2, <2>3 DEF V!Hay
  <1> QED BY <1>2, <1>3

\* A row that is written is one deal that changes.
LEMMA UnTratoCambia ==
  ASSUME InvSolicitudes, NEW q \in Solicitudes, NEW fila,
         solicitud' = [solicitud EXCEPT ![q] = fila]
  PROVE  Tratos' = [Tratos EXCEPT ![q] = Trato(fila)]
  BY DEF Tratos, InvSolicitudes, TipoSolicitudes

\* The initial states map to initial states.
LEMMA InicioVentanilla == InitSolicitudes => V!Init
  BY DEF InitSolicitudes, V!Init, V!Anios, Anios, Tratos, Trato

\* Every step maps to a step or a stutter.
LEMMA PasoVentanilla ==
  ASSUME InvSolicitudes, [NextSolicitudes]_varsSolicitudes
  PROVE  [V!Next]_(V!vars)
  <1>1. CASE UNCHANGED <<solicitud, pedido, contador>>
    BY <1>1 DEF V!vars, Tratos, Trato
  <1>2. ASSUME NEW r \in Transacciones, ConfirmarSolicitud(r) PROVE [V!Next]_(V!vars)
    <2> DEFINE q == tx[r].sol
               ref == tx[r].ref
               fila == [estado |-> "nueva", cliente |-> Nulo, pedido |-> Nulo, ref |-> ref]
    <2>1. q \in Solicitudes /\ ~Hay(q) /\ ref \in Refs /\ ~EnSolicitudes(ref)
      BY <1>2, SolicitudPorConfirmar
    <2>2. fila # Nulo /\ Trato(fila) = [fila EXCEPT !.estado = "abierta"]
      <3>1. fila \in Solicitud /\ fila.estado = "nueva"
        BY <2>1 DEF Solicitud, SolicitudEstado
      <3> QED BY <3>1, NuloAssumption DEF Trato, SolicitudAdmiteCarga
    <2>3. Tratos' = [Tratos EXCEPT ![q] =
             [estado |-> "abierta", cliente |-> Nulo, pedido |-> Nulo, ref |-> ref]]
      <3>1. solicitud' = [solicitud EXCEPT ![q] = fila]
        BY <1>2 DEF ConfirmarSolicitud
      <3>2. [fila EXCEPT !.estado = "abierta"] =
               [estado |-> "abierta", cliente |-> Nulo, pedido |-> Nulo, ref |-> ref]
        OBVIOUS
      <3> HIDE DEF fila
      <3>3. Tratos' = [Tratos EXCEPT ![q] = Trato(fila)]
        BY <2>1, <3>1, UnTratoCambia
      <3> QED BY <2>2, <3>2, <3>3
    <2>4. \A s \in Solicitudes : V!Hay(s) => Tratos[s].ref # ref
      BY <2>1, LoQueVe DEF EnSolicitudes
    <2>5. ~V!Hay(q) /\ UNCHANGED <<pedido, contador>>
      BY <1>2, <2>1, LoQueVe DEF ConfirmarSolicitud
    <2>6. V!Abrir(q, ref)
      BY <2>3, <2>4, <2>5 DEF V!Abrir
    <2> QED BY <2>1, <2>6 DEF V!Next
  <1>3. ASSUME NEW r \in Transacciones, ConfirmarPedido(r) PROVE [V!Next]_(V!vars)
    <2> DEFINE t == tx[r]
               p == t.ped
               q == t.sol
               a == t.anio
    <2>1. /\ t \in Tx /\ p \in Pedidos /\ ~HayPedido(p) /\ t.ref \in Refs
          /\ a \in Anios /\ ~EnPedidos(t.ref)
          /\ q # Nulo =>
                /\ q \in Solicitudes /\ Hay(q) /\ solicitud[q].estado = "aprobada"
                /\ solicitud[q].cliente = t.cliente /\ t.cliente # Nulo
                /\ solicitud[q].ref = t.ref
      BY <1>3, PedidoPorConfirmar
    <2>2. a \in V!Anios /\ V!Numerar(a)
      BY <1>3, <2>1 DEF ConfirmarPedido, V!Anios, Anios, V!Numerar
    <2>3. V!Anotar(p, q, t.cliente, t.ref, a)
      BY <1>3, <2>1 DEF ConfirmarPedido, V!Anotar, V!Anotado, HayPedido, EnPedidos
    <2>4. CASE q = Nulo
      <3>1. Tratos' = Tratos
        BY <1>3, <2>4 DEF ConfirmarPedido, Tratos, Trato
      <3>2. V!Directo(p, t.cliente, t.ref, a)
        BY <2>3, <2>4, <3>1 DEF V!Directo
      <3>3. t.cliente \in Clientes \cup {Nulo}
        BY <2>1 DEF Tx
      <3> QED BY <2>1, <2>2, <3>2, <3>3 DEF V!Next
    <2>5. CASE q # Nulo
      <3> DEFINE nueva == [solicitud[q] EXCEPT !.estado = "convertida", !.pedido = p]
      <3>1. solicitud[q] \in Solicitud /\ solicitud[q] # Nulo
        BY <2>1, <2>5 DEF InvSolicitudes, TipoSolicitudes, Hay
      <3>2. nueva.estado = "convertida"
        BY <3>1 DEF Solicitud
      <3>3. Trato(nueva) = nueva
        BY <3>2 DEF Trato, SolicitudAdmiteCarga
      <3>4. Trato(solicitud[q]) = [solicitud[q] EXCEPT !.estado = "abierta"]
        BY <2>1, <2>5, <3>1 DEF Trato, SolicitudAdmiteCarga
      <3>5. nueva = [Tratos[q] EXCEPT !.estado = "convertida", !.pedido = p]
        BY <2>1, <2>5, <3>1, <3>4, LoQueVe DEF Solicitud
      <3>6. solicitud' = [solicitud EXCEPT ![q] = nueva]
        BY <1>3, <2>5 DEF ConfirmarPedido
      <3>7. Tratos' = [Tratos EXCEPT ![q].estado = "convertida", ![q].pedido = p]
        <4>1. Tratos' = [Tratos EXCEPT ![q] = Trato(nueva)]
          <5> HIDE DEF nueva
          <5> QED BY <2>1, <2>5, <3>6, UnTratoCambia
        <4>2. Tratos' = [Tratos EXCEPT
                  ![q] = [Tratos[q] EXCEPT !.estado = "convertida", !.pedido = p]]
          BY <3>3, <3>5, <4>1, Zenon
        <4> QED BY <4>2
      <3>8. /\ V!Hay(q) /\ Tratos[q].estado = "abierta" /\ Tratos[q].cliente = t.cliente
            /\ Tratos[q].ref = t.ref
        BY <2>1, <2>5, LoQueVe DEF SolicitudAdmiteCarga
      <3>9. V!Convertir(p, q, a)
        BY <2>1, <2>3, <2>5, <3>7, <3>8 DEF V!Convertir
      <3> QED BY <2>1, <2>2, <2>5, <3>9 DEF V!Next
    <2> QED BY <2>4, <2>5
  <1>4. ASSUME NEW q \in Solicitudes, NEW e \in SolicitudEstado, CambiarEstadoSolicitud(q, e)
        PROVE  [V!Next]_(V!vars)
    <2> DEFINE fila == solicitud[q]
               nueva == [fila EXCEPT !.estado = e]
    <2>1. /\ fila \in Solicitud /\ Hay(q) /\ fila.estado \in SolicitudAdmiteCarga
          /\ e # "convertida" /\ UNCHANGED <<pedido, contador>>
          /\ solicitud' = [solicitud EXCEPT ![q] = nueva]
      BY <1>4, NadieConvierteAMano
      DEF CambiarEstadoSolicitud, InvSolicitudes, TipoSolicitudes, Hay
    <2>2. nueva \in Solicitud /\ nueva.estado = e
      BY <2>1 DEF Solicitud
    <2>3. Trato(fila) = [fila EXCEPT !.estado = "abierta"]
      BY <2>1 DEF Trato, Hay
    <2>4. Tratos' = [Tratos EXCEPT ![q] = Trato(nueva)] /\ Tratos[q] = Trato(fila)
      BY <2>1, UnTratoCambia, LoQueVe
    <2>5. CASE e \in SolicitudAdmiteCarga
      <3>1. Trato(nueva) = Trato(fila)
        BY <2>1, <2>2, <2>3, <2>5, NuloAssumption DEF Trato, Solicitud
      <3>2. Tratos' = Tratos
        BY <2>4, <3>1 DEF Tratos
      <3> QED BY <2>1, <3>2 DEF V!vars
    <2>6. CASE e = "rechazada"
      <3>1. Trato(nueva) = [Trato(fila) EXCEPT !.estado = "rechazada"]
        BY <2>1, <2>2, <2>3, <2>6 DEF Trato, Solicitud, SolicitudAdmiteCarga
      <3>2. V!Hay(q) /\ Tratos[q].estado = "abierta"
        BY <2>1, LoQueVe
      <3>3. V!Rechazar(q)
        BY <2>1, <2>4, <3>1, <3>2 DEF V!Rechazar
      <3> QED BY <3>3 DEF V!Next
    <2> QED BY <2>1, <2>5, <2>6 DEF SolicitudEstado, SolicitudAdmiteCarga
  <1>5. ASSUME NEW q \in Solicitudes, NEW c \in Clientes,
               AsociarCliente(q, c) \/ CrearClienteDesdeSolicitud(q, c)
        PROVE  [V!Next]_(V!vars)
    <2> DEFINE fila == solicitud[q]
               nueva == [fila EXCEPT !.cliente = c]
    <2>1. /\ fila \in Solicitud /\ Hay(q) /\ UNCHANGED <<pedido, contador>>
          /\ solicitud' = [solicitud EXCEPT ![q] = nueva]
      BY <1>5 DEF AsociarCliente, CrearClienteDesdeSolicitud, InvSolicitudes, TipoSolicitudes, Hay
    <2>2. nueva \in Solicitud /\ nueva.estado = fila.estado
      BY <2>1 DEF Solicitud
    <2>3. Tratos' = [Tratos EXCEPT ![q] = Trato(nueva)] /\ Tratos[q] = Trato(fila)
      <3> HIDE DEF nueva
      <3> QED BY <2>1, UnTratoCambia, LoQueVe
    <2>4. Trato(nueva) = [Trato(fila) EXCEPT !.cliente = c]
      BY <2>1, <2>2, NuloAssumption DEF Trato, Solicitud, Hay
    <2>5. V!Asociar(q, c)
      BY <2>1, <2>3, <2>4, LoQueVe DEF V!Asociar
    <2> QED BY <2>5 DEF V!Next
  <1> QED BY <1>1, <1>2, <1>3, <1>4, <1>5, QuienEscribe

\* The transactions of Solicitudes implement the acts of the counter, each over at once.
THEOREM ImplementaVentanilla == SpecSolicitudes => VentanillaSpec
  <1>1. InvSolicitudes /\ [NextSolicitudes]_varsSolicitudes => [V!Next]_(V!vars)
    BY PasoVentanilla
  <1> QED BY <1>1, InicioVentanilla, InvarianteSolicitudes, PTL
          DEF SpecSolicitudes, VentanillaSpec, V!Spec
=============================================================================
