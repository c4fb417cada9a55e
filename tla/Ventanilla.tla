----------------------------- MODULE Ventanilla -----------------------------
(***************************************************************************)
(* What the counter of the business promises to whoever looks only at its  *)
(* deals and at its book of pedidos: each act is over at once, a deal is   *)
(* closed once, the entry of a converted deal carries the client and the   *)
(* reference the deal has at that moment, and the entries of a year take   *)
(* consecutive numbers.  How many transactions that takes, and what they   *)
(* wait for, is left to Solicitudes, which implements this.                *)
(***************************************************************************)
EXTENDS Naturals

CONSTANTS
    Solicitudes, Pedidos, Clientes, Refs,   \* deals, entries of the book, clients, references
    MaxAnio,
    Nulo

VARIABLES
    trato,      \* each deal: status, client, pedido and reference
    libro,      \* each entry: the deal it is of, client, reference, year, number
    ultimo      \* the last number given in each year

vars == <<trato, libro, ultimo>>

Anios == 1 .. MaxAnio

Init ==
    /\ trato = [q \in Solicitudes |-> Nulo]
    /\ libro = [p \in Pedidos |-> Nulo]
    /\ ultimo = [a \in Anios |-> 0]

Hay(q) == trato[q] # Nulo
Anotado(p) == libro[p] # Nulo

\* No two deals have one reference.
Abrir(q, ref) ==
    /\ ~Hay(q)
    /\ \A s \in Solicitudes : Hay(s) => trato[s].ref # ref
    /\ trato' = [trato EXCEPT ![q] =
          [estado |-> "abierta", cliente |-> Nulo, pedido |-> Nulo, ref |-> ref]]
    /\ UNCHANGED <<libro, ultimo>>

Rechazar(q) ==
    /\ Hay(q) /\ trato[q].estado = "abierta"
    /\ trato' = [trato EXCEPT ![q].estado = "rechazada"]
    /\ UNCHANGED <<libro, ultimo>>

Asociar(q, c) ==
    /\ Hay(q)
    /\ trato' = [trato EXCEPT ![q].cliente = c]
    /\ UNCHANGED <<libro, ultimo>>

\* The next number of the year, which goes to a new entry of the book.
Numerar(a) == ultimo' = [ultimo EXCEPT ![a] = @ + 1]

Anotar(p, q, c, ref, a) ==
    /\ ~Anotado(p)
    /\ \A x \in Pedidos : Anotado(x) => libro[x].ref # ref
    /\ libro' = [libro EXCEPT ![p] =
          [sol |-> q, cliente |-> c, ref |-> ref, anio |-> a, num |-> ultimo[a] + 1]]

Directo(p, c, ref, a) ==
    /\ Anotar(p, Nulo, c, ref, a)
    /\ UNCHANGED trato

Convertir(p, q, a) ==
    /\ Hay(q) /\ trato[q].estado = "abierta" /\ trato[q].cliente # Nulo
    /\ Anotar(p, q, trato[q].cliente, trato[q].ref, a)
    /\ trato' = [trato EXCEPT ![q].estado = "convertida", ![q].pedido = p]

\* A step changes something; one that does not is left to the stuttering of Spec.
Next ==
    /\ vars' # vars
    /\ \/ \E q \in Solicitudes :
             \/ \E ref \in Refs : Abrir(q, ref)
             \/ Rechazar(q)
             \/ \E c \in Clientes : Asociar(q, c)
       \/ \E a \in Anios :
             /\ Numerar(a)
             /\ \E p \in Pedidos :
                   \/ \E c \in Clientes \cup {Nulo}, ref \in Refs : Directo(p, c, ref, a)
                   \/ \E q \in Solicitudes : Convertir(p, q, a)

Spec == Init /\ [][Next]_vars
=============================================================================
