------------------------------ MODULE MCCargas ------------------------------
(* Small instances of Cargas for TLC. *)
EXTENDS Cargas, TLC

CONSTANTS q1, q2, s1, s2, i1, i2, p1, f1, f2, f3, r1, r2

\* One session of two items.
UnaSesion == (i1 :> s1) @@ (i2 :> s1)
\* Two sessions of one item each.
DosSesiones == (i1 :> s1) @@ (i2 :> s2)

\* One session of one item.
UnItem == i1 :> s1

\* Interchangeable rows and requests; with UnaSesion, items too.
Simetria == Permutations(ArchivoIds) \cup Permutations(Peticiones)
SimetriaItems == Simetria \cup Permutations(Items)

\* Ids are interchangeable, but symmetry is not sound for liveness: the first file row takes
\* f1 and each session is of the solicitud of its own name.
Canonica ==
    /\ (\E a \in archivos : a.id = f2) => \E a \in archivos : a.id = f1
    /\ sesSol[s1] # q2 /\ sesSol[s2] # q1

\* The uploads of solicitudes nobody attends yet: two sessions for a maintenance
\* that takes one at a time, without the moves of the business.
NextDesatendida == (Reservar \/ Transferir \/ Finalizar \/ Mantener \/ Avanzar) /\ Canonica'
SpecDesatendida == Init /\ [][NextDesatendida]_vars /\ Equidad
=============================================================================
