---------------------------- MODULE Instalacion ----------------------------
(***************************************************************************)
(* What backups and restores promise to whoever uses an installation: the  *)
(* data are one instant, which is written to only while they are served;   *)
(* a backup is that instant; and while nobody is served the data may be    *)
(* lost, or become the instant of a published backup, never a mixture.     *)
(* The volumes, the steps and the locks are left to Copias.                *)
(***************************************************************************)
EXTENDS Naturals

CONSTANTS Ids, Nada

VARIABLES
    vigente,    \* the instant the installation holds, or Nada
    atiende,    \* somebody may be served
    ultima,     \* how many instants there were
    guardada,   \* the instant each backup holds, or Nada
    publicadas  \* the backups that verify

vars == <<vigente, atiende, ultima, guardada, publicadas>>

Init ==
    /\ vigente = [n |-> 0, gen |-> 0] /\ ultima = 0
    /\ atiende = TRUE
    /\ guardada = [b \in Ids |-> Nada] /\ publicadas = {}

\* A use of the application, or a rotation of its passwords.
Cambiar ==
    /\ atiende /\ vigente # Nada
    /\ ultima' = ultima + 1
    /\ \E g \in {vigente.gen, vigente.gen + 1} : vigente' = [n |-> ultima', gen |-> g]
    /\ UNCHANGED <<atiende, guardada, publicadas>>

Parar ==
    /\ atiende' = FALSE
    /\ UNCHANGED <<vigente, ultima, guardada, publicadas>>

\* Nobody is served without data.
Atender ==
    /\ vigente # Nada /\ atiende' = TRUE
    /\ UNCHANGED <<vigente, ultima, guardada, publicadas>>

\* A backup is taken at once, of what nobody is changing, and is never taken again.
Guardar(b) ==
    /\ ~atiende /\ vigente # Nada /\ guardada[b] = Nada
    /\ guardada' = [guardada EXCEPT ![b] = vigente]
    /\ UNCHANGED <<vigente, atiende, ultima, publicadas>>

Publicar(b) ==
    /\ guardada[b] # Nada
    /\ publicadas' = publicadas \cup {b}
    /\ UNCHANGED <<vigente, atiende, ultima, guardada>>

Perder ==
    /\ ~atiende /\ vigente' = Nada
    /\ UNCHANGED <<atiende, ultima, guardada, publicadas>>

Reponer(b) ==
    /\ ~atiende /\ b \in publicadas
    /\ vigente' = guardada[b]
    /\ UNCHANGED <<atiende, ultima, guardada, publicadas>>

Next ==
    \/ Cambiar
    \/ Parar \/ Atender \/ Perder
    \/ \E b \in Ids : Guardar(b) \/ Publicar(b) \/ Reponer(b)

Spec == Init /\ [][Next]_vars
=============================================================================
