--------------------------- MODULE EntregaArchivos ---------------------------
(***************************************************************************)
(* What the upload control plane promises about each file offered to it,   *)
(* with no sessions, clocks, signatures, requests or locks: the file is    *)
(* either incorporated, exactly once and with its content in the bucket,   *)
(* or discarded, never both; an incorporated file keeps its content.       *)
(***************************************************************************)
CONSTANTS
    Items,      \* what may be offered
    ArchivoIds  \* identifiers of operational files

VARIABLES
    destino,    \* what became of each item
    filas,      \* the operational files: pairs <<id, item>>
    contenido   \* the items whose bytes, as declared, are in the bucket

vars == <<destino, filas, contenido>>

Init ==
    /\ destino = [i \in Items |-> "sin_reserva"]
    /\ filas = {}
    /\ contenido = {}

Ofrecer(S) ==
    /\ \A i \in S : destino[i] = "sin_reserva"
    /\ destino' = [i \in Items |-> IF i \in S THEN "ofrecido" ELSE destino[i]]
    /\ UNCHANGED <<filas, contenido>>

\* Bytes arrive for an item that was offered, even after it was discarded.
Llegar(i) ==
    /\ destino[i] \in {"ofrecido", "descartado"}
    /\ contenido' = contenido \cup {i}
    /\ UNCHANGED <<destino, filas>>

Incorporar(i, id) ==
    /\ destino[i] = "ofrecido"
    /\ i \in contenido
    /\ \A f \in filas : f[1] # id /\ f[2] # i
    /\ destino' = [destino EXCEPT ![i] = "incorporado"]
    /\ filas' = filas \cup {<<id, i>>}
    /\ UNCHANGED contenido

Descartar(S) ==
    /\ \A i \in S : destino[i] = "ofrecido"
    /\ destino' = [i \in Items |-> IF i \in S THEN "descartado" ELSE destino[i]]
    /\ UNCHANGED <<filas, contenido>>

Retirar(S) ==
    /\ \A i \in S : destino[i] = "descartado"
    /\ contenido' = contenido \ S
    /\ UNCHANGED <<destino, filas>>

Next ==
    \/ \E S \in SUBSET Items : Ofrecer(S) \/ Descartar(S) \/ Retirar(S)
    \/ \E i \in Items : Llegar(i) \/ \E id \in ArchivoIds : Incorporar(i, id)

Spec == Init /\ [][Next]_vars
=============================================================================
