------------------------------ MODULE Reseteo ------------------------------
(***************************************************************************)
(* What a reset of a password promises to whoever asks for it and to       *)
(* whoever audits it later, with no calls, retries or crashes: an attempt  *)
(* holds one user until it is closed, Auth takes its password at most once *)
(* and only meanwhile, and how it is closed and what is announced of it    *)
(* agree with that.  Usuarios implements this.                             *)
(***************************************************************************)
CONSTANTS
    Usuarios, Intentos,
    Propia, Alta,       \* passwords of the user's choice, and of his creation
    Nadie

VARIABLES
    estado,     \* each attempt, as its audit says
    retiene,    \* the user each attempt holds or held
    clave,      \* whose choice the password of each user is
    aplicados,  \* attempts whose password reached Auth
    anuncio     \* what the administrator was told of each attempt

vars == <<estado, retiene, clave, aplicados, anuncio>>

Init ==
    /\ estado = [a \in Intentos |-> "ninguno"]
    /\ retiene = [a \in Intentos |-> Nadie]
    /\ clave \in [Usuarios -> {Propia, Alta}]
    /\ aplicados = {}
    /\ anuncio = [a \in Intentos |-> "ninguno"]

Abierto(a) == estado[a] = "pending"

\* A user is held by one attempt at a time.
Abrir(a, u) ==
    /\ estado[a] = "ninguno"
    /\ \A b \in Intentos : Abierto(b) => retiene[b] # u
    /\ estado' = [estado EXCEPT ![a] = "pending"]
    /\ retiene' = [retiene EXCEPT ![a] = u]
    /\ UNCHANGED <<clave, aplicados, anuncio>>

Limitar(a) ==
    /\ estado[a] = "ninguno"
    /\ estado' = [estado EXCEPT ![a] = "rate_limited"]
    /\ UNCHANGED <<retiene, clave, aplicados, anuncio>>

Aplicar(a) ==
    /\ Abierto(a) /\ a \notin aplicados
    /\ clave' = [clave EXCEPT ![retiene[a]] = a]
    /\ aplicados' = aplicados \cup {a}
    /\ UNCHANGED <<estado, retiene, anuncio>>

\* Closed once, and as failed only if nothing was applied.
Cerrar(a, final) ==
    /\ Abierto(a)
    /\ final = "succeeded" => a \in aplicados
    /\ final = "failed" => a \notin aplicados
    /\ estado' = [estado EXCEPT ![a] = final]
    /\ UNCHANGED <<retiene, clave, aplicados>>

Decir(a, r) == anuncio[a] = "ninguno" /\ anuncio' = [anuncio EXCEPT ![a] = r]

\* A success is announced of what is closed, or is being closed, as succeeded; that
\* nothing changed, of what is closed as failed.
Anunciar(a) ==
    /\ \/ estado[a] = "succeeded" /\ Decir(a, "exito")
       \/ estado[a] = "failed" /\ Decir(a, "sin_cambio")
    /\ UNCHANGED <<estado, retiene, clave, aplicados>>

\* A user chooses his own.
Elegir(u) ==
    /\ clave' = [clave EXCEPT ![u] = Propia]
    /\ UNCHANGED <<estado, retiene, aplicados, anuncio>>

Next ==
    \/ \E a \in Intentos :
          \/ \E u \in Usuarios : Abrir(a, u)
          \/ Limitar(a) \/ Aplicar(a) \/ Anunciar(a)
          \/ \E final \in {"succeeded", "failed", "attention_required"} :
                Cerrar(a, final) /\ UNCHANGED anuncio
          \/ Cerrar(a, "succeeded") /\ Decir(a, "exito")
    \/ \E u \in Usuarios : Elegir(u)

Spec == Init /\ [][Next]_vars
=============================================================================
