-------------------------------- MODULE Altas --------------------------------
(***************************************************************************)
(* What the creation of a user promises to who asks for it and to who      *)
(* audits it later: an attempt gives one account at most, once and never   *)
(* again; the account is not withdrawn once a success was told or          *)
(* recorded; the attempt is closed once, in agreement with what was told,  *)
(* and how it was closed tells what became of the account.  Only an        *)
(* attempt closed in doubt may still give one, and only one closed as not  *)
(* compensated may still lose it.  AltaUsuarios, with its calls, limits,   *)
(* lost and late requests and crashes, implements this.                    *)
(***************************************************************************)
CONSTANTS Peticiones

VARIABLES
    registro,   \* how each attempt is recorded; "duda" is a failure with no answer of Auth
    cuenta,     \* the account of each
    aviso       \* what its caller was told

vars == <<registro, cuenta, aviso>>

Init ==
    /\ registro = [p \in Peticiones |-> "no"]
    /\ cuenta = [p \in Peticiones |-> "no"]
    /\ aviso = [p \in Peticiones |-> "ninguna"]

Avisar(p, r) == aviso[p] = "ninguna" /\ aviso' = [aviso EXCEPT ![p] = r]

Callada(p) == aviso[p] \in {"ninguna", "fallo"} /\ UNCHANGED aviso

\* What the caller hears of a call that did not go on; the attempt may still be recorded.
Rechazar(p) ==
    /\ registro[p] = "no"
    /\ Avisar(p, "fallo")
    /\ UNCHANGED <<registro, cuenta>>

Limitar(p) ==
    /\ registro[p] = "no"
    /\ Avisar(p, "limite") \/ Callada(p)
    /\ registro' = [registro EXCEPT ![p] = "rate_limited"]
    /\ UNCHANGED cuenta

Admitir(p) ==
    /\ registro[p] = "no" /\ Callada(p)
    /\ registro' = [registro EXCEPT ![p] = "pending"]
    /\ UNCHANGED cuenta

\* One account, of an attempt that is open or in doubt.
Nacer(p) ==
    /\ cuenta[p] = "no" /\ registro[p] \in {"pending", "duda"}
    /\ cuenta' = [cuenta EXCEPT ![p] = "viva"]
    /\ UNCHANGED <<registro, aviso>>

Retirar(p) ==
    /\ cuenta[p] = "viva"
    /\ registro[p] \in {"pending", "compensation_failed"} /\ aviso[p] # "exito"
    /\ cuenta' = [cuenta EXCEPT ![p] = "borrada"]
    /\ UNCHANGED <<registro, aviso>>

\* What an ending says of the account, and what the caller hears of it.
Cierto(p, final) ==
    /\ final = "succeeded" => cuenta[p] = "viva"
    /\ final = "failed" => cuenta[p] # "viva"
    /\ final = "compensation_failed" => cuenta[p] # "no"
Anuncio(final) == IF final = "succeeded" THEN "exito" ELSE "fallo"

\* The caller hears an ending that is not recorded yet, or never will be.
Anunciar(p, final) ==
    /\ registro[p] = "pending" /\ Cierto(p, final)
    /\ Avisar(p, Anuncio(final))
    /\ UNCHANGED <<registro, cuenta>>

Cerrar(p, final) ==
    /\ registro[p] = "pending" /\ Cierto(p, final)
    /\ \/ Avisar(p, Anuncio(final))
       \/ aviso[p] \in {"ninguna", Anuncio(final)} /\ UNCHANGED aviso
    /\ registro' = [registro EXCEPT ![p] = final]
    /\ UNCHANGED cuenta

\* A step shows something; one that does not is left to the stuttering of Spec.
Next ==
    /\ vars' # vars
    /\ \E p \in Peticiones :
        \/ Nacer(p) \/ Retirar(p) \/ Limitar(p) \/ Admitir(p) \/ Rechazar(p)
        \/ \E final \in {"succeeded", "failed", "compensation_failed", "duda"} :
             Anunciar(p, final) \/ Cerrar(p, final)

Spec == Init /\ [][Next]_vars
==============================================================================
