--------------------------- MODULE MCRotacionFirma ---------------------------
(* Instance of RotacionFirma for TLC. *)
EXTENDS RotacionFirma, TLC

\* Two of the four services that only verify.
DosConsumidores == <<"rest", "functions">>

\* Nothing is promised once a transition was written over remains of a third stage, and
\* that is never forgotten: there is nothing to see from there on.
SinApilar == ~apilado

Simetria == Permutations(Mandos)
==============================================================================
