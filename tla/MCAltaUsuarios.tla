---------------------------- MODULE MCAltaUsuarios ----------------------------
(* Instance of AltaUsuarios for TLC. *)
EXTENDS AltaUsuarios, TLC

Simetria == Permutations(Peticiones) \cup Permutations(Admins)
===============================================================================
