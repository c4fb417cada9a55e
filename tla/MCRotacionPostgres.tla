-------------------------- MODULE MCRotacionPostgres --------------------------
(* Small instances of RotacionPostgres for TLC. *)
EXTENDS RotacionPostgres, TLC
=============================================================================
