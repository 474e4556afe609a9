---------------------------- MODULE MCColaOffline ----------------------------
(* Instances of ColaOffline for TLC. *)
EXTENDS ColaOffline

MCTipo == <<"incidencia", "certificar-presentes", "cerrar-acta">>
=============================================================================
