------------------------------- MODULE MCPagos -------------------------------
(* Instances of Pagos for TLC: one charge that is paid twice at most. *)
EXTENDS Pagos
=============================================================================
