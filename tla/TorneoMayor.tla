----------------------------- MODULE TorneoMayor -----------------------------
(* Torneo implements the book of accounts: the account of a suspension is its *)
(* row in sanciones_activas until the tribunal writes on it or revokes it.     *)
EXTENDS Torneo

EnCuenta(s) == sancion[s].existe /\ ~sancion[s].ajustada /\ ~sancion[s].revocada

CuentaDe(s) ==
    [impuesta |-> sancion[s].totales, saldo |-> sancion[s].pendientes,
     asientos |-> FechasQueDescontaron(s)]

Cuentas == [s \in SancionId |-> IF EnCuenta(s) THEN CuentaDe(s) ELSE Nada]
Cerradas == {f \in Fechas : fecha[f].estado = "FINALIZADA"}

Mayor == INSTANCE LibroMayor WITH
    Sanciones <- SancionId, cuenta <- Cuentas, cerradas <- Cerradas

\* NULL is not an account.
ASSUME MayorAssumption == Nada \notin Mayor!Cuenta

\* ADR-0015: "reabrir devuelve exactamente lo que se desconto".  Whatever order acts,
\* reopenings, walkovers, moves and resolutions come in, a balance moves only with the
\* matchdays that close over it and reopen, one for one, and by no other request.
ImplementaLibroMayor == Mayor!Spec
=============================================================================
