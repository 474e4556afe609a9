------------------------------ MODULE LibroMayor ------------------------------
(***************************************************************************)
(* What ADR-0015 promises of the ledger of suspensions, and nothing else:  *)
(* a book of accounts.  A suspension has an account while its balance is   *)
(* the book's business (the tribunal has not taken it over).  Closing a    *)
(* matchday writes entries and takes one from each account it writes on;   *)
(* reopening it strikes exactly those entries out and gives one back to    *)
(* each.  No other movement touches an account that stays open.  Torneo    *)
(* implements it (TorneoMayor.tla).                                        *)
(***************************************************************************)
EXTENDS Integers, FiniteSets

CONSTANTS Sanciones, Fechas, Nada

VARIABLES
    cuenta,     \* [Sanciones -> its account, or Nada]
    cerradas    \* the matchdays that are closed

\* What was imposed, what is still to serve, the matchdays that discounted it.
Cuenta == [impuesta : Nat \ {0}, saldo : Nat, asientos : SUBSET Fechas]

TypeOK == \A s \in Sanciones : cuenta[s] \in Cuenta \cup {Nada}

CuentaNueva(k) == [impuesta |-> k, saldo |-> k, asientos |-> {}]

Init == cuenta = [s \in Sanciones |-> Nada] /\ cerradas = {}

\* A suspension is imposed: its account opens whole and without entries.
Abre(c, d) == c = Nada /\ d.impuesta \in Nat \ {0} /\ d = CuentaNueva(d.impuesta)

\* An account moves only with matchdays: one less for each that closes over it, one
\* more for each of its entries whose matchday reopens.
Sigue(c, d) ==
    LET nuevos   == d.asientos \ c.asientos
        tachados == c.asientos \ d.asientos
    IN  /\ c # Nada
        /\ d \in Cuenta
        /\ d.impuesta = c.impuesta
        /\ nuevos \subseteq cerradas' \ cerradas
        /\ tachados = c.asientos \ cerradas'
        /\ d.saldo = (c.saldo - Cardinality(nuevos)) + Cardinality(tachados)

\* One transaction may close a matchday, reopen another and impose suspensions.  An
\* account that closes (Nada) was deleted or revoked, or taken over by the tribunal.
Movimiento ==
    \A s \in Sanciones :
        LET c == cuenta[s]
            d == cuenta'[s]
        IN  d = Nada \/ Abre(c, d) \/ Sigue(c, d)

Spec == Init /\ [][Movimiento]_<<cuenta, cerradas>>

\* The book balances: what is served plus what is pending is what was imposed, and
\* only closed matchdays have entries.
Cuadra ==
    \A s \in Sanciones : cuenta[s] # Nada =>
        /\ cuenta[s].saldo + Cardinality(cuenta[s].asientos) = cuenta[s].impuesta
        /\ cuenta[s].asientos \subseteq cerradas
=============================================================================
