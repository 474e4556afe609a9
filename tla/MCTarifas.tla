------------------------------- MODULE MCTarifas -------------------------------
EXTENDS Tarifas, TLC

CONSTANTS a, b, p1, q1, q2

Simetria == Permutations({q1, q2})

Sin == [t \in Tipos |-> "no"]

\* Once two requests have fined the match nothing is claimed of it: no need to go on.
SinCruces == cruces \cap Partidos = {}

\* A match to be fined; a tournament to be started; one that charges month by month
MCEscenarios ==
    {[torneo |-> "ACTIVO", inscritos |-> <<a, b>>, hoy |-> 3, partido |-> [p \in {p1} |-> "abierto"],
      tarifa |-> [Sin EXCEPT !["MULTA_AMARILLA"] = "activa", !["MULTA_WALKOVER"] = "activa"]],
     [torneo |-> "DRAFT", inscritos |-> <<a>>, hoy |-> 2, partido |-> [p \in {p1} |-> "no"],
      tarifa |-> [Sin EXCEPT !["MATRICULA"] = "activa", !["CUOTA"] = "activa"]],
     [torneo |-> "ACTIVO", inscritos |-> <<a>>, hoy |-> 1, partido |-> [p \in {p1} |-> "no"],
      tarifa |-> [Sin EXCEPT !["CUOTA"] = "por_mes"]]}

MCArranque == {e \in MCEscenarios : e.torneo = "DRAFT"}

\* Rows 1 and 2 are the same card, loaded twice.
MCCarta == <<[equipo |-> 1, tipo |-> "MULTA_AMARILLA", quien |-> 1],
             [equipo |-> 1, tipo |-> "MULTA_AMARILLA", quien |-> 1],
             [equipo |-> 1, tipo |-> "MULTA_AMARILLA", quien |-> 2]>>
=============================================================================
