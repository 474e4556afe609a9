------------------------------ MODULE MCTorneo ------------------------------
(* Instances of Torneo for TLC: teams a and b, one player of a, and a fixture *)
(* of two matchdays with one match each.                                      *)
EXTENDS TorneoMayor, TLC

CONSTANTS p1, p2, p3, f1, f2, f3, a, b, j1, j2

MCNumeroDe == f1 :> 1 @@ f2 :> 2
MCFechaDe == [p \in Partidos \cap {p1, p2} |-> IF p = p1 THEN f1 ELSE f2]
MCEquiposDe == [p \in DOMAIN MCFechaDe |-> {a, b}]
MCClubDe == [e \in Equipos |-> e]
MCClubDelJugador == [j \in Jugadores |-> a]
MCRutDe == [j \in Jugadores |-> j]
MCPlanilla == [e \in Equipos |-> IF e = a THEN Jugadores ELSE {}]
=============================================================================
