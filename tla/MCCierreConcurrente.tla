------------------------- MODULE MCCierreConcurrente -------------------------
(* Instances of CierreConcurrente for TLC: matches 1 to 3, matchdays 11 and 12. *)
EXTENDS CierreConcurrente

CONSTANTS t1, t2, t3

MCNumeroDe == [f \in Fechas |-> f - 10]

Pide(tipo, fila) == [tipo |-> tipo, fila |-> fila, destino |-> 11, goles |-> 0]
PideMover(p, f) == [Pide("MOVER", p) EXCEPT !.destino = f]
PideCerrar(p, n) == [Pide("CERRAR", p) EXCEPT !.goles = n]
Resuelven(p) == {Pide("CERRAR", p), Pide("SUSPENDER", p)}

Escenario(pedidos, estados, fechas) ==
    [pedidos |-> pedidos, estados |-> estados, fechas |-> fechas]
Todos(x) == [p \in Partidos |-> x]

\* two matches are resolved and reopened at once, the third one was played long ago
MCResolver == Escenario(
    t1 :> Resuelven(1)
    @@ t2 :> Resuelven(2) \cup {Pide("REABRIR", 1)}
    @@ t3 :> Resuelven(1) \cup {Pide("REABRIR", 2)},
    [p \in Partidos |-> IF p = 3 THEN {"FINALIZADO"} ELSE {"PROGRAMADO", "FINALIZADO"}],
    Todos({11}))

\* a matchday is suspended while its matches are resolved
MCSuspender == Escenario(
    t1 :> {Pide("SUSPENDER_FECHA", 11)}
    @@ t2 :> Resuelven(1) \cup {Pide("SUSPENDER_FECHA", 11)}
    @@ t3 :> Resuelven(2),
    [p \in Partidos |-> IF p = 3 THEN {"NO_JUGADO"} ELSE {"PROGRAMADO", "FINALIZADO"}],
    Todos({11}))

\* a match moves between the matchdays of another that gets a goal and red cards and a
\* third one that is being resolved or gets a goal
MCMover == Escenario(
    t1 :> {Pide("GOL", 1), Pide("ROJA", 1)}
    @@ t2 :> {PideMover(2, 12), PideMover(2, 11)}
    @@ t3 :> Resuelven(3) \cup {Pide("ROJA", 1), Pide("GOL", 3)},
    Todos({"PROGRAMADO", "FINALIZADO", "SUSPENDIDO_FUERZA_MAYOR"}), Todos({11, 12}))

\* goals and red cards of one match cross with each other and with the closing of its
\* acta; the third match is never played, so the matchday stays open
MCGoles == Escenario(
    t1 :> {Pide("GOL", 1)}
    @@ t2 :> {Pide("GOL", 1), Pide("ROJA", 1)}
    @@ t3 :> {PideCerrar(1, n) : n \in 0..2} \cup {Pide("GOL", 1)},
    [p \in Partidos |-> IF p = 1 THEN {"PROGRAMADO", "EN_CURSO"} ELSE {"PROGRAMADO"}],
    Todos({11}))

MCEscenarios == {MCResolver, MCSuspender, MCMover, MCGoles}
=============================================================================
