------------------------------ MODULE MCPlayoffs ------------------------------
(* Instances of Playoffs for TLC. *)
EXTENDS Playoffs

Torneo(formato, equipos, grupos, ruedas, clasifican, idaVuelta, tercero, diferencias) ==
    [formato |-> formato, equipos |-> equipos, grupos |-> grupos, ruedas |-> ruedas,
     clasifican |-> clasifican, idaVuelta |-> idaVuelta, tercero |-> tercero, diferencias |-> diferencias,
     cada |-> 7, bloqueados |-> {0, 14}]

\* Round robins of 4 to 8 teams with a final, groups of 3 and 4 teams with semifinals,
\* a bracket of 3 at home and away and one of 5 after a round robin
MCTorneos ==
    {Torneo("ROUND_ROBIN", n, 1, r, 2, FALSE, FALSE, {-1, 1}) : n \in 4..8, r \in {1, 2}}
    \cup {Torneo("GROUPS", 7, 2, 1, 4, FALSE, TRUE, {-1, 0, 1}),
          Torneo("PLAYOFFS", 3, 1, 1, 0, TRUE, TRUE, {-1, 1}),
          Torneo("ROUND_ROBIN", 5, 1, 1, 5, FALSE, FALSE, {-1, 1})}
=============================================================================
