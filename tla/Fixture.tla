-------------------------------- MODULE Fixture --------------------------------
(***************************************************************************)
(* How the matches of a tournament are laid out: the round robin of Berger, *)
(* the swaps that shorten runs of home matches, the calendar of the         *)
(* matchdays and the first round of an elimination bracket.  No state here: *)
(* Playoffs.tla generates with these operators.                             *)
(***************************************************************************)
EXTENDS Integers, FiniteSets, FiniteSetsExt, SequencesExt

Pasadas == 5          \* MAX_ITER of aplicarConstraintsFixture
MaxLocales == 2       \* maxLocalesSeguidos
MaxSaltos == 14       \* MAX_SALTOS_DIA_NO_JUGABLE

Choque(f, l, v) == [fecha |-> f, local |-> l, visita |-> v]
Equipos(ps) == {p.local : p \in ps} \cup {p.visita : p \in ps}

---------------------------------------------------------------------------
(* The round robin                                                         *)

Par(n) == n + (n % 2)
FechasDe(n, ruedas) == (Par(n) - 1) * ruedas

\* Mutant: the rotation takes the first team along
MutPuesto(n, k, i) == (i - k) % n

\* Who is at position i after k rotations of n teams: the first one never moves.
Puesto(n, k, i) == IF i = 0 THEN 0 ELSE 1 + ((i - 1 - k) % (n - 1))

\* With an odd number of teams the last position is nobody's: who meets it rests.
Berger(equipos, ruedas) ==
    LET n == Par(Len(equipos))
        Cruce(r, k, i) ==
            LET x == 1 + Puesto(n, k, i)
                y == 1 + Puesto(n, k, n - 1 - i)
            IN IF Len(equipos) < x \/ Len(equipos) < y THEN {}
               ELSE {IF r = 1 THEN Choque(r * (n - 1) + k + 1, equipos[y], equipos[x])
                              ELSE Choque(r * (n - 1) + k + 1, equipos[x], equipos[y])}
    IN UNION {Cruce(r, k, i) : r \in 0..ruedas - 1, k \in 0..n - 2, i \in 0..(n \div 2) - 1}

Voltear(p) == [p EXCEPT !.local = p.visita, !.visita = p.local]

\* The walk along the matches of team e: the one that makes its home run too long
\* is swapped, whatever that does to the other team.
SinRachas(ps, e, fechas) ==
    LET Seguir(a, f) ==
            LET suyo == {p \in a.ps : p.fecha = f /\ e \in {p.local, p.visita}}
                p == CHOOSE x \in suyo : TRUE
            IN IF suyo = {} THEN a
               ELSE IF p.local # e THEN [a EXCEPT !.racha = 0]
               ELSE IF a.racha < MaxLocales THEN [a EXCEPT !.racha = @ + 1]
               ELSE [ps |-> (a.ps \ {p}) \cup {Voltear(p)}, racha |-> 0]
    IN IF e \notin Equipos(ps) THEN ps
       ELSE FoldLeft(Seguir, [ps |-> ps, racha |-> 0], [f \in 1..fechas |-> f]).ps

\* aplicarConstraintsFixture.  No caller says which teams share a pitch, so the only
\* swaps are those of the home runs; a pass that swaps nothing is the last one.
Ajustado(ps, equipos, fechas) ==
    LET Pasada(qs, i) == FoldLeft(LAMBDA rs, e : SinRachas(rs, e, fechas), qs, equipos)
    IN FoldLeft(Pasada, ps, [i \in 1..Pasadas |-> i])

RoundRobin(equipos, ruedas) ==
    Ajustado(Berger(equipos, ruedas), equipos, FechasDe(Len(equipos), ruedas))

\* construirFixturePorGrupos: matchday R of every group is matchday R
PorGrupos(grupos, ruedas) ==
    UNION {RoundRobin(grupos[g], ruedas) : g \in DOMAIN grupos}

\* sortear of the groups: the shuffled teams are dealt out one by one
Reparto(n, cantidad) ==
    [g \in 1..cantidad |->
        [i \in 1..Cardinality({e \in 1..n : e % cantidad = g % cantidad}) |->
            g + (i - 1) * cantidad]]

---------------------------------------------------------------------------
(* The days of the matchdays                                               *)

\* A matchday falls on its natural day or, if that is not playable or not after the
\* previous one, on the first playable day within MaxSaltos; if there is none, on the
\* natural day after all.
Dia(natural, previo, bloqueados) ==
    LET desde == IF natural <= previo THEN previo + 1 ELSE natural
        jugables == (desde..desde + MaxSaltos) \ bloqueados
    IN IF jugables = {} THEN natural ELSE Min(jugables)

Calendario(fechas, cada, bloqueados) ==
    FoldLeft(LAMBDA ds, f : Append(ds, Dia((f - 1) * cada,
                                           IF ds = <<>> THEN -1 ELSE Last(ds), bloqueados)),
             <<>>, [f \in 1..fechas |-> f])

---------------------------------------------------------------------------
(* The first round of a bracket                                            *)

Potencia(n) == Min({b \in {2^i : i \in 0..n} : n <= b})

\* Mutant: the bracket keeps the order of the table
MutOrdenSiembra(b) == [i \in 1..b |-> i]

\* ordenSiembra: each position x is followed by the one it adds up to b + 1 with.
OrdenSiembra(b) ==
    LET Doblar(pls, i) == [j \in 1..2 * Len(pls) |->
            IF j % 2 = 1 THEN pls[(j + 1) \div 2] ELSE 2 * Len(pls) + 1 - pls[j \div 2]]
    IN FoldLeft(Doblar, <<1, 2>>, [i \in 1..Cardinality({i \in 2..b : 2^i <= b}) |-> i])
=============================================================================
