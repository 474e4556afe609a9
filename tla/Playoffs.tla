------------------------------- MODULE Playoffs -------------------------------
(***************************************************************************)
(* The competition of a tournament: its fixture is generated, its regular  *)
(* phase is played, a bracket is sown with the teams that qualify and the  *)
(* winners go up the bracket each time somebody asks to synchronise it.    *)
(*                                                                         *)
(* A team of the bracket is its seed (1 is the best).  A key is <<ronda,   *)
(* orden>>; the third place is key <<final, 1>>.  Synchronising reads the  *)
(* keys, then the matches, and writes what it made of them: other requests *)
(* come in between.                                                        *)
(***************************************************************************)
EXTENDS Fixture

CONSTANTS
    Torneos,        \* the tournaments the behaviours start from
    Peticiones,     \* synchronisations in flight
    MaxEventos,     \* bound on everything but generating, closing actas and synchronising
                    \* one at a time
    Nadie           \* no team yet

VARIABLES
    torneo,         \* its settings, and the goal differences its matches may end with
    regular,        \* matches of the regular phase
    dias,           \* day of each matchday that generar made
    completa,       \* every match of the regular phase is decided
    llaves,         \* key -> its row, of the keys there are
    fechas,         \* matchdays of the bracket: one with that number is not suspended
    partidos,       \* matches of the bracket, as they were inserted
    obra,           \* how many times keys or matchdays have been made: dates their ids
    peticion,       \* request -> what it read and what it will write
    eventos

vars == <<torneo, regular, dias, completa, llaves, fechas, partidos, obra, peticion, eventos>>

Libre == [paso |-> "libre"]
PorFase == torneo.formato # "PLAYOFFS"

\* The order of the queries: ronda, then orden
Antes(a, b) == a[1] < b[1] \/ (a[1] = b[1] /\ a[2] < b[2])
EnOrden(ks) == [i \in 1..Cardinality(ks) |->
                   CHOOSE k \in ks : Cardinality({j \in ks : Antes(j, k)}) = i - 1]
RondaFinal(ll) == Max({k[1] : k \in DOMAIN ll})
Cruces(ll) == {k \in DOMAIN ll : ~ll[k].tercero}

Init ==
    /\ torneo \in Torneos
    /\ regular = {} /\ dias = <<>> /\ completa = FALSE
    /\ llaves = <<>> /\ fechas = <<>> /\ partidos = <<>>
    /\ obra = 0 /\ eventos = 0
    /\ peticion = [q \in Peticiones |-> Libre]

Gasta == eventos < MaxEventos /\ eventos' = eventos + 1

---------------------------------------------------------------------------
(* The bracket                                                             *)

Destino(k) == <<k[1] + 1, k[2] \div 2>>

\* Mutant: every winner enters as the home team
MutSube(ll, k, equipo) == [ll EXCEPT ![Destino(k)].local = equipo]

\* The winner of key <<r, o>> plays key <<r + 1, o \div 2>>, at home if o is even.
Sube(ll, k, equipo) ==
    IF k[2] % 2 = 0 THEN [ll EXCEPT ![Destino(k)].local = equipo]
                    ELSE [ll EXCEPT ![Destino(k)].visita = equipo]

\* armarYGuardarBracket: who has no rival in the first round is in the second one.
Cuadro(n, conTercero) ==
    LET b == Potencia(n)
        final == Cardinality({i \in 1..b : 2^i <= b})
        seed(i) == IF OrdenSiembra(b)[i] <= n THEN OrdenSiembra(b)[i] ELSE Nadie
        primera == {<<1, o>> : o \in 0..(b \div 2) - 1}
        tercero == IF conTercero /\ final >= 2 THEN {<<final, 1>>} ELSE {}
        resto == UNION {{<<r, o>> : o \in 0..(b \div 2^r) - 1} : r \in 2..final}
        vacio == [k \in primera \cup resto \cup tercero |->
                    LET l == IF k[1] = 1 THEN seed(2 * k[2] + 1) ELSE Nadie
                        v == IF k[1] = 1 THEN seed(2 * k[2] + 2) ELSE Nadie
                    IN [local |-> l, visita |-> v,
                        ganador |-> IF v = Nadie THEN l ELSE Nadie, tercero |-> k \in tercero,
                        alta |-> obra']]
        libres == {k \in primera : vacio[k].ganador # Nadie}
    IN FoldLeft(LAMBDA ll, k : Sube(ll, k, ll[k].ganador), vacio, EnOrden(libres))

Definida(l) == l.local # Nadie /\ l.visita # Nadie

FechaDe(k, vuelta) ==
    IF ~torneo.idaVuelta THEN k[1] ELSE IF vuelta THEN 2 * k[1] ELSE 2 * k[1] - 1

\* crearPartidosLlave: one match, or two with the sides changed, each only if there is
\* a matchday to put it in.
PartidosDe(k, l, fs) ==
    LET Nuevo(vuelta) == [llave |-> k, vuelta |-> vuelta, jugado |-> FALSE, dif |-> 0,
                          local |-> IF vuelta THEN l.visita ELSE l.local,
                          visita |-> IF vuelta THEN l.local ELSE l.visita]
        f(vuelta) == FechaDe(k, vuelta)
        Si(vuelta) == IF f(vuelta) \in DOMAIN fs /\ fs[f(vuelta)] THEN <<Nuevo(vuelta)>> ELSE <<>>
    IN IF torneo.idaVuelta THEN Si(FALSE) \o Si(TRUE) ELSE Si(FALSE)

PartidosDeTodas(ll, ks, fs) ==
    FoldLeft(LAMBDA ps, k : ps \o PartidosDe(k, ll[k], fs), <<>>,
             EnOrden({k \in ks : Definida(ll[k])}))

FechasNuevas(ll) == [s \in 1..RondaFinal(ll) * (IF torneo.idaVuelta THEN 2 ELSE 1) |-> TRUE]

---------------------------------------------------------------------------
(* What synchronising makes of the rows it read                            *)

DeLlave(ps, k) == {i \in DOMAIN ps : ps[i].llave = k}
Jugados(ps, k) == {i \in DeLlave(ps, k) : ps[i].jugado}

\* With a single match per key the first one counts: if a second one was made, any of
\* the two, the query gives them in no order.
Lecturas(ll, ps) ==
    {[k \in DOMAIN ll |-> IF Jugados(ps, k) = {} THEN 0
                          ELSE IF k \in viejas THEN Min(Jugados(ps, k)) ELSE Max(Jugados(ps, k))] :
        viejas \in SUBSET {k \in DOMAIN ll : Cardinality(Jugados(ps, k)) > 1}}

Global(l, ps, js) ==
    MapThenSumSet(LAMBDA i : IF ps[i].local = l.local THEN ps[i].dif ELSE 0 - ps[i].dif, js)

\* calcularGanadorLlave: a tie decides nothing.
GanadorDe(l, ps, js, primero) ==
    IF ~Definida(l) \/ js = {} THEN Nadie
    ELSE IF ~torneo.idaVuelta
         THEN CASE ps[primero].dif > 0 -> ps[primero].local
                [] ps[primero].dif < 0 -> ps[primero].visita
                [] OTHER -> Nadie
    ELSE IF Cardinality(js) # 2 THEN Nadie
         ELSE CASE Global(l, ps, js) > 0 -> l.local
                [] Global(l, ps, js) < 0 -> l.visita
                [] OTHER -> Nadie

\* Mutant: the rounds are settled from the final back
MutCamino(ll) == Reverse(EnOrden(Cruces(ll)))

Camino(ll) == EnOrden(Cruces(ll))

\* A key keeps its winner until its matches say another.
Avanza(ll, k, ps, primero) ==
    LET auto == GanadorDe(ll[k], ps, Jugados(ps, k), primero)
        g == IF auto = Nadie THEN ll[k].ganador ELSE auto
        con == [ll EXCEPT ![k].ganador = g]
    IN IF g # Nadie /\ k[1] < RondaFinal(ll) /\ Destino(k) \in Cruces(ll)
       THEN Sube(con, k, g) ELSE con

Perdedor(l) ==
    IF l.ganador = Nadie \/ ~Definida(l) THEN Nadie
    ELSE IF l.ganador = l.local THEN l.visita ELSE l.local

TercerPuesto(ll) ==
    LET semis == EnOrden({k \in Cruces(ll) : k[1] = RondaFinal(ll) - 1})
        p(i) == IF Len(semis) < i THEN Nadie ELSE Perdedor(ll[semis[i]])
    IN [k \in DOMAIN ll |->
           IF ~ll[k].tercero THEN ll[k]
           ELSE [ll[k] EXCEPT !.local = IF p(1) = Nadie THEN @ ELSE p(1),
                              !.visita = IF p(2) = Nadie THEN @ ELSE p(2)]]

Resueltas(ll, ps, f) ==
    TercerPuesto(FoldLeft(LAMBDA ls, k : Avanza(ls, k, ps, f[k]), ll, Camino(ll)))

SinPartido(ll, ps) == {k \in DOMAIN ll : DeLlave(ps, k) = {}}

Faltantes(ll, ps, fs) == PartidosDeTodas(ll, SinPartido(ll, ps), fs)

---------------------------------------------------------------------------
(* The fixture                                                             *)

Cupo == IF torneo.formato = "PLAYOFFS" THEN torneo.equipos ELSE torneo.clasifican

Grupos == Reparto(torneo.equipos, torneo.grupos)

\* generar: refused if there is a matchday already; of a bracket, once it is sown
Generar ==
    /\ regular = {} /\ fechas = <<>>
    /\ IF PorFase
       THEN /\ regular' = PorGrupos(Grupos, torneo.ruedas)
            /\ dias' = Calendario(Max({p.fecha : p \in regular'}), torneo.cada, torneo.bloqueados)
            /\ UNCHANGED <<fechas, partidos>>
       ELSE /\ llaves # <<>>
            /\ fechas' = FechasNuevas(llaves)
            /\ partidos' = PartidosDeTodas(llaves, DOMAIN llaves, fechas')
            /\ dias' = Calendario(Len(fechas'), torneo.cada, torneo.bloqueados)
            /\ UNCHANGED regular
    /\ obra' = obra + 1
    /\ UNCHANGED <<torneo, completa, llaves, peticion, eventos>>

\* reset deletes the matchdays and, with them, the matches; not the bracket
Reset ==
    /\ Gasta
    /\ dias # <<>>
    /\ regular' = {} /\ fechas' = <<>> /\ partidos' = <<>> /\ dias' = <<>> /\ completa' = FALSE
    /\ UNCHANGED <<torneo, llaves, obra, peticion>>

\* The regular phase is Torneo.tla's matter: here it is played or not.
JugarFaseRegular ==
    /\ regular # {} /\ ~completa
    /\ completa' = TRUE
    /\ UNCHANGED <<torneo, regular, dias, llaves, fechas, partidos, obra, peticion, eventos>>

\* sortear: the bracket of PLAYOFFS is sown before its fixture; that of a tournament
\* with phases once the regular one is complete, and with its fixture.
Sortear ==
    /\ Gasta
    /\ fechas = <<>>
    /\ PorFase => completa
    /\ obra' = obra + 1
    /\ llaves' = Cuadro(Cupo, torneo.tercero)
    /\ IF PorFase
       THEN /\ fechas' = FechasNuevas(llaves')
            /\ partidos' = PartidosDeTodas(llaves', DOMAIN llaves', fechas')
       ELSE UNCHANGED <<fechas, partidos>>
    /\ UNCHANGED <<torneo, regular, dias, completa, peticion>>

Limpiar ==
    /\ Gasta
    /\ llaves # <<>>
    /\ PorFase \/ fechas = <<>>
    /\ llaves' = <<>> /\ fechas' = <<>> /\ partidos' = <<>>
    /\ UNCHANGED <<torneo, regular, dias, completa, obra, peticion>>

---------------------------------------------------------------------------
(* The matches of the bracket                                              *)

CerrarActa(i, dif) ==
    /\ ~partidos[i].jugado
    /\ fechas[FechaDe(partidos[i].llave, partidos[i].vuelta)]
    /\ partidos' = [partidos EXCEPT ![i].jugado = TRUE, ![i].dif = dif]
    /\ UNCHANGED <<torneo, regular, dias, completa, llaves, fechas, obra, peticion, eventos>>

ReabrirActa(i) ==
    /\ Gasta
    /\ partidos[i].jugado
    /\ partidos' = [partidos EXCEPT ![i].jugado = FALSE]
    /\ UNCHANGED <<torneo, regular, dias, completa, llaves, fechas, obra, peticion>>

\* A matchday is suspended, or back under the same number.
CambiaFecha(s) ==
    /\ Gasta
    /\ fechas' = [fechas EXCEPT ![s] = ~@]
    /\ UNCHANGED <<torneo, regular, dias, completa, llaves, partidos, obra, peticion>>

---------------------------------------------------------------------------
(* sincronizar and definirGanador                                          *)

LeerLlaves(q) ==
    /\ peticion[q] = Libre
    /\ llaves # <<>>
    /\ IF \A r \in Peticiones : peticion[r] = Libre THEN UNCHANGED eventos ELSE Gasta
    /\ peticion' = [peticion EXCEPT ![q] =
           [paso |-> "leer", llaves |-> llaves, cambiadas |-> {}]]
    /\ UNCHANGED <<torneo, regular, dias, completa, llaves, fechas, partidos, obra>>

\* definirGanador saves the winner it is given and goes on like sincronizar; nobody
\* else sees that winner until it ends.
DefinirGanador(q, k, equipo) ==
    /\ Gasta
    /\ peticion[q] = Libre
    /\ equipo # Nadie
    /\ equipo \in {llaves[k].local, llaves[k].visita}
    /\ peticion' = [peticion EXCEPT ![q] =
           [paso |-> "leer", llaves |-> [llaves EXCEPT ![k].ganador = equipo],
            cambiadas |-> {k}]]
    /\ UNCHANGED <<torneo, regular, dias, completa, llaves, fechas, partidos, obra>>

\* The keys that were read are still those of the table.
Mismas(ll) == \A k \in DOMAIN ll : k \in DOMAIN llaves /\ llaves[k].alta = ll[k].alta

\* Of the tournament: those of the regular phase count too.
HayFechas == fechas # <<>> \/ regular # {}

LeerPartidos(q) ==
    /\ peticion[q].paso = "leer"
    /\ IF ~HayFechas
       THEN peticion' = [peticion EXCEPT ![q] = Libre]
       ELSE LET antes == peticion[q].llaves
                ps == IF Mismas(antes) THEN partidos ELSE <<>>
            IN \E f \in Lecturas(antes, ps) :
                 LET ahora == Resueltas(antes, ps, f)
                     escribe == peticion[q].cambiadas
                                \cup {k \in DOMAIN ahora : ahora[k] # antes[k]}
                 IN peticion' = [peticion EXCEPT ![q] =
                        [paso |-> "escribir", obra |-> obra,
                         ajenas |-> ~Mismas(antes),
                         llaves |-> [k \in escribe |-> ahora[k]],
                         nuevos |-> Faltantes(ahora, ps, fechas)]]
    /\ UNCHANGED <<torneo, regular, dias, completa, llaves, fechas, partidos, obra, eventos>>

\* Whole rows are saved.  A row that was deleted meanwhile is inserted again, unless
\* another has its place; a match needs that its key and its matchday are still there.
Escribir(q) ==
    LET w == peticion[q]
        cabe == \A k \in DOMAIN w.llaves \cap DOMAIN llaves : w.llaves[k].alta = llaves[k].alta
        cuelga == w.nuevos # <<>> => ~w.ajenas /\ w.obra = obra /\ fechas # <<>>
    IN /\ w.paso = "escribir"
       /\ IF cabe /\ cuelga
          THEN /\ llaves' = w.llaves @@ llaves
               /\ partidos' = partidos \o w.nuevos
          ELSE UNCHANGED <<llaves, partidos>>
       /\ peticion' = [peticion EXCEPT ![q] = Libre]
       /\ UNCHANGED <<torneo, regular, dias, completa, fechas, obra, eventos>>

Next ==
    \/ Generar \/ Reset \/ JugarFaseRegular \/ Sortear \/ Limpiar
    \/ \E i \in DOMAIN partidos : ReabrirActa(i) \/ \E dif \in torneo.diferencias : CerrarActa(i, dif)
    \/ \E s \in DOMAIN fechas : CambiaFecha(s)
    \/ \E q \in Peticiones :
           \/ LeerLlaves(q) \/ LeerPartidos(q) \/ Escribir(q)
           \/ \E k \in DOMAIN llaves : \E equipo \in {llaves[k].local, llaves[k].visita} :
                  DefinirGanador(q, k, equipo)

Spec == Init /\ [][Next]_vars

---------------------------------------------------------------------------
(* Properties                                                              *)

\* Whatever the swaps did, every two teams of a group meet once per rueda and nobody
\* plays twice on a matchday (generarFixtureBerger, aplicarConstraintsFixture).
TodosContraTodos ==
    regular # {} =>
        /\ \A g \in DOMAIN Grupos : \A a, b \in Range(Grupos[g]) : a # b =>
               Cardinality({p \in regular : {p.local, p.visita} = {a, b}}) = torneo.ruedas
        /\ \A p, r \in regular : p # r /\ p.fecha = r.fecha =>
               {p.local, p.visita} \cap {r.local, r.visita} = {}

\* The seeds that can still win a key of round r, by the first round of the bracket
Bajo(k) == UNION {{llaves[j].local, llaves[j].visita} \ {Nadie} :
                     j \in {x \in Cruces(llaves) : x[1] = 1 /\ x[2] \div 2^(k[1] - 1) = k[2]}}

\* No key of the first round is missing: a synchronisation that ends after limpiar may
\* bring some keys back without the others.
PrimeraEntera ==
    Cardinality({k \in Cruces(llaves) : k[1] = 1}) = Potencia(Cupo) \div 2

\* The best 2^m seeds are in keys apart until only 2^m keys are left, and who rests in
\* the first round is better seeded than who plays it (ordenSiembra: "los punteros
\* separados en mitades opuestas").
SiembraJusta ==
    PrimeraEntera =>
        LET primera == {k \in Cruces(llaves) : k[1] = 1}
            descansan == {k \in primera : ~Definida(llaves[k])}
        IN /\ \A k \in Cruces(llaves) :
                  Cardinality(Bajo(k) \cap 1..(Potencia(Cupo) \div 2^k[1])) = 1
           /\ \A k \in descansan, j \in primera \ descansan :
                  llaves[k].local < Min({llaves[j].local, llaves[j].visita})

\* Whoever is in a key came up from its own part of the bracket, whatever is reopened,
\* decided by hand or synchronised at once: no team is in two keys of a round.
CadaUnoPorSuCamino ==
    PrimeraEntera =>
        \A k \in Cruces(llaves) : k[1] > 1 =>
            /\ llaves[k].local \in Bajo(<<k[1] - 1, 2 * k[2]>>) \cup {Nadie}
            /\ llaves[k].visita \in Bajo(<<k[1] - 1, 2 * k[2] + 1>>) \cup {Nadie}

\* A key has one match, or one at home of each (sincronizar creates those of the keys
\* "que ya tienen ambos equipos y aun no tienen partido").
UnPartidoPorCruce ==
    \A i, j \in DOMAIN partidos :
        partidos[i].llave = partidos[j].llave /\ partidos[i].vuelta = partidos[j].vuelta => i = j

\* The winner of a key is one of its two teams (definirGanador: "El ganador debe ser uno
\* de los dos equipos del cruce").
GanadorEsDelCruce ==
    \A k \in DOMAIN llaves :
        llaves[k].ganador \in {llaves[k].local, llaves[k].visita, Nadie}

\* No two matchdays fall on the same day (generar: "dos jornadas NUNCA caigan el mismo
\* dia").
JornadasSeparadas == \A f, g \in DOMAIN dias : f < g => dias[f] < dias[g]

\* Synchronising twice is synchronising once, in every state of the bracket that has not
\* been given two matches for one leg of a key (sincronizar: "Idempotente: se puede llamar
\* tantas veces como se quiera").  Two synchronisations at once may give it two: then each
\* query may settle the key by another of them.
SincronizarIdempotente ==
    llaves # <<>> /\ HayFechas /\ UnPartidoPorCruce =>
        \A f \in Lecturas(llaves, partidos) :
            LET ll == Resueltas(llaves, partidos, f)
            IN /\ Resueltas(ll, partidos, f) = ll
               /\ Faltantes(ll, partidos \o Faltantes(ll, partidos, fechas), fechas) = <<>>
=============================================================================
