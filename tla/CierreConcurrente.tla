------------------------- MODULE CierreConcurrente -------------------------
(***************************************************************************)
(* The handlers that resolve matches, opened up: each HTTP request is one  *)
(* READ COMMITTED transaction of PostgreSQL (TenantContextInterceptor) and *)
(* the statements of several requests interleave.  A request sees committed*)
(* rows and its own; it blocks on row locks; it may fail at any statement. *)
(* repo.save(entity) of TypeORM is two statements: a SELECT that compares  *)
(* the entity in memory with the row, and an UPDATE of the columns that    *)
(* differ, so a column read long ago overwrites a newer one.               *)
(* What a closed matchday discounts is Torneo.tla's matter.                *)
(***************************************************************************)
EXTENDS Dominio, FiniteSetsExt, SequencesExt

CONSTANTS
    Transacciones,       \* requests in flight
    Partidos, Fechas,    \* row ids, in the order of the primary keys
    NumeroDe,            \* matchday -> number within the tournament
    Escenarios           \* what the requests may ask for, and of which matches

Filas == Partidos \cup Fechas

ASSUME FilasAssumption ==
    /\ Filas \subseteq Nat /\ IsFiniteSet(Partidos)
    /\ Partidos \cap Fechas = {}
    /\ NumeroDe \in [Fechas -> Nat \ {0}]

\* A scenario: request -> what it may ask for, match -> the states and the matchdays it
\* may start in.  fila: the match, or for SUSPENDER_FECHA the matchday; destino: MOVER's
\* matchday; goles: the score a CERRAR brings.  All the goals are of one of the two teams.
ASSUME EscenariosAssumption ==
    \A e \in Escenarios :
        /\ \A t \in Transacciones : \A s \in e.pedidos[t] :
               /\ s.tipo \in {"CERRAR", "SUSPENDER", "REABRIR", "GOL", "ROJA", "MOVER",
                             "SUSPENDER_FECHA"}
               /\ s.fila \in IF s.tipo = "SUSPENDER_FECHA" THEN Fechas ELSE Partidos
               /\ s.destino \in Fechas /\ s.goles \in Nat
        /\ \A p \in Partidos : e.estados[p] \subseteq EstadosPartido /\ e.fechas[p] \subseteq Fechas

VARIABLES
    base,                \* row id -> its committed version
    actual,              \* row id -> its latest version, committed or not
    incidencias,         \* goals and red cards, each with the request that inserted it
    candados,            \* row locks held: [t, fila, modo]
    tx                   \* request -> what it asks for and how far it got

vars == <<base, actual, incidencias, candados, tx>>

FilaPartido == [estado : EstadosPartido, acta : BOOLEAN, fecha : Fechas, goles : Nat]
FilaFecha == [estado : {"PROGRAMADA", "EN_CURSO", "FINALIZADA", "SUSPENDIDA"}]

Pasos == {"inicio", "insertar", "contar", "comparar", "escribir", "clave", "reservar",
          "marcar", "arrastrar", "cascada", "confirmada", "anulada"}

Terminada(t) == tx[t].paso \in {"confirmada", "anulada"}

---------------------------------------------------------------------------
(* Row locks and visibility                                                *)

\* FOR UPDATE conflicts with every mode, UPDATE (no key) with itself; the check
\* of a foreign key (FOR KEY SHARE) only with FOR UPDATE.
Choca(m, n) == "FOR_UPDATE" \in {m, n} \/ (m = "UPDATE" /\ n = "UPDATE")

Libre(t, fila, modo) ==
    \A c \in candados : c.t # t /\ c.fila = fila => ~Choca(c.modo, modo)

Candado(t, fila, modo) == [t |-> t, fila |-> fila, modo |-> modo]

Toma(t, fila, modo) ==
    /\ Libre(t, fila, modo)
    /\ candados' = candados \cup {Candado(t, fila, modo)}

Propia(t, fila) ==
    \E c \in candados : c.t = t /\ c.fila = fila /\ c.modo \in {"FOR_UPDATE", "UPDATE"}

\* READ COMMITTED: what a statement of t sees in a row
Vista(t, fila) == IF Propia(t, fila) THEN actual[fila] ELSE base[fila]

PartidosEn(t, f) == {p \in Partidos : Vista(t, p).fecha = f}
EstadosEn(t, f) == {Vista(t, p).estado : p \in PartidosEn(t, f)}

GolesDe(t, p) ==
    Cardinality({i \in incidencias :
        /\ i.partido = p
        /\ i.tipo = "GOL"
        /\ i.t = t \/ tx[i.t].paso = "confirmada"})

\* t goes on at another statement, or ends without leaving a trace
Sigue(t, paso) == tx' = [tx EXCEPT ![t].paso = paso]
Rechaza(t) ==
    /\ Sigue(t, "anulada")
    /\ UNCHANGED <<base, actual, incidencias, candados>>

Trabajo(op, fila) == [op |-> op, fila |-> fila]

---------------------------------------------------------------------------
Init ==
    \E e \in Escenarios :
        /\ tx \in [Transacciones ->
                      [pedido : UNION {e.pedidos[t] : t \in Transacciones}, paso : {"inicio"},
                       copia : {<<>>}, cambios : {{}}, trabajos : {<<>>}]]
        /\ \A t \in Transacciones : tx[t].pedido \in e.pedidos[t]
        /\ \E estado \in [Partidos -> EstadosPartido], fecha \in [Partidos -> Fechas] :
            /\ \A p \in Partidos : estado[p] \in e.estados[p] /\ fecha[p] \in e.fechas[p]
            /\ base = [x \in Filas |->
                          IF x \in Partidos
                          THEN [estado |-> estado[x], acta |-> estado[x] = "FINALIZADO",
                                fecha |-> fecha[x], goles |-> 0]
                          ELSE [estado |->
                                   IF FechaCompleta({estado[p] : p \in {q \in Partidos : fecha[q] = x}})
                                   THEN "FINALIZADA" ELSE "PROGRAMADA"]]
        /\ actual = base
        /\ incidencias = {}
        /\ candados = {}

---------------------------------------------------------------------------
(* Single matches                                                          *)

\* cerrarActa: the only handler that reads the match FOR UPDATE.  Until it ends
\* nobody can insert incidents in the match, so reading and saving are one step.
\* It stores the score it is given; only if some goal is loaded must it be their number.
CerrarActaCon(modo, t) ==
    LET s == tx[t].pedido
        p == s.fila
        r == actual[p]
        cargados == GolesDe(t, p)
    IN /\ tx[t].paso = "inicio" /\ s.tipo = "CERRAR"
       /\ Libre(t, p, modo)
       /\ IF \/ r.acta \/ r.estado \in EstadosNoOperables
             \/ cargados # 0 /\ s.goles # cargados
          THEN Rechaza(t)
          ELSE /\ Toma(t, p, modo)
               /\ actual' = [actual EXCEPT ![p] = [r EXCEPT !.estado = "FINALIZADO",
                                                            !.acta = TRUE,
                                                            !.goles = s.goles]]
               /\ tx' = [tx EXCEPT ![t].paso = "cascada",
                                   ![t].trabajos = <<Trabajo("evaluar", r.fecha)>>]
               /\ UNCHANGED <<base, incidencias>>

\* Mutant: cerrarActa with FOR NO KEY UPDATE, which an incident being inserted does
\* not hold up
MutCerrarSinEsperar(t) == CerrarActaCon("UPDATE", t)

CerrarActa(t) == CerrarActaCon("FOR_UPDATE", t)

\* What each handler asks of the row it read without a lock, what it makes of its
\* copy, and what it will do with the matchdays once the copy is saved.
Admite(s, r) ==
    CASE s.tipo = "SUSPENDER" -> ~r.acta /\ r.estado \notin {"SUSPENDIDO_FUERZA_MAYOR", "WALKOVER"}
      [] s.tipo = "REABRIR" -> r.acta /\ r.estado # "WALKOVER"
      [] s.tipo = "MOVER" -> ~r.acta /\ r.fecha # s.destino
      [] OTHER -> ~r.acta /\ r.estado \notin EstadosNoOperables

Cambiada(s, r) ==
    CASE s.tipo = "SUSPENDER" -> [r EXCEPT !.estado = "SUSPENDIDO_FUERZA_MAYOR"]
      [] s.tipo = "REABRIR" -> [r EXCEPT !.estado = "EN_CURSO", !.acta = FALSE]
      [] s.tipo = "MOVER" ->
             [r EXCEPT !.fecha = s.destino,
                       !.estado = IF @ = "SUSPENDIDO_FUERZA_MAYOR"
                                     /\ base[s.destino].estado # "SUSPENDIDA"
                                  THEN "PROGRAMADO" ELSE @]
      [] OTHER -> r

\* MOVER takes both matchdays in the order of their ids.
TrabajosDeMover(origen, destino, estado) ==
    LET evaluar == <<Trabajo("evaluar", origen)>>
        revertir == IF estado \in EstadosResueltos THEN <<>>
                    ELSE <<Trabajo("revertir", destino)>>
    IN IF origen < destino THEN evaluar \o revertir ELSE revertir \o evaluar

Trabajos(s, r) ==
    CASE s.tipo = "SUSPENDER" -> <<Trabajo("evaluar", r.fecha)>>
      [] s.tipo = "REABRIR" -> <<Trabajo("revertir", r.fecha)>>
      [] s.tipo = "MOVER" -> TrabajosDeMover(r.fecha, s.destino, Cambiada(s, r).estado)
      [] OTHER -> <<>>

\* findPartido: reads the match without a lock and decides on what it read.
LeerPartido(t) ==
    LET s == tx[t].pedido
        r == base[s.fila]
    IN /\ tx[t].paso = "inicio" /\ s.tipo \notin {"CERRAR", "SUSPENDER_FECHA"}
       /\ IF ~Admite(s, r)
          THEN Rechaza(t)
          ELSE /\ tx' = [tx EXCEPT ![t].paso = IF s.tipo \in {"GOL", "ROJA"}
                                               THEN "insertar" ELSE "comparar",
                                   ![t].copia = Cambiada(s, r),
                                   ![t].trabajos = Trabajos(s, r)]
               /\ UNCHANGED <<base, actual, incidencias, candados>>

\* The INSERT of an incident checks its foreign key to the match.
InsertarIncidencia(t) ==
    LET s == tx[t].pedido
    IN /\ tx[t].paso = "insertar"
       /\ Toma(t, s.fila, "FOR_KEY_SHARE")
       /\ incidencias' = incidencias \cup {[t |-> t, partido |-> s.fila, tipo |-> s.tipo]}
       /\ Sigue(t, IF s.tipo = "GOL" THEN "contar" ELSE "cascada")
       /\ UNCHANGED <<base, actual>>

\* recomputarMarcador counts the goals it sees and puts them in its copy.
ContarGoles(t) ==
    /\ tx[t].paso = "contar"
    /\ tx' = [tx EXCEPT ![t].paso = "comparar",
                        ![t].copia.goles = GolesDe(t, tx[t].pedido.fila)]
    /\ UNCHANGED <<base, actual, incidencias, candados>>

\* save, first statement: the columns where the copy and the row differ.
CompararCopia(t) ==
    LET r == Vista(t, tx[t].pedido.fila)
    IN /\ tx[t].paso = "comparar"
       /\ tx' = [tx EXCEPT ![t].paso = "escribir",
                           ![t].cambios = {c \in DOMAIN r : tx[t].copia[c] # r[c]}]
       /\ UNCHANGED <<base, actual, incidencias, candados>>

\* save, second statement: UPDATE of those columns, if there are any.
EscribirCopia(t) ==
    LET p == tx[t].pedido.fila
        cambios == tx[t].cambios
    IN /\ tx[t].paso = "escribir"
       /\ IF cambios = {} THEN UNCHANGED <<actual, candados>>
          ELSE /\ Toma(t, p, "UPDATE")
               /\ actual' = [actual EXCEPT ![p] = [c \in DOMAIN @ |->
                                IF c \in cambios THEN tx[t].copia[c] ELSE @[c]]]
       /\ Sigue(t, IF "fecha" \in cambios THEN "clave" ELSE "cascada")
       /\ UNCHANGED <<base, incidencias>>

\* An UPDATE of partidos.fecha_id checks its foreign key to the matchday.
ClaveFecha(t) ==
    /\ tx[t].paso = "clave"
    /\ Toma(t, tx[t].copia.fecha, "FOR_KEY_SHARE")
    /\ Sigue(t, "cascada")
    /\ UNCHANGED <<base, actual, incidencias>>

---------------------------------------------------------------------------
(* Matchdays                                                               *)

TieneBis(t, f) == \E g \in Fechas \ {f} : NumeroDe[g] = NumeroDe[f]

PosteriorCerrada(t, f) ==
    \E g \in Fechas : NumeroDe[g] > NumeroDe[f] /\ Vista(t, g).estado = "FINALIZADA"

HaceTrabajo(t, op) ==
    /\ tx[t].paso = "cascada"
    /\ tx[t].trabajos # <<>>
    /\ Head(tx[t].trabajos).op = op
    /\ tx' = [tx EXCEPT ![t].trabajos = Tail(@)]
    /\ UNCHANGED <<base, incidencias>>

\* Mutant: evaluarCierreDeFecha that reads the matches first and locks the matchday only
\* for its UPDATE
MutEvaluarSinCandado(t) ==
    /\ HaceTrabajo(t, "evaluar")
    /\ LET f == Head(tx[t].trabajos).fila
       IN IF base[f].estado \notin {"FINALIZADA", "SUSPENDIDA"} /\ FechaCompleta(EstadosEn(t, f))
          THEN /\ Toma(t, f, "UPDATE")
               /\ actual' = [actual EXCEPT ![f].estado = "FINALIZADA"]
          ELSE UNCHANGED <<actual, candados>>

\* evaluarCierreDeFecha: locks the matchday, then reads its matches.
EvaluarCierre(t) ==
    /\ HaceTrabajo(t, "evaluar")
    /\ LET f == Head(tx[t].trabajos).fila
       IN /\ Toma(t, f, "FOR_UPDATE")
          /\ actual' = [actual EXCEPT ![f].estado =
                 IF /\ @ # "FINALIZADA"
                    /\ ~(@ = "SUSPENDIDA" /\ TieneBis(t, f))
                    /\ FechaCompleta(EstadosEn(t, f))
                 THEN "FINALIZADA" ELSE @]

\* Mutant: revertirCierreDeFecha that trusts an unlocked read of the matchday
MutRevertirSinCandado(t) ==
    /\ HaceTrabajo(t, "revertir")
    /\ LET f == Head(tx[t].trabajos).fila
       IN IF Vista(t, f).estado = "FINALIZADA" /\ ~PosteriorCerrada(t, f)
          THEN /\ Toma(t, f, "FOR_UPDATE")
               /\ actual' = [actual EXCEPT ![f].estado = "EN_CURSO"]
          ELSE UNCHANGED <<actual, candados>>

\* revertirCierreDeFecha
RevertirCierre(t) ==
    /\ HaceTrabajo(t, "revertir")
    /\ LET f == Head(tx[t].trabajos).fila
       IN /\ Toma(t, f, "FOR_UPDATE")
          /\ actual' = [actual EXCEPT ![f].estado =
                 IF @ = "FINALIZADA" /\ ~PosteriorCerrada(t, f) THEN "EN_CURSO" ELSE @]

EnOrden(S) == {s \in [1..Cardinality(S) -> S] : \A i, j \in DOMAIN s : i < j => s[i] < s[j]}

\* Mutant: suspenderFecha that locks the matchday before its matches
MutLeerFechaConCandado(t) ==
    LET f == tx[t].pedido.fila
        suyos == {p \in Partidos : base[p].fecha = f}
    IN /\ tx[t].paso = "inicio" /\ tx[t].pedido.tipo = "SUSPENDER_FECHA"
       /\ actual[f].estado \notin {"FINALIZADA", "SUSPENDIDA"}
       /\ Toma(t, f, "FOR_UPDATE")
       /\ \E s \in EnOrden(suyos) :
              tx' = [tx EXCEPT ![t].paso = "reservar",
                               ![t].trabajos = [i \in DOMAIN s |-> Trabajo("reservar", s[i])]]
       /\ UNCHANGED <<base, actual, incidencias>>

\* suspenderFecha (MANUAL) first decides on an unlocked read of the matchday and
\* of its matches, and then locks the matches in the order of their ids ...
LeerFecha(t) ==
    LET f == tx[t].pedido.fila
        suyos == {p \in Partidos : base[p].fecha = f}
    IN /\ tx[t].paso = "inicio" /\ tx[t].pedido.tipo = "SUSPENDER_FECHA"
       /\ IF \/ base[f].estado \in {"FINALIZADA", "SUSPENDIDA"}
             \/ \E p \in suyos : base[p].estado = "EN_CURSO"
          THEN Rechaza(t)
          ELSE /\ \E s \in EnOrden(suyos) :
                      tx' = [tx EXCEPT ![t].paso = "reservar",
                                       ![t].trabajos = [i \in DOMAIN s |-> Trabajo("reservar", s[i])]]
               /\ UNCHANGED <<base, actual, incidencias, candados>>

ReservarPartido(t) ==
    /\ tx[t].paso = "reservar"
    /\ tx[t].trabajos # <<>>
    /\ Toma(t, Head(tx[t].trabajos).fila, "FOR_UPDATE")
    /\ tx' = [tx EXCEPT ![t].trabajos = Tail(@)]
    /\ UNCHANGED <<base, actual, incidencias>>

\* ... then saves its copy of the matchday, SUSPENDIDA now, over whatever is there ...
MarcarFecha(t) ==
    LET f == tx[t].pedido.fila
    IN /\ tx[t].paso = "reservar"
       /\ tx[t].trabajos = <<>>
       /\ Toma(t, f, "UPDATE")
       /\ actual' = [actual EXCEPT ![f].estado = "SUSPENDIDA"]
       /\ Sigue(t, "arrastrar")
       /\ UNCHANGED <<base, incidencias>>

\* Mutant: suspenderFecha that suspends the matches it saw when it started
MutArrastrarLoLeido(t) ==
    /\ tx[t].paso = "arrastrar"
    /\ Sigue(t, "cascada")
    /\ UNCHANGED <<base, actual, incidencias, candados>>

\* ... and suspends in one UPDATE the matches that are still pending.
ArrastrarPartidos(t) ==
    LET pendientes == {p \in PartidosEn(t, tx[t].pedido.fila) :
                          /\ ~Vista(t, p).acta
                          /\ Vista(t, p).estado \notin EstadosResueltos}
    IN /\ tx[t].paso = "arrastrar"
       /\ \A p \in pendientes : Libre(t, p, "UPDATE")
       /\ candados' = candados \cup {Candado(t, p, "UPDATE") : p \in pendientes}
       /\ actual' = [x \in Filas |-> IF x \in pendientes
                                     THEN [actual[x] EXCEPT !.estado = "SUSPENDIDO_FUERZA_MAYOR"]
                                     ELSE actual[x]]
       /\ Sigue(t, "cascada")
       /\ UNCHANGED <<base, incidencias>>

---------------------------------------------------------------------------
(* The end of a request: COMMIT, or ROLLBACK after any error                *)

Suelta(t) == candados' = {c \in candados : c.t # t}

Confirmar(t) ==
    /\ tx[t].paso = "cascada"
    /\ tx[t].trabajos = <<>>
    /\ base' = [x \in Filas |-> IF Propia(t, x) THEN actual[x] ELSE base[x]]
    /\ Suelta(t)
    /\ Sigue(t, "confirmada")
    /\ UNCHANGED <<actual, incidencias>>

Abortar(t) ==
    /\ ~Terminada(t)
    /\ actual' = [x \in Filas |-> IF Propia(t, x) THEN base[x] ELSE actual[x]]
    /\ incidencias' = {i \in incidencias : i.t # t}
    /\ Suelta(t)
    /\ Sigue(t, "anulada")
    /\ UNCHANGED base

Avanza(t) ==
    \/ CerrarActa(t) \/ LeerPartido(t)
    \/ InsertarIncidencia(t) \/ ContarGoles(t)
    \/ CompararCopia(t) \/ EscribirCopia(t) \/ ClaveFecha(t)
    \/ EvaluarCierre(t) \/ RevertirCierre(t)
    \/ LeerFecha(t) \/ ReservarPartido(t) \/ MarcarFecha(t) \/ ArrastrarPartidos(t)
    \/ Confirmar(t)

Reposo == (\A t \in Transacciones : Terminada(t)) /\ UNCHANGED vars

Next == (\E t \in Transacciones : Avanza(t) \/ Abortar(t)) \/ Reposo

\* The pool serves every request: a statement whose locks are free is executed.
\* Nothing obliges a request to fail.
Spec == Init /\ [][Next]_vars /\ \A t \in Transacciones : WF_vars(Avanza(t))

---------------------------------------------------------------------------
(* Properties                                                              *)

\* Rows keep their types, committed or not; locks are held by live requests only.
TypeOK ==
    /\ \A v \in {base, actual} :
           /\ DOMAIN v = Filas
           /\ \A p \in Partidos : v[p] \in FilaPartido
           /\ \A f \in Fechas : v[f] \in FilaFecha
    /\ \A t \in Transacciones : tx[t].paso \in Pasos
    /\ \A c \in candados : c.fila \in Filas /\ ~Terminada(c.t)
    /\ \A i \in incidencias : i.partido \in Partidos /\ tx[i.t].paso # "anulada"

EstadosGuardados(f) == {base[p].estado : p \in {q \in Partidos : base[q].fecha = f}}

\* No committed state has a complete matchday that is still open: of two requests
\* that resolve its last two matches at once, one sees the other
\* (evaluarCierreDeFecha, "write skew A-4").
FechaCompletaSeCierra ==
    \A f \in Fechas :
        base[f].estado \in {"PROGRAMADA", "EN_CURSO"} => ~FechaCompleta(EstadosGuardados(f))

\* No committed state has a FINALIZADA matchday with a pending match, unless a later
\* one is FINALIZADA too (revertirCierreDeFecha leaves those "fuera de cuenta").
FinalizadaSinPendientes ==
    \A f \in Fechas :
        \/ base[f].estado # "FINALIZADA"
        \/ EstadosGuardados(f) \subseteq EstadosResueltos
        \/ \E g \in Fechas : NumeroDe[g] > NumeroDe[f] /\ base[g].estado = "FINALIZADA"

\* A suspended matchday keeps no match waiting to be played, whatever is closed or
\* suspended while suspenderFecha runs.
SuspendidaSinAbiertos ==
    \A f \in Fechas :
        base[f].estado = "SUSPENDIDA" => EstadosGuardados(f) \subseteq EstadosResueltos

Confirma(t) == tx[t].paso # "confirmada" /\ tx'[t].paso = "confirmada"

\* An acta is closed once: the second of two simultaneous closings waits for the
\* first one and is refused (cerrarActa).
UnSoloCierre ==
    [][\A t \in Transacciones :
          Confirma(t) /\ tx[t].pedido.tipo = "CERRAR" => ~base[tx[t].pedido.fila].acta]_vars

Firmes(p) == {i \in incidencias : /\ i.partido = p /\ i.tipo = "GOL"
                                  /\ tx[i.t].paso = "confirmada"}

\* No committed score counts goals that do not exist or forgets all of them, and a closed
\* acta has the exact number: goals entered at once may leave a score behind while the
\* acta is open (recomputarMarcador), and cerrarActa, which locks the match and compares
\* ("no coincide con las incidencias cargadas"), lets none through.
MarcadorDelActa ==
    \A p \in Partidos : Firmes(p) # {} =>
        LET n == Cardinality(Firmes(p))
        IN base[p].goles \in 1..n /\ (base[p].acta => base[p].goles = n)

\* The score is always the number of goals ("las incidencias son la fuente única de
\* verdad del marcador", recomputarMarcador).
MarcadorDerivado == \A p \in Partidos : base[p].goles = Cardinality(Firmes(p))

\* A closed acta only opens when somebody asks to reopen it (reabrirActa).
ActaSoloSeReabre ==
    [][\A p \in Partidos : base[p].acta /\ ~base'[p].acta =>
          \E t \in Transacciones : Confirma(t) /\ tx[t].pedido.tipo = "REABRIR"]_vars

\* A FINALIZADA matchday is not suspended (suspenderFecha refuses it): its ledger
\* would be left on a matchday that is no longer closed.
FechaFinalizadaNoSeSuspende ==
    [][\A f \in Fechas : base[f].estado = "FINALIZADA" => base'[f].estado # "SUSPENDIDA"]_vars

\* Requests never wait for each other in a circle (orden canónico partido -> fecha,
\* matchdays and matches in the order of their ids).
SinInterbloqueo ==
    (\E t \in Transacciones : ~Terminada(t)) => \E t \in Transacciones : ENABLED Avanza(t)

\* Every request ends.
TodasTerminan == \A t \in Transacciones : <>Terminada(t)
=============================================================================
