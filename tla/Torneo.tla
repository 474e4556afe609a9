------------------------------- MODULE Torneo -------------------------------
(***************************************************************************)
(* The competition core of one ACTIVE tournament: matches (partidos), the  *)
(* matchdays they belong to (fechas), cards, player suspensions and the    *)
(* ledger that says which matchday discounted which suspension.  Every     *)
(* HTTP request runs in one database transaction, so here each handler is  *)
(* one atomic action; CierreConcurrente.tla opens the transactions.        *)
(***************************************************************************)
EXTENDS Dominio, FiniteSetsExt

CONSTANTS
    Partidos,            \* match rows: the fixture's and spare ones for clones
    Fechas,              \* matchday rows: the fixture's and spare ones for the "bis"
    Equipos,             \* inscriptions of the tournament
    Jugadores,
    Resoluciones,        \* identities of tribunal resolutions (bounds how many)
    Nada,                \* "no value": an unused row's reference, an empty batch
    NumeroDe,            \* fixture matchday -> its number
    FechaDe,             \* fixture match -> its matchday
    EquiposDe,           \* fixture match -> its two inscriptions
    ClubDe,              \* inscription -> club
    ClubDelJugador,      \* player -> club
    RutDe,               \* player -> RUT (two player rows may share one)
    Planilla,            \* inscription -> players on its squad list
    Umbral,              \* yellow cards per suspension
    \* ---- what the environment may ask for ----
    TiposTarjeta,        \* card types shown
    Minutos,             \* minutes at which cards are shown
    Listas,              \* lists of present players that get certified
    Destinos,            \* matchdays to which single matches are moved
    Cantidades,          \* numbers of matchdays the tribunal imposes or adjusts to
    Desdes,              \* explicit first matchdays the tribunal may write
    Estrategias,         \* strategies offered when a matchday is suspended
    Suspendibles,        \* teams the league suspends
    Vetos                \* values of the vetoPermanente flag

ASSUME ParametrosAssumption ==
    /\ Umbral \in Nat \ {0}
    /\ TiposTarjeta \subseteq {"AMARILLA", "ROJA", "AMARILLA_ROJA"}
    /\ Listas \subseteq SUBSET Jugadores
    /\ Destinos \subseteq Fechas
    /\ Cantidades \subseteq Nat
    /\ Desdes \subseteq Nat
    /\ IsFiniteSet(Fechas)
    /\ DOMAIN NumeroDe \subseteq Fechas
    /\ \A f \in DOMAIN NumeroDe : NumeroDe[f] \in Nat \ {0}
    /\ \A f, g \in DOMAIN NumeroDe : NumeroDe[f] = NumeroDe[g] => f = g
    /\ DOMAIN FechaDe \subseteq Partidos
    /\ DOMAIN EquiposDe = DOMAIN FechaDe
    /\ \A p \in DOMAIN FechaDe : FechaDe[p] \in DOMAIN NumeroDe /\ EquiposDe[p] \subseteq Equipos
    /\ DOMAIN ClubDe = Equipos
    /\ DOMAIN Planilla = Equipos
    /\ \A e \in Equipos : Planilla[e] \subseteq Jugadores
    /\ DOMAIN ClubDelJugador = Jugadores
    /\ DOMAIN RutDe = Jugadores
    /\ Suspendibles \subseteq Equipos
    /\ Vetos \subseteq BOOLEAN
    /\ Nada \notin Partidos \cup Fechas \cup Equipos

VARIABLES
    partido,      \* [Partidos -> row of table partidos]
    fecha,        \* [Fechas -> row of table fechas]
    tarjetas,     \* card rows of table incidencias_partido
    sancion,      \* [SancionId -> row of table sanciones_activas]
    libro,        \* rows <<sancion, fecha>> of table sancion_cumplimientos
    inscripcion,  \* [Equipos -> state of the inscription]
    vetados,      \* RUTs on the tenant's blacklist (and their players INACTIVO)
    lote          \* the bulk suspension of a team being executed

vars == <<partido, fecha, tarjetas, sancion, libro, inscripcion, vetados, lote>>

-----------------------------------------------------------------------------
(* Rows.                                                                   *)

MotivosAuto == {"ROJA_DIRECTA", "DOBLE_AMARILLA", "ACUMULACION_AMARILLAS"}

\* persistirPropuestas keeps one automatic suspension per player, motive and
\* match, so these three name the row; a tribunal one is named by its resolution.
IdAuto == Jugadores \X MotivosAuto \X Partidos
IdTribunal == Jugadores \X {"TRIBUNAL"} \X Resoluciones
SancionId == IdAuto \cup IdTribunal

Jugador(s) == s[1]
Motivo(s) == s[2]
Origen(s) == s[3]

RegistroPartido ==
    [estado : EstadosPartido \cup {"LIBRE"}, acta : BOOLEAN, fecha : Fechas \cup {Nada},
     equipos : SUBSET Equipos, certificado : BOOLEAN, presentes : SUBSET Jugadores]

EstadosFecha == {"PROGRAMADA", "EN_CURSO", "FINALIZADA", "SUSPENDIDA"}

RegistroFecha ==
    [estado : EstadosFecha \cup {"LIBRE"}, numero : Nat,
     tipo : {"ORIGINAL", "REPROGRAMADA"}, reemplaza : Fechas \cup {Nada}]

RegistroSancion ==
    [existe : BOOLEAN, pendientes : Nat, totales : Nat, desde : Nat,
     cumplida : BOOLEAN, revocada : BOOLEAN, ajustada : BOOLEAN]

RegistroTarjeta ==
    [partido : Partidos, jugador : Jugadores,
     tipo : {"AMARILLA", "ROJA", "AMARILLA_ROJA"}, minuto : Minutos]

PartidoNuevo(f, eqs) ==
    [estado |-> "PROGRAMADO", acta |-> FALSE, fecha |-> f, equipos |-> eqs,
     certificado |-> FALSE, presentes |-> {}]

PartidoLibre ==
    [estado |-> "LIBRE", acta |-> FALSE, fecha |-> Nada, equipos |-> {},
     certificado |-> FALSE, presentes |-> {}]

FechaNueva(n, tipo, reemplaza) ==
    [estado |-> "PROGRAMADA", numero |-> n, tipo |-> tipo, reemplaza |-> reemplaza]

FechaLibre == [estado |-> "LIBRE", numero |-> 0, tipo |-> "ORIGINAL", reemplaza |-> Nada]

SancionNueva(k, desde) ==
    [existe |-> TRUE, pendientes |-> k, totales |-> k, desde |-> desde,
     cumplida |-> FALSE, revocada |-> FALSE, ajustada |-> FALSE]

SinSancion ==
    [existe |-> FALSE, pendientes |-> 0, totales |-> 0, desde |-> 0,
     cumplida |-> FALSE, revocada |-> FALSE, ajustada |-> FALSE]

SinLote == [equipo |-> Nada, porEvaluar |-> {}]

TypeOK ==
    /\ partido \in [Partidos -> RegistroPartido]
    /\ fecha \in [Fechas -> RegistroFecha]
    /\ tarjetas \subseteq RegistroTarjeta
    /\ sancion \in [SancionId -> RegistroSancion]
    /\ libro \subseteq SancionId \X Fechas
    /\ inscripcion \in [Equipos -> {"INSCRITO", "SUSPENDIDO"}]
    /\ vetados \subseteq {RutDe[j] : j \in Jugadores}
    /\ lote \in [equipo : Equipos \cup {Nada}, porEvaluar : SUBSET Fechas]

Init ==
    /\ partido = [p \in Partidos |->
                    IF p \in DOMAIN FechaDe THEN PartidoNuevo(FechaDe[p], EquiposDe[p])
                    ELSE PartidoLibre]
    /\ fecha = [f \in Fechas |->
                    IF f \in DOMAIN NumeroDe THEN FechaNueva(NumeroDe[f], "ORIGINAL", Nada)
                    ELSE FechaLibre]
    /\ tarjetas = {}
    /\ sancion = [s \in SancionId |-> SinSancion]
    /\ libro = {}
    /\ inscripcion = [e \in Equipos |-> "INSCRITO"]
    /\ vetados = {}
    /\ lote = SinLote

PartidosVivos == {p \in Partidos : partido[p].estado # "LIBRE"}
FechasVivas == {f \in Fechas : fecha[f].estado # "LIBRE"}

-----------------------------------------------------------------------------
(* Closing a matchday and reopening it.  Both work on the discipline state *)
(* t (the tables fechas, sanciones_activas and sancion_cumplimientos) that *)
(* the caller's transaction has reached, and on the matches pa.            *)

Disciplina == [fecha |-> fecha, sancion |-> sancion, libro |-> libro]

Guardar(t) == fecha' = t.fecha /\ sancion' = t.sancion /\ libro' = t.libro

EstadosEn(pa, f) == {pa[p].estado : p \in {q \in Partidos : pa[q].fecha = f}}

TieneBis(fe, f) ==
    \E g \in Fechas \ {f} : fe[g].estado # "LIBRE" /\ fe[g].numero = fe[f].numero

PuedeFinalizar(pa, t, f) ==
    /\ t.fecha[f].estado # "FINALIZADA"
    /\ t.fecha[f].estado = "SUSPENDIDA" => ~TieneBis(t.fecha, f)
    /\ FechaCompleta(EstadosEn(pa, f))

\* Mutant: every club with a match in the matchday, played or not.
MutClubesProgramados(pa, f) ==
    {ClubDe[e] : e \in UNION {pa[p].equipos : p \in {q \in Partidos : pa[q].fecha = f}}}

\* Clubs with a match of matchday f that was really played.
ClubesQueJugaron(pa, f) ==
    {ClubDe[e] : e \in UNION {pa[p].equipos : p \in
        {q \in Partidos : pa[q].fecha = f /\ pa[q].estado \in EstadosCuentanTabla}}}

\* The suspensions that closing f discounts, less those it already did (ON CONFLICT).
Descontables(pa, t, f) ==
    {s \in SancionId :
        /\ t.sancion[s].existe
        /\ SancionVigente(t.sancion[s], t.fecha[f].numero)
        /\ ClubDelJugador[Jugador(s)] \in ClubesQueJugaron(pa, f)
        /\ <<s, f>> \notin t.libro}

Descontada(r) ==
    LET pend == IF r.pendientes > 0 THEN r.pendientes - 1 ELSE 0
    IN  [r EXCEPT !.pendientes = pend, !.cumplida = (pend = 0)]

Finalizar(pa, t, f) ==
    LET desc == Descontables(pa, t, f)
    IN  [fecha |-> [t.fecha EXCEPT ![f].estado = "FINALIZADA"],
         sancion |-> [s \in SancionId |->
                        IF s \in desc THEN Descontada(t.sancion[s])
                        ELSE IF t.sancion[s].existe /\ t.sancion[s].pendientes <= 0
                        THEN [t.sancion[s] EXCEPT !.cumplida = TRUE]
                        ELSE t.sancion[s]],
         libro |-> t.libro \cup (desc \X {f})]

Evaluar(pa, t, f) == IF PuedeFinalizar(pa, t, f) THEN Finalizar(pa, t, f) ELSE t

PosteriorCerrada(fe, f) ==
    \E g \in Fechas : fe[g].estado = "FINALIZADA" /\ fe[g].numero > fe[f].numero

\* Mutant: the reversal forgets the LEAST against fechas_totales.
MutDevueltaSinTope(r) ==
    IF r.revocada THEN r ELSE [r EXCEPT !.pendientes = @ + 1, !.cumplida = FALSE]

Devuelta(r) ==
    IF r.revocada THEN r
    ELSE LET pend == IF r.pendientes + 1 <= r.totales THEN r.pendientes + 1 ELSE r.totales
         IN  [r EXCEPT !.pendientes = pend,
                       !.cumplida = IF pend > 0 THEN FALSE ELSE @]

\* Mutant: the blind reversal the ledger replaced, +1 to every suspension in force
\* at that number.
MutReabrirCiego(t, f) ==
    [fecha |-> [t.fecha EXCEPT ![f].estado = "EN_CURSO"],
     sancion |-> [s \in SancionId |->
                    IF t.sancion[s].existe /\ t.sancion[s].desde <= t.fecha[f].numero
                    THEN Devuelta(t.sancion[s]) ELSE t.sancion[s]],
     libro |-> {r \in t.libro : r[2] # f}]

\* Mutant: the balance goes back but the rows of the ledger stay.
MutReabrirSinBorrar(t, f) ==
    [fecha |-> [t.fecha EXCEPT ![f].estado = "EN_CURSO"],
     sancion |-> [s \in SancionId |->
                    IF <<s, f>> \in t.libro THEN Devuelta(t.sancion[s]) ELSE t.sancion[s]],
     libro |-> t.libro]

Reabrir(t, f) ==
    [fecha |-> [t.fecha EXCEPT ![f].estado = "EN_CURSO"],
     sancion |-> [s \in SancionId |->
                    IF <<s, f>> \in t.libro THEN Devuelta(t.sancion[s]) ELSE t.sancion[s]],
     libro |-> {r \in t.libro : r[2] # f}]

Revertir(t, f) ==
    IF t.fecha[f].estado = "FINALIZADA" /\ ~PosteriorCerrada(t.fecha, f)
    THEN Reabrir(t, f) ELSE t

-----------------------------------------------------------------------------
(* Automatic suspensions of one match.                                     *)

TarjetasDe(p) == {c \in tarjetas : c.partido = p}

AmarillasPrevias(j, p) ==
    {<<c.partido, c.minuto>> : c \in {d \in tarjetas :
        d.partido # p /\ d.tipo = "AMARILLA" /\ RutDe[d.jugador] = RutDe[j]}}

AmarillasEn(j, p) ==
    {c.minuto : c \in {d \in TarjetasDe(p) : d.jugador = j /\ d.tipo = "AMARILLA"}}

TiposEn(j, p) == {c.tipo : c \in {d \in TarjetasDe(p) : d.jugador = j}}

Propuestas(p) ==
    {s \in IdAuto :
        /\ Origen(s) = p
        /\ Motivo(s) \in MotivosGanados(Cardinality(AmarillasPrevias(Jugador(s), p)),
                                        Cardinality(AmarillasEn(Jugador(s), p)),
                                        TiposEn(Jugador(s), p), Umbral)}

\* Mutant: closing the acta again reconciles nothing.
MutSinHuerfanas(t, p) == {s \in IdAuto : FALSE}

\* Rows the reconciliation deletes: automatic, of this match, no longer earned.
Huerfanas(t, p) ==
    {s \in IdAuto : /\ Origen(s) = p
                    /\ t.sancion[s].existe
                    /\ ~t.sancion[s].revocada
                    /\ s \notin Propuestas(p)}

AplicarSanciones(t, p) ==
    LET nuevas == {s \in Propuestas(p) : ~t.sancion[s].existe}
        fuera  == Huerfanas(t, p)
        desde  == t.fecha[partido[p].fecha].numero + 1
    IN  [t EXCEPT !.sancion = [s \in SancionId |->
                                IF s \in nuevas THEN SancionNueva(1, desde)
                                ELSE IF s \in fuera THEN SinSancion
                                ELSE t.sancion[s]],
                  !.libro = {r \in t.libro : r[1] \notin fuera}]

\* A player who may not appear in a match of matchday number n.
Inhabilitado(j, n) ==
    \/ RutDe[j] \in vetados
    \/ \E s \in SancionId : /\ sancion[s].existe
                            /\ RutDe[Jugador(s)] = RutDe[j]
                            /\ SancionVigente(sancion[s], n)

Plantel(p) == UNION {Planilla[e] : e \in partido[p].equipos}

-----------------------------------------------------------------------------
(* The handlers.  A request is served only between two bulk suspensions:   *)
(* the bulk one is a single transaction, told in several steps below.      *)

Atiende == lote = SinLote

\* The part of the state that match operations do not touch.
SinTocarTarjetas == UNCHANGED <<tarjetas, inscripcion, vetados, lote>>

Abierto(p) == p \in PartidosVivos /\ ~partido[p].acta

Operable(p) == partido[p].estado \notin EstadosNoOperables

NumeroDelPartido(p) == fecha[partido[p].fecha].numero

\* A handler that leaves match p as row r and then evaluates its matchday.
GuardarYEvaluar(p, r) ==
    LET pa == [partido EXCEPT ![p] = r]
    IN  /\ partido' = pa
        /\ Guardar(Evaluar(pa, Disciplina, r.fecha))
        /\ SinTocarTarjetas

\* A handler that leaves match p as row r and then reopens its matchday.
GuardarYRevertir(p, r) ==
    /\ partido' = [partido EXCEPT ![p] = r]
    /\ Guardar(Revertir(Disciplina, r.fecha))
    /\ SinTocarTarjetas

ConEstado(p, e) == [partido[p] EXCEPT !.estado = e]

CambiarEstado(p) ==
    /\ Atiende
    /\ Abierto(p)
    /\ partido[p].estado \in {"PROGRAMADO", "EN_CURSO"}
    /\ partido' = [partido EXCEPT ![p].estado =
                    IF @ = "PROGRAMADO" THEN "EN_CURSO" ELSE "PROGRAMADO"]
    /\ UNCHANGED <<fecha, sancion, libro>>
    /\ SinTocarTarjetas

\* PATCH that moves a match to matchday g.  The two locks are taken in the order
\* of the row ids, which are random: either order of the two effects can happen.
MoverPartido(p, g) ==
    LET f  == partido[p].fecha
        r  == [partido[p] EXCEPT
                    !.fecha = g,
                    !.estado = IF @ = "SUSPENDIDO_FUERZA_MAYOR" /\ fecha[g].estado # "SUSPENDIDA"
                               THEN "PROGRAMADO" ELSE @]
        pa == [partido EXCEPT ![p] = r]
        Destino(t) == IF r.estado \in EstadosResueltos THEN t ELSE Revertir(t, g)
    IN  /\ Atiende
        /\ Abierto(p)
        /\ g \in FechasVivas \ {f}
        /\ partido' = pa
        /\ \/ Guardar(Destino(Evaluar(pa, Disciplina, f)))
           \/ Guardar(Evaluar(pa, Destino(Disciplina), f))
        /\ SinTocarTarjetas

AddIncidencia(p, j, tipo, m) ==
    /\ Atiende
    /\ Abierto(p)
    /\ Operable(p)
    /\ j \in Plantel(p)
    /\ ~Inhabilitado(j, NumeroDelPartido(p))
    /\ tarjetas' = tarjetas \cup
            {[partido |-> p, jugador |-> j, tipo |-> tipo, minuto |-> m]}
    /\ UNCHANGED <<partido, fecha, sancion, libro, inscripcion, vetados, lote>>

RemoveIncidencia(c) ==
    /\ Atiende
    /\ ~partido[c.partido].acta
    /\ tarjetas' = tarjetas \ {c}
    /\ UNCHANGED <<partido, fecha, sancion, libro, inscripcion, vetados, lote>>

\* Reassigns a card within the squad of its team; nothing asks whether the new
\* player is suspended.
AtribuirJugadorIncidencia(c, j) ==
    /\ Atiende
    /\ ~partido[c.partido].acta
    /\ \E e \in partido[c.partido].equipos : {c.jugador, j} \subseteq Planilla[e]
    /\ tarjetas' = (tarjetas \ {c}) \cup {[c EXCEPT !.jugador = j]}
    /\ UNCHANGED <<partido, fecha, sancion, libro, inscripcion, vetados, lote>>

CertificarPresentes(p, js) ==
    /\ Atiende
    /\ Abierto(p)
    /\ Operable(p)
    /\ js \subseteq Plantel(p)
    /\ \A j \in js : ~Inhabilitado(j, NumeroDelPartido(p))
    /\ partido' = [partido EXCEPT ![p].presentes = js, ![p].certificado = TRUE]
    /\ UNCHANGED <<fecha, sancion, libro>>
    /\ SinTocarTarjetas

CerrarActa(p) ==
    LET pa == [partido EXCEPT ![p].estado = "FINALIZADO", ![p].acta = TRUE]
    IN  /\ Atiende
        /\ Abierto(p)
        /\ Operable(p)
        /\ partido[p].certificado
        /\ partido' = pa
        /\ Guardar(Evaluar(pa, AplicarSanciones(Disciplina, p), partido[p].fecha))
        /\ SinTocarTarjetas

ReabrirActa(p) ==
    /\ Atiende
    /\ partido[p].acta
    /\ partido[p].estado # "WALKOVER"
    /\ GuardarYRevertir(p, [partido[p] EXCEPT !.estado = "EN_CURSO", !.acta = FALSE])

SuspenderPartido(p) ==
    /\ Atiende
    /\ Abierto(p)
    /\ partido[p].estado \notin {"SUSPENDIDO_FUERZA_MAYOR", "WALKOVER"}
    /\ GuardarYEvaluar(p, ConEstado(p, "SUSPENDIDO_FUERZA_MAYOR"))

MarcarNoJugado(p) ==
    /\ Atiende
    /\ Abierto(p)
    /\ partido[p].estado \in {"PROGRAMADO", "EN_CURSO"}
    /\ GuardarYEvaluar(p, ConEstado(p, "NO_JUGADO"))

ReprogramarPartido(p) ==
    /\ Atiende
    /\ Abierto(p)
    /\ GuardarYRevertir(p, ConEstado(p, "PROGRAMADO"))

Walkover(p) == [partido[p] EXCEPT !.estado = "WALKOVER", !.acta = TRUE]

DeclararWalkover(p) ==
    /\ Atiende
    /\ Abierto(p)
    /\ Operable(p)
    /\ GuardarYEvaluar(p, Walkover(p))

AnularWalkover(p) ==
    /\ Atiende
    /\ partido[p].estado = "WALKOVER"
    /\ GuardarYRevertir(p, [partido[p] EXCEPT !.estado = "PROGRAMADO", !.acta = FALSE])

\* Mutant: reactivating a match never reopens its matchday.
MutReactivarSinRevertir(p) ==
    /\ Atiende
    /\ partido[p].estado \in {"SUSPENDIDO_FUERZA_MAYOR", "NO_JUGADO"}
    /\ partido' = [partido EXCEPT ![p] = ConEstado(p, "PROGRAMADO")]
    /\ UNCHANGED <<fecha, sancion, libro>>
    /\ SinTocarTarjetas

ReactivarPartido(p) ==
    /\ Atiende
    /\ partido[p].estado \in {"SUSPENDIDO_FUERZA_MAYOR", "NO_JUGADO"}
    /\ GuardarYRevertir(p, ConEstado(p, "PROGRAMADO"))

-----------------------------------------------------------------------------
(* Suspending and reactivating a whole matchday.                           *)

\* UNIQUE (torneo, numero, tipo): the transaction fails when it does not hold.
NumeroTipoUnicos(fe) ==
    \A f, g \in Fechas : /\ f # g
                         /\ fe[f].estado # "LIBRE"
                         /\ fe[g].estado # "LIBRE"
                         /\ fe[f].numero = fe[g].numero
                         => fe[f].tipo # fe[g].tipo

\* The open, unresolved matches of f, suspended with it.
ConSuspendidos(f) ==
    [p \in Partidos |->
        IF partido[p].fecha = f /\ ~partido[p].acta /\ partido[p].estado \notin EstadosResueltos
        THEN ConEstado(p, "SUSPENDIDO_FUERZA_MAYOR") ELSE partido[p]]

ConFechaSuspendida(f) == [fecha EXCEPT ![f].estado = "SUSPENDIDA"]

AClonar(pa, f) ==
    {p \in Partidos : pa[p].fecha = f /\ pa[p].estado = "SUSPENDIDO_FUERZA_MAYOR" /\ ~pa[p].acta}

\* pa with a fresh PROGRAMADO copy of every match of f that is suspended, in bis.
Clonados(pa, f, bis, copia) ==
    [q \in Partidos |->
        IF \E p \in AClonar(pa, f) : copia[p] = q
        THEN PartidoNuevo(bis, pa[CHOOSE p \in AClonar(pa, f) : copia[p] = q].equipos)
        ELSE pa[q]]

PuedeSuspender(f) ==
    /\ Atiende
    /\ f \in FechasVivas
    /\ fecha[f].estado \notin {"FINALIZADA", "SUSPENDIDA"}
    /\ "EN_CURSO" \notin EstadosEn(partido, f)

\* MANUAL: only marks it.
SuspenderFechaManual(f) ==
    /\ PuedeSuspender(f)
    /\ partido' = ConSuspendidos(f)
    /\ fecha' = ConFechaSuspendida(f)
    /\ UNCHANGED <<sancion, libro>>
    /\ SinTocarTarjetas

\* AL_FINAL and TRASNOCHE_DOMINO: a "bis" with the same number and clones of the
\* suspended matches; DOMINO also relabels every later matchday.
SuspenderFechaConBis(f, domino) ==
    /\ PuedeSuspender(f)
    /\ fecha[f].tipo = "ORIGINAL"
    /\ ~\E g \in FechasVivas : fecha[g].numero = fecha[f].numero /\ fecha[g].tipo = "REPROGRAMADA"
    /\ LET pa == ConSuspendidos(f)
           fe == [g \in Fechas |->
                    IF domino /\ fecha[g].estado # "LIBRE" /\ fecha[g].numero > fecha[f].numero
                    THEN [fecha[g] EXCEPT !.tipo = "REPROGRAMADA"]
                    ELSE ConFechaSuspendida(f)[g]]
       IN  /\ NumeroTipoUnicos(fe)
           /\ \E bis \in Fechas \ FechasVivas,
                 copia \in [AClonar(pa, f) -> Partidos \ PartidosVivos] :
                /\ \A p, q \in AClonar(pa, f) : copia[p] = copia[q] => p = q
                /\ fecha' = [fe EXCEPT ![bis] = FechaNueva(fecha[f].numero, "REPROGRAMADA", f)]
                /\ partido' = Clonados(pa, f, bis, copia)
    /\ UNCHANGED <<sancion, libro>>
    /\ SinTocarTarjetas

\* Mutant: the matches with a closed acta move too.
MutReusarMueveTodo(f, g) ==
    /\ PuedeSuspender(f)
    /\ g \in FechasVivas \ {f}
    /\ fecha[g].estado \notin {"SUSPENDIDA", "FINALIZADA"}
    /\ LET fe == [ConFechaSuspendida(f) EXCEPT
                    ![g].tipo = "REPROGRAMADA",
                    ![g].reemplaza = IF @ = Nada THEN f ELSE @]
       IN  NumeroTipoUnicos(fe) /\ fecha' = fe
    /\ partido' = [p \in Partidos |->
                    IF partido[p].fecha = f
                    THEN [ConEstado(p, "PROGRAMADO") EXCEPT !.fecha = g] ELSE partido[p]]
    /\ UNCHANGED <<sancion, libro>>
    /\ SinTocarTarjetas

\* REUSAR_EXISTENTE: every match of f without acta moves to g and is programmed.
SuspenderFechaReusando(f, g) ==
    /\ PuedeSuspender(f)
    /\ g \in FechasVivas \ {f}
    /\ fecha[g].estado \notin {"SUSPENDIDA", "FINALIZADA"}
    /\ LET fe == [ConFechaSuspendida(f) EXCEPT
                    ![g].tipo = "REPROGRAMADA",
                    ![g].reemplaza = IF @ = Nada THEN f ELSE @]
       IN  NumeroTipoUnicos(fe) /\ fecha' = fe
    /\ partido' = [p \in Partidos |->
                    IF partido[p].fecha = f /\ ~partido[p].acta
                    THEN [ConEstado(p, "PROGRAMADO") EXCEPT !.fecha = g] ELSE partido[p]]
    /\ UNCHANGED <<sancion, libro>>
    /\ SinTocarTarjetas

ReactivarFecha(f) ==
    /\ Atiende
    /\ fecha[f].estado = "SUSPENDIDA"
    /\ ~\E g \in FechasVivas : /\ fecha[g].reemplaza = f
                               /\ fecha[g].tipo = "REPROGRAMADA"
                               /\ fecha[g].estado # "SUSPENDIDA"
                               /\ EstadosEn(partido, g) # {}
    /\ fecha' = [fecha EXCEPT ![f].estado = "PROGRAMADA"]
    /\ partido' = [p \in Partidos |->
                    IF p \in AClonar(partido, f) THEN ConEstado(p, "PROGRAMADO") ELSE partido[p]]
    /\ UNCHANGED <<sancion, libro>>
    /\ SinTocarTarjetas

-----------------------------------------------------------------------------
(* The disciplinary tribunal.                                              *)

ProximaFechaNumero ==
    LET abiertas == {fecha[f].numero : f \in {g \in Fechas :
                        fecha[g].estado \in {"PROGRAMADA", "EN_CURSO"}}}
    IN  IF abiertas = {} THEN 1 ELSE Min(abiertas)

TribunalCreate(j, r, k, d, veto) ==
    LET s == <<j, "TRIBUNAL", r>>
        desde == IF d = Nada THEN ProximaFechaNumero ELSE d
    IN  /\ Atiende
        /\ k > 0
        /\ ~sancion[s].existe
        /\ sancion' = [sancion EXCEPT ![s] = SancionNueva(k, desde)]
        /\ vetados' = IF veto THEN vetados \cup {RutDe[j]} ELSE vetados
        /\ UNCHANGED <<partido, fecha, tarjetas, libro, inscripcion, lote>>

TribunalAjustar(s, k, d) ==
    LET r == sancion[s]
    IN  /\ Atiende
        /\ r.existe
        /\ sancion' = [sancion EXCEPT ![s] =
                [r EXCEPT !.pendientes = k,
                          !.desde = IF d = Nada THEN r.desde ELSE d,
                          !.cumplida = (k = 0),
                          !.totales = IF k > r.totales THEN k ELSE r.totales,
                          !.revocada = (k = 0),
                          !.ajustada = TRUE]]
        /\ UNCHANGED <<partido, fecha, tarjetas, libro, inscripcion, vetados, lote>>

TribunalRevoke(s) ==
    /\ Atiende
    /\ sancion[s].existe
    /\ sancion' = [sancion EXCEPT ![s] =
                    [@ EXCEPT !.pendientes = 0, !.cumplida = TRUE, !.revocada = TRUE]]
    /\ UNCHANGED <<partido, fecha, tarjetas, libro, inscripcion, vetados, lote>>

-----------------------------------------------------------------------------
(* Suspending a team: one transaction over all its pending matches, in the *)
(* order the query returns them, told as one step per match.               *)

Pendientes(e) ==
    {p \in Partidos : e \in partido[p].equipos /\ partido[p].estado \in {"PROGRAMADO", "EN_CURSO"}}

SuspenderEquipo(e) ==
    /\ Atiende
    /\ inscripcion[e] # "SUSPENDIDO"
    /\ lote' = [equipo |-> e, porEvaluar |-> {}]
    /\ UNCHANGED <<partido, fecha, tarjetas, sancion, libro, inscripcion, vetados>>

RivalSuspendido(p, e) == \E r \in partido[p].equipos \ {e} : inscripcion[r] = "SUSPENDIDO"

LoteWalkover(p) ==
    /\ ~Atiende
    /\ p \in Pendientes(lote.equipo)
    /\ ~RivalSuspendido(p, lote.equipo)
    /\ ~partido[p].acta
    /\ GuardarYEvaluar(p, Walkover(p))

\* Mutant: the branch "both teams suspended" forgets to evaluate its matchday.
MutLoteCancelaSinEvaluar(p) ==
    /\ ~Atiende
    /\ p \in Pendientes(lote.equipo)
    /\ RivalSuspendido(p, lote.equipo)
    /\ partido' = [partido EXCEPT ![p] = ConEstado(p, "SUSPENDIDO_FUERZA_MAYOR")]
    /\ UNCHANGED <<fecha, tarjetas, sancion, libro, inscripcion, vetados, lote>>

LoteCancela(p) ==
    /\ ~Atiende
    /\ p \in Pendientes(lote.equipo)
    /\ RivalSuspendido(p, lote.equipo)
    /\ partido' = [partido EXCEPT ![p] = ConEstado(p, "SUSPENDIDO_FUERZA_MAYOR")]
    /\ lote' = [lote EXCEPT !.porEvaluar = @ \cup {partido[p].fecha}]
    /\ UNCHANGED <<fecha, tarjetas, sancion, libro, inscripcion, vetados>>

LoteEvalua(f) ==
    /\ ~Atiende
    /\ Pendientes(lote.equipo) = {}
    /\ f \in lote.porEvaluar
    /\ Guardar(Evaluar(partido, Disciplina, f))
    /\ lote' = [lote EXCEPT !.porEvaluar = @ \ {f}]
    /\ UNCHANGED <<partido, tarjetas, inscripcion, vetados>>

LoteTermina ==
    /\ ~Atiende
    /\ Pendientes(lote.equipo) = {}
    /\ lote.porEvaluar = {}
    /\ inscripcion' = [inscripcion EXCEPT ![lote.equipo] = "SUSPENDIDO"]
    /\ lote' = SinLote
    /\ UNCHANGED <<partido, fecha, tarjetas, sancion, libro, vetados>>

ReactivarEquipo(e) ==
    /\ Atiende
    /\ inscripcion[e] = "SUSPENDIDO"
    /\ inscripcion' = [inscripcion EXCEPT ![e] = "INSCRITO"]
    /\ UNCHANGED <<partido, fecha, tarjetas, sancion, libro, vetados, lote>>

-----------------------------------------------------------------------------
OperarPartido(p) ==
    \/ CambiarEstado(p)
    \/ \E g \in Destinos : MoverPartido(p, g)
    \/ CerrarActa(p)
    \/ ReabrirActa(p)
    \/ SuspenderPartido(p)
    \/ MarcarNoJugado(p)
    \/ ReprogramarPartido(p)
    \/ DeclararWalkover(p)
    \/ AnularWalkover(p)
    \/ ReactivarPartido(p)
    \/ \E js \in Listas : CertificarPresentes(p, js)

CargarActa ==
    \/ \E p \in Partidos, j \in Jugadores, tipo \in TiposTarjeta, m \in Minutos :
            AddIncidencia(p, j, tipo, m)
    \/ \E c \in tarjetas : RemoveIncidencia(c)
    \/ \E c \in tarjetas, j \in Jugadores : AtribuirJugadorIncidencia(c, j)

OperarFecha(f) ==
    \/ "MANUAL" \in Estrategias /\ SuspenderFechaManual(f)
    \/ "AL_FINAL" \in Estrategias /\ SuspenderFechaConBis(f, FALSE)
    \/ "TRASNOCHE_DOMINO" \in Estrategias /\ SuspenderFechaConBis(f, TRUE)
    \/ "REUSAR_EXISTENTE" \in Estrategias /\ \E g \in Fechas : SuspenderFechaReusando(f, g)
    \/ ReactivarFecha(f)

Tribunal ==
    \/ \E j \in Jugadores, r \in Resoluciones, k \in Cantidades,
            d \in Desdes \cup {Nada}, veto \in Vetos : TribunalCreate(j, r, k, d, veto)
    \/ \E s \in SancionId, k \in Cantidades, d \in Desdes \cup {Nada} : TribunalAjustar(s, k, d)
    \/ \E s \in SancionId : TribunalRevoke(s)

OperarEquipo ==
    \/ \E e \in Suspendibles : SuspenderEquipo(e) \/ ReactivarEquipo(e)
    \/ \E p \in Partidos : LoteWalkover(p) \/ LoteCancela(p)
    \/ \E f \in Fechas : LoteEvalua(f)
    \/ LoteTermina

Next ==
    \/ \E p \in Partidos : OperarPartido(p)
    \/ CargarActa
    \/ \E f \in Fechas : OperarFecha(f)
    \/ Tribunal
    \/ OperarEquipo

Spec == Init /\ [][Next]_vars

-----------------------------------------------------------------------------
(* What must hold.                                                         *)

\* An acta is closed exactly in the two states whose result counts.
ActaCoherente ==
    \A p \in PartidosVivos :
        partido[p].acta <=> partido[p].estado \in {"FINALIZADO", "WALKOVER"}

\* The balance of a suspension never exceeds its total, it is "cumplida" exactly
\* when nothing is pending, and a revoked one has nothing pending.
SaldoCoherente ==
    \A s \in SancionId :
        /\ sancion[s].pendientes <= sancion[s].totales
        /\ sancion[s].existe => (sancion[s].cumplida <=> sancion[s].pendientes = 0)
        /\ sancion[s].revocada => sancion[s].cumplida

FechasQueDescontaron(s) == {f \in Fechas : <<s, f>> \in libro}

\* ADR-0015: the ledger explains the balance.  While the tribunal has not
\* touched a suspension, what is pending plus what the ledger says was served
\* is what was imposed.
LibroExacto ==
    \A s \in SancionId :
        sancion[s].existe /\ ~sancion[s].ajustada /\ ~sancion[s].revocada
            => sancion[s].pendientes + Cardinality(FechasQueDescontaron(s)) = sancion[s].totales

\* Only a matchday that is closed has discounted anything, and only to
\* suspensions that still exist.
LibroSoloDeFinalizadas ==
    \A r \in libro : sancion[r[1]].existe /\ fecha[r[2]].estado = "FINALIZADA"

\* A closed acta and the automatic suspensions of its match agree: every red card
\* has its suspension, and every live one its card (the tribunal may adjust one it
\* had absolved, whose card is gone).
TarjetasRespaldanSanciones ==
    \A p \in Partidos : partido[p].estado = "FINALIZADO" =>
        \A j \in Jugadores, par \in {<<"ROJA", "ROJA_DIRECTA">>, <<"AMARILLA_ROJA", "DOBLE_AMARILLA">>} :
            LET s == sancion[<<j, par[2], p>>]
            IN  /\ par[1] \in TiposEn(j, p) => s.existe
                /\ s.existe /\ ~s.revocada /\ ~s.ajustada => par[1] \in TiposEn(j, p)

\* T21: a revoked suspension never revives.  It stays, revoked and with nothing
\* pending, until the tribunal itself adjusts it.
RevocadaNoRevive ==
    [][\A s \in SancionId : sancion[s].revocada =>
            \/ sancion'[s] = sancion[s]
            \/ sancion'[s].revocada /\ sancion'[s].pendientes = 0
            \/ \E k \in Cantidades, d \in Desdes \cup {Nada} : TribunalAjustar(s, k, d)]_vars

\* Product rule of 2026-10-07: a suspension is served only by a matchday its
\* player's club played, never before the number it starts at.
SoloCumpleQuienJugo ==
    [][\A r \in libro' \ libro :
            LET s == r[1]
                f == r[2]
            IN  /\ fecha[f].numero >= sancion'[s].desde
                /\ \E p \in Partidos : /\ partido'[p].fecha = f
                                       /\ partido'[p].acta
                                       /\ \E e \in partido'[p].equipos :
                                            ClubDe[e] = ClubDelJugador[Jugador(s)]]_vars

Completa(pa, f) == FechaCompleta(EstadosEn(pa, f))

\* A step that leaves a closed matchday with a match pending reopens it, unless a
\* later matchday is already closed (the match is then played "fuera de cuenta").
PendienteReabreLaFecha ==
    [][\A f \in Fechas :
            /\ fecha[f].estado = "FINALIZADA"
            /\ Completa(partido, f)
            /\ ~Completa(partido', f)
            /\ EstadosEn(partido', f) # {}
            => fecha'[f].estado = "EN_CURSO" \/ PosteriorCerrada(fecha', f)]_vars

\* What was played stays where it was played: a closed acta is only touched to be
\* reopened, and no suspension, move or renumbering of its matchday changes it.
ActaCerradaNoSeToca ==
    [][\A p \in Partidos : partido[p].acta =>
            \/ partido'[p] = partido[p]
            \/ ~partido'[p].acta /\ partido'[p].fecha = partido[p].fecha]_vars

\* T16: the step that resolves the last pending match of a matchday in play closes it, so
\* that none escapes the discount; a bulk suspension leaves it for its end, and closes it
\* then (evaluarCierreDeFecha, and the origin of a move).
CompletarCierra ==
    [][\A f \in FechasVivas :
            /\ fecha[f].estado # "SUSPENDIDA"
            /\ Completa(partido', f)
            /\ \/ ~Completa(partido, f) /\ EstadosEn(partido, f) # {}
               \/ f \in lote.porEvaluar
            => fecha'[f].estado \in {"FINALIZADA", "SUSPENDIDA"} \/ f \in lote'.porEvaluar]_vars

-----------------------------------------------------------------------------
(* Claims of the repository that the code does not keep.                   *)

\* ADR-0015 section 3, "la fecha se cierra cuando esta COMPLETA": no matchday in play sits
\* complete without being closed.  One does that was left empty and receives a match already
\* resolved, or that is reactivated with nothing but closed actas: neither is evaluated.
FechaCompletaSeCierra ==
    \A f \in FechasVivas :
        /\ fecha[f].estado # "SUSPENDIDA"
        /\ f \notin lote.porEvaluar
        /\ Completa(partido, f)
        => fecha[f].estado = "FINALIZADA"

Acumulaciones(j) ==
    {s \in IdAuto : /\ Motivo(s) = "ACUMULACION_AMARILLAS"
                    /\ RutDe[Jugador(s)] = RutDe[j]
                    /\ sancion[s].existe}

AmarillasDelTorneo(j) ==
    {<<c.partido, c.minuto>> : c \in {d \in tarjetas :
        d.tipo = "AMARILLA" /\ RutDe[d.jugador] = RutDe[j]}}

\* acumulacion.ts: "Solo emitir si el partido actual completo el umbral (evita
\* duplicados)".  With every acta closed, a player has at most one suspension per
\* full threshold of yellow cards.
UnaSancionPorUmbral ==
    (\A p \in PartidosVivos : partido[p].acta) =>
        \A j \in Jugadores :
            Cardinality(Acumulaciones(j)) <= Cardinality(AmarillasDelTorneo(j)) \div Umbral

\* anularWalkover: "Un WALKOVER no genera sanciones de jugador (no hay incidencias),
\* asi que no hay sanciones que borrar".
WalkoverSinSanciones ==
    \A p \in Partidos : partido[p].estado = "WALKOVER" =>
        \A s \in IdAuto : Origen(s) = p => ~sancion[s].existe

\* evaluarCierreDeFecha: the guard on a SUSPENDIDA with a bis exists because
\* "finalizarla descontaria el numero N dos veces".  No suspension is served twice
\* by the same matchday number.
NumeroDescontadoUnaVez ==
    \A q, r \in libro : q[1] = r[1] /\ fecha[q[2]].numero = fecha[r[2]].numero => q = r
=============================================================================
