----------------------------- MODULE MatchCenter -----------------------------
(***************************************************************************)
(* The Match Center: the stopwatch of a match lives in its row, the panel  *)
(* of the cronista changes it by REST, a tick of the gateway pauses the    *)
(* period that is over, and screens follow by websocket or, failing that,  *)
(* by polling.  Requests and ticks are READ COMMITTED transactions that    *)
(* read without a lock and save() the copy they read: a SELECT that        *)
(* compares and an UPDATE of the columns that differ.  The set of matches  *)
(* the tick looks after is in memory: the server may die at any moment.    *)
(***************************************************************************)
EXTENDS Integers, FiniteSets, FiniteSetsExt, Sequences, Functions

CONSTANTS
    Partidos, EnJuego,    \* matches; those whose panel somebody uses
    Cronistas, Sockets,   \* REST clients; websocket clients
    Mira,                 \* socket -> the match its screen shows
    Claves,               \* client keys of goals
    Nada, SinReloj,       \* no value; centro_arrancado_at IS NULL
    Duracion, Agregados,  \* length of a period, minutes that may be added
    MaxHora, MaxPeriodo, MaxPedidos, MaxFallos   \* bounds

ASSUME PartidosAssumption ==
    /\ EnJuego \subseteq Partidos
    /\ Mira \in [Sockets -> Partidos]
    /\ Duracion \in Nat \ {0}
    /\ Agregados \subseteq Nat

VARIABLES
    hora,        \* the clock
    fila,        \* match -> its row: stopwatch and score
    goles,       \* match -> client keys of its goals, oldest first
    pedido,      \* cronista -> the request in flight
    pedidos,     \* requests made so far
    vivo,        \* is the server up?
    siembra,     \* is seedPartidosActivos still to run?
    activos,     \* partidosActivos: the matches the tick looks after
    barrido,     \* the running tick: match -> how far it got
    socket,      \* client -> its connection and its screen
    fallos       \* crashes, disconnections and errors so far

vars == <<hora, fila, goles, pedido, pedidos, vivo, siembra, activos, barrido, socket, fallos>>
gateway == <<vivo, siembra, activos, barrido>>
base == <<fila, goles>>

Centros == {"IDLE", "EN_VIVO", "PAUSADO", "FINALIZADO_CENTRO"}

\* centro_arrancado_at: the hour, and which request wrote it, for no two instants are equal
Instantes == [hora : 0..MaxHora, de : 0..MaxPedidos]

Fila == [centro : Centros, periodo : 0..MaxPeriodo, acumulado : Nat,
         arrancado : Instantes \cup {SinReloj}, agregados : Agregados \cup {0}, marcador : Nat]

\* A snapshot is told by two things: is the match out of play, and has its row not
\* changed since it was read?
Snapshot(r) == [fuera |-> r.centro \in {"IDLE", "FINALIZADO_CENTRO"}, vigente |-> TRUE]

Pendiente(paso, copia) == [paso |-> paso, copia |-> copia, cambios |-> {}]

---------------------------------------------------------------------------
(* The stopwatch                                                           *)

Objetivo(r) == Duracion + r.agregados

\* calcularTranscurrido: never past the end of the period
Transcurrido(r) ==
    Min({Objetivo(r), IF r.centro = "EN_VIVO" /\ r.arrancado # SinReloj
                      THEN r.acumulado + (hora - r.arrancado.hora)
                      ELSE r.acumulado})

Vencido(r) == Transcurrido(r) >= Objetivo(r)

Parada(r, centro, acumulado) ==
    [r EXCEPT !.centro = centro, !.acumulado = acumulado, !.arrancado = SinReloj]

\* Mutant: a stopwatch that is resumed without writing down since when
MutEnMarchaSinReloj(r) ==
    [r EXCEPT !.centro = "EN_VIVO", !.arrancado = IF r.centro = "PAUSADO" THEN SinReloj
                                                  ELSE [hora |-> hora, de |-> pedidos]]

EnMarcha(r) == [r EXCEPT !.centro = "EN_VIVO", !.arrancado = [hora |-> hora, de |-> pedidos]]

SinEmpezar == [centro |-> "IDLE", periodo |-> 0, acumulado |-> 0, arrancado |-> SinReloj,
               agregados |-> 0, marcador |-> 0]

PrimerPeriodo == [SinEmpezar EXCEPT !.periodo = 1]

---------------------------------------------------------------------------
\* The server boots, before a match or in the middle of it.
Init ==
    /\ hora = 0
    /\ pedidos = 0
    /\ fila \in [Partidos -> {SinEmpezar, EnMarcha(PrimerPeriodo)}]
    /\ \A p \in Partidos \ EnJuego : fila[p] = SinEmpezar
    /\ goles = [p \in Partidos |-> <<>>]
    /\ pedido = [c \in Cronistas |-> Nada]
    /\ vivo = TRUE
    /\ siembra = TRUE
    /\ activos = {}
    /\ barrido = <<>>
    /\ socket = [s \in Sockets |-> [conectado |-> FALSE, sala |-> "fuera", pantalla |-> FALSE, consulta |-> Nada]]
    /\ fallos = 0

\* A snapshot that reaches the screen of s
Recibe(s, snap) == [s EXCEPT !.pantalla = snap.vigente]

\* Emitted to the room of p
Emitido(p, snap, sockets) ==
    [s \in Sockets |-> IF sockets[s].sala = "dentro" /\ Mira[s] = p
                       THEN Recibe(sockets[s], snap) ELSE sockets[s]]

\* The row of p changes: what the screens show, and what is on its way to them, is old.
Caducan(p) ==
    [s \in Sockets |-> IF Mira[s] # p THEN socket[s]
                       ELSE [socket[s] EXCEPT !.pantalla = FALSE,
                                              !.consulta = IF @ = Nada THEN Nada
                                                           ELSE [@ EXCEPT !.vigente = FALSE]]]

CaducaBarrido(p) ==
    IF p \in DOMAIN barrido /\ barrido[p].paso = "entregar"
    THEN [barrido EXCEPT ![p].copia.vigente = FALSE] ELSE barrido

---------------------------------------------------------------------------
(* Requests of the panel: each reads the row, decides on it, and saves     *)

Pide(c, p, tipo, copia, clave) ==
    /\ vivo
    /\ pedido[c] = Nada
    /\ pedidos < MaxPedidos
    /\ pedidos' = pedidos + 1
    /\ pedido' = [pedido EXCEPT ![c] =
           [tipo |-> tipo, partido |-> p, copia |-> copia, cambios |-> {}, clave |-> clave,
            paso |-> IF tipo = "reloj" THEN "comparar" ELSE "goles"]]
    /\ UNCHANGED <<hora, base, gateway, socket, fallos>>

\* arrancar: the first time it also resets the stopwatch; from a pause or after
\* finalizarCentro it goes on.
Arrancar(c, p) ==
    LET r == fila[p]
        desdeCero == [r EXCEPT !.periodo = 1, !.acumulado = 0, !.agregados = 0]
    IN /\ r.centro # "EN_VIVO"
       /\ Pide(c, p, "reloj", EnMarcha(IF r.centro = "IDLE" THEN desdeCero ELSE r), Nada)

Pausar(c, p) ==
    /\ fila[p].centro = "EN_VIVO"
    /\ Pide(c, p, "reloj", Parada(fila[p], "PAUSADO", Transcurrido(fila[p])), Nada)

Reanudar(c, p) ==
    /\ fila[p].centro = "PAUSADO"
    /\ Pide(c, p, "reloj", EnMarcha(fila[p]), Nada)

\* sumarGol: the replay of a goal already loaded is let through in every state.
SumarGol(c, p, k) ==
    /\ k \in Range(goles[p]) \/ fila[p].centro \in {"EN_VIVO", "PAUSADO"}
    /\ Pide(c, p, "gol", fila[p], k)

QuitarGol(c, p) ==
    /\ goles[p] # <<>>
    /\ Pide(c, p, "quita", fila[p], goles[p][Len(goles[p])])

AjustarGoles(c, p) ==
    /\ fila[p].centro # "IDLE"
    /\ \E n \in 0..Cardinality(Claves) :
           Pide(c, p, "reloj", [fila[p] EXCEPT !.marcador = n], Nada)

SiguientePeriodo(c, p) ==
    /\ fila[p].centro = "PAUSADO"
    /\ fila[p].periodo < MaxPeriodo
    /\ Pide(c, p, "reloj", [fila[p] EXCEPT !.periodo = @ + 1, !.acumulado = 0,
                                              !.agregados = 0], Nada)

AjustarTiempoAgregado(c, p) ==
    /\ fila[p].centro \in {"EN_VIVO", "PAUSADO"}
    /\ \E m \in Agregados : Pide(c, p, "reloj", [fila[p] EXCEPT !.agregados = m], Nada)

\* finalizarCentro has no guard: it ends a match that never started, too.
FinalizarCentro(c, p) ==
    Pide(c, p, "reloj",
         Parada(fila[p], "FINALIZADO_CENTRO",
                IF fila[p].centro = "EN_VIVO" THEN Transcurrido(fila[p]) ELSE fila[p].acumulado),
         Nada)

\* What the goals of the match are once the request commits
GolesTras(q, previos) ==
    CASE q.tipo = "gol" -> IF q.clave \in Range(previos) THEN previos ELSE Append(previos, q.clave)
      [] q.tipo = "quita" -> SelectSeq(previos, LAMBDA k : k # q.clave)
      [] OTHER -> previos

\* saveIncidenciaIdempotente, or the DELETE of quitarGol, and then recomputarMarcador,
\* which counts the goals this request sees.  The unique index makes a second insert
\* of a key wait for the first one, as a second DELETE of one row does.
TocarGoles(c) ==
    LET q == pedido[c]
    IN /\ q # Nada /\ q.paso = "goles"
       /\ \A d \in Cronistas \ {c} :
              pedido[d] # Nada => pedido[d].paso = "goles" \/ pedido[d].clave # q.clave
       /\ pedido' = [pedido EXCEPT ![c].paso = "comparar",
                         ![c].copia.marcador = Len(GolesTras(q, goles[q.partido]))]
       /\ UNCHANGED <<hora, base, pedidos, gateway, socket, fallos>>

Diferencias(copia, r) == {k \in DOMAIN r : copia[k] # r[k]}

Sobre(copia, cambios, r) == [k \in DOMAIN r |-> IF k \in cambios THEN copia[k] ELSE r[k]]

\* save, first statement
CompararPedido(c) ==
    LET q == pedido[c]
    IN /\ q # Nada /\ q.paso = "comparar"
       /\ pedido' = [pedido EXCEPT ![c].paso = "escribir",
                                   ![c].cambios = Diferencias(q.copia, fila[q.partido])]
       /\ UNCHANGED <<hora, base, pedidos, gateway, socket, fallos>>

\* save, second statement, and COMMIT.  The controller does not wait for the broadcast:
\* its own transaction reads the row before the commit or after it.
EscribirPedido(c) ==
    LET q == pedido[c]
        p == q.partido
        r == Sobre(q.copia, q.cambios, fila[p])
    IN /\ q # Nada /\ q.paso = "escribir"
       /\ fila' = [fila EXCEPT ![p] = r]
       /\ goles' = [goles EXCEPT ![p] = GolesTras(q, @)]
       /\ IF r = fila[p]
          THEN socket' = Emitido(p, Snapshot(r), socket) /\ UNCHANGED barrido
          ELSE /\ \E alDia \in BOOLEAN :
                     socket' = Emitido(p, [Snapshot(r) EXCEPT !.vigente = alDia], Caducan(p))
               /\ barrido' = CaducaBarrido(p)
       /\ pedido' = [pedido EXCEPT ![c] = Nada]
       /\ UNCHANGED <<hora, pedidos, vivo, siembra, activos, fallos>>

---------------------------------------------------------------------------
(* The gateway                                                             *)

\* seedPartidosActivos, at boot; if it fails nobody tries again.
Sembrar ==
    /\ vivo /\ siembra
    /\ siembra' = FALSE
    /\ activos' = activos \cup {p \in Partidos : fila[p].centro \in {"EN_VIVO", "PAUSADO"}}
    /\ UNCHANGED <<hora, base, pedido, pedidos, vivo, barrido, socket, fallos>>

\* setInterval: a tick that is still running keeps the next one out (tickEnCurso).
IniciarTick ==
    /\ vivo
    /\ barrido = <<>>
    /\ activos # {}
    /\ barrido' = [p \in activos |-> Pendiente("leer", Nada)]
    /\ UNCHANGED <<hora, base, pedido, pedidos, vivo, siembra, activos, socket, fallos>>

TickEn(p, paso) == p \in DOMAIN barrido /\ barrido[p].paso = paso

\* The tick ends with its last match.
TickSigue(p, siguiente) ==
    barrido' = IF siguiente # Nada THEN [barrido EXCEPT ![p] = siguiente]
               ELSE [q \in DOMAIN barrido \ {p} |-> barrido[q]]

\* Mutant: a period has to go past its end, where the clock is capped
MutTickLeerPasado(p) ==
    /\ TickEn(p, "leer")
    /\ TickSigue(p, IF fila[p].centro = "EN_VIVO" /\ Transcurrido(fila[p]) > Objetivo(fila[p])
                    THEN Pendiente("comparar", Parada(fila[p], "PAUSADO", Objetivo(fila[p])))
                    ELSE Pendiente("snapshot", Nada))
    /\ UNCHANGED <<hora, base, pedido, pedidos, vivo, siembra, activos, socket, fallos>>

\* verificarYAutoPausar, in a transaction of its own
TickLeer(p) ==
    /\ TickEn(p, "leer")
    /\ TickSigue(p, IF fila[p].centro = "EN_VIVO" /\ Vencido(fila[p])
                    THEN Pendiente("comparar", Parada(fila[p], "PAUSADO", Objetivo(fila[p])))
                    ELSE Pendiente("snapshot", Nada))
    /\ UNCHANGED <<hora, base, pedido, pedidos, vivo, siembra, activos, socket, fallos>>

TickComparar(p) ==
    /\ TickEn(p, "comparar")
    /\ TickSigue(p, [barrido[p] EXCEPT !.paso = "escribir",
                                       !.cambios = Diferencias(barrido[p].copia, fila[p])])
    /\ UNCHANGED <<hora, base, pedido, pedidos, vivo, siembra, activos, socket, fallos>>

TickEscribir(p) ==
    /\ TickEn(p, "escribir")
    /\ fila' = [fila EXCEPT ![p] = Sobre(barrido[p].copia, barrido[p].cambios, @)]
    /\ socket' = Caducan(p)
    /\ TickSigue(p, Pendiente("snapshot", Nada))
    /\ UNCHANGED <<hora, goles, pedido, pedidos, vivo, siembra, activos, fallos>>

TickSnapshot(p) ==
    /\ TickEn(p, "snapshot")
    /\ TickSigue(p, Pendiente("entregar", Snapshot(fila[p])))
    /\ UNCHANGED <<hora, base, pedido, pedidos, vivo, siembra, activos, socket, fallos>>

\* Matches that did not start or that ended leave the set.
TickEntregar(p) ==
    /\ TickEn(p, "entregar")
    /\ socket' = Emitido(p, barrido[p].copia, socket)
    /\ activos' = IF barrido[p].copia.fuera THEN activos \ {p} ELSE activos
    /\ TickSigue(p, Nada)
    /\ UNCHANGED <<hora, base, pedido, pedidos, vivo, siembra, fallos>>

TickAvanza(p) ==
    TickLeer(p) \/ TickComparar(p) \/ TickEscribir(p) \/ TickSnapshot(p) \/ TickEntregar(p)

---------------------------------------------------------------------------
(* Screens: useMatchCenter                                                 *)

\* connect, and the subscribe that the client sends at once
Conectar(s) ==
    /\ vivo
    /\ ~socket[s].conectado
    /\ socket' = [socket EXCEPT ![s].conectado = TRUE, ![s].sala = "pedida"]
    /\ UNCHANGED <<hora, base, pedido, pedidos, gateway, fallos>>

\* onSubscribe: once the snapshot is read, the socket joins the room and the tick looks
\* after the match.
Suscribir(s) ==
    /\ socket[s].sala = "pedida"
    /\ socket' = [socket EXCEPT ![s] = Recibe([@ EXCEPT !.sala = "dentro"],
                                              Snapshot(fila[Mira[s]]))]
    /\ activos' = activos \cup {Mira[s]}
    /\ UNCHANGED <<hora, base, pedido, pedidos, vivo, siembra, barrido, fallos>>

\* The interval of 5 s: HTTP when the websocket is down, or connected but silent for
\* six seconds, which takes that the ticks do not reach it.
\* Mutant: a screen that trusts any websocket that is connected
MutSilencioNunca(s) == FALSE

Silencio(s) == ~(Mira[s] \in activos /\ socket[s].sala = "dentro")

Consultar(s) ==
    /\ vivo
    /\ socket[s].consulta = Nada
    /\ ~socket[s].conectado \/ Silencio(s)
    /\ socket' = [socket EXCEPT ![s].consulta = Snapshot(fila[Mira[s]])]
    /\ UNCHANGED <<hora, base, pedido, pedidos, gateway, fallos>>

RecibirConsulta(s) ==
    /\ socket[s].consulta # Nada
    /\ socket' = [socket EXCEPT ![s] = [Recibe(@, @.consulta) EXCEPT !.consulta = Nada]]
    /\ UNCHANGED <<hora, base, pedido, pedidos, gateway, fallos>>

---------------------------------------------------------------------------
(* Faults and time                                                         *)

Suelto(s) == [s EXCEPT !.conectado = FALSE, !.sala = "fuera"]

Falla == fallos < MaxFallos /\ fallos' = fallos + 1

Desconectar(s) ==
    /\ Falla
    /\ socket[s].conectado
    /\ socket' = [socket EXCEPT ![s] = Suelto(@)]
    /\ UNCHANGED <<hora, base, pedido, pedidos, gateway>>

\* The snapshot cannot be read: the socket stays connected and out of the room, and
\* the client does not ask again.
SuscripcionFalla(s) ==
    /\ Falla
    /\ socket[s].sala = "pedida"
    /\ socket' = [socket EXCEPT ![s].sala = "fuera"]
    /\ UNCHANGED <<hora, base, pedido, pedidos, gateway>>

\* A transient error in the tick of one match: it stays in the set.
TickFalla(p) ==
    /\ Falla
    /\ p \in DOMAIN barrido
    /\ TickSigue(p, Nada)
    /\ UNCHANGED <<hora, base, pedido, pedidos, vivo, siembra, activos, socket>>

PedidoFalla(c) ==
    /\ Falla
    /\ pedido[c] # Nada
    /\ pedido' = [pedido EXCEPT ![c] = Nada]
    /\ UNCHANGED <<hora, base, pedidos, gateway, socket>>

SiembraFalla ==
    /\ Falla
    /\ vivo /\ siembra
    /\ siembra' = FALSE
    /\ UNCHANGED <<hora, base, pedido, pedidos, vivo, activos, barrido, socket>>

\* The process dies: what was in flight rolls back, the set of the tick is lost.
Caer ==
    /\ Falla
    /\ vivo
    /\ vivo' = FALSE
    /\ siembra' = FALSE
    /\ activos' = {}
    /\ barrido' = <<>>
    /\ pedido' = [c \in Cronistas |-> Nada]
    /\ socket' = [s \in Sockets |-> Suelto(socket[s])]
    /\ UNCHANGED <<hora, base, pedidos>>

Levantar ==
    /\ ~vivo
    /\ vivo' = TRUE
    /\ siembra' = TRUE
    /\ UNCHANGED <<hora, base, pedido, pedidos, activos, barrido, socket, fallos>>

\* The clock moves by minutes, a transaction takes milliseconds.
Avanzar ==
    /\ hora < MaxHora
    /\ barrido = <<>>
    /\ \A c \in Cronistas : pedido[c] = Nada
    /\ hora' = hora + 1
    /\ UNCHANGED <<base, pedido, pedidos, gateway, socket, fallos>>

---------------------------------------------------------------------------
Peticion(c, p) ==
    \/ Arrancar(c, p) \/ Pausar(c, p) \/ Reanudar(c, p)
    \/ \E k \in Claves : SumarGol(c, p, k)
    \/ QuitarGol(c, p) \/ AjustarGoles(c, p) \/ SiguientePeriodo(c, p)
    \/ AjustarTiempoAgregado(c, p) \/ FinalizarCentro(c, p)

Atiende(c) == TocarGoles(c) \/ CompararPedido(c) \/ EscribirPedido(c)

Next ==
    \/ \E c \in Cronistas, p \in EnJuego : Peticion(c, p)
    \/ \E c \in Cronistas : Atiende(c) \/ PedidoFalla(c)
    \/ \E p \in Partidos : TickAvanza(p) \/ TickFalla(p)
    \/ IniciarTick \/ Sembrar \/ SiembraFalla \/ Caer \/ Levantar \/ Avanzar
    \/ \E s \in Sockets : Conectar(s) \/ Suscribir(s) \/ SuscripcionFalla(s) \/ Desconectar(s)
                          \/ Consultar(s) \/ RecibirConsulta(s)

\* The server is restarted, its timers fire, queries return, clients reconnect and
\* poll.  Nobody is obliged to use the panel, to subscribe by hand, or to fail.
Spec ==
    /\ Init /\ [][Next]_vars
    /\ \A c \in Cronistas : WF_vars(Atiende(c))
    /\ \A p \in Partidos : WF_vars(TickAvanza(p))
    /\ WF_vars(IniciarTick) /\ WF_vars(Sembrar) /\ WF_vars(Levantar) /\ WF_vars(Avanzar)
    /\ \A s \in Sockets :
           /\ WF_vars(Conectar(s)) /\ WF_vars(Suscribir(s))
           /\ WF_vars(Consultar(s)) /\ WF_vars(RecibirConsulta(s))

---------------------------------------------------------------------------
(* Properties                                                              *)

\* Rows, snapshots and sockets keep their types; only live servers have memory.
TypeOK ==
    /\ \A p \in Partidos : fila[p] \in Fila
    /\ \A p \in DOMAIN barrido : barrido[p].paso \in {"leer", "comparar", "escribir", "snapshot", "entregar"}
    /\ \A s \in Sockets :
           /\ socket[s].sala \in {"fuera", "pedida", "dentro"}
           /\ socket[s].pantalla \in BOOLEAN
    /\ ~vivo => activos = {} /\ barrido = <<>> /\ \A s \in Sockets : ~socket[s].conectado

\* A match in play has a clock that runs, however the requests of its one panel and the
\* ticks overlap: without it the period would never end.
EnVivoTieneReloj ==
    \A p \in Partidos : fila[p].centro = "EN_VIVO" => fila[p].arrancado # SinReloj

EnVivoVencido(p) == fila[p].centro = "EN_VIVO" /\ Vencido(fila[p])

\* A period that is over is paused, as long as the tick looks after the match
\* (verificarYAutoPausar), across restarts and transient errors.
VencidoSePausa ==
    \A p \in Partidos : []<>(p \in activos) => (EnVivoVencido(p) ~> ~EnVivoVencido(p))

\* A period that is over is paused even if nobody watches.
AutoPausaSinVer == \A p \in Partidos : EnVivoVencido(p) ~> ~EnVivoVencido(p)

\* Once the panel is left alone, every screen ends up showing the row, by websocket or
\* by polling (useMatchCenter: "resincronizan sí o sí").
PantallaAlDia ==
    \A s \in Sockets : <>[]socket[s].pantalla

\* A match that ended does not occupy the tick for ever.
FinalizadoDejaElTick ==
    \A p \in Partidos : <>[](fila[p].centro = "FINALIZADO_CENTRO") => []<>(p \notin activos)
=============================================================================
