----------------------------- MODULE ColaOffline -----------------------------
(***************************************************************************)
(* What a referee does on the pitch without a signal: the operations wait  *)
(* in IndexedDB, in the order they were made, and a cycle of the banner    *)
(* sends them to the API when the browser says that it is online.  The     *)
(* network loses, delays and repeats; the server may answer an error or    *)
(* ask for a new session; the tab may be closed with the queue half sent.  *)
(***************************************************************************)
EXTENDS Integers, FiniteSets, FiniteSetsExt

CONSTANTS
    Ops,           \* what the referee does in one match, in order: 1, 2, ...
    Tipo,          \* op -> incidencia | certificar-presentes | cerrar-acta
    MAX_RETRIES,
    Vaciados,      \* flushes that may overlap
    MaxFallos,     \* bound on losses, errors, tabs closed, logouts, cuts while sending
    MaxOficina     \* bound on what the office does: closings, reopenings, suspensions...

ASSUME OpsAssumption ==
    /\ IsFiniteSet(Ops) /\ Ops = 1..Cardinality(Ops)
    /\ Tipo \in [Ops -> {"incidencia", "certificar-presentes", "cerrar-acta"}]
    /\ MAX_RETRIES \in Nat \ {0}

VARIABLES
    hechas,        \* operations made so far: 1..hechas
    acusadas,      \* those the referee was told are done, or queued
    enlace,        \* navigator.onLine
    sesion,        \* is the access token of the store still valid?
    cola,          \* IndexedDB: op -> item, for the ops that are queued
    descartadas,   \* ops the user threw away, discarding dead letters or logging out
    vaciado,       \* flush -> what it has left to send, for those that run
    ciclo,         \* the flush of the current effect of the banner, if it runs
    enRed,         \* requests that the server has not received yet
    servidor,      \* the match in the database
    oficina, fallos

vars == <<hechas, acusadas, enlace, sesion, cola, descartadas, vaciado, ciclo, enRed,
          servidor, oficina, fallos>>
usuario == <<hechas, acusadas, descartadas>>
entorno == <<enlace, sesion, oficina>>

Ninguno == 0
Item == [op : Ops, attempts : 0..MAX_RETRIES, espera : BOOLEAN, deadLetter : BOOLEAN]
Respuestas == {"ninguna", "2xx", "400", "401", "409", "5xx", "red"}

Nuevo(op) == [op |-> op, attempts |-> 0, espera |-> FALSE, deadLetter |-> FALSE]

Init ==
    /\ hechas = 0
    /\ acusadas = {}
    /\ enlace \in BOOLEAN
    /\ sesion = TRUE
    /\ cola = <<>>
    /\ descartadas = {}
    /\ vaciado = <<>>
    /\ ciclo = Ninguno
    /\ enRed = {}
    /\ \E c \in BOOLEAN :
           servidor = [filas |-> [op \in Ops |-> 0], certificada |-> c, operable |-> TRUE,
                       cerrada |-> FALSE, cerradaAlgunaVez |-> FALSE, negadas |-> {}]
    /\ oficina = 0
    /\ fallos = 0

Falla == fallos < MaxFallos /\ fallos' = fallos + 1

Con(f, x, v) == [y \in DOMAIN f \cup {x} |-> IF y = x THEN v ELSE f[y]]
Sin(f, x) == [y \in DOMAIN f \ {x} |-> f[y]]

---------------------------------------------------------------------------
(* The server                                                              *)

Incidencias(s) == {op \in Ops : Tipo[op] = "incidencia" /\ s.filas[op] > 0}

\* The score that the referee closes the acta with: the goals loaded until then.
GolesDelActa(op) == Cardinality({i \in 1..(op - 1) : Tipo[i] = "incidencia"})

\* addIncidencia answers the replay of a client key before anything else; the three
\* handlers refuse with a 409 a closed acta and a match that was suspended or marked as
\* not played (assertPartidoEstadoOperable); cerrarActa wants the certification, and the
\* score of the incidents if there are any.
Respuesta(op, s) ==
    IF Tipo[op] = "incidencia" /\ s.filas[op] > 0 THEN "2xx"
    ELSE IF s.cerrada \/ ~s.operable THEN "409"
    ELSE IF /\ Tipo[op] = "cerrar-acta"
            /\ ~s.certificada \/ Cardinality(Incidencias(s)) \notin {0, GolesDelActa(op)}
         THEN "400" ELSE "2xx"

\* Mutant: saveIncidenciaIdempotente that saves whatever is there
MutAplicadaSiempre(op, s) ==
    IF Respuesta(op, s) # "2xx" THEN s ELSE [s EXCEPT !.filas[op] = @ + 1]

\* negadas remembers the closings refused because the match was not operable.
Aplicada(op, s) ==
    IF Respuesta(op, s) = "409" /\ ~s.cerrada /\ Tipo[op] = "cerrar-acta"
    THEN [s EXCEPT !.negadas = @ \cup {op}]
    ELSE IF Respuesta(op, s) # "2xx" \/ (Tipo[op] = "incidencia" /\ s.filas[op] > 0) THEN s
    ELSE [s EXCEPT !.filas[op] = 1,
                   !.certificada = @ \/ Tipo[op] = "certificar-presentes",
                   !.cerrada = @ \/ Tipo[op] = "cerrar-acta",
                   !.cerradaAlgunaVez = @ \/ Tipo[op] = "cerrar-acta"]

\* The answer reaches the flush that waits for it, if it still does.
Contesta(r, codigo) ==
    vaciado' = IF r.vaciado \in DOMAIN vaciado /\ vaciado[r.vaciado].envio = r.op
               THEN [vaciado EXCEPT ![r.vaciado].respuesta = codigo] ELSE vaciado

Servir(r) ==
    /\ enRed' = enRed \ {r}
    /\ IF r.token
       THEN /\ servidor' = Aplicada(r.op, servidor)
            /\ Contesta(r, Respuesta(r.op, servidor))
       ELSE Contesta(r, "401") /\ UNCHANGED servidor
    /\ UNCHANGED <<usuario, entorno, cola, ciclo, fallos>>

\* An error of the server rolls back; a request that gets lost did nothing.
ServidorFalla(r) ==
    /\ Falla
    /\ enRed' = enRed \ {r}
    /\ \E codigo \in {"5xx", "red"} : Contesta(r, codigo)
    /\ UNCHANGED <<usuario, entorno, cola, ciclo, servidor>>

\* The office closes the acta of an operable match, or opens it again to correct it
\* (cerrarActa, declararWalkover; reabrirActa, anularWalkover).
OficinaCambiaActa ==
    /\ oficina < MaxOficina
    /\ servidor.operable
    /\ oficina' = oficina + 1
    /\ servidor' = [servidor EXCEPT !.cerrada = ~@, !.cerradaAlgunaVez = TRUE]
    /\ UNCHANGED <<usuario, enlace, sesion, cola, vaciado, ciclo, enRed, fallos>>

\* It suspends the match, or marks it as not played, while its acta is open; and
\* reactivates it (suspenderPartido, marcarNoJugado, reactivarPartido).
OficinaCambiaEstado ==
    /\ oficina < MaxOficina
    /\ ~servidor.cerrada
    /\ oficina' = oficina + 1
    /\ servidor' = [servidor EXCEPT !.operable = ~@]
    /\ UNCHANGED <<usuario, enlace, sesion, cola, vaciado, ciclo, enRed, fallos>>

---------------------------------------------------------------------------
(* The referee                                                             *)

\* apiFetch without a signal: the operation is queued and the promise resolves.
Encolar(op) ==
    /\ op = hechas + 1 /\ op \in Ops
    /\ ~enlace
    /\ hechas' = op
    /\ acusadas' = acusadas \cup {op}
    /\ cola' = Con(cola, op, Nuevo(op))
    /\ UNCHANGED <<descartadas, entorno, vaciado, ciclo, enRed, servidor, fallos>>

\* apiFetch with a signal: nothing is queued, and an error is shown.
Directo(op) ==
    /\ op = hechas + 1 /\ op \in Ops
    /\ enlace
    /\ hechas' = op
    /\ servidor' = Aplicada(op, servidor)
    /\ acusadas' = IF Respuesta(op, servidor) = "2xx" THEN acusadas \cup {op} ELSE acusadas
    /\ UNCHANGED <<descartadas, entorno, cola, vaciado, ciclo, enRed, fallos>>

\* The same with the request or its answer lost: the referee only sees an error.
DirectoFalla(op) ==
    /\ Falla
    /\ op = hechas + 1 /\ op \in Ops
    /\ hechas' = op
    /\ servidor' \in {servidor, Aplicada(op, servidor)}
    /\ UNCHANGED <<acusadas, descartadas, entorno, cola, vaciado, ciclo, enRed>>

Muertas == {op \in DOMAIN cola : cola[op].deadLetter}

\* clearDeadLetter, once the banner has shown them
Descartar ==
    /\ Muertas # {}
    /\ descartadas' = descartadas \cup Muertas
    /\ cola' = [op \in DOMAIN cola \ Muertas |-> cola[op]]
    /\ UNCHANGED <<hechas, acusadas, entorno, vaciado, ciclo, enRed, servidor, fallos>>

\* useLogout, limpiarDatosLocales: the whole queue goes, but a flush that is under way
\* keeps its copies and may put one back.
Logout ==
    /\ Falla
    /\ cola # <<>>
    /\ descartadas' = descartadas \cup DOMAIN cola
    /\ cola' = <<>>
    /\ sesion' = FALSE
    /\ UNCHANGED <<hechas, acusadas, enlace, oficina, vaciado, ciclo, enRed, servidor>>

---------------------------------------------------------------------------
(* The cycle of the banner and flushQueue                                  *)

Pendientes == DOMAIN cola \ Muertas

\* A change of navigator.onLine makes a new effect, with a flag of its own; the flush
\* of the old one goes on.
CambiarEnlace ==
    /\ enlace' = ~enlace
    /\ ciclo' = Ninguno
    /\ IF vaciado = <<>> THEN UNCHANGED fallos ELSE Falla
    /\ UNCHANGED <<usuario, sesion, oficina, cola, vaciado, enRed, servidor>>

\* cycle: flushQueue reads every item, and the token, at the beginning.
IniciarVaciado(f) ==
    /\ enlace
    /\ ciclo = Ninguno
    /\ f \notin DOMAIN vaciado
    /\ Pendientes # {}
    /\ ciclo' = f
    /\ vaciado' = Con(vaciado, f,
           [items |-> cola, token |-> sesion, envio |-> Ninguno, respuesta |-> "ninguna"])
    /\ UNCHANGED <<usuario, entorno, cola, enRed, servidor, fallos>>

Quedan(f) == DOMAIN vaciado[f].items

\* By enqueuedAt: the oldest of those it has left
Primero(f) == vaciado[f].items[Min(Quedan(f))]

Siguiente(f) ==
    [vaciado EXCEPT ![f].items = Sin(@, Min(Quedan(f))), ![f].envio = Ninguno,
                    ![f].respuesta = "ninguna"]

\* Dead letters and items in backoff are passed over: they do not hold back the later ones.
Saltar(f) ==
    /\ Quedan(f) # {}
    /\ Primero(f).deadLetter \/ Primero(f).espera
    /\ vaciado' = Siguiente(f)
    /\ UNCHANGED <<usuario, entorno, cola, ciclo, enRed, servidor, fallos>>

Enviar(f) ==
    /\ Quedan(f) # {}
    /\ vaciado[f].envio = Ninguno
    /\ ~Primero(f).deadLetter /\ ~Primero(f).espera
    /\ vaciado' = [vaciado EXCEPT ![f].envio = Primero(f).op]
    /\ enRed' = enRed \cup {[op |-> Primero(f).op, vaciado |-> f, token |-> vaciado[f].token]}
    /\ UNCHANGED <<usuario, entorno, cola, ciclo, servidor, fallos>>

\* fetch rejects: the request may still be on its way, and arrive later.
EnvioFalla(f) ==
    /\ vaciado[f].envio # Ninguno
    /\ vaciado[f].respuesta = "ninguna"
    /\ Falla
    /\ vaciado' = [vaciado EXCEPT ![f].respuesta = "red"]
    /\ UNCHANGED <<usuario, entorno, cola, ciclo, enRed, servidor>>

\* The answer of an applied request is lost on its way back.
RespuestaPerdida(f) ==
    /\ vaciado[f].respuesta \in {"2xx", "400", "409"}
    /\ Falla
    /\ vaciado' = [vaciado EXCEPT ![f].respuesta = "red"]
    /\ UNCHANGED <<usuario, entorno, cola, ciclo, enRed, servidor>>

\* updateItem is a put of the copy read at the beginning, whatever the queue holds now.
MarcarDead(item, attempts) ==
    Con(cola, item.op, [item EXCEPT !.attempts = attempts, !.deadLetter = TRUE])

Reintentar(item, attempts) ==
    Con(cola, item.op, [item EXCEPT !.attempts = attempts, !.espera = TRUE])

\* Mutant: every 409 taken for "already applied"
MutColaTrasCualquier409(item, respuesta) ==
    LET attempts == item.attempts + 1
    IN IF respuesta \in {"2xx", "409"} THEN Sin(cola, item.op)
       ELSE IF respuesta = "401" THEN Reintentar(item, item.attempts)
       ELSE IF respuesta = "400" \/ attempts >= MAX_RETRIES THEN MarcarDead(item, attempts)
       ELSE Reintentar(item, attempts)

ColaTras(item, respuesta) ==
    LET attempts == item.attempts + 1
    IN IF respuesta = "2xx" \/ (respuesta = "409" /\ Tipo[item.op] = "cerrar-acta")
       THEN Sin(cola, item.op)
       ELSE IF respuesta = "401" THEN Reintentar(item, item.attempts)
       ELSE IF respuesta \in {"400", "409"} \/ attempts >= MAX_RETRIES
       THEN MarcarDead(item, attempts)
       ELSE Reintentar(item, attempts)

Recibir(f) ==
    /\ vaciado[f].respuesta # "ninguna"
    /\ cola' = ColaTras(Primero(f), vaciado[f].respuesta)
    /\ vaciado' = Siguiente(f)
    /\ UNCHANGED <<usuario, entorno, ciclo, enRed, servidor, fallos>>

\* Mutant: a flush that does not reset the flag when it ends
MutTerminarSinSoltar(f) ==
    /\ Quedan(f) = {}
    /\ vaciado' = Sin(vaciado, f)
    /\ UNCHANGED <<usuario, entorno, cola, ciclo, enRed, servidor, fallos>>

TerminarVaciado(f) ==
    /\ Quedan(f) = {}
    /\ vaciado' = Sin(vaciado, f)
    /\ ciclo' = IF ciclo = f THEN Ninguno ELSE ciclo
    /\ UNCHANGED <<usuario, entorno, cola, enRed, servidor, fallos>>

---------------------------------------------------------------------------
(* Time, session, and the end of a tab                                     *)

VencerEspera(op) ==
    /\ cola[op].espera
    /\ cola' = [cola EXCEPT ![op].espera = FALSE]
    /\ UNCHANGED <<usuario, entorno, vaciado, ciclo, enRed, servidor, fallos>>

\* The access token expires, the captured ones with it.
VencerSesion ==
    /\ Falla
    /\ sesion
    /\ sesion' = FALSE
    /\ vaciado' = [f \in DOMAIN vaciado |-> [vaciado[f] EXCEPT !.token = FALSE]]
    /\ UNCHANGED <<usuario, enlace, oficina, cola, ciclo, enRed, servidor>>

\* refreshTokens, or a login: only the next flush reads it.
RenovarSesion ==
    /\ ~sesion
    /\ enlace
    /\ sesion' = TRUE
    /\ UNCHANGED <<usuario, enlace, oficina, cola, vaciado, ciclo, enRed, servidor, fallos>>

\* The tab closes: the queue survives, the flushes do not; what was sent was sent.
CerrarPestana ==
    /\ Falla
    /\ vaciado' = <<>>
    /\ ciclo' = Ninguno
    /\ UNCHANGED <<usuario, entorno, cola, enRed, servidor>>

---------------------------------------------------------------------------
Avanza(f) ==
    /\ f \in DOMAIN vaciado
    /\ Saltar(f) \/ Enviar(f) \/ Recibir(f) \/ TerminarVaciado(f)

Pierde(f) == f \in DOMAIN vaciado /\ (EnvioFalla(f) \/ RespuestaPerdida(f))

Next ==
    \/ \E op \in Ops : Encolar(op) \/ Directo(op) \/ DirectoFalla(op)
    \/ Descartar \/ Logout \/ OficinaCambiaActa \/ OficinaCambiaEstado
    \/ CambiarEnlace \/ VencerSesion \/ RenovarSesion \/ CerrarPestana
    \/ \E f \in Vaciados : IniciarVaciado(f) \/ Avanza(f) \/ Pierde(f)
    \/ \E r \in enRed : Servir(r) \/ ServidorFalla(r)
    \/ \E op \in DOMAIN cola : VencerEspera(op)

\* The interval fires, requests arrive or get lost, backoffs expire and an app in use
\* renews its session.  Nobody is obliged to have a signal.
Spec ==
    /\ Init /\ [][Next]_vars
    /\ \A f \in Vaciados : WF_vars(Avanza(f))
    /\ WF_vars(\E f \in Vaciados : IniciarVaciado(f))
    /\ WF_vars(\E r \in enRed : Servir(r))
    /\ \A op \in Ops : WF_vars(op \in DOMAIN cola /\ VencerEspera(op))
    /\ WF_vars(RenovarSesion)

---------------------------------------------------------------------------
(* Properties                                                              *)

\* Items, answers and rows keep their types; a flush sends the item it is at.
TypeOK ==
    /\ DOMAIN cola \subseteq 1..hechas
    /\ \A op \in DOMAIN cola : cola[op] \in Item /\ cola[op].op = op
    /\ \A f \in DOMAIN vaciado :
           /\ vaciado[f].respuesta \in Respuestas
           /\ vaciado[f].envio # Ninguno => vaciado[f].envio = Primero(f).op
    /\ ciclo # Ninguno => ciclo \in DOMAIN vaciado

\* However often an incident is sent, and whichever answers are lost, it is in the match
\* once (clientKey, MOV-1).
IncidenciaUnaVez == \A op \in Ops : servidor.filas[op] <= 1

EnElPartido(op) ==
    \/ servidor.filas[op] > 0
    \/ Tipo[op] = "cerrar-acta" /\ servidor.cerradaAlgunaVez

ALaVista(op) == op \in DOMAIN cola \cup descartadas

\* Nothing that the referee was told is saved disappears: it is in the database, in the
\* queue, on view as a dead letter, or was thrown away by the user (MOV-4: "no se pierde
\* silenciosamente").  The exception is what CierreNoSePierde says: a closing refused
\* because the office had suspended the match.
NadaSePierde ==
    \A op \in acusadas : EnElPartido(op) \/ ALaVista(op) \/ op \in servidor.negadas

\* The closing too, as the comment of flushQueue has it ("409 en cerrar-acta: el efecto ya
\* está aplicado").  It does not hold, and no run lists it: the 409 of a suspended match is
\* taken for that of a closed acta.
CierreNoSePierde ==
    \A op \in acusadas : Tipo[op] = "cerrar-acta" => EnElPartido(op) \/ ALaVista(op)

\* With a signal that stays, the queue drains: each item is sent or ends as a dead letter.
ColaDrena == <>[]enlace => <>[](Pendientes = {})
=============================================================================
