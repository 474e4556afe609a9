# Fixtura: a verification project

Fixtura runs amateur football leagues: it draws fixtures, keeps the acta (match
sheet) of every match, disciplines players, charges clubs, pays referees and bills
the leagues that use it. It is a NestJS API over PostgreSQL (`apps/api`), a Next.js
front end that works offline on the pitch (`apps/web`), and pure rules shared by
both (`packages/domain`).

This directory holds TLA+ modules of its core, the configurations that model-check
them, and proofs, for any number of matches, requests and rows, of the invariants that
discipline, charges, payments, sessions, the offline queue, the assignment of referees
and the closing of matchdays rest on.

1. [How the code executes](#1-how-the-code-executes)
2. [Inventory](#2-inventory)
3. [Modules and how they correspond to the code](#3-modules-and-how-they-correspond-to-the-code)
4. [What each run shows](#4-what-each-run-shows)
5. [What is proved](#5-what-is-proved)
6. [Where code and documentation disagree](#6-where-code-and-documentation-disagree)
7. [Abstractions, and what is not modelled](#7-abstractions-and-what-is-not-modelled)
8. [Plan](#8-plan)

Paths are relative to the repository; `PROJECT.json` gives, for every definition,
the lines it models, and for every property a *mutant*: a plausible bug in one of
those definitions that makes TLC refute it in the same run.

## 1. How the code executes

The models rest on these facts of the code.

- **One request, one transaction.** `TenantContextInterceptor` opens one READ
  COMMITTED transaction per HTTP request, sets the tenant for row level security,
  commits when the handler returns and rolls back when it throws. Services called
  by a handler join it (`@Transactional`). Every `save` of a request that ends in
  an exception is undone, also those meant as a note of the failure.
- **Best effort is a savepoint.** `bestEffort(...)` runs its callback in a SAVEPOINT
  and swallows the error: fines, designations and single cuotas may fail without
  the acta or the batch.
- **Crons and system work** open transactions of their own (`runConTenant`,
  `runComoSistema`, `runForEachTenant`).
- **`repo.save(entity)` is two statements**: a SELECT that compares the entity in
  memory with the row, and an UPDATE of the columns that differ. A column that was
  read long ago and not changed is written back when somebody else changed it; a
  row that was deleted meanwhile is inserted again.
- **Few rows are locked on reading.** `cerrarActa` locks its match,
  `evaluarCierreDeFecha` and `revertirCierreDeFecha` lock their matchday,
  `suspenderFecha` locks the matches of its matchday. Everything else reads without
  a lock and decides on what it read; some writes carry their guard in the WHERE
  (rotation of a refresh token, payment of an attendance, claim of a tax document).

So a request is one atomic action where nothing it reads can change under it in a way
the module is about, and otherwise is told in steps: what it reads, and what it
writes when it commits. The state of the request in flight (`peticion`, `pedido`,
`tx`) holds what it read.

## 2. Inventory

Groups of components; `PROJECT.json` lists all of them with their sources and status.

| Component | State | Operations | What makes it correct | Module |
|---|---|---|---|---|
| Partidos y actas | `partidos`, `incidencias_partido` | load, reassign and remove incidents, certify players, close and reopen the acta, suspend, not played, reschedule, walkover, move | an acta is closed exactly when the result counts; what was played is not touched; the score is the count of the goals | `Torneo`, `CierreConcurrente` |
| Fechas | `fechas` | suspend with four strategies, reactivate; closed and reopened by their matches | a complete matchday is closed, a closed one has nothing pending; nothing is forgotten in a suspended one | `Torneo`, `CierreConcurrente` |
| Sanciones y ledger | `sanciones_activas`, `sancion_cumplimientos` | emitted and reconciled by the closing of an acta, discounted by the closing of a matchday, given back by its reopening | ADR-0015: the ledger explains the balance | `Torneo`, `LibroMayor` |
| Tribunal, vetados, suspensión de equipos | manual suspensions, blacklist, state of the inscription | create, adjust, revoke; suspend and reactivate a team | a revoked suspension does not revive; what a batch completes is closed | `Torneo` |
| Match Center and its gateway | stopwatch and score in `partidos`; `partidosActivos` and subscriptions in memory | start, pause, periods, goals; tick, broadcast, subscribe, poll | a period ends; every screen ends up showing the match as it is | `MatchCenter` |
| Offline queue | IndexedDB of the browser; `clientKey` of the rows | enqueue, flush, backoff, dead letters, log out | each incident once; nothing acknowledged is lost; the queue drains | `ColaOffline` |
| Pagos en línea, cobros | `transacciones`, `cobros` | start a payment, return and webhook, expiry; edit, pay, revert and remove a charge by hand | what is approved is credited, and only that; final states are final | `Pagos` |
| Documentos SII | `documentos_tributarios` | create, claim, emit, retry by hand and by a cron | the provider is not asked twice without cause; every document ends | `Sii` |
| Tarifas, multas y cuotas; inscripciones | `tarifas_torneo`, `cobros`, `inscripciones_torneo` | charges of the start, monthly cron, fines at each closing and their regeneration | nothing is charged twice, nor what was paid or cancelled again | `Tarifas` |
| Sesiones, magic link of the password | `refresh_tokens`, `magic_links` | login, refresh with rotation, switch of league, log out, reset | one successor per token, a replay revokes the family | `Sesiones` |
| Facturación de la plataforma, state of the leagues | `facturas_plataforma`, their transactions, `tenants` | monthly bills, payment online and by hand, annulment, arrears, suspension, reactivation | an approved payment is not owed; who owes is cut off | `FacturacionPlataforma` |
| Designaciones, pagos al personal | `designaciones`, `liquidaciones_personal`, `nominas_pago` | assign by hand and greedily, answer, edit, remove; liquidate, payroll, revert | an attendance is paid once; nobody is in two places | `Designaciones` |
| Fixture | `fechas`, `partidos` | rounds, swaps of home and away, groups, calendar | everybody meets everybody, once per round | `Fixture` |
| Playoffs | `llaves_playoff` | draw, seed, synchronise with the results, set a winner by hand, clear | the bracket follows the results | `Playoffs` |
| Reglas (`packages/domain`) | none | when a match is resolved, a matchday complete, a suspension in force or earned | against their documentation | `Dominio` |

They interact in three ways. By calls within one transaction: closing an acta emits
suspensions, marks designations as attended, fines cards and evaluates the matchday,
which discounts suspensions, which decide who may be certified elsewhere; an approved
payment settles its charge. By work left for after the commit: an approved payment
orders a tax document, a goal orders a broadcast. And by shared rows: the office edits
the charge that a payment is about to settle, a referee answers for the designation
that an acta is about to close.

| Hard behaviour | Where |
|---|---|
| two requests that decide on what both read | `CierreConcurrente`, `Pagos`, `Designaciones`, `Tarifas`, `FacturacionPlataforma`, `Sesiones`, `Playoffs` |
| state read, then overwritten late | `CierreConcurrente` (score), `MatchCenter` (tick), `Pagos` (charge), `Designaciones` (answer) |
| lost answers, retries, duplicates | `ColaOffline`, `Sii`, `Sesiones` |
| crash and restart | `MatchCenter` (memory of the gateway), `ColaOffline` (closed tab), `Sii` |
| circular waits | `CierreConcurrente` |
| long sequences of legal calls | `Torneo`, `Tarifas`, `Playoffs` |

Access control per request (RLS, guards, roles) is not modelled: every model looks at
one league from inside its tenant.

## 3. Modules and how they correspond to the code

```
Dominio                      pure rules of packages/domain/src
  |-- Torneo                 every handler of the competition, one atomic action each
  |     `-- TorneoMayor      the refinement mapping Torneo -> LibroMayor
  |           |-- MCTorneo
  |           `-- TorneoProofs     invariant, theorems of the handlers, the refinement
  `-- CierreConcurrente      the handlers that resolve matches, statement by statement
        |-- MCCierreConcurrente
        `-- CierreConcurrenteProofs
LibroMayor                   the book of accounts ADR-0015 promises (abstract)
MatchCenter           -- MCMatchCenter
ColaOffline           -- MCColaOffline, ColaOfflineProofs
Sii -- Pagos          -- MCPagos, PagosProofs     (Pagos EXTENDS Sii: an approval orders
                                                   a document)
Tarifas               -- MCTarifas, TarifasProofs
Sesiones              -- MCSesiones, SesionesProofs
FacturacionPlataforma -- MCFacturacion, FacturacionProofs
Designaciones         -- MCDesignaciones, DesignacionesProofs
Fixture -- Playoffs -- MCPlayoffs   (a bracket starts from a fixture)
```

Common conventions. `Nada` (or `Nadie`) is NULL. A step of a request that fails is an
action of its own (`Abortar`, `...Falla`) that leaves nothing written. `eventos`,
`fallos`, `pedidos` and `MaxEventos`, `MaxFallos`, `MaxPedidos` bound how many things
the environment does: they are in guards, never in what the code does. Variables called
*history* in a module's header record what happened for a property to speak of it; no
guard of the code reads them.

### Dominio

`EstadosResueltos`, `FechaCompleta`, `SancionVigente`, `MotivosGanados`: the rules
that say when a match no longer waits, when a matchday is complete, when a
suspension is in force and which ones the cards of a match earn.

### Torneo

The state of one ACTIVE tournament. Each handler is one action, because it is one
transaction; its guards are the `throw`s of the code, and its effect includes every
cascade the code runs before returning.

| Variable | In the database |
|---|---|
| `partido` | rows of `partidos`: state, acta closed or not, matchday, teams, certification |
| `fecha` | rows of `fechas`: state, number, type, the matchday it replaces |
| `tarjetas` | the card rows of `incidencias_partido` |
| `sancion` | rows of `sanciones_activas`: pending, total, first matchday, served, revoked; `ajustada` records that the tribunal has edited it |
| `libro` | rows of `sancion_cumplimientos`: which matchday discounted which suspension |
| `inscripcion` | state of the inscriptions |
| `vetados` | RUTs on the blacklist |
| `lote` | the bulk suspension of a team that is running |

| Actions | Handler |
|---|---|
| `CambiarEstado` | `update` with a state, and `arrancar` of the Match Center |
| `MoverPartido` | `update` with another matchday: evaluates the one it leaves, reopens the one it reaches |
| `AddIncidencia`, `RemoveIncidencia`, `AtribuirJugadorIncidencia` | the same names |
| `CertificarPresentes` | the same name, with the check of suspended and vetoed players |
| `CerrarActa` | `cerrarActa`: `AplicarSanciones` (emission and reconciliation), then `Evaluar` |
| `ReabrirActa`, `SuspenderPartido`, `MarcarNoJugado`, `ReprogramarPartido`, `DeclararWalkover`, `AnularWalkover`, `ReactivarPartido` | the same names, each with its `Evaluar` or `Revertir` |
| `SuspenderFechaManual`, `SuspenderFechaConBis`, `SuspenderFechaReusando`, `ReactivarFecha` | `suspenderFecha` by strategy (`AL_FINAL` and `TRASNOCHE_DOMINO` create the "bis"), `reactivarFecha` |
| `TribunalCreate`, `TribunalAjustar`, `TribunalRevoke` | `create`, `ajustar`, `revoke` |
| `SuspenderEquipo`, `LoteWalkover`, `LoteCancela`, `LoteEvalua`, `LoteTermina`, `ReactivarEquipo` | `suspender` and `reactivar` of a team |

`Evaluar` is `evaluarCierreDeFecha` with `decrementarSancionesPendientes`; `Revertir` is
`revertirCierreDeFecha` with `revertirDecrementoSanciones`. Both take and return a
*discipline state* (the tables `fechas`, `sanciones_activas` and
`sancion_cumplimientos`), so a handler that does two of them composes them in
order, and a proof about each helper serves every handler.

The bulk suspension is one transaction too, but it walks the matches in whatever
order the query returns them, so it is told in steps; `Atiende` keeps the other
requests out until it ends, and `CompletarCierra` excuses only the matchdays it
still has to evaluate (`porEvaluar`).

### LibroMayor and TorneoMayor

`LibroMayor` is what ADR-0015 promises and nothing else. A suspension has an account:
what was imposed, the balance, the entries (matchdays that discounted it). Closing a
matchday writes entries and takes one from each account it writes on; reopening it
strikes exactly those entries out and gives one back to each; nothing else moves an
account that stays open. `TorneoMayor` maps `Torneo` to it: the account of a suspension
is its row until the tribunal adjusts or revokes it, and a matchday is closed when it is
FINALIZADA. `ImplementaLibroMayor` is the property that every step of `Torneo` (which may
close one matchday, reopen another and impose suspensions at once) is a movement of the
book or leaves it alone.

### CierreConcurrente

The handlers that resolve matches, opened up to statements, for up to three requests.

| Variable | Meaning |
|---|---|
| `base`, `actual` | the committed version of each row, and its latest one |
| `incidencias` | goals and red cards, each with the request that inserted it |
| `candados` | the row locks held, with their mode (`FOR UPDATE`, `UPDATE`, `FOR KEY SHARE`) |
| `tx` | per request: what it asks for, the statement it is at, the copy of the match it read, the columns it will write, the matchdays it still has to work on |

`CerrarActa` (locked read) and `LeerPartido` (unlocked) decide what each handler does. A
closing brings the score it will store: when goals are loaded it must be their number, when
none is it is stored as it comes.
`InsertarIncidencia`, `ContarGoles`, `CompararCopia`, `EscribirCopia` and `ClaveFecha` are
`addIncidencia`, `recomputarMarcador` and `save`, with the locks that foreign keys take;
`EvaluarCierre` and `RevertirCierre` lock the matchday before they read its matches;
`LeerFecha`, `ReservarPartido`, `MarcarFecha` and `ArrastrarPartidos` are `suspenderFecha`
with the strategy MANUAL. `Confirmar` publishes a request's rows; `Abortar` stands for
any error, at any statement. What a closed matchday discounts is left to `Torneo`.

**Fairness.** `Avanza(t)` is weakly fair for each request: PostgreSQL executes a statement
whose locks are free. Aborts are never obliged, so `TodasTerminan` does not hold by giving
up. `Torneo`, `Tarifas`, `Sesiones`, `Designaciones` and `Playoffs` assume no fairness: they
are checked for safety only.

### MatchCenter

The stopwatch and the score of a match live in its row; a panel changes them by REST, a
tick of the gateway pauses the period that is over, and screens follow by websocket
or, failing that, by polling.

| Variable | Meaning |
|---|---|
| `hora` | the clock, in units of the time a period lasts; it moves only with no request in flight |
| `fila`, `goles` | the row: state of the center, period, accumulated time, start (told by `hora` and a request number, which keeps two starts apart); the `clientKey`s of its goals |
| `pedido`, `pedidos` | the request of each panel: the copy it read and the columns it will write |
| `vivo`, `siembra`, `activos` | is the server up, is `seedPartidosActivos` still to run, `partidosActivos` |
| `barrido` | the tick: how far `verificarYAutoPausar` got with each match, and the copy it read |
| `socket` | each screen: connection, room, and whether it shows the match as it is |

`Arrancar`, `Pausar`, `Reanudar`, `SumarGol`, `QuitarGol`, `AjustarGoles`, `SiguientePeriodo`,
`AjustarTiempoAgregado` and `FinalizarCentro` are the endpoints; `CompararPedido` and
`EscribirPedido` are the two statements of their `save`, `TickLeer` to `TickEntregar` those
of the tick and its broadcast. `Suscribir` puts the match in `activos`; `Consultar` and
`RecibirConsulta` are the polling that `useMatchCenter` falls back to. `Caer` empties the
memory of the gateway, `Levantar` and `Sembrar` are the boot.

**Fairness.** Requests under way are served, the tick runs every second, a server that
died is started again and seeds itself, the clock advances, a screen reconnects, subscribes
and polls (timers of the hook). Nobody is obliged to press a button or to fail.

### ColaOffline

What a referee does with and without a signal. `Encolar` and `Directo` are the two ways an
operation starts (`navigator.onLine`); `IniciarVaciado`, `Enviar`, `Recibir`, `Saltar` and
`TerminarVaciado` are the cycle of the banner over `flushQueue`, item by item over the copy
of the queue it read (`items`), with backoff (`VencerEspera`), dead letters after `MAX_RETRIES`, and the flag of the cycle.
A request may be lost before the server, its answer after it (`EnvioFalla`,
`RespuestaPerdida`), or stay in the network after the browser gave up on it: `enRed` is a
set and `Servir` takes from it in any order. The server answers as the endpoints do:
an incident whose `clientKey` is stored is answered again, one for a closed acta is a
409, an acta that is closed already is a 409, and so is anything for a match that was suspended
or marked as not played (`assertPartidoEstadoOperable`). The queue takes the 409 of a closing
as "already applied" whatever its reason. `OficinaCambiaActa` is the office that closes and
reopens the acta meanwhile, `OficinaCambiaEstado` the one that suspends or calls off the match
and reactivates it; `negadas` (history) are the closings refused for that.

**Fairness.** The interval of the banner fires, a flush goes on, what is in the network
arrives or is lost, a backoff runs out, a session is renewed. Nobody is obliged to have a
signal: `ColaDrena` speaks of behaviours in which it stays.

### Sii and Pagos

`Sii` is "store first, emit later": `CrearDocumento` after the commit of a payment,
`PrimerIntento`, `ReintentarAMano` and `CronSii`/`CronEmite` that claim it with a conditional
UPDATE (`Reclamable`), `ProveedorEmite`, `ProveedorRechaza` or `RespuestaSiiPerdida` with no
transaction open, `PersistirResultado` or `PersistirFalla`. `CaeSii` is a crash: what was
claimed stays claimed until it is old enough (`Envejecer`). `boletas` is what the
provider really issued (external), `sinConstancia` how many of them the database never
heard of.

`Pagos` EXTENDS it. `IniciarPago`, `OrdenCreada` and `OrdenFalla` start a payment; `Pagar` is
the customer at the gateway (external); `LeerTransaccion` is the start of `confirmar`, called by
the webhook and by the browser that returns, which locks the transaction;
`NoAcredita`, `Aprobar` and `Acreditar` end it, `ConfirmarFalla` rolls it back; `Expirar` is
the half hour. The office reads a charge (`LeerCobro`) and saves all of it later
(`GuardarCobro`). `PasanDias` and `RecalcularEstados` move its arrears.

**Fairness** (`FairSii`): the cron runs, what it lists is tried, an attempt under way goes
on, and a claim grows old. Nobody is obliged to pay.

### Tarifas

What a tournament charges its teams. A charge is told by what it is for (`Matricula`,
`Cuota`, `Multa`), and `cobros` counts how many there are of each in each state.

| Variable | In the database |
|---|---|
| `torneo`, `insc`, `tarifa` | state of the tournament; inscriptions; tariffs: none, active, inactive, or of the old kind that charges month by month |
| `hoy` | half months: in the second half of a month the day of payment has passed |
| `partido`, `tarjetas` | the match of the fines: open, FINALIZADO or WALKOVER, and its cards |
| `cobros` | rows of `cobros` |
| `peticion` | what a request read: what it will delete and create |
| `mayor`, `cruces` | history: most cards an acta closed with; matches that two requests fined at once, cuotas cancelled while a request was about to make them |

`Activar`, `GenerarCobros` and `CuotasCron` read what is missing (`Faltan`) and
`EscribirCobros` writes it when they commit, each cuota in its savepoint and under the
unique index `uq_cobro_cuota_periodo` (`Repetida`); a matricula has neither.
`CerrarActa`, `DeclararWalkover` and `ReabrirOAnular` throw away the pending fines of the match
and make them again, less those that were settled (`Saldadas`); `RegenerarMultas` and
`EscribirMultas` are the button that does it without a lock. `CambiarCobro` and
`EliminarCobro` are the office. `PedirInscripcion` counts the quota and `Inscribir` inserts.

### Sesiones

The rows of `refresh_tokens` of one user, the cookie each browser shares among its tabs,
and the access token of each tab. `Entrar`, `Refrescar`, `CambiarLiga`, `Salir` and the
reset (`PedirEnlace`, `AbrirEnlace`, `Consumir`, `Restablecer`) are requests: `Buscar` finds the row,
`Rotar` is the conditional UPDATE, `EmitirPar` the insert, and `Delatar` the revocation of
every session in a transaction of its own, because the request will end in a 401. The
answer comes (`Recibir`, `RecibirNegada`) or is lost (`Perder`). The single flight of
`refreshTokens` in the client is the guard of `Refrescar`. History: `revocadas`,
`alarma`, `solo`.

### FacturacionPlataforma

One league, its monthly bills and their transactions. `GenerarFacturasMes` is the cron of
the first of the month; `IniciarPagoWebpay`, `CrearTransaccion`, `RetornoWebpay` and
`ConfirmarTransaccion` are a payment online, `AManoOAnular` and `Guardar` the office;
`Confirmar` is the commit of each. `MarcarVencidas`, `Suspender` and `ConfirmarMora` are
`procesarMora`, one transaction per league, which `MoraFalla` may roll back.

**Fairness.** The daily run goes on, and a request under way is served.

### Designaciones

The referees of one matchday. `Asignar` reads (free, no overlap) and `Insertar` writes;
`Editar` reads a row and `Guardar` saves it, or `Quitar` deletes it; `AutoAsignar` computes
`Plan` (roles in order, matches by hour, the least loaded of the `Disponibles`) and inserts it;
with `sobreescribir` it deletes the posts it starts from, also when nobody replaces them. Only
the posts of matches still to be played count for hours and slots (`Vigentes`); the load
counts all. `Deficit` is `analizarCobertura`. `CerrarActa` marks who attended. `Liquidar` and `EmitirNomina`
read what is payable and `Pagar` takes it with an UPDATE that asks again (`Toma`);
`EliminarLiquidacion` and `EliminarNomina` revert. `pisada` (history) are the rows whose
link to a living payment a late save or the removal of the row erased. A row that a payment
or a request still remembers does not lend its id to another (`SinUsar`, `Recordada`): ids
are random.

### Fixture and Playoffs

`Fixture` has no state: `Berger` (circle method), `Ajustado` (up to five passes of swaps of
home and away), `Reparto` and `PorGrupos`, `Calendario` (days that cannot be played), and
`OrdenSiembra`, the first round of a bracket. `Playoffs` generates with it (`Generar`), plays the
regular phase at once (`JugarFaseRegular`), seeds a bracket (`Sortear`), and then lets results
arrive in any order and be corrected (`CerrarActa`, `ReabrirActa`), matchdays be suspended
(`CambiaFecha`), winners be set by hand (`DefinirGanador`) and the bracket be cleared
(`Limpiar`). `LeerLlaves`, `LeerPartidos` and `Escribir` are `sincronizar` and `sembrar`: what they
decide (`Resueltas`, `Faltantes`) comes from the keys read first and the matches read later. A
team of the bracket is its seed.

## 4. What each run shows

Eleven runs pass and exhaust their instance; the last one refutes a claim (section 6).

| Run | Instance | Distinct states | Shows |
|---|---|---|---|
| `torneo_cierre` | 2 matchdays with a match each, 1 player, double yellows, threshold 1, either team suspendable, 1 resolution | 212,580 | `LibroSoloDeFinalizadas` (only closed matchdays discount), `TarjetasRespaldanSanciones` (cards and suspensions of a closed acta agree), `CompletarCierra` (what resolves the last pending match closes the matchday, a bulk suspension included) |
| `torneo_calendario` | 2 matchdays and a spare one for clones, the four strategies, moves, one resolution of two matchdays | 410,396 | `SaldoCoherente`, `LibroExacto` (the ledger explains the balance), `SoloCumpleQuienJugo`, `PendienteReabreLaFecha`, `ActaCerradaNoSeToca`, `ImplementaLibroMayor` |
| `concurrente` | three requests over three matches and two matchdays, in four scenarios | 395,363 | no write skew (`FechaCompletaSeCierra`, `FinalizadaSinPendientes`, `SuspendidaSinAbiertos`), `MarcadorDelActa` (a closed acta has the number of its goals), `TodasTerminan` (no circular wait) |
| `match_center` | 1 match, 1 panel, 1 screen, periods of one unit, 2 units of time, 2 requests, 1 fault | 397,025 | `EnVivoTieneReloj`, `VencidoSePausa`, `PantallaAlDia` |
| `cola_offline` | an incident, the certification and the closing of an acta, 2 flushes, 2 retries, 2 faults, 1 change of the office | 1,370,776 | `IncidenciaUnaVez`, `NadaSePierde`, `ColaDrena` |
| `pagos` | 1 charge, 2 transactions, 2 requests, 2 attempts per document, 2 faults of the provider | 380,385 | `PagoRespaldado`, `AprobadaPagaSuCobro`, `EmisionUnica`, `EstadoFinalFirme`, `DocumentoTermina` |
| `sesiones` | 2 browsers (one with two tabs), 4 tokens, 2 requests | 889,031 | `UnDescendiente`, `RevocadasMuertas`, `SinFalsaAlarma` |
| `facturacion` | 2 months, 2 transactions, 2 requests | 926,952 | `AprobadaNoSeDebe`, `MorosaSeSuspende` |
| `designaciones` | 2 matches, 2 people, 2 roles, 3 rows, 2 liquidations, 1 payroll, 2 requests | 246,316 | `UnSoloPagoPorFila`, `EnlaceVivo`, `PlanSinChoques`, `DeficitReal` |
| `playoffs` | 13 tournaments: round robins of 4 to 8 in one or two rounds, drawn groups, brackets of 2 to 5, home and away, third place; 2 requests | 257,521 | `TodosContraTodos`, `SiembraJusta`, `CadaUnoPorSuCamino`, `SincronizarIdempotente` |
| `tarifas` | 2 teams, 1 match, cards of two players, one of them loaded twice; a tournament to be started; one that charges month by month; 2 requests | 268,522 | `MultasAcotadas`, `UnaCuotaPorPeriodo` |
| `tarifas_cuotas` | the tournament to be started | violation | `CuotasPactadas` (section 6) |

### What the properties say, and when they hold

- **Discipline.** `LibroExacto` and `SaldoCoherente` say that pending plus discounted is
  the total, under adjustments, revocations and any order of closings and reopenings;
  `ImplementaLibroMayor` says the same of every *step*. That a matchday closes with its
  last match is what moves, the bulk suspension and concurrent requests could break: in
  `Torneo` it is told of the step that completes it (`CompletarCierra`), because a
  complete matchday may be open for other reasons (section 6); in `CierreConcurrente`, of
  every committed state (`FechaCompletaSeCierra`). Neither `LibroExacto` nor any other row by
  row property sees one number served twice (`NumeroDescontadoUnaVez`, section 6).
- **The score.** Two goals of one match that cross leave a score of one, because neither counts
  the other; `MarcadorDelActa` says that the damage ends there: the score never counts goals
  that do not exist, and a closing compares it with the goals it finds, under a lock that keeps
  new ones out, so a closed acta that has goals has their number. An acta closed with no goal
  loaded keeps the score it was closed with, and nothing is said of it.
- **Suspended matchdays.** `SuspendidaSinAbiertos` tells a match that was forgotten, not one
  that was resolved and dragged back to suspended; that is `ActaCerradaNoSeToca`.
- **Match Center.** `VencidoSePausa` is liveness under the condition that the tick looks
  after the match again and again, which a subscribed screen or a restart ensures;
  without it see section 6. `EnVivoTieneReloj` would not tell a goal or an end that a stale tick
  overwrites, only a live match left without a stopwatch. `PantallaAlDia` needs the panel to be left alone: requests
  are bounded, so they end.
- **Offline queue.** `IncidenciaUnaVez` rests on `clientKey` alone: the same request may be in
  the network twice. `NadaSePierde` excepts what the user threw away, and a closing that the
  server refused because the match was suspended (`CierreNoSePierde`, section 6).
- **Payments.** `PagoRespaldado` holds against everything the office does: no payment without
  money behind it. That a payment is not lost to a stale save it does not say.
  `AprobadaPagaSuCobro` excepts the charges an office request read in order to write
  (`tocado`). `EmisionUnica` allows one document more for each emission whose answer was
  never stored: the provider gets no idempotency key.
- **Charges.** `MultasAcotadas` bounds the fines of a match, settled or not, by the cards an
  acta really closed with, and excepts the matches that two requests fined at once.
  `UnaCuotaPorPeriodo` has no exception for what is owed or paid; a cuota that was cancelled
  may come back only if it was cancelled while a generation was under way.
- **Sessions.** `SinFalsaAlarma` excepts a browser that does two things at once or lost an
  answer: then a rotated token really comes back.
- **Staff.** `UnSoloPagoPorFila` excepts the rows whose link a late save or a removal
  erased (`pisada`, section 6). `PlanSinChoques` and `DeficitReal` speak of the matches still to
  be played: the assignment does not see the hours of one whose acta is closed
  (`PlanRespetaElMargen`, section 6).
- **Playoffs.** `TodosContraTodos` and `SiembraJusta` are the reference definitions that the
  round robin and the seeding are compared with, for every size in the instance.
  `SincronizarIdempotente` is evaluated on every reachable bracket, also on those that
  corrections and manual winners left, while each tie has one match (`UnPartidoPorCruce`).

### Bounds

Two matchdays are the least that tell "this matchday", "a later closed one" and "the one a
suspension starts at" apart; the third row exists only as the bis. One match per matchday
lets every completion, reopening and loss of completeness happen in `Torneo`; two matches
that complete one matchday are the subject of `CierreConcurrente`. Threshold 1 with double
yellows, a resolution of two matchdays, and the adjustment to nothing are the smallest
values that leave every branch reachable; the two runs together fire every action.

Three requests in `CierreConcurrente` are enough for two to race over a matchday while
the third undoes or repeats one of them, or for two goals to cross a closing of their match;
matches start in every combination of the states
listed, in every distribution over the matchdays, and every request may fail anywhere.
The scenarios leave out the pairs whose meeting goes wrong (section 6).

Elsewhere two requests at a time are what the hazards need: each is a decision of one
against a write of the other. The event budgets let the longest of the known windows
happen: two payments of one charge with an office edit between read and write (4
events), a login, a refresh that is rotated under another, and a reset (6), an attendance
that is closed, paid, answered late and paid again (4). In `match_center` the run
has one panel beside the tick, because two panels break `EnVivoTieneReloj` (section 6);
2 units of time let a period start, run out and be paused, with a restart between. In
`tarifas` the months span two due dates, and `SinCruces` cuts the behaviours once two
requests have fined the same match, of which nothing is claimed; the two requests
are interchangeable (symmetry), and only invariants are checked.

Deadlock is checked in every run that leaves it meaningful. `pagos`, `sesiones`,
`designaciones`, `playoffs` and `tarifas` turn it off: they end where the budget of the
environment does and every request has been served, and there the system is simply idle.
`torneo_*`, `concurrente`, `match_center`, `cola_offline` and `facturacion` never stop.

## 5. What is proved

Eight modules hold theorems, checked by TLAPS down to the last leaf. A theorem is about
every value of the constants that the assumptions admit: any fixture, any number of
matches, teams, players, requests, tokens, months, rows, retries and faults. The
assumptions are types and what the code takes for granted: matchday numbers are positive,
matches lie in existing matchdays, matchdays (or queued operations, or months, or
requests in flight) are finitely many, NULL is none of the rows; in `Designaciones`, that
matches are numbered in the order of their hours.

| Module | Theorem | States |
|---|---|---|
| `TorneoProofs` | `TiposCorrectos`, `ActasCoherentes` | `[]TypeOK`, `[]ActaCoherente` |
| | `SaldosCoherentes`, `LibroCoherente`, `LibroExplicaElSaldo` | `[]SaldoCoherente`, `[]LibroSoloDeFinalizadas`, `[]LibroExacto` |
| | `ActaCerradaIntacta` | `ActaCerradaNoSeToca` (action property) |
| | `LoPendienteReabre`, `LoCompletoSeCierra` | `PendienteReabreLaFecha`, `CompletarCierra` (action properties) |
| | `ImplementaElLibro` | `Spec => Mayor!Spec`: `Torneo` implements `LibroMayor` |
| | `ElLibroCuadra` | `Mayor!Spec => []Mayor!Cuadra`: what implements the book balances |
| | `CumpleQuienJugo`, `LoRevocadoNoRevive` | `SoloCumpleQuienJugo`, `RevocadaNoRevive` (action properties) |
| | `ActaRespaldaSanciones` | `[]TarjetasRespaldanSanciones` |
| `CierreConcurrenteProofs` | `TiposConcurrentes` | `[]TypeOK` |
| | `CierreUnico` | `UnSoloCierre` (action property) |
| | `NingunaQuedaAbierta`, `SuspendidaEntera` | `[]FechaCompletaSeCierra`, `[]SuspendidaSinAbiertos`, for requests that resolve matches or suspend matchdays (`SoloResuelven`) |
| | `CerradaEntera` | `[]FinalizadaSinPendientes`, also while matches are reopened and moved (`ReabrenUna`) |
| | `ElActaCuentaLosGoles` | `[]MarcadorDelActa`, for goals, cards, closings and suspended matchdays (`SoloCargan`) |
| `PagosProofs` | `TiposDePagos` | types of `Pagos` and `Sii` |
| | `UnaBoletaPorConstancia`, `TodoPagoRespaldado`, `AprobadaPaga` | `[]EmisionUnica`, `[]PagoRespaldado`, `[]AprobadaPagaSuCobro` |
| | `LoDecididoEsFirme` | `EstadoFinalFirme` (action property) |
| `SesionesProofs` | `TiposDeSesiones` | `[]TypeOK` |
| | `TokenDeUnUso`, `NingunaRevocadaVive`, `TurnosSinFalsaAlarma`, `EnlaceDeUnUso` | `[]UnDescendiente`, `[]RevocadasMuertas`, `[]SinFalsaAlarma`, `[]ClaveUnaVez` |
| `ColaOfflineProofs` | `TiposDeLaCola` | `[]TypeOK` |
| | `IncidenciaSinDuplicar`, `LoAcusadoSeConserva` | `[]IncidenciaUnaVez`, `[]NadaSePierde` |
| `FacturacionProofs` | `TiposDeFacturacion`, `LoAprobadoNoSeDebe` | `[]TypeOK`, `[]AprobadaNoSeDebe` |
| `TarifasProofs` | `TiposDeTarifas` | `[]TypeOK` |
| | `UnaMultaPorTarjeta`, `UnaCuotaPorMes` | `[]MultasAcotadas`, `[]UnaCuotaPorPeriodo` |
| `DesignacionesProofs` | `TiposDeDesignaciones` | `[]TypeOK` |
| | `UnPagoPorAsistencia`, `EnlaceDePago` | `[]UnSoloPagoPorFila`, `[]EnlaceVivo` |
| | `ElPlanNoChoca`, `ElDeficitEsReal` | `[]PlanSinChoques`, `[]DeficitReal` |

### Discipline

The inductive invariant of `Torneo` is
`IInv == PartidosBien(partido) /\ Contable(Disciplina) /\ Resto`. None of the accounting
invariants is inductive alone: giving a matchday back adds one pending to each suspension
in the ledger, and only `LibroExacto` says that it fits under the total; `LibroExacto`
needs `LibroSoloDeFinalizadas` so that closing an open matchday adds rows the ledger did
not have and deleting a suspension leaves no rows behind; a balance and its flags must
agree for a suspension in force to have something to lose. `Contable(t)` joins them as a
predicate of *any* discipline state `t`, current or halfway through a handler. One lemma
per helper says that it keeps `Contable` (`FinalizarContable`, `ReabrirContable`,
`AplicarContable`, and their guarded forms `EvaluarContable`, `RevertirContable`), with
the counting of ledger rows done once in the first two; `PartidosBien` adds that every
match in use has a matchday, which the helpers need to be applied to. Then one lemma per
group of actions composes them. The action properties follow from the same invariant and
from lemmas that say what each helper does to one matchday.

The refinement maps each step of `Torneo` to a movement of the book. Every handler is a
composition of helpers, so the lemmas are about helpers again: closing writes entries and
takes one from each account it writes on, reopening strikes out exactly those, an emission
opens accounts that did not exist. A handler that closes one matchday and reopens another
is one movement because the two matchdays differ. `ElLibroCuadra` then needs the rules of the
book alone. `ActaRespaldaSanciones` has an invariant of
its own on top: which automatic suspensions the cards of a closed acta earn, kept by the
reconciliation of `cerrarActa` and by everything that touches a suspension or a card later.

### The closing of matchdays under concurrency

`TiposConcurrentes` and `CierreUnico` hold whatever the requests ask for. Their
invariant (`IInv`) is the discipline of locks: no two requests hold conflicting locks
(`Excluyen`), a row that nobody is changing is as it was committed (`SinDueno`), and who is
closing an acta has the match and found it open (`Cerrando`). Each statement is told once
as what it may do to the rest (`Pasa`, `Suyo`): it leaves other requests alone, takes
free locks, and changes rows it has.

Two of the theorems about matchdays need `SoloResuelven`: requests close actas, suspend
matches, suspend matchdays or insert red cards, any number of them, over any matches.
`Resolver` adds to `IInv` what each kind of request has locked at each statement (`UnPartido`,
`UnaFecha`, `UnaRoja`), above all `Evaluada`: once a request has evaluated a matchday it holds its row
until the end, and the matchday is closed, or it is suspended with nothing pending, or it has
a pending match *that somebody else would have to commit*; and nobody commits a match
without the row of its matchday (`Progresa`), so it is still pending at the commit.
Without `SoloResuelven` the statements are false (section 6): reopenings, goals and moves
save stale copies. The run `concurrente` covers the meetings with those that go well.

`CerradaEntera` is about the requests that make a match pending again, and has a hypothesis of
its own. `ReabrenUna`: besides closings, suspensions and red cards, matches are reopened and
moved, any number of them at once; what they reach are the matchdays of one number (a matchday
and its twins); suspended matchdays are not later than it; a match that moves is saved by
nobody else; and no goals are entered. Each condition keeps out something that the code does
wrong. With reopenings in matchdays of two numbers the property is false even without
concurrency (section 6); `suspenderFecha` may save over a later matchday that was closed, which
then no longer excuses the earlier one; a second request that saves a match that is moving, or
a goal, brings an old state with it. The argument is a debt. Who reopens a match, or moves a
pending one, owes its matchday a reversal: it is among what the request still has to do
(`Encargado`), or done, and then the request holds the row of the matchday, which is open, or left
closed because a later one is (`Cubre`). Who closed a matchday saw all its matches resolved
after taking its row (`Vio`), and still sees them so when it commits, because whoever would
commit a pending one there must have that same row. Matches are otherwise only resolved
(`SinReabrir`), and a later matchday stays closed (`Fijas`), so what excuses a pending match
is not taken away.

`ElActaCuentaLosGoles` takes `SoloCargan`: goals and red cards, as many at once as there are
requests, also of one match, with closings and with suspensions of matchdays. `Cuenta` follows a
goal from its INSERT, which takes the key lock of the match and so keeps `cerrarActa` out until the
goal commits: its copy counts at least itself and at most the goals it sees, and when it has
written, or had nothing to write, so does the row, and the acta is open. A closing that
waited for it finds it, and refuses a score that is not the number of goals; one that finds
none stores what it was given, and a goal that comes later opens the acta again with its copy. So
a closed acta with goals has their number, and the race between goals (section 6) is only
visible while the acta is open. The handlers left out (suspensions of a match, reopenings, moves)
save an old score with their copy.

### Payments, sessions and the rest

- **`Pagos`, `Sii`**: a boleta issued is counted once, as stored, as an answer on its way or
  as one nobody will hear of (`EmisionContada`); who credits a transaction holds it alone,
  and the gateway collected it (`AcreditaBien`); a copy of a charge names no payment that is
  not backed (`CopiaBien`), so that even a stale save of the office cannot forge one.
- **`Sesiones`**: the row of a token belongs to one transaction (`UnDueno`), a token with
  a descendant is rotated for ever (`Padres`), a revoked one does not come back (`Muertas`).
  `TurnosSinFalsaAlarma` needs a second layer (`Serena`), under its own hypothesis: browsers
  do not share tokens (`Aparte`), what travels was not rotated (`Frescas`), and a cookie is
  behind only until the answer arrives (`Galletas`).
- **`ColaOffline`**: an answer that a flush waits for was true when the server gave it
  and stays so (`VaciadoBien`), so removing the item loses nothing; `NadaSePierde` is part of
  the invariant.
- **`FacturacionPlataforma`**: a bill with an approved transaction is settled or annulled
  (`Saldadas`), which the daily run respects because what it marked is locked and pending
  (`Candados`).
- **`Designaciones`**: a row that a living payment covers shows it or was erased
  (`Cubiertas`), and a late save brings back only links to payments that cover the row
  (`PeticionBien`).
- **The plan of `Designaciones`** is a fold over a sequence of posts, inside one over the
  matches, inside one over the roles, and what a fold computes is an induction over the
  sequence. The library's induction theorems cannot be used, so `Induccion` states induction
  for a *set* of numbers (a set that holds 0 and is closed under successor, from the least
  element that `WFMin` gives), and `Fija`, `Sigue`, `Plegado` and `Pliega` say with it that
  what every step of a fold keeps, the fold keeps. `Buenas` is what the greedy loop keeps: every
  hour taken is the hour of a post, who was chosen clashes with nobody (`SinChoque`), no post
  is beyond its slot. `PlanSinChoques` follows from any state of the rows. `DeficitReal` compares two
  programs, the simulation of `analizarCobertura` and the loop of `autoAsignar` for one role:
  they pick the same number of people slot by slot (`UnSlotBien`), because whoever is in a match
  has its hour taken.
- **`Tarifas`**: the argument is about one charge at a time. The pending rows that requests in
  flight are deleting are there, and nobody else deletes them (`TomadasHay`); what there
  is, less what a request deletes, plus what it will make, fits under the cards that an acta was closed
  with (`EnVueloAcotada`); and a match that two requests fine at once is in `cruces`
  (`UnoSolo`), of which nothing is claimed. A cuota is safe by the unique index, except that a
  cancelled one leaves it: `CuotaSinCancelar` says that it was not cancelled, or was
  while somebody was making it.

### What proving changed

Some claims that a run accepted were too strong. `UnSoloPagoPorFila` broke, beyond the
bound of the run, when a paid row was removed and its id used again before a late save:
`pisada` counts removals now, and ids in use are not lent. `FechaCompletaSeCierra` of
`Torneo` is false for other constants and gave way to `CompletarCierra`;
`FechaCompletaSeCierra` and `FinalizadaSinPendientes` of `CierreConcurrente` are false when
reopenings meet closings. All three are in section 6. `DeficitReal` is false when a match has
no hour (section 7), so the matches of `Designaciones` have one. `MarcadorDerivado`, that
the score is always the number of goals, fails when two goals of a match cross, and when an
acta is closed with a score and no goals; what is left of it is `MarcadorDelActa`.

### What stays with TLC

- Liveness (`TodasTerminan`, `VencidoSePausa`, `PantallaAlDia`, `ColaDrena`,
  `DocumentoTermina`, `MorosaSeSuspende`) and `ENABLED` (`SinInterbloqueo`): out of reach of
  the prover.
- The round robin and the brackets (`TodosContraTodos`, `SiembraJusta`,
  `CadaUnoPorSuCamino`, `SincronizarIdempotente`). They are inductions over recursive functions,
  over modular arithmetic (`Berger`) and over powers of two (the tie that a winner climbs
  to): the provers know no law of exponents, not even `2^(r+1) = 2 * 2^r`, and none of the
  library gives them.
- `EnVivoTieneReloj` holds with one panel for each match, as in its run; with two it is false
  (section 7).
- `FechaCompletaSeCierra` with reopenings and moves, `FinalizadaSinPendientes` with goals and
  moves to either matchday, and `MarcadorDelActa` with moves, in the mixes of the run `concurrente`.

## 6. Where code and documentation disagree

The run `tarifas_cuotas` refutes `CuotasPactadas`: a tariff of N cuotas charges each
team at most N. `vencimientosCuotasInicio` counts its N months from *today*, and a cuota
counts as made only when one of the same month exists. Generating charges, or activating
the tournament again after a team was added, in a later month leaves the cuotas that were
made and adds those of the months that follow, to every team. The comments say that
doing so is safe (`torneos-admin.service.ts:634`, `tarifa-aplicador.service.ts:175`) and that
N is the total of the tournament (`tarifas-admin.service.ts:196`).

The modules state other claims of comments, messages and documents that the code does
not keep; no run lists them. Those of the first table are refuted by naming the property
in the configuration of the run.

| Property | Run | What happens |
|---|---|---|
| `WalkoverSinSanciones` (`Torneo`) | `torneo_cierre` | a reopened acta keeps its suspensions for the next closing to reconcile; a walkover closes it without reconciling |
| `NumeroDescontadoUnaVez` (`Torneo`) | `torneo_calendario` | a suspended matchday whose matches left its bis is reactivated; matches come to the bis again, and both are finalized under one number |
| `ActaSoloSeReabre` (`CierreConcurrente`) | `concurrente` | a request that read the match before its acta closed (a suspension, a goal) saves its copy, open |
| `MarcadorDerivado` (`CierreConcurrente`) | `concurrente` | "las incidencias son la fuente única de verdad del marcador": two goals of one match that are loaded at once each count only themselves, and the score stays at one; and `cerrarActa` stores any score while no goal is loaded |
| `FechaFinalizadaNoSeSuspende` (`CierreConcurrente`) | `concurrente` | `suspenderFecha` saves over a matchday that the last acta closed while it waited |
| `AutoPausaSinVer` (`MatchCenter`) | `match_center` | the comment of the gateway (`:118-122`) has the tick pause a period whether somebody watches or not; a match enters `partidosActivos` by a subscription or at boot (`:165`, `:237-239`), not when it starts |
| `CierreNoSePierde` (`ColaOffline`) | `cola_offline` | the comment of `flushQueue` (`offline-queue.ts:210`: "409 en cerrar-acta (el efecto ya está aplicado)") takes every 409 of a closing for that of a closed acta; a match that was suspended or marked as not played, with its acta open, answers 409 too (`partidos-admin.service.ts:660`), and the closing the referee was told is saved is dequeued |
| `BoletaUnica` (`Sii`) | `pagos` | an emission whose answer was lost, or that a crash left half done, is asked for again and the provider issues a second document |
| `SoloElRotadoEscala` (`Sesiones`) | `sesiones` | `auth.service.ts:241-243` says that a token revoked by a log out is not a theft; a log out between the look up and the conditional update revokes every session all the same (`:264-267`) |
| `PagadaFirme` (`FacturacionPlataforma`) | `facturacion` | `anular` refuses a paid bill, on the copy it read: a payment confirmed meanwhile is annulled |
| `NoSePagaDosVeces` (`Designaciones`) | `designaciones` | the answer of a referee saves the row as it was read and puts its `liquidacion_id` back to NULL (`designaciones-admin.service.ts:493`), so an attendance already liquidated is payable again; ADR 0007 (`:59`) relies on an "optimistic guard against double payment" |
| `PlanRespetaElMargen` (`Designaciones`) | `designaciones` | the comment of `autoAsignar` (`designaciones-admin.service.ts:789-790`) wants nobody with "otro partido del tenant" within two hours; it loads only the designations of the PROGRAMADO and EN_CURSO matches of the matchday (`:826-834`, `:869-891`), so the hours of a match whose acta was just closed are free |
| `UnPartidoPorCruce` (`Playoffs`) | `playoffs` | two `sincronizar` at once both find a tie without matches and create them (`playoffs-admin.service.ts:404`: "Idempotente") |
| `GanadorEsDelCruce` (`Playoffs`) | `playoffs` | a result corrected between two synchronisations: the tie gets the other team and, in the same pass, a winner from the match the first team played |

Others need another instance.

| Property | Instance | What happens |
|---|---|---|
| `UnaSancionPorUmbral` (`Torneo`) | threshold 2, single yellows, two matches loaded before either closes | the cards of matches not closed yet count as previous, so both closings see the threshold crossed |
| `FechaCompletaSeCierra` (`Torneo`) | moves and cancellations with matchdays left empty | a match declared NO_JUGADO comes to a matchday that was left without matches, or a suspended matchday with only resolved ones is reactivated: nobody evaluates it, and it stays complete and open |
| `FechaCompletaSeCierra` (`CierreConcurrente`) | two reopenings of one acta at once, and a closing of it between their commits | the second reopening finds nothing to change in the match, and still takes the matchday, closed again meanwhile, back to EN_CURSO |
| `FinalizadaSinPendientes` (`CierreConcurrente`) | no concurrency: a match reopened in matchday 1 while matchday 2 is closed, and then one in matchday 2 | `revertirCierreDeFecha` leaves 1 as it is because 2 is closed, and nothing looks back at 1 when 2 is reopened |
| `SinInterbloqueo` (`CierreConcurrente`) | two moves that cross | each holds the key lock of its destination before it asks for both matchdays in order; PostgreSQL then aborts one of them |
| `JornadasSeparadas` (`Fixture`, `Playoffs`) | a matchday pushed past the natural day of the next one, and no playable day within `MaxSaltos` after it | the next one takes its natural day after all, before or on the day of the other |

`ActaCoherente`, `RevocadaNoRevive` (`Torneo`), `UnSoloCierre` (`CierreConcurrente`),
`FinalizadoDejaElTick` (`MatchCenter`), `ClaveUnaVez` (`Sesiones`) and every `TypeOK` hold in
the same instances; the runs list the properties that say more.

## 7. Abstractions, and what is not modelled

Everywhere: texts, notes, e-mails, amounts of money and pages are left out; row ids are
random, so nothing depends on their order; a savepoint is told as the part of the handler
it protects doing nothing; one league.

What each module leaves out, and the windows that lie there or that a property excepts.
The lines of those that matter are among the hazards of `PROJECT.json`.

- **Torneo.** Dates, hours and fields (two matches in one field); the score, goals,
  designations, fines and charges of an acta, which decide nothing here; identical cards
  of one player at one minute are one; players are not deleted and squads do not change
  during play; `sancionarEquipo` of the tribunal, the manual edition of the blacklist, the
  states `REPROGRAMADO` and `REPROGRAMADA`, which are never written.
  `REUSAR_EXISTENTE` evaluates nothing, so a matchday may end complete and open. A player
  certified as present and suspended afterwards plays.
- **CierreConcurrente.** The strategies other than MANUAL, and the bulk suspension,
  which holds a matchday while it locks the next match. The scorers (an acta with a goal that
  has none is not closed) and the certification, which `Torneo` and `ColaOffline` have. Its
  scenarios leave apart: two reopenings of an acta with a closing between; a match moved while
  its acta is closed or suspended; a goal and a suspension or a reopening of one match (the
  goal saves the state it read, so it undoes a suspension and the matchday stays as it was).
- **MatchCenter.** The acta and the state of the match (`sumarGol` and `ajustarGoles` do not
  look at them), the quota of sockets, the elapsed time that is displayed. What a screen
  shows is abstracted to whether it is current; a broadcast is collapsed to the choice of
  the row before or after the commit. Two panels with four requests break
  `EnVivoTieneReloj`: the save of a stale copy undoes a start. A stale tick loses a goal that
  came meanwhile, or undoes a pause.
- **ColaOffline.** The service worker; the office does one thing (closes, reopens, suspends or
  reactivates) in the instance. A closing replayed after the office reopened the acta
  closes it again, and a flush in flight puts an item back after a log out
  cleared the queue.
- **Sii and Pagos.** Amounts (a charge whose amount is edited between start and
  confirmation) and the periodic notices of dunning; those join a relation `c.equipo` that `Cobro`
  does not have. Two clicks start two transactions and both may be approved; a payment
  made in time and confirmed after half an hour is expired and not credited; a late save
  of the office erases an online payment or inserts a deleted charge again; what a failed
  confirmation writes is rolled back with it; a crash between the commit and the creation of the
  document leaves none.
- **Tarifas.** Amounts, weekly and annual cuotas, the deletion of a tariff (which makes its
  settled fines no longer count), squads (`resyncPlantelInscripcion` and `addJugadorPlanilla`
  may exceed the limit). Two requests that fine one match at once leave two fines until
  the next regeneration; two generations at once create two matriculas; the team quota is
  counted before the insert; `update` may give a settled fine to another team; an
  incident that is an `AMARILLA_ROJA` is not fined; a club enrolled again leaves orphan charges.
- **Sesiones.** Invitations and their daily quota, the purge, impersonation, logging out with
  an access token that expired. A login or a refresh in flight while a reset
  revokes leaves a live session; two tabs or a lost answer revoke all of them.
- **FacturacionPlataforma.** The tax document of a bill and the reminders. A payment that
  crosses the daily run leaves a league suspended after paying; reactivation does not look
  at why a league was suspended; annulling the last debt does not reactivate; the return
  of Webpay ignores `expiraAt`, so two transactions of a bill may be approved; an approval of a
  bill that was annulled throws.
- **Designaciones.** Staff of a venue, amounts, e-mails. After a refusal, `autoAsignar` picks the
  same person, violates the unique key and rolls the batch back; two assignments at once
  book a person twice; a match without an hour (`fechaHora` NULL) is left out, where the
  simulation counts somebody who already has another role in that match and `autoAsignar`
  passes over them; a match is still to be played or has its acta closed (no suspended ones);
  `autoAsignar` sees only its own matchday; the total of a payroll is a
  snapshot; a paid row removed and assigned again is paid again as another row.
- **Fixture and Playoffs.** The table (a team of the bracket is its seed), hours and
  fields; the writes of one synchronisation are one step. With 4 teams and two rounds,
  two pairs play both legs at one home; a swap may lengthen the run of another team; correcting a
  semifinal after the final exists leaves the final as it was; a suspended matchday leaves a
  first leg without its second; two generations at once make two fixtures.

**Components not modelled**: the table (`posiciones`), categories and ages, passwords and
permissions; users and impersonation; RLS, guards and the iteration of crons over
leagues; CRUD of clubs, players, fields, schedules; portals, surveys, push, e-mail and WhatsApp;
reports, dashboards, flyers and PDF; the public site; the audit log; migrations and
repair scripts; the web interface other than its queue and hooks. Most of the
repository's lines are in these: forms and pages over the endpoints, read only queries,
layout, and scripts that run once. They keep no state that several steps share, so a model of them
would restate them; this is why the share of lines mapped stays low while the handlers
that change the state of a competition, a payment or a session are modelled.

## 8. Plan

1. `CierreConcurrente`: a weaker hypothesis than `SoloResuelven` for `NingunaQuedaAbierta`,
   with reopenings that do not overlap a closing of the same match.
2. `MatchCenter`: `EnVivoTieneReloj` for one panel, from the states a copy may be in
   when its save is compared with the row.
3. `Playoffs` with the levels of the bracket as a function with its own assumptions instead
   of powers of two, so that `CadaUnoPorSuCamino` can be proved.
4. `posiciones` with its tie-breaks against a reference order (the head-to-head rule is
   not transitive among three), and the bracket seeded from it.
5. Squads, venue staff and `sancionarEquipo`.
