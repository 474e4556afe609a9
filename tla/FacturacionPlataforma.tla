------------------------- MODULE FacturacionPlataforma -------------------------
(***************************************************************************)
(* What LigaPlus charges a league: one bill a month, paid online, by hand  *)
(* or annulled, and the daily run that marks the overdue ones and suspends *)
(* the league that owes two.  Nothing is locked but the rows a transaction *)
(* has written: every request decides with what it read before.            *)
(***************************************************************************)
EXTENDS Naturals, FiniteSets

CONSTANTS
    Meses,         \* 1..N: the months, and the bill of each
    Txs,           \* 1..N, handed out in order, as the requests are
    Peticiones,    \* 1..N: requests that may be in flight together
    EstadosAMano,  \* states the office gives the league in this instance
    MaxEventos,    \* bound on requests, on what the office does and on faults
    Nada

\* Months, transactions and requests are numbered, and NULL is none of them.
ASSUME FacturacionAssumption ==
    /\ IsFiniteSet(Meses) /\ Meses # {} /\ Meses = 1..Cardinality(Meses)
    /\ Txs \subseteq Nat /\ Peticiones \subseteq Nat /\ MaxEventos \in Nat
    /\ EstadosAMano \subseteq {"TRIAL", "ACTIVO", "SUSPENDIDO", "CANCELADO"}
    /\ Nada \notin Meses \cup Txs

VARIABLES
    liga,          \* the row of the league in tenants
    factura,       \* facturas_plataforma: month -> its bill
    tx,            \* transacciones of the bills
    mes,           \* the month it is today
    vencidos,      \* months whose tenth day has passed
    peticion,      \* request -> what it does and how far it is
    cron,          \* procesarMora: how far it is and what it has written
    eventos

bd == <<liga, factura, tx>>
vars == <<bd, mes, vencidos, peticion, cron, eventos>>

Estados == {"TRIAL", "ACTIVO", "SUSPENDIDO", "CANCELADO"}
Liga == [estado : Estados, plan : BOOLEAN, prueba : {"no", "corre", "vencida"}]
Quieta == [op |-> "libre", f |-> Nada, t |-> Nada, paso |-> "ninguno", reactiva |-> FALSE]
Dormido == [paso |-> "ninguno", marcadas |-> {}, queda |-> Nada]
DebeDos == 2   \* FACTURAS_VENCIDAS_SUSPENSION

TypeOK ==
    /\ liga \in Liga
    /\ factura \in [Meses -> [estado : {"no", "PENDIENTE", "VENCIDA", "PAGADA", "ANULADA"},
                              tx : Txs \cup {Nada}]]
    /\ tx \in [Txs -> [estado : {"no", "PAGO_EN_TRANSITO", "APROBADO", "RECHAZADO"},
                       f : Meses \cup {Nada}, vigente : BOOLEAN]]
    /\ mes \in 1..Cardinality(Meses) /\ vencidos \subseteq 1..mes
    /\ peticion \in [Peticiones ->
           [op : {"libre", "iniciar", "retorno", "pagar", "anular"}, f : Meses \cup {Nada},
            t : Txs \cup {Nada}, reactiva : BOOLEAN,
            paso : {"ninguno", "crear", "confirmar tx", "guardar", "confirmar"}]]
    /\ cron \in [paso : {"ninguno", "contar", "confirmar"}, marcadas : SUBSET Meses,
                 queda : {Nada} \cup Estados]
    /\ eventos \in 0..MaxEventos

Init ==
    /\ liga \in {[estado |-> "ACTIVO", plan |-> TRUE, prueba |-> "no"],
                 [estado |-> "TRIAL", plan |-> FALSE, prueba |-> "corre"],
                 [estado |-> "TRIAL", plan |-> TRUE, prueba |-> "corre"]}
    /\ factura = [f \in Meses |-> [estado |-> "no", tx |-> Nada]]
    /\ tx = [t \in Txs |-> [estado |-> "no", f |-> Nada, vigente |-> FALSE]]
    /\ mes = 1 /\ vencidos = {}
    /\ peticion = [q \in Peticiones |-> Quieta]
    /\ cron = Dormido
    /\ eventos = 0

Anota == eventos < MaxEventos /\ eventos' = eventos + 1

Impagas(f) == factura[f].estado \in {"PENDIENTE", "VENCIDA"}
FacturasEn(estado) == {f \in Meses : factura[f].estado = estado}

\* A row written by a transaction that has not committed
Tomada(f) ==
    \/ f \in cron.marcadas
    \/ \E q \in Peticiones : peticion[q].paso = "confirmar" /\ peticion[q].f = f
TxTomada(t) ==
    \E q \in Peticiones : peticion[q].paso \in {"guardar", "confirmar"} /\ peticion[q].t = t

---------------------------------------------------------------------------
(* Time, the monthly run and the office of LigaPlus                        *)

PasaMes ==
    /\ mes + 1 \in Meses
    /\ mes' = mes + 1
    /\ UNCHANGED <<bd, vencidos, peticion, cron, eventos>>

PasaElDiez ==
    /\ vencidos' = vencidos \cup {mes} /\ vencidos' # vencidos
    /\ UNCHANGED <<bd, mes, peticion, cron, eventos>>

VencePrueba ==
    /\ liga.prueba = "corre"
    /\ liga' = [liga EXCEPT !.prueba = "vencida"]
    /\ UNCHANGED <<factura, tx, mes, vencidos, peticion, cron, eventos>>

\* generarFacturasMes, of the cron or of the button: the bill of the month it is, once.
GenerarFacturasMes ==
    /\ liga.estado = "ACTIVO" /\ liga.plan
    /\ factura[mes].estado = "no"
    /\ factura' = [factura EXCEPT ![mes].estado = "PENDIENTE"]
    /\ UNCHANGED <<liga, tx, mes, vencidos, peticion, cron, eventos>>

\* update, suspender and reactivar of super-admin-tenants
EditarLiga ==
    /\ Anota
    /\ \/ \E e \in EstadosAMano : liga' = [liga EXCEPT !.estado = e]
       \/ liga' = [liga EXCEPT !.plan = ~liga.plan]
    /\ liga' # liga
    /\ UNCHANGED <<factura, tx, mes, vencidos, peticion, cron>>

---------------------------------------------------------------------------
(* Paying a bill                                                           *)

Pide(q, op, f, t, paso) ==
    /\ peticion[q] = Quieta /\ \A r \in Peticiones : r < q => peticion[r] # Quieta
    /\ Anota
    /\ peticion' = [peticion EXCEPT ![q] =
           [op |-> op, f |-> f, t |-> t, paso |-> paso, reactiva |-> FALSE]]

Acaba(q) == peticion' = [peticion EXCEPT ![q] = Quieta]

\* iniciarPagoWebpay up to the gateway: no transaction of the bill is still in time.
IniciarPagoWebpay(q, f, t) ==
    /\ Impagas(f)
    /\ ~\E u \in Txs : tx[u].f = f /\ tx[u].estado = "PAGO_EN_TRANSITO" /\ tx[u].vigente
    /\ tx[t].estado = "no" /\ \A r \in Peticiones : peticion[r].t # t
    /\ \A u \in Txs : u < t => tx[u].estado # "no" \/ \E r \in Peticiones : peticion[r].t = u
    /\ Pide(q, "iniciar", f, t, "crear")
    /\ UNCHANGED <<bd, mes, vencidos, cron>>

CrearTransaccion(q) ==
    /\ peticion[q].paso = "crear"
    /\ tx' = [tx EXCEPT ![peticion[q].t] =
           [estado |-> "PAGO_EN_TRANSITO", f |-> peticion[q].f, vigente |-> TRUE]]
    /\ Acaba(q)
    /\ UNCHANGED <<liga, factura, mes, vencidos, cron, eventos>>

ExpiraTransaccion(t) ==
    /\ tx[t].estado = "PAGO_EN_TRANSITO" /\ tx[t].vigente
    /\ Anota
    /\ tx' = [tx EXCEPT ![t].vigente = FALSE]
    /\ UNCHANGED <<liga, factura, mes, vencidos, peticion, cron>>

\* retornoWebpay reads the transaction, in time or not: only an approved one is let be.
RetornoWebpay(q, t) ==
    /\ tx[t].estado \in {"PAGO_EN_TRANSITO", "RECHAZADO"}
    /\ Pide(q, "retorno", tx[t].f, t, "confirmar tx")
    /\ UNCHANGED <<bd, mes, vencidos, cron>>

\* The gateway refuses it, or approves it and marcarPagada reads the bill; one that is
\* paid or annulled by then throws, and the approval goes back with the request.
ConfirmarTransaccion(q) ==
    LET t == peticion[q].t
    IN /\ peticion[q].paso = "confirmar tx"
       /\ ~TxTomada(t)
       /\ \/ tx' = [tx EXCEPT ![t].estado = "RECHAZADO"] /\ tx[t].estado # "APROBADO" /\ Acaba(q)
          \/ Impagas(peticion[q].f) /\ UNCHANGED tx
             /\ peticion' = [peticion EXCEPT ![q].paso = "guardar"]
          \/ ~Impagas(peticion[q].f) /\ UNCHANGED tx /\ Acaba(q)
       /\ UNCHANGED <<liga, factura, mes, vencidos, cron, eventos>>

\* marcarPagada by hand and anular read the bill and refuse what is paid or annulled.
AManoOAnular(q, f) ==
    /\ Impagas(f)
    /\ \E op \in {"pagar", "anular"} : Pide(q, op, f, Nada, "guardar")
    /\ UNCHANGED <<bd, mes, vencidos, cron>>

\* The bill is written, and reactivarSiCorresponde looks at the league and at what it
\* still owes, whatever it was suspended for.
Guardar(q) ==
    LET f == peticion[q].f
    IN /\ peticion[q].paso = "guardar"
       /\ ~Tomada(f)
       /\ peticion' = [peticion EXCEPT ![q].paso = "confirmar", ![q].reactiva =
              /\ peticion[q].op # "anular"
              /\ liga.estado = "SUSPENDIDO"
              /\ Cardinality(FacturasEn("VENCIDA") \ {f}) < DebeDos]
       /\ UNCHANGED <<bd, mes, vencidos, cron, eventos>>

Confirmar(q) ==
    LET f == peticion[q].f  t == peticion[q].t
    IN /\ peticion[q].paso = "confirmar"
       /\ factura' = [factura EXCEPT ![f] =
              IF peticion[q].op = "anular" THEN [@ EXCEPT !.estado = "ANULADA"]
              ELSE [estado |-> "PAGADA", tx |-> IF t = Nada THEN factura[f].tx ELSE t]]
       /\ tx' = IF t = Nada THEN tx ELSE [tx EXCEPT ![t].estado = "APROBADO"]
       /\ liga' = IF peticion[q].reactiva THEN [liga EXCEPT !.estado = "ACTIVO"] ELSE liga
       /\ Acaba(q)
       /\ UNCHANGED <<mes, vencidos, cron, eventos>>

---------------------------------------------------------------------------
(* procesarMora: one transaction a day                                     *)

Vencibles == FacturasEn("PENDIENTE") \cap vencidos

\* Mutant: reads the pending bills and saves them one by one
MutMarcarVencidasLeidas ==
    /\ cron = Dormido
    /\ cron' = [cron EXCEPT !.paso = "contar", !.marcadas = Vencibles]
    /\ UNCHANGED <<bd, mes, vencidos, peticion, eventos>>

\* marcarVencidas: one UPDATE, that waits for the bills others have written.
MarcarVencidas ==
    /\ cron = Dormido
    /\ \A f \in Vencibles : ~Tomada(f)
    /\ cron' = [cron EXCEPT !.paso = "contar", !.marcadas = Vencibles]
    /\ UNCHANGED <<bd, mes, vencidos, peticion, eventos>>

\* suspenderTrialesVencidos
TrasLaPrueba ==
    IF liga.estado # "TRIAL" \/ liga.prueba # "vencida" THEN liga.estado
    ELSE IF liga.plan THEN "ACTIVO" ELSE "SUSPENDIDO"

\* Mutant: one bill too many
MutMorosaEstricta == Cardinality(FacturasEn("VENCIDA") \cup cron.marcadas) > DebeDos

\* suspenderMorosos: the count sees the bills this transaction has marked.
Morosa == Cardinality(FacturasEn("VENCIDA") \cup cron.marcadas) >= DebeDos

Suspender ==
    LET queda == IF TrasLaPrueba \in {"ACTIVO", "TRIAL"} /\ Morosa THEN "SUSPENDIDO"
                 ELSE TrasLaPrueba
    IN /\ cron.paso = "contar"
       /\ cron' = [cron EXCEPT !.paso = "confirmar",
                               !.queda = IF queda = liga.estado THEN Nada ELSE queda]
       /\ UNCHANGED <<bd, mes, vencidos, peticion, eventos>>

ConfirmarMora ==
    /\ cron.paso = "confirmar"
    /\ factura' = [f \in Meses |-> IF f \in cron.marcadas
                                   THEN [factura[f] EXCEPT !.estado = "VENCIDA"] ELSE factura[f]]
    /\ liga' = IF cron.queda = Nada THEN liga ELSE [liga EXCEPT !.estado = cron.queda]
    /\ cron' = Dormido
    /\ UNCHANGED <<tx, mes, vencidos, peticion, eventos>>

\* An error that no savepoint holds back: the day is lost, the next one tries again.
MoraFalla ==
    /\ cron # Dormido
    /\ Anota
    /\ cron' = Dormido
    /\ UNCHANGED <<bd, mes, vencidos, peticion>>

ProcesarMora == MarcarVencidas \/ Suspender \/ ConfirmarMora

---------------------------------------------------------------------------
Atender(q) == CrearTransaccion(q) \/ ConfirmarTransaccion(q) \/ Guardar(q) \/ Confirmar(q)

Pagar == \E q \in Peticiones :
             \/ \E f \in Meses, t \in Txs : IniciarPagoWebpay(q, f, t)
             \/ \E t \in Txs : RetornoWebpay(q, t)
             \/ \E f \in Meses : AManoOAnular(q, f)
             \/ Atender(q)

Next ==
    \/ PasaMes \/ PasaElDiez \/ VencePrueba
    \/ GenerarFacturasMes \/ EditarLiga
    \/ Pagar
    \/ \E t \in Txs : ExpiraTransaccion(t)
    \/ ProcesarMora \/ MoraFalla

\* The cron comes back every day, and a request that is being served ends.
Spec == Init /\ [][Next]_vars /\ WF_vars(ProcesarMora)
             /\ \A q \in Peticiones : WF_vars(Atender(q))

---------------------------------------------------------------------------
(* Properties                                                              *)

\* A bill whose payment we have approved is not owed, whoever marks bills overdue or
\* settles them by hand at the same time (retornoWebpay, marcarVencidas).
AprobadaNoSeDebe ==
    \A t \in Txs : tx[t].estado = "APROBADO" => ~Impagas(tx[t].f)

\* A league that owes two overdue bills is cut off sooner or later, or owes them no more
\* (suspenderMorosos), even if the run fails some day.
Debe == Cardinality(FacturasEn("VENCIDA")) >= DebeDos
MorosaSeSuspende == (liga.estado \in {"ACTIVO", "TRIAL"} /\ Debe) ~>
                    (liga.estado \notin {"ACTIVO", "TRIAL"} \/ ~Debe)

\* facturacion-plataforma.service.ts refuses to annul a paid bill.
PagadaFirme ==
    [][\A f \in Meses : factura[f].estado = "PAGADA" => factura'[f].estado = "PAGADA"]_vars
=============================================================================
