--------------------------------- MODULE Pagos ---------------------------------
(***************************************************************************)
(* A charge of the league paid online, by hand, or both.  A payment starts *)
(* a transaction and an order at the gateway; the webhook and the browser  *)
(* that comes back confirm it, in any order and more than once; meanwhile  *)
(* the office edits, settles, reverts or deletes the charge.  Every        *)
(* request reads the charge and writes it back later, with all that it     *)
(* read: only the row of the transaction is locked.                        *)
(***************************************************************************)
EXTENDS Sii

CONSTANTS
    Cobros,
    Peticiones,    \* requests that may be in flight together
    MaxEventos,    \* bound on requests, confirmations and due dates
    Nada

VARIABLES
    cobro,         \* the table of charges
    transaccion,   \* the table of transactions
    orden,         \* external: tx -> its order at the gateway
    peticion,      \* request -> what it does, where it is and the charge it read
    tocado,        \* charges that the office has read to write
    eventos

vars == <<cobro, transaccion, orden, peticion, tocado, eventos, varsSii>>
bd == <<cobro, transaccion>>

A_MANO == "a mano"
Cobro ==
    [vivo : BOOLEAN, pagado : Txs \cup {Nada, A_MANO}, cancelado : BOOLEAN,
     mora : 0..2, dunning : {"AL_DIA", "MOROSO", "SUSPENDIDO"}]
Transaccion ==
    [estado : {"no", "PAGO_EN_TRANSITO", "APROBADO", "RECHAZADO", "EXPIRADO"},
     cobro : Cobros \cup {Nada}, expirada : BOOLEAN]
\* NULL is no row, and neither it nor the mark of a payment by hand is a transaction.
ASSUME NadaAssumption ==
    /\ Nada \notin Txs /\ Nada \notin Cobros /\ Nada \notin Cobro
    /\ A_MANO \notin Txs /\ A_MANO # Nada

Finales == {"APROBADO", "RECHAZADO", "EXPIRADO"}
DeOficina == {"editar", "marcar pagado", "revertir", "eliminar", "avisar"}

Libre == [op |-> "libre", c |-> Nada, tx |-> Nada, leido |-> Nada]

Init ==
    /\ InitSii
    /\ cobro = [c \in Cobros |-> [vivo |-> TRUE, pagado |-> Nada, cancelado |-> FALSE,
                                  mora |-> 0, dunning |-> "AL_DIA"]]
    /\ transaccion = [t \in Txs |-> [estado |-> "no", cobro |-> Nada, expirada |-> FALSE]]
    /\ orden = [t \in Txs |-> "no"]
    /\ peticion = [p \in Peticiones |-> Libre]
    /\ tocado = {}
    /\ eventos = 0

Empieza(p, op, c, t) ==
    /\ peticion[p] = Libre
    /\ peticion' = [peticion EXCEPT ![p] =
           [op |-> op, c |-> c, tx |-> t, leido |-> IF c = Nada THEN Nada ELSE cobro[c]]]

Acaba(p) == peticion' = [peticion EXCEPT ![p] = Libre]

---------------------------------------------------------------------------
(* Starting a payment                                                      *)

Vigente(t, c) ==
    transaccion[t].cobro = c /\ transaccion[t].estado = "PAGO_EN_TRANSITO"
    /\ ~transaccion[t].expirada

SinUsar(t) == transaccion[t].estado = "no" /\ \A p \in Peticiones : peticion[p].tx # t

\* iniciarPago up to the call to the gateway.  With a transaction under way it answers
\* that one and changes nothing.
IniciarPago(p, c, t) ==
    /\ cobro[c].vivo /\ cobro[c].pagado = Nada /\ ~cobro[c].cancelado
    /\ ~\E u \in Txs : Vigente(u, c)
    /\ SinUsar(t)
    /\ eventos < MaxEventos
    /\ eventos' = eventos + 1
    /\ Empieza(p, "iniciar", c, t)
    /\ UNCHANGED <<bd, orden, tocado, varsSii>>

\* The gateway answers the order; the transaction is committed with its token.
OrdenCreada(p) ==
    LET t == peticion[p].tx
    IN /\ peticion[p].op = "iniciar"
       /\ orden' = [orden EXCEPT ![t] = "abierta"]
       /\ transaccion' = [transaccion EXCEPT ![t] =
              [estado |-> "PAGO_EN_TRANSITO", expirada |-> FALSE,
               cobro |-> IF cobro[peticion[p].c].vivo THEN peticion[p].c ELSE Nada]]
       /\ Acaba(p)
       /\ UNCHANGED <<cobro, tocado, eventos, varsSii>>

\* It does not: RECHAZADO is saved and then thrown, so that nothing stays.
OrdenFalla(p) ==
    /\ peticion[p].op = "iniciar"
    /\ Acaba(p)
    /\ UNCHANGED <<bd, orden, tocado, eventos, varsSii>>

\* External: the order is paid or refused, whether or not ours has expired.
Pagar(t) ==
    /\ orden[t] = "abierta"
    /\ \E r \in {"pagada", "rechazada"} : orden' = [orden EXCEPT ![t] = r]
    /\ UNCHANGED <<bd, peticion, tocado, eventos, varsSii>>

---------------------------------------------------------------------------
(* Confirming it: webhook and return of the browser                        *)

Bloqueada(t) ==
    \E p \in Peticiones : peticion[p].op = "acreditar" /\ peticion[p].tx = t

\* confirmarPago and confirmarPorToken find the transaction, and then wait for its lock.
LeerTransaccion(p, t) ==
    /\ eventos < MaxEventos
    /\ eventos' = eventos + 1
    /\ transaccion[t].estado # "no"
    /\ Empieza(p, "confirmar", Nada, t)
    /\ UNCHANGED <<bd, orden, tocado, varsSii>>

ConEstado(t, estado) == transaccion' = [transaccion EXCEPT ![t].estado = estado]

\* Mutant: the state of before the lock, so that a final transaction is decided again
MutDecideSinReleer(p, t) ==
    /\ peticion[p].op = "confirmar" /\ peticion[p].tx = t
    /\ ~Bloqueada(t)
    /\ transaccion[t].expirada
    /\ ConEstado(t, "EXPIRADO")
    /\ Acaba(p)
    /\ UNCHANGED <<cobro, orden, tocado, eventos, varsSii>>

\* confirmarTx with the lock, when it does not credit anything: final already, out of
\* time, or not paid at the gateway.
NoAcredita(p, t) ==
    /\ peticion[p].op = "confirmar" /\ peticion[p].tx = t
    /\ ~Bloqueada(t)
    /\ \/ transaccion[t].estado \in Finales /\ UNCHANGED transaccion
       \/ /\ transaccion[t].estado \notin Finales
          /\ transaccion[t].expirada
          /\ ConEstado(t, "EXPIRADO")
       \/ /\ transaccion[t].estado \notin Finales /\ ~transaccion[t].expirada
          /\ orden[t] # "pagada"
          /\ IF orden[t] = "rechazada" THEN ConEstado(t, "RECHAZADO") ELSE UNCHANGED transaccion
    /\ Acaba(p)
    /\ UNCHANGED <<cobro, orden, tocado, eventos, varsSii>>

\* Mutant: an order that is still pending taken for a paid one
MutApruebaPendiente(p, t) ==
    LET c == transaccion[t].cobro
    IN /\ peticion[p].op = "confirmar" /\ peticion[p].tx = t
       /\ ~Bloqueada(t)
       /\ transaccion[t].estado \notin Finales /\ ~transaccion[t].expirada
       /\ orden[t] # "rechazada"
       /\ peticion' = [peticion EXCEPT ![p] =
              [op |-> "acreditar", tx |-> t, c |-> c,
               leido |-> IF c = Nada \/ ~cobro[c].vivo THEN Nada ELSE cobro[c]]]
       /\ UNCHANGED <<bd, orden, tocado, eventos, varsSii>>

\* confirmarTx when the gateway says that it is paid: the transaction is saved, not yet
\* committed, and the charge is read.
Aprobar(p, t) ==
    LET c == transaccion[t].cobro
    IN /\ peticion[p].op = "confirmar" /\ peticion[p].tx = t
       /\ ~Bloqueada(t)
       /\ transaccion[t].estado \notin Finales /\ ~transaccion[t].expirada
       /\ orden[t] = "pagada"
       /\ peticion' = [peticion EXCEPT ![p] =
              [op |-> "acreditar", tx |-> t, c |-> c,
               leido |-> IF c = Nada \/ ~cobro[c].vivo THEN Nada ELSE cobro[c]]]
       /\ UNCHANGED <<bd, orden, tocado, eventos, varsSii>>

\* Mutant: the charge is not settled
MutAcreditado(p) == cobro

Acreditado(p) ==
    IF peticion[p].leido = Nada \/ peticion[p].leido.pagado # Nada THEN cobro
    ELSE [cobro EXCEPT ![peticion[p].c] = [peticion[p].leido EXCEPT !.pagado = peticion[p].tx]]

\* Charge saved, commit, and then the tax document in a transaction of its own.
Acreditar(p) ==
    /\ peticion[p].op = "acreditar"
    /\ cobro' = Acreditado(p)
    /\ ConEstado(peticion[p].tx, "APROBADO")
    /\ encargos' = encargos \cup {peticion[p].tx}
    /\ Acaba(p)
    /\ UNCHANGED <<orden, tocado, eventos, documento, aReintentar, emision, boletas,
                   sinConstancia, fallosSii>>

\* The gateway or the database fails: the catch saves a note and throws, so that all of
\* it is rolled back.
ConfirmarFalla(p) ==
    /\ peticion[p].op \in {"confirmar", "acreditar"}
    /\ Acaba(p)
    /\ UNCHANGED <<bd, orden, tocado, eventos, varsSii>>

---------------------------------------------------------------------------
(* The office                                                              *)

Puede(op, k) ==
    /\ k.vivo
    /\ op \in {"marcar pagado", "avisar"} => k.pagado = Nada /\ ~k.cancelado
    /\ op = "revertir" => k.pagado # Nada

\* update, marcarPagado, revertirPago, remove and enviarAvisoManual read the charge...
LeerCobro(p, op, c) ==
    /\ eventos < MaxEventos
    /\ eventos' = eventos + 1
    /\ Puede(op, cobro[c])
    /\ Empieza(p, op, c, Nada)
    /\ tocado' = tocado \cup {c}
    /\ UNCHANGED <<bd, orden, varsSii>>

DunningDe(k) ==
    IF k.pagado # Nada \/ k.cancelado \/ k.mora = 0 THEN "AL_DIA"
    ELSE IF k.mora = 1 THEN "MOROSO" ELSE "SUSPENDIDO"

ConDunning(k) == [k EXCEPT !.dunning = DunningDe(k)]

\* What each writes: the whole row that it read with its change, and syncDunning.
Escribe(op, k, n) ==
    \/ op = "editar" /\ \E x \in BOOLEAN, m \in {0, k.mora} :
                            n = ConDunning([k EXCEPT !.cancelado = x, !.mora = m])
    \/ op = "marcar pagado" /\ n = ConDunning([k EXCEPT !.pagado = A_MANO])
    \/ op = "revertir" /\ n = ConDunning([k EXCEPT !.pagado = Nada])
    \/ op = "eliminar" /\ n = [k EXCEPT !.vivo = FALSE]
    \/ op = "avisar" /\ n = k

\* ... and save it.  A row deleted meanwhile is inserted again; deleting one sets to null
\* the cobro_id of its transactions.
GuardarCobro(p) ==
    /\ peticion[p].op \in DeOficina
    /\ LET c == peticion[p].c
       IN /\ \E n \in Cobro : /\ Escribe(peticion[p].op, peticion[p].leido, n)
                              /\ cobro' = [cobro EXCEPT ![c] = n]
          /\ transaccion' = IF peticion[p].op # "eliminar" THEN transaccion
                            ELSE [t \in Txs |-> IF transaccion[t].cobro # c THEN transaccion[t]
                                                ELSE [transaccion[t] EXCEPT !.cobro = Nada]]
    /\ Acaba(p)
    /\ UNCHANGED <<orden, tocado, eventos, varsSii>>

---------------------------------------------------------------------------
(* Time                                                                    *)

\* expira_at, thirty minutes after the start
Expirar(t) ==
    /\ transaccion[t].estado = "PAGO_EN_TRANSITO" /\ ~transaccion[t].expirada
    /\ transaccion' = [transaccion EXCEPT ![t].expirada = TRUE]
    /\ UNCHANGED <<cobro, orden, peticion, tocado, eventos, varsSii>>

\* The due date passes, and then thirty days more.
PasanDias(c) ==
    /\ eventos < MaxEventos
    /\ eventos' = eventos + 1
    /\ cobro[c].vivo /\ cobro[c].mora < 2
    /\ \A p \in Peticiones : peticion[p].c # c
    /\ cobro' = [cobro EXCEPT ![c].mora = @ + 1]
    /\ UNCHANGED <<transaccion, orden, peticion, tocado, varsSii>>

\* DunningCron.recalcularHorario: three UPDATEs over the charges of the league
RecalcularEstados ==
    /\ \E c \in Cobros : cobro[c].vivo /\ cobro[c].dunning # DunningDe(cobro[c])
    /\ cobro' = [c \in Cobros |-> IF cobro[c].vivo THEN ConDunning(cobro[c]) ELSE cobro[c]]
    /\ UNCHANGED <<transaccion, orden, peticion, tocado, eventos, varsSii>>

---------------------------------------------------------------------------
NextPagos ==
    \/ \E p \in Peticiones, c \in Cobros, t \in Txs : IniciarPago(p, c, t)
    \/ \E p \in Peticiones, t \in Txs : LeerTransaccion(p, t) \/ NoAcredita(p, t) \/ Aprobar(p, t)
    \/ \E p \in Peticiones, c \in Cobros, op \in DeOficina : LeerCobro(p, op, c)
    \/ \E p \in Peticiones :
           OrdenCreada(p) \/ OrdenFalla(p) \/ Acreditar(p) \/ ConfirmarFalla(p) \/ GuardarCobro(p)
    \/ \E t \in Txs : Pagar(t) \/ Expirar(t)
    \/ \E c \in Cobros : PasanDias(c)
    \/ RecalcularEstados

SoloSii == NextSii /\ UNCHANGED <<cobro, transaccion, orden, peticion, tocado, eventos>>

Next == NextPagos \/ SoloSii

Spec == Init /\ [][Next]_vars /\ FairSii

---------------------------------------------------------------------------
(* Properties                                                              *)

\* Rows keep their types, and a request in flight holds the charge that it read.
TypeOK ==
    /\ TypeOKSii
    /\ cobro \in [Cobros -> Cobro]
    /\ transaccion \in [Txs -> Transaccion]
    /\ \A p \in Peticiones : peticion[p].op \in DeOficina => peticion[p].leido \in Cobro

\* Nothing is settled, and no boleta issued, by a transaction that the gateway did not
\* collect, whatever is written back late.
PagoRespaldado ==
    \A t \in Txs :
        (\E c \in Cobros : cobro[c].pagado = t) \/ boletas[t] > 0
            => transaccion[t].estado = "APROBADO" /\ orden[t] = "pagada"

\* An approved payment leaves its charge settled, unless the office was writing it.
AprobadaPagaSuCobro ==
    \A t \in Txs : transaccion[t].estado = "APROBADO" /\ transaccion[t].cobro \in Cobros \ tocado
                       => cobro[transaccion[t].cobro].pagado \in Txs

\* Webhook and browser converge (M4): what the first decided, the second does not change.
EstadoFinalFirme ==
    [][\A t \in Txs : transaccion[t].estado \in Finales
                          => transaccion'[t].estado = transaccion[t].estado]_vars
=============================================================================
