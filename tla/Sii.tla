---------------------------------- MODULE Sii ----------------------------------
(***************************************************************************)
(* Tax documents: "store first, emit later".  A document is stored when a  *)
(* payment is approved; issuing it at the provider is tried right after,   *)
(* by a cron and by hand, at most one attempt at a time: an attempt is     *)
(* claimed in the database, the provider is called with no transaction     *)
(* open, and the result is stored.  The process may die between any two.   *)
(***************************************************************************)
EXTENDS Integers, FiniteSets

CONSTANTS
    Txs,             \* payment transactions; each has one document at most
    MAX_INTENTOS,    \* 5 in the code
    MaxFallosSii     \* bound on rejections, lost answers, failed saves and crashes

ASSUME IntentosAssumption == MAX_INTENTOS \in Nat \ {0}

VARIABLES
    encargos,        \* crearYEmitirAsync calls that a commit left to be run
    documento,       \* tx -> its document
    aReintentar,     \* what the cron listed and has not reached yet
    emision,         \* tx -> the attempt under way
    boletas,         \* tx -> boletas that the provider issued for it
    sinConstancia,   \* tx -> boletas of which the database never heard
    fallosSii

varsSii == <<encargos, documento, aReintentar, emision, boletas, sinConstancia, fallosSii>>

\* What `NOW() - ultimo_intento_at` is compared with, in minutes: under 1, 1, 5, 10.
Antiguedades == 0..3
Nunca == 4

Documento ==
    [estado : {"no", "PENDIENTE_EMISION", "EMITIDO", "FALLIDO"},
     intentos : Nat, ultimo : Antiguedades \cup {Nunca}]

Emision == {"no", "reclamada", "emitida", "fallida"}

InitSii ==
    /\ encargos = {}
    /\ documento = [t \in Txs |-> [estado |-> "no", intentos |-> 0, ultimo |-> Nunca]]
    /\ aReintentar = {}
    /\ emision = [t \in Txs |-> "no"]
    /\ boletas = [t \in Txs |-> 0]
    /\ sinConstancia = [t \in Txs |-> 0]
    /\ fallosSii = 0

FallaSii == fallosSii < MaxFallosSii /\ fallosSii' = fallosSii + 1

---------------------------------------------------------------------------
\* Mutant: a claim that does not look at when the last attempt was
MutReclamableSiempre(t) == documento[t].estado = "PENDIENTE_EMISION"

\* reclamarIntento: a conditional UPDATE, so that of two callers one goes on.
Reclamable(t) ==
    /\ documento[t].estado = "PENDIENTE_EMISION"
    /\ documento[t].ultimo > 0

Reclamar(t) ==
    /\ documento' = [documento EXCEPT ![t].intentos = @ + 1, ![t].ultimo = 0]
    /\ emision' = [emision EXCEPT ![t] = "reclamada"]

\* crearYEmitirAsync, after the commit of the payment: the document, if the payment has
\* none yet, and its first attempt.
CrearDocumento(t) ==
    /\ t \in encargos
    /\ encargos' = encargos \ {t}
    /\ documento' = IF documento[t].estado = "no"
                    THEN [documento EXCEPT ![t].estado = "PENDIENTE_EMISION"] ELSE documento
    /\ UNCHANGED <<aReintentar, emision, boletas, sinConstancia, fallosSii>>

\* It is not awaited: it may come late, or not at all if the process dies before.
PrimerIntento(t) ==
    /\ documento[t].ultimo = Nunca
    /\ Reclamable(t)
    /\ Reclamar(t)
    /\ UNCHANGED <<encargos, aReintentar, boletas, sinConstancia, fallosSii>>

\* The "Reintentar" button
ReintentarAMano(t) ==
    /\ Reclamable(t)
    /\ documento[t].intentos <= MAX_INTENTOS   \* bound: one more than the cron would
    /\ Reclamar(t)
    /\ UNCHANGED <<encargos, aReintentar, boletas, sinConstancia, fallosSii>>

Agotado(t) ==
    /\ documento[t].estado = "PENDIENTE_EMISION"
    /\ documento[t].intentos >= MAX_INTENTOS
    /\ documento[t].ultimo = 3

PorReintentar(t) ==
    /\ documento[t].estado = "PENDIENTE_EMISION"
    /\ documento[t].intentos < MAX_INTENTOS
    /\ documento[t].ultimo \in {2, 3, Nunca}

\* Mutant: the cron without marcarFallidosAgotados
MutCronSinBarrido ==
    /\ \E t \in Txs : PorReintentar(t)
    /\ aReintentar' = {t \in Txs : PorReintentar(t)}
    /\ UNCHANGED <<encargos, documento, emision, boletas, sinConstancia, fallosSii>>

\* reintentarEmisiones, its transaction: what died with its attempts used up is FALLIDO,
\* and the rest is listed; emitir runs later, outside.
CronSii ==
    /\ \E t \in Txs : Agotado(t) \/ PorReintentar(t)
    /\ documento' = [t \in Txs |-> IF Agotado(t) THEN [documento[t] EXCEPT !.estado = "FALLIDO"]
                                   ELSE documento[t]]
    /\ aReintentar' = {t \in Txs : PorReintentar(t)}
    /\ UNCHANGED <<encargos, emision, boletas, sinConstancia, fallosSii>>

\* emitir on each of the list: it may have been claimed, or issued, in the meantime.
CronEmite(t) ==
    /\ t \in aReintentar
    /\ aReintentar' = aReintentar \ {t}
    /\ IF Reclamable(t) THEN Reclamar(t) ELSE UNCHANGED <<documento, emision>>
    /\ UNCHANGED <<encargos, boletas, sinConstancia, fallosSii>>

ProveedorEmite(t) ==
    /\ emision[t] = "reclamada"
    /\ boletas' = [boletas EXCEPT ![t] = @ + 1]
    /\ emision' = [emision EXCEPT ![t] = "emitida"]
    /\ UNCHANGED <<encargos, documento, aReintentar, sinConstancia, fallosSii>>

\* The provider rejects it, or cannot be reached.
ProveedorRechaza(t) ==
    /\ emision[t] = "reclamada"
    /\ FallaSii
    /\ emision' = [emision EXCEPT ![t] = "fallida"]
    /\ UNCHANGED <<encargos, documento, aReintentar, boletas, sinConstancia>>

\* It issues the boleta, but the answer does not come within TIMEOUT_MS; no key of ours
\* goes in the payload, so that the next attempt issues another.
RespuestaSiiPerdida(t) ==
    /\ emision[t] = "reclamada"
    /\ FallaSii
    /\ boletas' = [boletas EXCEPT ![t] = @ + 1]
    /\ sinConstancia' = [sinConstancia EXCEPT ![t] = @ + 1]
    /\ emision' = [emision EXCEPT ![t] = "fallida"]
    /\ UNCHANGED <<encargos, documento, aReintentar>>

PersistirResultado(t) ==
    /\ emision[t] \in {"emitida", "fallida"}
    /\ documento' = [documento EXCEPT ![t].estado =
                         IF emision[t] = "emitida" THEN "EMITIDO"
                         ELSE IF documento[t].intentos >= MAX_INTENTOS THEN "FALLIDO"
                         ELSE "PENDIENTE_EMISION"]
    /\ emision' = [emision EXCEPT ![t] = "no"]
    /\ UNCHANGED <<encargos, aReintentar, boletas, sinConstancia, fallosSii>>

SeOlvida(t) == IF emision[t] = "emitida" THEN sinConstancia[t] + 1 ELSE sinConstancia[t]

\* The three saves fail: only the log knows the folio.
PersistirFalla(t) ==
    /\ emision[t] \in {"emitida", "fallida"}
    /\ FallaSii
    /\ sinConstancia' = [sinConstancia EXCEPT ![t] = SeOlvida(t)]
    /\ emision' = [emision EXCEPT ![t] = "no"]
    /\ UNCHANGED <<encargos, documento, aReintentar, boletas>>

\* The API dies: attempts, the list of the cron and calls not yet made go with it.
CaeSii ==
    /\ FallaSii
    /\ encargos # {} \/ aReintentar # {} \/ \E t \in Txs : emision[t] # "no"
    /\ encargos' = {}
    /\ aReintentar' = {}
    /\ sinConstancia' = [t \in Txs |-> SeOlvida(t)]
    /\ emision' = [t \in Txs |-> "no"]
    /\ UNCHANGED <<documento, boletas>>

\* Minutes pass.  The provider has 30 seconds, so that no attempt is under way a minute
\* after its claim.
Envejecer(t) ==
    /\ documento[t].ultimo < 3
    /\ emision[t] = "no"
    /\ documento[t].estado = "PENDIENTE_EMISION"
    /\ documento' = [documento EXCEPT ![t].ultimo = @ + 1]
    /\ UNCHANGED <<encargos, aReintentar, emision, boletas, sinConstancia, fallosSii>>

AvanzaEmision(t) == ProveedorEmite(t) \/ PersistirResultado(t)

FallaEmision(t) == ProveedorRechaza(t) \/ RespuestaSiiPerdida(t) \/ PersistirFalla(t)

NextSii ==
    \/ CronSii \/ CaeSii
    \/ \E t \in Txs :
           \/ CrearDocumento(t) \/ PrimerIntento(t) \/ ReintentarAMano(t) \/ CronEmite(t)
           \/ AvanzaEmision(t) \/ FallaEmision(t) \/ Envejecer(t)

FairSii ==
    /\ WF_varsSii(CronSii)
    /\ \A t \in Txs : WF_varsSii(CronEmite(t)) /\ WF_varsSii(AvanzaEmision(t))
                      /\ WF_varsSii(Envejecer(t))

---------------------------------------------------------------------------
TypeOKSii ==
    /\ encargos \subseteq Txs /\ aReintentar \subseteq Txs
    /\ documento \in [Txs -> Documento]
    /\ emision \in [Txs -> Emision]

\* A payment gets one boleta, and another only for each that was issued without the
\* database hearing of it: two attempts never overlap, and an issued document is never
\* issued again.
EmisionUnica == \A t \in Txs : boletas[t] <= 1 + sinConstancia[t]

\* No document stays in PENDIENTE_EMISION for ever, however the process died.
DocumentoTermina ==
    \A t \in Txs : documento[t].estado = "PENDIENTE_EMISION"
                       ~> documento[t].estado \in {"EMITIDO", "FALLIDO"}

\* "Para idempotencia: si Open Factura recibe la misma key, no re-emite": a payment has
\* one boleta, whatever gets lost.
BoletaUnica == \A t \in Txs : boletas[t] <= 1
=============================================================================
