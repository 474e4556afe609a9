----------------------------- MODULE PagosProofs -----------------------------
(***************************************************************************)
(* Theorems of Pagos and of the documents that its approvals order (Sii),  *)
(* for any number of charges, transactions, requests, attempts and faults. *)
(***************************************************************************)
EXTENDS Pagos, TLAPS

-----------------------------------------------------------------------------
(* The inductive invariant                                                 *)

Peticion ==
    [op : {"libre", "iniciar", "confirmar", "acreditar"} \cup DeOficina,
     c : Cobros \cup {Nada}, tx : Txs \cup {Nada}, leido : Cobro \cup {Nada}]

Tipos ==
    /\ cobro \in [Cobros -> Cobro]
    /\ transaccion \in [Txs -> Transaccion]
    /\ orden \in [Txs -> {"no", "abierta", "pagada", "rechazada"}]
    /\ peticion \in [Peticiones -> Peticion]
    /\ tocado \subseteq Cobros

TiposSii ==
    /\ TypeOKSii
    /\ boletas \in [Txs -> Nat]
    /\ sinConstancia \in [Txs -> Nat]

\* The boletas that the provider issued are those the database knows of, the one whose
\* answer is about to be stored, and those of which nobody will hear.
Cuenta(d, e, b, s) ==
    /\ b = s + (IF d.estado = "EMITIDO" THEN 1 ELSE 0) + (IF e = "emitida" THEN 1 ELSE 0)
    /\ e # "no" => d.estado = "PENDIENTE_EMISION" /\ d.ultimo = 0
    /\ d.estado = "no" => s = 0

EmisionContada == \A t \in Txs : Cuenta(documento[t], emision[t], boletas[t], sinConstancia[t])

\* The gateway collected it and the database knows.
Respaldada(t) == transaccion[t].estado = "APROBADO" /\ orden[t] = "pagada"

\* Each step of a request leaves what the next one counts on.  An order is started by
\* one request only, with a transaction that nobody else knows;
IniciaBien(p) == peticion[p].op = "iniciar" =>
    /\ peticion[p].tx \in Txs /\ peticion[p].c \in Cobros
    /\ transaccion[peticion[p].tx].estado = "no"
    /\ \A q \in Peticiones : peticion[q].tx = peticion[p].tx => q = p

\* a confirmation is of a transaction that exists;
ConfirmaBien(p) == peticion[p].op = "confirmar" =>
    peticion[p].tx \in Txs /\ transaccion[peticion[p].tx].estado # "no"

\* who credits one holds its lock alone, and the gateway collected it;
AcreditaBien(p) == peticion[p].op = "acreditar" =>
    /\ peticion[p].tx \in Txs
    /\ transaccion[peticion[p].tx].estado = "PAGO_EN_TRANSITO"
    /\ orden[peticion[p].tx] = "pagada"
    /\ peticion[p].leido # Nada => peticion[p].c \in Cobros
    /\ \A q \in Peticiones :
           peticion[q].op = "acreditar" /\ peticion[q].tx = peticion[p].tx => q = p

\* the office holds a copy of a charge that it has touched;
OficinaBien(p) ==
    peticion[p].op \in DeOficina => peticion[p].c \in tocado /\ peticion[p].leido \in Cobro

\* and a copy names no payment that is not backed.
CopiaBien(p) == peticion[p].leido # Nada /\ peticion[p].leido.pagado \in Txs =>
    Respaldada(peticion[p].leido.pagado)

\* Who is about to settle a charge that the office has not read knows how it is.
SabeBien(p) == peticion[p].op = "acreditar" =>
    /\ transaccion[peticion[p].tx].cobro \in {peticion[p].c, Nada}
    /\ peticion[p].c \in Cobros \ tocado =>
           /\ peticion[p].leido # Nada
           /\ peticion[p].leido.pagado # Nada => cobro[peticion[p].c].pagado \in Txs
           /\ peticion[p].leido.vivo

PasoBien(p) ==
    /\ IniciaBien(p) /\ ConfirmaBien(p) /\ AcreditaBien(p)
    /\ OficinaBien(p) /\ CopiaBien(p) /\ SabeBien(p)

Pasos == \A p \in Peticiones : PasoBien(p)

\* What is settled, ordered or issued has a payment behind it.
Respaldo ==
    /\ \A c \in Cobros : cobro[c].pagado \in Txs => Respaldada(cobro[c].pagado)
    /\ \A t \in Txs : t \in encargos \/ documento[t].estado # "no" => Respaldada(t)

\* What the office has not read is alive and settled by transactions only.
SinTocar == \A c \in Cobros \ tocado : cobro[c].vivo /\ cobro[c].pagado # A_MANO

IInv == Tipos /\ TiposSii /\ EmisionContada /\ Pasos /\ Respaldo /\ SinTocar /\ AprobadaPagaSuCobro

-----------------------------------------------------------------------------
(* The documents                                                           *)

\* Every step of the documents keeps their types and the count of the boletas
\* (reclamarIntento and persistirResultado, with any fault in between).
LEMMA DocumentosBien ==
    ASSUME TiposSii, EmisionContada, NextSii
    PROVE  TiposSii' /\ EmisionContada'
<1> USE DEF TiposSii, TypeOKSii, Documento, Emision, Antiguedades, Nunca, EmisionContada, Cuenta,
            FallaSii, Reclamar, Reclamable, SeOlvida
<1>1. CASE CronSii
    <2>1. documento' \in [Txs -> Documento]
        BY <1>1 DEF CronSii
    <2>2. \A t \in Txs : documento'[t] # documento[t] =>
              /\ documento[t].estado = "PENDIENTE_EMISION" /\ documento[t].ultimo = 3
              /\ documento'[t].estado = "FALLIDO"
        BY <1>1 DEF CronSii, Agotado
    <2>3. QED
        BY <1>1, <2>1, <2>2 DEF CronSii, PorReintentar
<1>2. CASE CaeSii
    BY <1>2 DEF CaeSii
<1>3. ASSUME NEW t \in Txs, CrearDocumento(t)
      PROVE  TiposSii' /\ EmisionContada'
    BY <1>3 DEF CrearDocumento
<1>4. ASSUME NEW t \in Txs, PrimerIntento(t) \/ ReintentarAMano(t)
      PROVE  TiposSii' /\ EmisionContada'
    BY <1>4 DEF PrimerIntento, ReintentarAMano
<1>5. ASSUME NEW t \in Txs, CronEmite(t)
      PROVE  TiposSii' /\ EmisionContada'
    BY <1>5 DEF CronEmite
<1>6. ASSUME NEW t \in Txs, ProveedorEmite(t)
      PROVE  TiposSii' /\ EmisionContada'
    BY <1>6 DEF ProveedorEmite
<1>7. ASSUME NEW t \in Txs, PersistirResultado(t)
      PROVE  TiposSii' /\ EmisionContada'
    <2> DEFINE fin == IF emision[t] = "emitida" THEN "EMITIDO"
                      ELSE IF documento[t].intentos >= MAX_INTENTOS THEN "FALLIDO"
                      ELSE "PENDIENTE_EMISION"
    <2>1. documento' = [documento EXCEPT ![t].estado = fin]
        BY <1>7 DEF PersistirResultado
    <2>2. /\ fin \in {"EMITIDO", "FALLIDO", "PENDIENTE_EMISION"}
          /\ fin = "EMITIDO" <=> emision[t] = "emitida"
        OBVIOUS
    <2>3. documento[t].estado = "PENDIENTE_EMISION"
        BY <1>7 DEF PersistirResultado
    <2> HIDE DEF fin
    <2>4. documento' \in [Txs -> Documento]
        BY <2>1, <2>2
    <2>5. QED
        BY <1>7, <2>1, <2>2, <2>3, <2>4 DEF PersistirResultado
<1>8. ASSUME NEW t \in Txs, FallaEmision(t)
      PROVE  TiposSii' /\ EmisionContada'
    <2>1. CASE ProveedorRechaza(t)
        BY <2>1 DEF ProveedorRechaza
    <2>2. CASE RespuestaSiiPerdida(t)
        BY <2>2 DEF RespuestaSiiPerdida
    <2>3. CASE PersistirFalla(t)
        BY <2>3 DEF PersistirFalla
    <2>4. QED
        BY <1>8, <2>1, <2>2, <2>3 DEF FallaEmision
<1>9. ASSUME NEW t \in Txs, Envejecer(t)
      PROVE  TiposSii' /\ EmisionContada'
    BY <1>9 DEF Envejecer
<1>10. QED
    BY <1>1, <1>2, <1>3, <1>4, <1>5, <1>6, <1>7, <1>8, <1>9 DEF NextSii, AvanzaEmision

\* A document comes only from an order that a commit left.
LEMMA DocumentoEncargado ==
    ASSUME TiposSii, EmisionContada, NextSii, NEW t \in Txs,
           t \in encargos' \/ documento'[t].estado # "no"
    PROVE  t \in encargos \/ documento[t].estado # "no"
<1> USE DEF TiposSii, TypeOKSii, Documento, EmisionContada, Cuenta, Reclamar, Reclamable
<1>1. CASE CronSii
    BY <1>1 DEF CronSii, Agotado
<1>2. CASE CaeSii
    BY <1>2 DEF CaeSii
<1>3. CASE \E u \in Txs : CrearDocumento(u)
    BY <1>3 DEF CrearDocumento
<1>4. CASE \E u \in Txs : PrimerIntento(u) \/ ReintentarAMano(u) \/ CronEmite(u)
    BY <1>4 DEF PrimerIntento, ReintentarAMano, CronEmite
<1>5. CASE \E u \in Txs : AvanzaEmision(u)
    BY <1>5 DEF AvanzaEmision, ProveedorEmite, PersistirResultado
<1>6. CASE \E u \in Txs : FallaEmision(u) \/ Envejecer(u)
    BY <1>6 DEF FallaEmision, ProveedorRechaza, RespuestaSiiPerdida, PersistirFalla, Envejecer
<1>7. QED
    BY <1>1, <1>2, <1>3, <1>4, <1>5, <1>6 DEF NextSii

-----------------------------------------------------------------------------
(* The payments                                                            *)

\* syncDunning and the due dates leave who settled a charge, and that it exists.
LEMMA DunningNoPaga ==
    ASSUME NEW k \in Cobro
    PROVE  ConDunning(k) \in Cobro /\ ConDunning(k).pagado = k.pagado /\ ConDunning(k).vivo = k.vivo
BY DEF ConDunning, DunningDe, Cobro

\* What the office writes is settled by hand, by nobody or as it was read.
LEMMA EscritosBien ==
    ASSUME NEW op, NEW k \in Cobro, NEW n \in Cobro, Escribe(op, k, n)
    PROVE  n.pagado \in {k.pagado, A_MANO, Nada} /\ (op # "eliminar" => n.vivo = k.vivo)
<1>1. CASE op = "editar"
    <2>1. PICK x \in BOOLEAN, m \in {0, k.mora} :
              n = ConDunning([k EXCEPT !.cancelado = x, !.mora = m])
        BY <1>1 DEF Escribe
    <2>2. m \in 0..2
        BY <2>1 DEF Cobro
    <2>3. /\ [k EXCEPT !.cancelado = x, !.mora = m] \in Cobro
          /\ [k EXCEPT !.cancelado = x, !.mora = m].pagado = k.pagado
          /\ [k EXCEPT !.cancelado = x, !.mora = m].vivo = k.vivo
        BY <2>1, <2>2 DEF Cobro
    <2>4. QED
        BY <2>1, <2>3, DunningNoPaga
<1>2. CASE op = "marcar pagado"
    <2> DEFINE q == [k EXCEPT !.pagado = A_MANO]
    <2>1. n = ConDunning(q) /\ q \in Cobro /\ q.pagado = A_MANO /\ q.vivo = k.vivo
        BY <1>2 DEF Escribe, Cobro
    <2>2. QED
        BY <2>1, DunningNoPaga
<1>3. CASE op = "revertir"
    <2> DEFINE q == [k EXCEPT !.pagado = Nada]
    <2>1. n = ConDunning(q) /\ q \in Cobro /\ q.pagado = Nada /\ q.vivo = k.vivo
        BY <1>3 DEF Escribe, Cobro
    <2>2. QED
        BY <2>1, DunningNoPaga
<1>4. CASE op = "eliminar"
    BY <1>4 DEF Escribe, Cobro
<1>5. CASE op = "avisar"
    BY <1>5 DEF Escribe
<1>6. QED
    BY <1>1, <1>2, <1>3, <1>4, <1>5 DEF Escribe

\* Whoever confirms a transaction leaves backed what was.
LEMMA RespaldoDura ==
    ASSUME Tipos, Pasos, [Next]_vars, NEW t \in Txs, Respaldada(t)
    PROVE  Respaldada(t)'
<1> USE DEF Tipos, Transaccion, Respaldada
<1>1. CASE \E p \in Peticiones : OrdenCreada(p)
    BY <1>1 DEF OrdenCreada, Pasos, PasoBien, IniciaBien
<1>2. CASE \E p \in Peticiones, u \in Txs : NoAcredita(p, u)
    BY <1>2 DEF NoAcredita, ConEstado, Finales
<1>3. CASE \E p \in Peticiones : Acreditar(p)
    BY <1>3 DEF Acreditar, ConEstado
<1>4. CASE \E p \in Peticiones : GuardarCobro(p)
    BY <1>4 DEF GuardarCobro
<1>5. CASE \E u \in Txs : Pagar(u) \/ Expirar(u)
    BY <1>5 DEF Pagar, Expirar, bd
<1>6. CASE UNCHANGED <<transaccion, orden>>
    BY <1>6
<1>7. QED
    BY <1>1, <1>2, <1>3, <1>4, <1>5, <1>6
    DEF Next, NextPagos, SoloSii, IniciarPago, LeerTransaccion, Aprobar, LeerCobro, OrdenFalla,
        ConfirmarFalla, PasanDias, RecalcularEstados, vars, bd

-----------------------------------------------------------------------------
(* Each step of a payment keeps the invariant                              *)

Pago == Tipos /\ Pasos /\ Respaldo /\ SinTocar /\ AprobadaPagaSuCobro

\* A request that ended asks nothing of the state.
LEMMA LibreBien ==
    ASSUME NEW p, peticion'[p] = Libre
    PROVE  PasoBien(p)'
BY NadaAssumption DEF PasoBien, IniciaBien, ConfirmaBien, AcreditaBien, OficinaBien, CopiaBien,
                      SabeBien, Libre, DeOficina

\* A payment is started for a charge, with a transaction that nobody uses.
LEMMA IniciarPagoBien ==
    ASSUME Pago, TiposSii, NEW p \in Peticiones, NEW c \in Cobros, NEW t \in Txs, IniciarPago(p,
           c, t)
    PROVE  Pago'
<1> USE DEF Pago
<1>1. /\ peticion'[p] = [op |-> "iniciar", c |-> c, tx |-> t, leido |-> cobro[c]]
      /\ \A q \in Peticiones : q # p => peticion'[q] = peticion[q]
      /\ transaccion[t].estado = "no" /\ \A q \in Peticiones : peticion[q].tx # t
      /\ UNCHANGED <<cobro, transaccion, orden, tocado, encargos, documento>>
    BY NadaAssumption DEF IniciarPago, Empieza, SinUsar, bd, Tipos, Transaccion, varsSii
<1>2. Tipos'
    BY NadaAssumption DEF IniciarPago, Empieza, SinUsar, bd, Tipos, Transaccion, Peticion, Libre,
        DeOficina
<1>3. \A u \in Txs : Respaldada(u) => Respaldada(u)'
    BY RespaldoDura DEF Next, NextPagos
<1>4. ASSUME NEW q \in Peticiones, q # p
      PROVE  PasoBien(q)'
    <2>1. peticion'[q] = peticion[q] /\ PasoBien(q) /\ peticion[q] \in Peticion
        BY <1>1, <1>4 DEF Pasos, Tipos
    <2>2. IniciaBien(q)'
        BY <1>1, <2>1, NadaAssumption DEF PasoBien, IniciaBien, Libre, Tipos
    <2>3. ConfirmaBien(q)'
        BY <1>1, <2>1 DEF PasoBien, ConfirmaBien
    <2>4. AcreditaBien(q)'
        BY <1>1, <2>1 DEF PasoBien, AcreditaBien, Libre
    <2>5. OficinaBien(q)'
        BY <1>1, <2>1 DEF PasoBien, OficinaBien
    <2>6. CopiaBien(q)'
        BY <1>3, <2>1 DEF PasoBien, CopiaBien
    <2>7. SabeBien(q)'
        BY <1>1, <2>1 DEF PasoBien, SabeBien, AcreditaBien
    <2>8. QED
        BY <2>2, <2>3, <2>4, <2>5, <2>6, <2>7 DEF PasoBien
<1>5. PasoBien(p)'
    <2>1. IniciaBien(p)'
        BY <1>1 DEF IniciaBien, DeOficina
    <2>2. ConfirmaBien(p)' /\ AcreditaBien(p)' /\ SabeBien(p)'
        BY <1>1 DEF ConfirmaBien, AcreditaBien, SabeBien, DeOficina
    <2>3. OficinaBien(p)'
        BY <1>1 DEF OficinaBien, DeOficina
    <2>4. CopiaBien(p)'
        BY <1>1, <1>3, NadaAssumption DEF CopiaBien, Respaldo
    <2>5. QED
        BY <2>1, <2>2, <2>3, <2>4 DEF PasoBien
<1>6. Respaldo'
    BY <1>1, <1>3 DEF Respaldo, TiposSii, TypeOKSii, Tipos, Cobro
<1>7. SinTocar' /\ AprobadaPagaSuCobro'
    BY <1>1, <1>2 DEF Tipos, Transaccion, SinTocar, AprobadaPagaSuCobro
<1>8. QED
    BY <1>2, <1>4, <1>5, <1>6, <1>7 DEF Pasos

\* The transaction is committed with its order.
LEMMA OrdenCreadaBien ==
    ASSUME Pago, TiposSii, NEW p \in Peticiones, OrdenCreada(p)
    PROVE  Pago'
<1> USE DEF Pago
<1>1. /\ peticion'[p] = Libre
      /\ \A q \in Peticiones : q # p => peticion'[q] = peticion[q]
      /\ peticion[p].op = "iniciar"
      /\ \A q \in Peticiones : peticion[q].tx = peticion[p].tx => q = p
      /\ \A t \in Txs : t # peticion[p].tx => transaccion'[t] = transaccion[t] /\ orden'[t] = orden[t]
      /\ transaccion'[peticion[p].tx].estado = "PAGO_EN_TRANSITO"
      /\ UNCHANGED <<cobro, tocado, encargos, documento>>
    BY NadaAssumption DEF OrdenCreada, Acaba, Tipos, Transaccion, varsSii, Peticion, PasoBien,
        Pasos, IniciaBien, Libre
<1>2. Tipos'
    BY NadaAssumption DEF OrdenCreada, Acaba, Tipos, Transaccion, Peticion, Libre, DeOficina
<1>3. \A u \in Txs : Respaldada(u) => Respaldada(u)'
    BY RespaldoDura DEF Next, NextPagos
<1>4. ASSUME NEW q \in Peticiones, q # p
      PROVE  PasoBien(q)'
    <2>1. peticion'[q] = peticion[q] /\ PasoBien(q) /\ peticion[q] \in Peticion
        BY <1>1, <1>4 DEF Pasos, Tipos
    <2>2. IniciaBien(q)'
        BY <1>1, <2>1, NadaAssumption DEF PasoBien, IniciaBien, Libre, Tipos
    <2>3. ConfirmaBien(q)'
        BY <1>1, <2>1 DEF PasoBien, ConfirmaBien
    <2>4. AcreditaBien(q)'
        BY <1>1, <2>1 DEF PasoBien, AcreditaBien, Libre
    <2>5. OficinaBien(q)'
        BY <1>1, <2>1 DEF PasoBien, OficinaBien
    <2>6. CopiaBien(q)'
        BY <1>3, <2>1 DEF PasoBien, CopiaBien
    <2>7. SabeBien(q)'
        BY <1>1, <2>1 DEF PasoBien, SabeBien, AcreditaBien
    <2>8. QED
        BY <2>2, <2>3, <2>4, <2>5, <2>6, <2>7 DEF PasoBien
<1>5. PasoBien(p)'
    BY <1>1, LibreBien
<1>6. Respaldo'
    BY <1>1, <1>3 DEF Respaldo, TiposSii, TypeOKSii, Tipos, Cobro
<1>7. SinTocar' /\ AprobadaPagaSuCobro'
    BY <1>1, <1>2 DEF Tipos, Transaccion, SinTocar, AprobadaPagaSuCobro
<1>8. QED
    BY <1>2, <1>4, <1>5, <1>6, <1>7 DEF Pasos

\* The gateway does not answer, and nothing is left.
LEMMA OrdenFallaBien ==
    ASSUME Pago, TiposSii, NEW p \in Peticiones, OrdenFalla(p)
    PROVE  Pago'
<1> USE DEF Pago
<1>1. /\ peticion'[p] = Libre
      /\ \A q \in Peticiones : q # p => peticion'[q] = peticion[q]
      /\ UNCHANGED <<cobro, transaccion, orden, tocado, encargos, documento>>
    BY NadaAssumption DEF OrdenFalla, Acaba, bd, Tipos, Transaccion, varsSii, Libre
<1>2. Tipos'
    BY NadaAssumption DEF OrdenFalla, Acaba, bd, Tipos, Transaccion, Peticion, Libre, DeOficina
<1>3. \A u \in Txs : Respaldada(u) => Respaldada(u)'
    BY RespaldoDura DEF Next, NextPagos
<1>4. ASSUME NEW q \in Peticiones, q # p
      PROVE  PasoBien(q)'
    <2>1. peticion'[q] = peticion[q] /\ PasoBien(q) /\ peticion[q] \in Peticion
        BY <1>1, <1>4 DEF Pasos, Tipos
    <2>2. IniciaBien(q)'
        BY <1>1, <2>1, NadaAssumption DEF PasoBien, IniciaBien, Libre, Tipos
    <2>3. ConfirmaBien(q)'
        BY <1>1, <2>1 DEF PasoBien, ConfirmaBien
    <2>4. AcreditaBien(q)'
        BY <1>1, <2>1 DEF PasoBien, AcreditaBien, Libre
    <2>5. OficinaBien(q)'
        BY <1>1, <2>1 DEF PasoBien, OficinaBien
    <2>6. CopiaBien(q)'
        BY <1>3, <2>1 DEF PasoBien, CopiaBien
    <2>7. SabeBien(q)'
        BY <1>1, <2>1 DEF PasoBien, SabeBien, AcreditaBien
    <2>8. QED
        BY <2>2, <2>3, <2>4, <2>5, <2>6, <2>7 DEF PasoBien
<1>5. PasoBien(p)'
    BY <1>1, LibreBien
<1>6. Respaldo'
    BY <1>1, <1>3 DEF Respaldo, TiposSii, TypeOKSii, Tipos, Cobro
<1>7. SinTocar' /\ AprobadaPagaSuCobro'
    BY <1>1, <1>2 DEF Tipos, Transaccion, SinTocar, AprobadaPagaSuCobro
<1>8. QED
    BY <1>2, <1>4, <1>5, <1>6, <1>7 DEF Pasos

\* A confirmation arrives.
LEMMA LeerTransaccionBien ==
    ASSUME Pago, TiposSii, NEW p \in Peticiones, NEW t \in Txs, LeerTransaccion(p, t)
    PROVE  Pago'
<1> USE DEF Pago
<1>1. /\ peticion'[p] = [op |-> "confirmar", c |-> Nada, tx |-> t, leido |-> Nada]
      /\ \A q \in Peticiones : q # p => peticion'[q] = peticion[q]
      /\ transaccion[t].estado # "no"
      /\ UNCHANGED <<cobro, transaccion, orden, tocado, encargos, documento>>
    BY NadaAssumption DEF LeerTransaccion, Empieza, bd, Tipos, Transaccion, varsSii
<1>2. Tipos'
    BY NadaAssumption DEF LeerTransaccion, Empieza, bd, Tipos, Transaccion, Peticion, Libre,
        DeOficina
<1>3. \A u \in Txs : Respaldada(u) => Respaldada(u)'
    BY RespaldoDura DEF Next, NextPagos
<1>4. ASSUME NEW q \in Peticiones, q # p
      PROVE  PasoBien(q)'
    <2>1. peticion'[q] = peticion[q] /\ PasoBien(q) /\ peticion[q] \in Peticion
        BY <1>1, <1>4 DEF Pasos, Tipos
    <2>2. IniciaBien(q)'
        BY <1>1, <2>1, NadaAssumption DEF PasoBien, IniciaBien, Libre, Tipos
    <2>3. ConfirmaBien(q)'
        BY <1>1, <2>1 DEF PasoBien, ConfirmaBien
    <2>4. AcreditaBien(q)'
        BY <1>1, <2>1 DEF PasoBien, AcreditaBien, Libre
    <2>5. OficinaBien(q)'
        BY <1>1, <2>1 DEF PasoBien, OficinaBien
    <2>6. CopiaBien(q)'
        BY <1>3, <2>1 DEF PasoBien, CopiaBien
    <2>7. SabeBien(q)'
        BY <1>1, <2>1 DEF PasoBien, SabeBien, AcreditaBien
    <2>8. QED
        BY <2>2, <2>3, <2>4, <2>5, <2>6, <2>7 DEF PasoBien
<1>5. PasoBien(p)'
    <2>1. IniciaBien(p)'
        BY <1>1 DEF IniciaBien, DeOficina
    <2>2. ConfirmaBien(p)' /\ AcreditaBien(p)' /\ SabeBien(p)'
        BY <1>1 DEF ConfirmaBien, AcreditaBien, SabeBien, DeOficina
    <2>3. OficinaBien(p)'
        BY <1>1 DEF OficinaBien, DeOficina
    <2>4. CopiaBien(p)'
        BY <1>1, <1>3, NadaAssumption DEF CopiaBien, Respaldo
    <2>5. QED
        BY <2>1, <2>2, <2>3, <2>4 DEF PasoBien
<1>6. Respaldo'
    BY <1>1, <1>3 DEF Respaldo, TiposSii, TypeOKSii, Tipos, Cobro
<1>7. SinTocar' /\ AprobadaPagaSuCobro'
    BY <1>1, <1>2 DEF Tipos, Transaccion, SinTocar, AprobadaPagaSuCobro
<1>8. QED
    BY <1>2, <1>4, <1>5, <1>6, <1>7 DEF Pasos

\* A confirmation that credits nothing.
LEMMA NoAcreditaBien ==
    ASSUME Pago, TiposSii, NEW p \in Peticiones, NEW t \in Txs, NoAcredita(p, t)
    PROVE  Pago'
<1> USE DEF Pago
<1>1. /\ peticion'[p] = Libre
      /\ \A q \in Peticiones : q # p => peticion'[q] = peticion[q]
      /\ transaccion[t].estado # "no" => transaccion'[t].estado # "no"
      /\ transaccion'[t].estado = "APROBADO" <=> transaccion[t].estado = "APROBADO"
      /\ transaccion'[t].cobro = transaccion[t].cobro
      /\ \A u \in Txs : u # t => transaccion'[u] = transaccion[u]
      /\ peticion[p].op = "confirmar" /\ peticion[p].tx = t
      /\ \A q \in Peticiones : ~(peticion[q].op = "acreditar" /\ peticion[q].tx = t)
      /\ UNCHANGED <<cobro, orden, tocado, encargos, documento>>
    BY NadaAssumption DEF NoAcredita, Acaba, ConEstado, Bloqueada, Finales, Tipos, Transaccion,
        varsSii, Libre
<1>2. Tipos'
    <2>1. transaccion' \in [Txs -> Transaccion]
        BY DEF NoAcredita, ConEstado, Tipos, Transaccion
    <2>2. peticion' \in [Peticiones -> Peticion]
        BY DEF NoAcredita, Acaba, Tipos, Peticion, Libre
    <2>3. QED
        BY <1>1, <2>1, <2>2 DEF Tipos
<1>3. \A u \in Txs : Respaldada(u) => Respaldada(u)'
    BY RespaldoDura DEF Next, NextPagos
<1>4. ASSUME NEW q \in Peticiones, q # p
      PROVE  PasoBien(q)'
    <2>1. peticion'[q] = peticion[q] /\ PasoBien(q) /\ peticion[q] \in Peticion
        BY <1>1, <1>4 DEF Pasos, Tipos
    <2>2. IniciaBien(q)'
        BY <1>1, <2>1, NadaAssumption DEF PasoBien, IniciaBien, Libre, Tipos
    <2>3. ConfirmaBien(q)'
        BY <1>1, <2>1 DEF PasoBien, ConfirmaBien
    <2>4. AcreditaBien(q)'
        BY <1>1, <2>1 DEF PasoBien, AcreditaBien, Libre
    <2>5. OficinaBien(q)'
        BY <1>1, <2>1 DEF PasoBien, OficinaBien
    <2>6. CopiaBien(q)'
        BY <1>3, <2>1 DEF PasoBien, CopiaBien
    <2>7. SabeBien(q)'
        BY <1>1, <2>1 DEF PasoBien, SabeBien, AcreditaBien
    <2>8. QED
        BY <2>2, <2>3, <2>4, <2>5, <2>6, <2>7 DEF PasoBien
<1>5. PasoBien(p)'
    BY <1>1, LibreBien
<1>6. Respaldo'
    BY <1>1, <1>3 DEF Respaldo, TiposSii, TypeOKSii, Tipos, Cobro
<1>7. SinTocar' /\ AprobadaPagaSuCobro'
    BY <1>1, <1>2 DEF Tipos, Transaccion, SinTocar, AprobadaPagaSuCobro
<1>8. QED
    BY <1>2, <1>4, <1>5, <1>6, <1>7 DEF Pasos

\* A confirmation fails and is rolled back.
LEMMA ConfirmarFallaBien ==
    ASSUME Pago, TiposSii, NEW p \in Peticiones, ConfirmarFalla(p)
    PROVE  Pago'
<1> USE DEF Pago
<1>1. /\ peticion'[p] = Libre
      /\ \A q \in Peticiones : q # p => peticion'[q] = peticion[q]
      /\ UNCHANGED <<cobro, transaccion, orden, tocado, encargos, documento>>
    BY NadaAssumption DEF ConfirmarFalla, Acaba, bd, Tipos, Transaccion, varsSii, Libre
<1>2. Tipos'
    BY NadaAssumption DEF ConfirmarFalla, Acaba, bd, Tipos, Transaccion, Peticion, Libre,
        DeOficina
<1>3. \A u \in Txs : Respaldada(u) => Respaldada(u)'
    BY RespaldoDura DEF Next, NextPagos
<1>4. ASSUME NEW q \in Peticiones, q # p
      PROVE  PasoBien(q)'
    <2>1. peticion'[q] = peticion[q] /\ PasoBien(q) /\ peticion[q] \in Peticion
        BY <1>1, <1>4 DEF Pasos, Tipos
    <2>2. IniciaBien(q)'
        BY <1>1, <2>1, NadaAssumption DEF PasoBien, IniciaBien, Libre, Tipos
    <2>3. ConfirmaBien(q)'
        BY <1>1, <2>1 DEF PasoBien, ConfirmaBien
    <2>4. AcreditaBien(q)'
        BY <1>1, <2>1 DEF PasoBien, AcreditaBien, Libre
    <2>5. OficinaBien(q)'
        BY <1>1, <2>1 DEF PasoBien, OficinaBien
    <2>6. CopiaBien(q)'
        BY <1>3, <2>1 DEF PasoBien, CopiaBien
    <2>7. SabeBien(q)'
        BY <1>1, <2>1 DEF PasoBien, SabeBien, AcreditaBien
    <2>8. QED
        BY <2>2, <2>3, <2>4, <2>5, <2>6, <2>7 DEF PasoBien
<1>5. PasoBien(p)'
    BY <1>1, LibreBien
<1>6. Respaldo'
    BY <1>1, <1>3 DEF Respaldo, TiposSii, TypeOKSii, Tipos, Cobro
<1>7. SinTocar' /\ AprobadaPagaSuCobro'
    BY <1>1, <1>2 DEF Tipos, Transaccion, SinTocar, AprobadaPagaSuCobro
<1>8. QED
    BY <1>2, <1>4, <1>5, <1>6, <1>7 DEF Pasos

\* The office reads a charge to write it.
LEMMA LeerCobroBien ==
    ASSUME Pago, TiposSii, NEW p \in Peticiones, NEW c \in Cobros, NEW op \in DeOficina,
           LeerCobro(p, op, c)
    PROVE  Pago'
<1> USE DEF Pago
<1>1. /\ peticion'[p] = [op |-> op, c |-> c, tx |-> Nada, leido |-> cobro[c]]
      /\ \A q \in Peticiones : q # p => peticion'[q] = peticion[q]
      /\ tocado' = tocado \cup {c}
      /\ op \notin {"libre", "iniciar", "confirmar", "acreditar"}
      /\ UNCHANGED <<cobro, transaccion, orden, encargos, documento>>
    BY NadaAssumption DEF LeerCobro, Puede, Empieza, bd, Tipos, Transaccion, varsSii, DeOficina
<1>2. Tipos'
    BY NadaAssumption DEF LeerCobro, Puede, Empieza, bd, Tipos, Transaccion, Peticion, Libre,
        DeOficina
<1>3. \A u \in Txs : Respaldada(u) => Respaldada(u)'
    BY RespaldoDura DEF Next, NextPagos
<1>4. ASSUME NEW q \in Peticiones, q # p
      PROVE  PasoBien(q)'
    <2>1. peticion'[q] = peticion[q] /\ PasoBien(q) /\ peticion[q] \in Peticion
        BY <1>1, <1>4 DEF Pasos, Tipos
    <2>2. IniciaBien(q)'
        BY <1>1, <2>1, NadaAssumption DEF PasoBien, IniciaBien, Libre, Tipos
    <2>3. ConfirmaBien(q)'
        BY <1>1, <2>1 DEF PasoBien, ConfirmaBien
    <2>4. AcreditaBien(q)'
        BY <1>1, <2>1 DEF PasoBien, AcreditaBien, Libre
    <2>5. OficinaBien(q)'
        BY <1>1, <2>1 DEF PasoBien, OficinaBien
    <2>6. CopiaBien(q)'
        BY <1>3, <2>1 DEF PasoBien, CopiaBien
    <2>7. SabeBien(q)'
        BY <1>1, <2>1 DEF PasoBien, SabeBien, AcreditaBien
    <2>8. QED
        BY <2>2, <2>3, <2>4, <2>5, <2>6, <2>7 DEF PasoBien
<1>5. PasoBien(p)'
    <2>1. IniciaBien(p)'
        BY <1>1 DEF IniciaBien, DeOficina
    <2>2. ConfirmaBien(p)' /\ AcreditaBien(p)' /\ SabeBien(p)'
        BY <1>1 DEF ConfirmaBien, AcreditaBien, SabeBien
    <2>3. OficinaBien(p)'
        BY <1>1 DEF OficinaBien, Tipos
    <2>4. CopiaBien(p)'
        BY <1>1, <1>3, NadaAssumption DEF CopiaBien, Respaldo
    <2>5. QED
        BY <2>1, <2>2, <2>3, <2>4 DEF PasoBien
<1>6. Respaldo'
    BY <1>1, <1>3 DEF Respaldo, TiposSii, TypeOKSii, Tipos, Cobro
<1>7. SinTocar' /\ AprobadaPagaSuCobro'
    BY <1>1, <1>2 DEF Tipos, Transaccion, SinTocar, AprobadaPagaSuCobro
<1>8. QED
    BY <1>2, <1>4, <1>5, <1>6, <1>7 DEF Pasos

\* The gateway collects an open order, or refuses it.
LEMMA PagarBien ==
    ASSUME Pago, TiposSii, NEW t \in Txs, Pagar(t)
    PROVE  Pago'
<1> USE DEF Pago
<1>1. /\ orden[t] = "abierta"
      /\ \A u \in Txs : u # t => orden'[u] = orden[u]
      /\ UNCHANGED <<cobro, transaccion, peticion, tocado, encargos, documento>>
    BY DEF Pagar, bd, varsSii, Tipos
<1>2. Tipos'
    BY DEF Pagar, bd, Tipos
<1>3. \A u \in Txs : Respaldada(u) => Respaldada(u)'
    BY RespaldoDura DEF Next, NextPagos
<1>4. ASSUME NEW q \in Peticiones
      PROVE  PasoBien(q)'
    <2>1. PasoBien(q)
        BY DEF Pasos
    <2>2. IniciaBien(q)' /\ ConfirmaBien(q)' /\ OficinaBien(q)' /\ SabeBien(q)'
        BY <1>1, <2>1 DEF PasoBien, IniciaBien, ConfirmaBien, OficinaBien, SabeBien
    <2>3. AcreditaBien(q)'
        BY <1>1, <2>1 DEF PasoBien, AcreditaBien
    <2>4. CopiaBien(q)'
        BY <1>1, <1>3, <2>1 DEF PasoBien, CopiaBien
    <2>5. QED
        BY <2>2, <2>3, <2>4 DEF PasoBien
<1>5. Respaldo'
    BY <1>1, <1>3 DEF Respaldo, Tipos, Cobro
<1>6. SinTocar' /\ AprobadaPagaSuCobro'
    BY <1>1 DEF SinTocar, AprobadaPagaSuCobro
<1>7. QED
    BY <1>2, <1>4, <1>5, <1>6 DEF Pasos

\* The gateway has collected: the charge is read under the lock of the transaction.
LEMMA AprobarBien ==
    ASSUME Pago, TiposSii, NEW p \in Peticiones, NEW t \in Txs, Aprobar(p, t)
    PROVE  Pago'
<1> USE DEF Pago
<1> DEFINE c == transaccion[t].cobro
           leido == IF c = Nada \/ ~cobro[c].vivo THEN Nada ELSE cobro[c]
           nueva == [op |-> "acreditar", tx |-> t, c |-> c, leido |-> leido]
<1>1. /\ peticion' = [peticion EXCEPT ![p] = nueva]
      /\ peticion[p].op = "confirmar" /\ peticion[p].tx = t
      /\ \A q \in Peticiones : ~(peticion[q].op = "acreditar" /\ peticion[q].tx = t)
      /\ transaccion[t].estado \notin Finales
      /\ orden[t] = "pagada"
      /\ UNCHANGED <<cobro, transaccion, orden, tocado, encargos, documento>>
    BY DEF Aprobar, Bloqueada, bd, varsSii
<1>2. /\ c \in Cobros \cup {Nada}
      /\ leido \in Cobro \cup {Nada}
      /\ leido # Nada => c \in Cobros /\ leido = cobro[c]
      /\ c \in Cobros /\ cobro[c].vivo => leido = cobro[c] /\ leido # Nada
    BY NadaAssumption DEF Tipos, Transaccion
<1>3. transaccion[t].estado = "PAGO_EN_TRANSITO"
    <2>1. PasoBien(p)
        BY DEF Pasos
    <2>2. transaccion[t].estado # "no"
        BY <1>1, <2>1 DEF PasoBien, ConfirmaBien
    <2>3. QED
        BY <1>1, <2>2 DEF Finales, Tipos, Transaccion
<1> HIDE DEF leido
<1>4. Tipos'
    BY <1>1, <1>2 DEF Tipos, Peticion
<1>5. /\ peticion'[p] = nueva
      /\ \A q \in Peticiones : q # p => peticion'[q] = peticion[q]
    BY <1>1 DEF Tipos
<1> HIDE DEF c
<1>6. ASSUME NEW q \in Peticiones, q # p
      PROVE  PasoBien(q)'
    <2>1. peticion'[q] = peticion[q] /\ PasoBien(q)
        BY <1>5, <1>6 DEF Pasos
    <2>2. IniciaBien(q)'
        BY <1>1, <1>5, <2>1 DEF PasoBien, IniciaBien
    <2>3. AcreditaBien(q)'
        BY <1>1, <1>5, <2>1 DEF PasoBien, AcreditaBien
    <2>4. ConfirmaBien(q)' /\ OficinaBien(q)' /\ CopiaBien(q)' /\ SabeBien(q)'
        BY <1>1, <2>1 DEF PasoBien, ConfirmaBien, OficinaBien, CopiaBien, SabeBien, Respaldada
    <2>5. QED
        BY <2>2, <2>3, <2>4 DEF PasoBien
<1>7. PasoBien(p)'
    <2>1. IniciaBien(p)' /\ ConfirmaBien(p)' /\ OficinaBien(p)'
        BY <1>5 DEF IniciaBien, ConfirmaBien, OficinaBien, DeOficina
    <2>2. AcreditaBien(p)'
        BY <1>1, <1>2, <1>3, <1>5 DEF AcreditaBien
    <2>3. CopiaBien(p)'
        BY <1>1, <1>2, <1>5 DEF CopiaBien, Respaldo, Respaldada
    <2>4. SabeBien(p)'
        BY <1>1, <1>2, <1>5 DEF SabeBien, SinTocar, Tipos, Cobro, c
    <2>5. QED
        BY <2>1, <2>2, <2>3, <2>4 DEF PasoBien
<1>8. Respaldo' /\ SinTocar' /\ AprobadaPagaSuCobro'
    BY <1>1 DEF Respaldo, Respaldada, SinTocar, AprobadaPagaSuCobro
<1>9. QED
    BY <1>4, <1>6, <1>7, <1>8 DEF Pasos

\* The charge is settled, with what was read of it, and the document is ordered.
LEMMA AcreditarBien ==
    ASSUME Pago, TiposSii, NEW p \in Peticiones, Acreditar(p)
    PROVE  Pago'
<1> USE DEF Pago
<1> DEFINE t == peticion[p].tx
           c == peticion[p].c
           k == peticion[p].leido
           paga == k # Nada /\ k.pagado = Nada
<1>1. /\ peticion[p].op = "acreditar" /\ t \in Txs /\ peticion[p] \in Peticion
      /\ transaccion[t].estado = "PAGO_EN_TRANSITO" /\ orden[t] = "pagada"
      /\ k # Nada => c \in Cobros
      /\ \A q \in Peticiones : peticion[q].op = "acreditar" /\ peticion[q].tx = t => q = p
    BY DEF Acreditar, Pasos, PasoBien, AcreditaBien, Tipos
<1>2. k # Nada => k \in Cobro
    BY <1>1 DEF Peticion
<1>3. /\ peticion' = [peticion EXCEPT ![p] = Libre]
      /\ transaccion' = [transaccion EXCEPT ![t].estado = "APROBADO"]
      /\ encargos' = encargos \cup {t}
      /\ cobro' = IF paga THEN [cobro EXCEPT ![c] = [k EXCEPT !.pagado = t]] ELSE cobro
      /\ UNCHANGED <<orden, tocado, documento>>
    BY DEF Acreditar, Acreditado, ConEstado, Acaba
<1>4. /\ transaccion' \in [Txs -> Transaccion]
      /\ transaccion'[t].estado = "APROBADO" /\ transaccion'[t].cobro = transaccion[t].cobro
      /\ \A u \in Txs : u # t => transaccion'[u] = transaccion[u]
    BY <1>1, <1>3 DEF Tipos, Transaccion
<1>5. /\ cobro' \in [Cobros -> Cobro]
      /\ \A d \in Cobros : d # c \/ ~paga => cobro'[d] = cobro[d]
      /\ paga => cobro'[c].pagado = t /\ cobro'[c].vivo = k.vivo
    <2>1. CASE paga
        <3>1. [k EXCEPT !.pagado = t] \in Cobro
            BY <1>1, <1>2, <2>1 DEF Cobro
        <3>2. [k EXCEPT !.pagado = t].pagado = t /\ [k EXCEPT !.pagado = t].vivo = k.vivo
            BY <1>2, <2>1 DEF Cobro
        <3>3. QED
            BY <1>1, <1>3, <2>1, <3>1, <3>2 DEF Tipos
    <2>2. CASE ~paga
        BY <1>3, <2>2 DEF Tipos
    <2>3. QED
        BY <2>1, <2>2
<1>6. /\ peticion' \in [Peticiones -> Peticion]
      /\ peticion'[p] = Libre
      /\ \A q \in Peticiones : q # p => peticion'[q] = peticion[q]
    BY <1>3 DEF Tipos, Peticion, Libre
<1>7. Tipos'
    BY <1>3, <1>4, <1>5, <1>6 DEF Tipos
<1>8. \A u \in Txs : Respaldada(u) => Respaldada(u)'
    BY <1>3, <1>4 DEF Respaldada
<1>9. transaccion'[t].estado = "APROBADO" /\ orden'[t] = "pagada"
    BY <1>1, <1>3, <1>4
<1>10. /\ SabeBien(p)
       /\ \A q \in Peticiones : PasoBien(q)
    BY DEF Pasos, PasoBien
<1> HIDE DEF t, c, k, paga
<1>11. ASSUME NEW q \in Peticiones, q # p
       PROVE  PasoBien(q)'
    <2>1. peticion'[q] = peticion[q] /\ PasoBien(q)
        BY <1>6, <1>10, <1>11
    <2>2. IniciaBien(q)'
        BY <1>1, <1>4, <1>6, <1>11, <2>1, NadaAssumption DEF PasoBien, IniciaBien, Libre, t
    <2>3. ConfirmaBien(q)' /\ OficinaBien(q)'
        BY <1>3, <1>4, <2>1 DEF PasoBien, ConfirmaBien, OficinaBien
    <2>4. AcreditaBien(q)'
        BY <1>1, <1>3, <1>4, <1>6, <1>11, <2>1 DEF PasoBien, AcreditaBien, Libre
    <2>5. CopiaBien(q)'
        BY <1>8, <2>1 DEF PasoBien, CopiaBien
    <2>6. SabeBien(q)'
        BY <1>1, <1>3, <1>4, <1>5, <1>11, <2>1 DEF PasoBien, AcreditaBien, SabeBien
    <2>7. QED
        BY <2>2, <2>3, <2>4, <2>5, <2>6 DEF PasoBien
<1>12. PasoBien(p)'
    BY <1>6, LibreBien
<1>13. Respaldo'
    BY <1>1, <1>3, <1>5, <1>8, <1>9 DEF Respaldo, Respaldada, Tipos, TiposSii, TypeOKSii
<1>14. SinTocar'
    BY <1>1, <1>3, <1>5, <1>10, NadaAssumption DEF SinTocar, SabeBien, c, k, paga
<1>15. AprobadaPagaSuCobro'
    <2> SUFFICES ASSUME NEW u \in Txs, transaccion'[u].estado = "APROBADO",
                        transaccion'[u].cobro \in Cobros \ tocado
                 PROVE  cobro'[transaccion'[u].cobro].pagado \in Txs
        BY <1>3 DEF AprobadaPagaSuCobro
    <2>1. CASE u = t
        BY <1>1, <1>4, <1>5, <1>10, <2>1, NadaAssumption DEF SabeBien, t, c, k, paga
    <2>2. CASE u # t
        BY <1>1, <1>4, <1>5, <2>2 DEF AprobadaPagaSuCobro
    <2>3. QED
        BY <2>1, <2>2
<1>16. QED
    BY <1>7, <1>11, <1>12, <1>13, <1>14, <1>15 DEF Pasos

\* What the steps that only touch a date or the arrears of a charge, or the date of a
\* transaction, leave as it was is all that the invariant reads of them.
LEMMA MismosPagosBien ==
    ASSUME Pago, TiposSii, Tipos',
           \A d \in Cobros : cobro'[d].pagado = cobro[d].pagado /\ cobro'[d].vivo = cobro[d].vivo,
           \A u \in Txs : /\ transaccion'[u].estado = transaccion[u].estado
                          /\ transaccion'[u].cobro = transaccion[u].cobro,
           UNCHANGED <<orden, peticion, tocado, encargos, documento>>
    PROVE  Pago'
<1> USE DEF Pago
<1>1. \A u \in Txs : Respaldada(u) => Respaldada(u)'
    BY DEF Respaldada
<1>2. ASSUME NEW q \in Peticiones
      PROVE  PasoBien(q)'
    <2>1. PasoBien(q)
        BY DEF Pasos
    <2>2. IniciaBien(q)' /\ ConfirmaBien(q)'
        BY <2>1 DEF PasoBien, IniciaBien, ConfirmaBien
    <2>3. AcreditaBien(q)' /\ OficinaBien(q)'
        BY <2>1 DEF PasoBien, AcreditaBien, OficinaBien
    <2>4. CopiaBien(q)'
        BY <1>1, <2>1 DEF PasoBien, CopiaBien
    <2>5. SabeBien(q)'
        BY <2>1 DEF PasoBien, AcreditaBien, SabeBien
    <2>6. QED
        BY <2>2, <2>3, <2>4, <2>5 DEF PasoBien
<1>3. Respaldo'
    BY <1>1 DEF Respaldo, TiposSii, TypeOKSii, Tipos
<1>4. SinTocar' /\ AprobadaPagaSuCobro'
    BY DEF SinTocar, AprobadaPagaSuCobro, Tipos, Transaccion
<1>5. QED
    BY <1>2, <1>3, <1>4 DEF Pasos

\* A transaction runs out of time.
LEMMA ExpirarBien ==
    ASSUME Pago, TiposSii, NEW t \in Txs, Expirar(t)
    PROVE  Pago'
<1>1. /\ transaccion' = [transaccion EXCEPT ![t].expirada = TRUE]
      /\ UNCHANGED <<cobro, orden, peticion, tocado, encargos, documento>>
    BY DEF Expirar, varsSii
<1>2. /\ transaccion' \in [Txs -> Transaccion]
      /\ \A u \in Txs : /\ transaccion'[u].estado = transaccion[u].estado
                        /\ transaccion'[u].cobro = transaccion[u].cobro
    BY <1>1 DEF Pago, Tipos, Transaccion
<1>3. Tipos'
    BY <1>1, <1>2 DEF Pago, Tipos
<1>4. QED
    BY <1>1, <1>2, <1>3, MismosPagosBien

\* A due date passes.
LEMMA PasanDiasBien ==
    ASSUME Pago, TiposSii, NEW c \in Cobros, PasanDias(c)
    PROVE  Pago'
<1>1. /\ cobro' = [cobro EXCEPT ![c].mora = @ + 1]
      /\ cobro[c].mora < 2
      /\ UNCHANGED <<transaccion, orden, peticion, tocado, encargos, documento>>
    BY DEF PasanDias, varsSii
<1>2. [cobro[c] EXCEPT !.mora = @ + 1] \in Cobro
    BY <1>1 DEF Pago, Tipos, Cobro
<1>3. /\ cobro' \in [Cobros -> Cobro]
      /\ \A d \in Cobros : cobro'[d].pagado = cobro[d].pagado /\ cobro'[d].vivo = cobro[d].vivo
    BY <1>1, <1>2 DEF Pago, Tipos, Cobro
<1>4. Tipos'
    BY <1>1, <1>3 DEF Pago, Tipos
<1>5. QED
    BY <1>1, <1>3, <1>4, MismosPagosBien

\* The cron of the arrears.
LEMMA RecalcularEstadosBien ==
    ASSUME Pago, TiposSii, RecalcularEstados
    PROVE  Pago'
<1>1. /\ cobro' = [c \in Cobros |-> IF cobro[c].vivo THEN ConDunning(cobro[c]) ELSE cobro[c]]
      /\ UNCHANGED <<transaccion, orden, peticion, tocado, encargos, documento>>
    BY DEF RecalcularEstados, varsSii
<1>2. /\ cobro' \in [Cobros -> Cobro]
      /\ \A d \in Cobros : cobro'[d].pagado = cobro[d].pagado /\ cobro'[d].vivo = cobro[d].vivo
    BY <1>1, DunningNoPaga DEF Pago, Tipos
<1>3. Tipos'
    BY <1>1, <1>2 DEF Pago, Tipos
<1>4. QED
    BY <1>1, <1>2, <1>3, MismosPagosBien

\* The office writes back what it read with its change, and deleting a charge leaves its
\* transactions without one.
LEMMA GuardarCobroBien ==
    ASSUME Pago, TiposSii, NEW p \in Peticiones, GuardarCobro(p)
    PROVE  Pago'
<1> USE DEF Pago
<1> DEFINE c == peticion[p].c
           k == peticion[p].leido
<1>1. PICK n \in Cobro : Escribe(peticion[p].op, k, n) /\ cobro' = [cobro EXCEPT ![c] = n]
    BY DEF GuardarCobro
<1>2. /\ peticion[p].op \in DeOficina
      /\ peticion' = [peticion EXCEPT ![p] = Libre]
      /\ transaccion' = IF peticion[p].op # "eliminar" THEN transaccion
                        ELSE [t \in Txs |-> IF transaccion[t].cobro # c THEN transaccion[t]
                                            ELSE [transaccion[t] EXCEPT !.cobro = Nada]]
      /\ UNCHANGED <<orden, tocado, encargos, documento>>
    BY DEF GuardarCobro, Acaba, varsSii
<1>3. c \in tocado /\ c \in Cobros /\ k \in Cobro /\ CopiaBien(p)
    BY <1>2 DEF Pasos, PasoBien, OficinaBien, Tipos
<1>4. n.pagado \in {k.pagado, A_MANO, Nada}
    BY <1>1, <1>3, EscritosBien
<1>5. n.pagado \in Txs => Respaldada(n.pagado)
    BY <1>3, <1>4, NadaAssumption DEF CopiaBien
<1>6. /\ cobro' \in [Cobros -> Cobro] /\ cobro'[c] = n
      /\ \A d \in Cobros : d # c => cobro'[d] = cobro[d]
    BY <1>1, <1>3 DEF Tipos
<1>7. /\ transaccion' \in [Txs -> Transaccion]
      /\ \A t \in Txs : /\ transaccion'[t].estado = transaccion[t].estado
                        /\ transaccion'[t].cobro \in {transaccion[t].cobro, Nada}
    BY <1>2 DEF Tipos, Transaccion
<1>8. /\ peticion' \in [Peticiones -> Peticion]
      /\ peticion'[p] = Libre
      /\ \A q \in Peticiones : q # p => peticion'[q] = peticion[q]
    BY <1>2 DEF Tipos, Peticion, Libre
<1>9. Tipos'
    BY <1>2, <1>6, <1>7, <1>8 DEF Tipos
<1>10. \A u \in Txs : Respaldada(u) => Respaldada(u)'
    BY <1>2, <1>7 DEF Respaldada
<1> HIDE DEF c, k
<1>11. ASSUME NEW q \in Peticiones, q # p
       PROVE  PasoBien(q)'
    <2>1. peticion'[q] = peticion[q] /\ PasoBien(q)
        BY <1>8, <1>11 DEF Pasos
    <2>2. IniciaBien(q)' /\ ConfirmaBien(q)'
        BY <1>7, <1>8, <2>1, NadaAssumption DEF PasoBien, IniciaBien, ConfirmaBien, Libre
    <2>3. AcreditaBien(q)'
        BY <1>2, <1>7, <1>8, <2>1 DEF PasoBien, AcreditaBien, Libre
    <2>4. OficinaBien(q)'
        BY <1>2, <2>1 DEF PasoBien, OficinaBien
    <2>5. CopiaBien(q)'
        BY <1>10, <2>1 DEF PasoBien, CopiaBien
    <2>6. SabeBien(q)'
        BY <1>2, <1>3, <1>6, <1>7, <2>1 DEF PasoBien, AcreditaBien, SabeBien
    <2>7. QED
        BY <2>2, <2>3, <2>4, <2>5, <2>6 DEF PasoBien
<1>12. PasoBien(p)'
    BY <1>8, LibreBien
<1>13. Respaldo'
    BY <1>2, <1>3, <1>5, <1>6, <1>10 DEF Respaldo, TiposSii, TypeOKSii
<1>14. SinTocar'
    BY <1>2, <1>3, <1>6 DEF SinTocar
<1>15. AprobadaPagaSuCobro'
    BY <1>2, <1>3, <1>6, <1>7, NadaAssumption DEF AprobadaPagaSuCobro
<1>16. QED
    BY <1>9, <1>11, <1>12, <1>13, <1>14, <1>15 DEF Pasos

-----------------------------------------------------------------------------
(* The theorems                                                            *)

\* The documents go their way without the payments being touched, and order nothing.
LEMMA SoloSiiBien ==
    ASSUME Pago, TiposSii, EmisionContada, SoloSii
    PROVE  Pago'
<1>1. UNCHANGED <<cobro, transaccion, orden, peticion, tocado>> /\ NextSii
    BY DEF SoloSii
<1>2. Tipos' /\ SinTocar' /\ AprobadaPagaSuCobro'
    BY <1>1 DEF Pago, Tipos, SinTocar, AprobadaPagaSuCobro
<1>3. Pasos'
    BY <1>1 DEF Pago, Pasos, PasoBien, IniciaBien, ConfirmaBien, AcreditaBien, OficinaBien,
                CopiaBien, SabeBien, Respaldada
<1>4. Respaldo'
    BY <1>1, DocumentoEncargado DEF Pago, Respaldo, Respaldada
<1>5. QED
    BY <1>2, <1>3, <1>4 DEF Pago

\* The invariant holds in every state.
LEMMA Invariante == Spec => []IInv
<1>1. Init => IInv
    <2> SUFFICES ASSUME Init PROVE IInv
        OBVIOUS
    <2> USE DEF Init, InitSii
    <2>1. Tipos
        BY DEF Tipos, Cobro, Transaccion, Peticion, Libre
    <2>2. TiposSii /\ EmisionContada
        BY DEF TiposSii, TypeOKSii, Documento, Emision, Antiguedades, Nunca, EmisionContada,
            Cuenta
    <2>3. Pasos
        BY NadaAssumption DEF Pasos, PasoBien, IniciaBien, ConfirmaBien, AcreditaBien,
            OficinaBien,
                              CopiaBien, SabeBien, Libre, DeOficina
    <2>4. Respaldo /\ SinTocar /\ AprobadaPagaSuCobro
        BY NadaAssumption DEF Respaldo, SinTocar, AprobadaPagaSuCobro
    <2>5. QED
        BY <2>1, <2>2, <2>3, <2>4 DEF IInv
<1>2. IInv /\ [Next]_vars => IInv'
    <2> SUFFICES ASSUME Pago, TiposSii, EmisionContada, [Next]_vars
                 PROVE  Pago' /\ TiposSii' /\ EmisionContada'
        BY DEF IInv, Pago
    <2>1. CASE SoloSii
        BY <2>1, SoloSiiBien, DocumentosBien DEF SoloSii
    <2>2. CASE UNCHANGED vars
        BY <2>2 DEF vars, varsSii, Pago, Tipos, Pasos, PasoBien, IniciaBien, ConfirmaBien,
                    AcreditaBien, OficinaBien, CopiaBien, SabeBien, Respaldo, Respaldada,
                        SinTocar,
                    AprobadaPagaSuCobro, TiposSii, TypeOKSii, EmisionContada
    <2>3. ASSUME NEW p \in Peticiones, Acreditar(p)
          PROVE  Pago' /\ TiposSii' /\ EmisionContada'
        <3>1. peticion[p].tx \in Txs
            BY <2>3 DEF Pago, Pasos, PasoBien, AcreditaBien, Acreditar
        <3>2. TiposSii' /\ EmisionContada'
            BY <2>3, <3>1 DEF Acreditar, TiposSii, TypeOKSii, EmisionContada
        <3>3. QED
            BY <2>3, <3>2, AcreditarBien
    <2>4. ASSUME UNCHANGED varsSii
          PROVE  TiposSii' /\ EmisionContada'
        BY <2>4 DEF varsSii, TiposSii, TypeOKSii, EmisionContada
    <2>5. ASSUME NEW p \in Peticiones, NEW c \in Cobros, NEW t \in Txs, IniciarPago(p, c, t)
          PROVE  Pago' /\ TiposSii' /\ EmisionContada'
        BY <2>4, <2>5, IniciarPagoBien DEF IniciarPago
    <2>6. ASSUME NEW p \in Peticiones, NEW t \in Txs,
                 LeerTransaccion(p, t) \/ NoAcredita(p, t) \/ Aprobar(p, t)
          PROVE  Pago' /\ TiposSii' /\ EmisionContada'
        BY <2>4, <2>6, LeerTransaccionBien, NoAcreditaBien, AprobarBien
        DEF LeerTransaccion, NoAcredita, Aprobar
    <2>7. ASSUME NEW p \in Peticiones, NEW c \in Cobros, NEW op \in DeOficina, LeerCobro(p, op, c)
          PROVE  Pago' /\ TiposSii' /\ EmisionContada'
        BY <2>4, <2>7, LeerCobroBien DEF LeerCobro
    <2>8. ASSUME NEW p \in Peticiones,
                 OrdenCreada(p) \/ OrdenFalla(p) \/ ConfirmarFalla(p) \/ GuardarCobro(p)
          PROVE  Pago' /\ TiposSii' /\ EmisionContada'
        BY <2>4, <2>8, OrdenCreadaBien, OrdenFallaBien, ConfirmarFallaBien, GuardarCobroBien
        DEF OrdenCreada, OrdenFalla, ConfirmarFalla, GuardarCobro
    <2>9. ASSUME NEW t \in Txs, Pagar(t) \/ Expirar(t)
          PROVE  Pago' /\ TiposSii' /\ EmisionContada'
        BY <2>4, <2>9, PagarBien, ExpirarBien DEF Pagar, Expirar
    <2>10. CASE (\E c \in Cobros : PasanDias(c)) \/ RecalcularEstados
        BY <2>4, <2>10, PasanDiasBien, RecalcularEstadosBien DEF PasanDias, RecalcularEstados
    <2>11. QED
        BY <2>1, <2>2, <2>3, <2>5, <2>6, <2>7, <2>8, <2>9, <2>10 DEF Next, NextPagos
<1>3. QED
    BY <1>1, <1>2, PTL DEF Spec

\* Rows keep their types, and the office holds the charge that it read.
THEOREM TiposDePagos == Spec => []TypeOK
<1>1. IInv => TypeOK
    BY DEF IInv, Tipos, TiposSii, Pasos, PasoBien, OficinaBien, TypeOK
<1>2. QED
    BY <1>1, Invariante, PTL

\* A payment gets one boleta, and another only for each that the provider issued without
\* the database hearing of it, whoever tries, dies or retries (reclamarIntento).
THEOREM UnaBoletaPorConstancia == Spec => []EmisionUnica
<1>1. IInv => EmisionUnica
    BY DEF IInv, TiposSii, TypeOKSii, EmisionContada, Cuenta, EmisionUnica
<1>2. QED
    BY <1>1, Invariante, PTL

\* Nothing is settled, and no boleta issued, by a transaction that the gateway did not
\* collect, whatever the office writes back late (confirmarTx).
THEOREM TodoPagoRespaldado == Spec => []PagoRespaldado
<1>1. IInv => PagoRespaldado
    BY DEF IInv, TiposSii, TypeOKSii, EmisionContada, Cuenta, Respaldo, Respaldada, PagoRespaldado
<1>2. QED
    BY <1>1, Invariante, PTL

\* An approved payment leaves its charge settled, unless the office was writing it.
THEOREM AprobadaPaga == Spec => []AprobadaPagaSuCobro
BY Invariante, PTL DEF IInv

\* What the first confirmation decided, no later one changes (M4 of confirmarTx): the
\* state is read again under the lock of the transaction.
THEOREM LoDecididoEsFirme == Spec => EstadoFinalFirme
<1>1. ASSUME IInv, [Next]_vars, NEW t \in Txs, transaccion[t].estado \in Finales
      PROVE  transaccion'[t].estado = transaccion[t].estado
    <2> USE <1>1 DEF IInv, Tipos, Transaccion, Finales
    <2>1. CASE \E p \in Peticiones : OrdenCreada(p)
        BY <2>1 DEF OrdenCreada, Pasos, PasoBien, IniciaBien
    <2>2. CASE \E p \in Peticiones, u \in Txs : NoAcredita(p, u)
        BY <2>2 DEF NoAcredita, ConEstado
    <2>3. CASE \E p \in Peticiones : Acreditar(p)
        BY <2>3 DEF Acreditar, ConEstado, Pasos, PasoBien, AcreditaBien
    <2>4. CASE \E p \in Peticiones : GuardarCobro(p)
        BY <2>4 DEF GuardarCobro
    <2>5. CASE \E u \in Txs : Expirar(u)
        BY <2>5 DEF Expirar
    <2>6. CASE UNCHANGED transaccion
        BY <2>6
    <2>7. QED
        BY <2>1, <2>2, <2>3, <2>4, <2>5, <2>6
        DEF Next, NextPagos, SoloSii, IniciarPago, LeerTransaccion, Aprobar, LeerCobro,
            OrdenFalla,
            ConfirmarFalla, PasanDias, RecalcularEstados, Pagar, vars, bd
<1>2. IInv /\ [Next]_vars =>
          [\A t \in Txs : transaccion[t].estado \in Finales
                            => transaccion'[t].estado = transaccion[t].estado]_vars
    BY <1>1
<1>3. QED
    BY <1>2, Invariante, PTL DEF Spec, EstadoFinalFirme
=============================================================================
