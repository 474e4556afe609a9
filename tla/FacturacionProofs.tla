--------------------------- MODULE FacturacionProofs ---------------------------
(***************************************************************************)
(* Theorems of FacturacionPlataforma, for any number of months,            *)
(* transactions and requests, and whatever the office does by hand.        *)
(***************************************************************************)
EXTENDS FacturacionPlataforma, FiniteSetTheorems, TLAPS

-----------------------------------------------------------------------------
(* The inductive invariant                                                 *)

Peticion ==
    [op : {"libre", "iniciar", "retorno", "pagar", "anular"}, f : Meses \cup {Nada},
     t : Txs \cup {Nada}, reactiva : BOOLEAN,
     paso : {"ninguno", "crear", "confirmar tx", "guardar", "confirmar"}]

Factura == [estado : {"no", "PENDIENTE", "VENCIDA", "PAGADA", "ANULADA"}, tx : Txs \cup {Nada}]

Transaccion == [estado : {"no", "PAGO_EN_TRANSITO", "APROBADO", "RECHAZADO"},
                f : Meses \cup {Nada}, vigente : BOOLEAN]

\* What a request counts on: the transaction that it is about to create is nobody else's,
\* and the one that it confirms is of the bill that it will write.
PasoBien(q) ==
    /\ peticion[q].paso = "crear" =>
           /\ peticion[q].t \in Txs /\ peticion[q].f \in Meses
           /\ tx[peticion[q].t].estado = "no"
           /\ \A r \in Peticiones : peticion[r].t = peticion[q].t => r = q
    /\ peticion[q].paso \in {"confirmar tx", "guardar", "confirmar"} =>
           /\ peticion[q].f \in Meses
           /\ peticion[q].t # Nada =>
                  /\ tx[peticion[q].t].estado # "no" /\ tx[peticion[q].t].f = peticion[q].f
    /\ peticion[q].paso = "confirmar tx" => peticion[q].t # Nada

Pasos == \A q \in Peticiones : PasoBien(q)

\* The bills that procesarMora has marked are still pending, and nobody else has
\* written them.
Candados ==
    \A f \in cron.marcadas :
        /\ factura[f].estado = "PENDIENTE"
        /\ \A q \in Peticiones : ~(peticion[q].paso = "confirmar" /\ peticion[q].f = f)

\* A transaction is of a bill, and a bill with an approved one is settled for good.
Saldadas ==
    \A t \in Txs :
        /\ tx[t].estado # "no" => tx[t].f \in Meses
        /\ tx[t].estado = "APROBADO" => factura[tx[t].f].estado \in {"PAGADA", "ANULADA"}

IInv == TypeOK /\ Pasos /\ Candados /\ Saldadas

-----------------------------------------------------------------------------
(* Lemmas                                                                  *)

\* The months are the numbers 1..N, and there is a first one.
LEMMA MesesNaturales ==
    /\ Cardinality(Meses) \in Nat /\ Cardinality(Meses) >= 1
    /\ 1 \in Meses /\ Meses \subseteq Nat
<1>1. Cardinality(Meses) \in Nat
    BY FacturacionAssumption, FS_CardinalityType
<1>2. Meses = 1..Cardinality(Meses) /\ Meses # {}
    BY FacturacionAssumption
<1>3. Cardinality(Meses) >= 1
    BY <1>1, <1>2
<1>4. QED
    BY <1>1, <1>2, <1>3

\* The types, one variable at a time.
LEMMA Tipos ==
    TypeOK <=> /\ liga \in Liga
               /\ factura \in [Meses -> Factura]
               /\ tx \in [Txs -> Transaccion]
               /\ mes \in 1..Cardinality(Meses) /\ vencidos \subseteq 1..mes
               /\ peticion \in [Peticiones -> Peticion]
               /\ cron \in [paso : {"ninguno", "contar", "confirmar"}, marcadas : SUBSET Meses,
                            queda : {Nada} \cup Estados]
               /\ eventos \in 0..MaxEventos
BY DEF TypeOK, Factura, Transaccion, Peticion

\* The same, after a step.
LEMMA TiposSiguen ==
    ASSUME liga' \in Liga, factura' \in [Meses -> Factura], tx' \in [Txs -> Transaccion],
           mes' \in 1..Cardinality(Meses), vencidos' \subseteq 1..mes',
           peticion' \in [Peticiones -> Peticion],
           cron' \in [paso : {"ninguno", "contar", "confirmar"}, marcadas : SUBSET Meses,
                      queda : {Nada} \cup Estados],
           eventos' \in 0..MaxEventos
    PROVE  TypeOK'
BY DEF TypeOK, Factura, Transaccion, Peticion

\* A request that a step adds, moves on or ends, while the rows stay.
LEMMA PeticionBien ==
    ASSUME IInv, NEW q \in Peticiones, NEW nueva \in Peticion,
           peticion' = [peticion EXCEPT ![q] = nueva], tx' = tx,
           nueva.t # Nada => \/ nueva.t = peticion[q].t
                             \/ \A r \in Peticiones : peticion[r].t # nueva.t
                             \/ tx[nueva.t].estado # "no",
           nueva.paso = "crear" =>
               /\ nueva.t \in Txs /\ nueva.f \in Meses /\ tx[nueva.t].estado = "no"
               /\ \A r \in Peticiones : peticion[r].t # nueva.t,
           nueva.paso \in {"confirmar tx", "guardar", "confirmar"} =>
               /\ nueva.f \in Meses
               /\ nueva.t # Nada => tx[nueva.t].estado # "no" /\ tx[nueva.t].f = nueva.f,
           nueva.paso = "confirmar tx" => nueva.t # Nada
    PROVE  Pasos'
<1>1. /\ peticion \in [Peticiones -> Peticion] /\ peticion'[q] = nueva
      /\ \A r \in Peticiones : r # q => peticion'[r] = peticion[r]
    BY Tipos DEF IInv
<1>2. PasoBien(q)'
    BY <1>1 DEF PasoBien
<1>3. ASSUME NEW r \in Peticiones, r # q
      PROVE  PasoBien(r)'
    <2>1. PasoBien(r) /\ peticion'[r] = peticion[r]
        BY <1>1, <1>3 DEF IInv, Pasos
    <2>2. peticion[r].paso = "crear" => peticion[r].t # nueva.t
        BY <1>3, <2>1, FacturacionAssumption DEF PasoBien
    <2>3. QED
        BY <1>1, <2>1, <2>2 DEF PasoBien
<1>4. QED
    BY <1>2, <1>3 DEF Pasos
\* A bill is locked against the run while a request has written it.
LEMMA CandadosSiguen ==
    ASSUME IInv, UNCHANGED <<factura, cron>>, NEW q \in Peticiones, NEW nueva \in Peticion,
           peticion' = [peticion EXCEPT ![q] = nueva],
           nueva.paso = "confirmar" => nueva.f \notin cron.marcadas
    PROVE  Candados'
<1>1. /\ peticion \in [Peticiones -> Peticion] /\ peticion'[q] = nueva
      /\ \A r \in Peticiones : r # q => peticion'[r] = peticion[r]
    BY Tipos DEF IInv
<1>2. QED
    BY <1>1 DEF IInv, Candados

\* The other requests, when q ends and only the transaction t changes, if any.
LEMMA PasoSigue ==
    ASSUME IInv, NEW q \in Peticiones, peticion'[q] = Quieta,
           \A s \in Peticiones : s # q => peticion'[s] = peticion[s],
           NEW r \in Peticiones, r # q,
           NEW t, peticion[r].paso = "crear" => peticion[r].t # t,
           \A u \in Txs : /\ u # t => tx'[u] = tx[u]
                          /\ tx[u].estado # "no" => tx'[u].estado # "no" /\ tx'[u].f = tx[u].f
    PROVE  PasoBien(r)'
<1>1. PasoBien(r) /\ peticion[r].t \in Txs \cup {Nada} /\ peticion'[r] = peticion[r]
    BY Tipos DEF IInv, Pasos, Peticion
<1>2. Quieta.t = Nada
    BY DEF Quieta
<1>3. ASSUME peticion[r].paso = "crear"
      PROVE  /\ peticion[r].t \in Txs /\ peticion[r].f \in Meses
             /\ tx'[peticion[r].t].estado = "no"
             /\ \A s \in Peticiones : peticion'[s].t = peticion[r].t => s = r
    <2>1. /\ peticion[r].t \in Txs /\ peticion[r].f \in Meses
          /\ tx[peticion[r].t].estado = "no" /\ peticion[r].t # t
          /\ \A s \in Peticiones : peticion[s].t = peticion[r].t => s = r
        BY <1>1, <1>3 DEF PasoBien
    <2>2. peticion[r].t # Nada
        BY <2>1, FacturacionAssumption
    <2>3. ASSUME NEW s \in Peticiones, peticion'[s].t = peticion[r].t
          PROVE  s = r
        BY <1>2, <2>1, <2>2, <2>3
    <2>4. tx'[peticion[r].t].estado = "no"
        BY <2>1
    <2>5. QED
        BY <2>1, <2>3, <2>4
<1>4. ASSUME peticion[r].paso \in {"confirmar tx", "guardar", "confirmar"}
      PROVE  /\ peticion[r].f \in Meses
             /\ peticion[r].t # Nada => /\ tx'[peticion[r].t].estado # "no"
                                        /\ tx'[peticion[r].t].f = peticion[r].f
    BY <1>1, <1>4 DEF PasoBien
<1>5. QED
    BY <1>1, <1>3, <1>4 DEF PasoBien

-----------------------------------------------------------------------------
(* The steps                                                               *)

\* Time passes, the bill of the month comes out and the office edits the league.
LEMMA OficinaBien ==
    ASSUME IInv, PasaMes \/ PasaElDiez \/ VencePrueba \/ GenerarFacturasMes \/ EditarLiga
    PROVE  IInv'
<1>1. /\ liga \in Liga /\ factura \in [Meses -> Factura] /\ mes \in 1..Cardinality(Meses)
      /\ mes \in Meses /\ vencidos \subseteq 1..mes /\ eventos \in 0..MaxEventos
    BY Tipos, FacturacionAssumption DEF IInv
<1>2. UNCHANGED <<tx, peticion, cron>>
    BY DEF PasaMes, PasaElDiez, VencePrueba, GenerarFacturasMes, EditarLiga, bd
<1>3. /\ factura' \in [Meses -> Factura]
      /\ \A f \in Meses : factura[f].estado # "no" => factura'[f] = factura[f]
    BY <1>1 DEF PasaMes, PasaElDiez, VencePrueba, GenerarFacturasMes, EditarLiga, bd, Factura
<1>4. liga' \in Liga
    <2>1. CASE VencePrueba
        BY <1>1, <2>1 DEF VencePrueba, Liga
    <2>2. CASE EditarLiga
        <3>1. CASE \E e \in EstadosAMano : liga' = [liga EXCEPT !.estado = e]
            BY <1>1, <3>1, FacturacionAssumption DEF Liga, Estados
        <3>2. CASE liga' = [liga EXCEPT !.plan = ~liga.plan]
            <4>1. PICK plan \in BOOLEAN : plan = ~liga.plan
                OBVIOUS
            <4>2. liga' = [liga EXCEPT !.plan = plan]
                BY <3>2, <4>1
            <4>3. QED
                BY <1>1, <4>2 DEF Liga
        <3>3. QED
            BY <2>2, <3>1, <3>2 DEF EditarLiga
    <2>3. CASE ~VencePrueba /\ ~EditarLiga
        BY <1>1, <2>3 DEF PasaMes, PasaElDiez, GenerarFacturasMes, bd
    <2>4. QED
        BY <2>1, <2>2, <2>3
<1>5. mes' \in 1..Cardinality(Meses) /\ vencidos' \subseteq 1..mes'
    BY <1>1, MesesNaturales, FacturacionAssumption
       DEF PasaMes, PasaElDiez, VencePrueba, GenerarFacturasMes, EditarLiga
<1>6. eventos' \in 0..MaxEventos
    BY <1>1, FacturacionAssumption
       DEF PasaMes, PasaElDiez, VencePrueba, GenerarFacturasMes, EditarLiga, Anota
<1>7. TypeOK'
    BY <1>2, <1>3, <1>4, <1>5, <1>6, Tipos, TiposSiguen DEF IInv
<1>8. Pasos'
    BY <1>2 DEF IInv, Pasos, PasoBien
<1>9. Candados'
    BY <1>2, <1>3, Tipos DEF IInv, Candados
<1>10. Saldadas'
    BY <1>2, <1>3 DEF IInv, Saldadas
<1>11. QED
    BY <1>7, <1>8, <1>9, <1>10 DEF IInv

\* A request begins, moves on or ends without writing anything.
LEMMA PagarBien ==
    ASSUME IInv, NEW q \in Peticiones,
           \/ \E f \in Meses, t \in Txs : IniciarPagoWebpay(q, f, t)
           \/ \E t \in Txs : RetornoWebpay(q, t)
           \/ \E f \in Meses : AManoOAnular(q, f)
           \/ Guardar(q)
    PROVE  IInv'
<1>1. /\ peticion \in [Peticiones -> Peticion] /\ tx \in [Txs -> Transaccion]
      /\ eventos \in 0..MaxEventos /\ PasoBien(q)
    BY Tipos DEF IInv, Pasos
<1>2. UNCHANGED <<liga, factura, tx, mes, vencidos, cron>>
    BY DEF IniciarPagoWebpay, RetornoWebpay, AManoOAnular, Guardar, bd
<1>3. eventos' \in 0..MaxEventos
    <2>1. Anota \/ eventos' = eventos
        BY DEF IniciarPagoWebpay, RetornoWebpay, AManoOAnular, Guardar, Pide
    <2>2. QED
        BY <1>1, <2>1, FacturacionAssumption DEF Anota
<1> DEFINE Vale(nueva) ==
               /\ nueva.t # Nada => \/ nueva.t = peticion[q].t
                                    \/ \A r \in Peticiones : peticion[r].t # nueva.t
                                    \/ tx[nueva.t].estado # "no"
               /\ nueva.paso = "crear" =>
                      /\ nueva.t \in Txs /\ nueva.f \in Meses /\ tx[nueva.t].estado = "no"
                      /\ \A r \in Peticiones : peticion[r].t # nueva.t
               /\ nueva.paso \in {"confirmar tx", "guardar", "confirmar"} =>
                      /\ nueva.f \in Meses
                      /\ nueva.t # Nada => tx[nueva.t].estado # "no" /\ tx[nueva.t].f = nueva.f
               /\ nueva.paso = "confirmar tx" => nueva.t # Nada
               /\ nueva.paso = "confirmar" => nueva.f \notin cron.marcadas
           Avanza ==
               \E nueva \in Peticion : peticion' = [peticion EXCEPT ![q] = nueva] /\ Vale(nueva)
<1>4. Avanza
    <2>1. ASSUME NEW f \in Meses, NEW t \in Txs, IniciarPagoWebpay(q, f, t)
          PROVE  Avanza
        <3>1. PICK nueva : /\ nueva = [op |-> "iniciar", f |-> f, t |-> t, paso |-> "crear",
                                       reactiva |-> FALSE]
                           /\ peticion' = [peticion EXCEPT ![q] = nueva]
            BY <2>1 DEF IniciarPagoWebpay, Pide
        <3>2. nueva \in Peticion
            BY <3>1 DEF Peticion
        <3>3. Vale(nueva)
            BY <2>1, <3>1 DEF IniciarPagoWebpay
        <3>4. QED
            BY <3>1, <3>2, <3>3
    <2>2. ASSUME NEW t \in Txs, RetornoWebpay(q, t)
          PROVE  Avanza
        <3>1. PICK nueva : /\ nueva = [op |-> "retorno", f |-> tx[t].f, t |-> t,
                                       paso |-> "confirmar tx", reactiva |-> FALSE]
                           /\ peticion' = [peticion EXCEPT ![q] = nueva]
            BY <2>2 DEF RetornoWebpay, Pide
        <3>2. nueva \in Peticion
            BY <1>1, <3>1 DEF Peticion, Transaccion
        <3>3. tx[t].estado # "no" /\ t # Nada
            BY <2>2, FacturacionAssumption DEF RetornoWebpay
        <3>4. Vale(nueva)
            BY <3>1, <3>3 DEF IInv, Saldadas
        <3>5. QED
            BY <3>1, <3>2, <3>4
    <2>3. ASSUME NEW f \in Meses, AManoOAnular(q, f)
          PROVE  Avanza
        <3>1. PICK op \in {"pagar", "anular"} : Pide(q, op, f, Nada, "guardar")
            BY <2>3 DEF AManoOAnular
        <3>2. PICK nueva : /\ nueva = [op |-> op, f |-> f, t |-> Nada, paso |-> "guardar",
                                       reactiva |-> FALSE]
                           /\ peticion' = [peticion EXCEPT ![q] = nueva]
            BY <3>1 DEF Pide
        <3>3. nueva \in Peticion
            BY <3>2 DEF Peticion
        <3>4. Vale(nueva)
            BY <3>2
        <3>5. QED
            BY <3>2, <3>3, <3>4
    <2>4. CASE Guardar(q)
        <3>1. PICK si \in BOOLEAN :
                  si = (/\ peticion[q].op # "anular"
                        /\ liga.estado = "SUSPENDIDO"
                        /\ Cardinality(FacturasEn("VENCIDA") \ {peticion[q].f}) < DebeDos)
            OBVIOUS
        <3>2. PICK nueva : nueva = [peticion[q] EXCEPT !.paso = "confirmar", !.reactiva = si]
            OBVIOUS
        <3>3. peticion' = [peticion EXCEPT ![q] = nueva]
            BY <1>1, <2>4, <3>1, <3>2 DEF Guardar
        <3>4. /\ nueva \in Peticion /\ nueva.t = peticion[q].t /\ nueva.f = peticion[q].f
              /\ nueva.paso = "confirmar" /\ peticion[q].paso = "guardar"
            BY <1>1, <2>4, <3>2 DEF Guardar, Peticion
        <3>5. nueva.f \notin cron.marcadas
            BY <2>4, <3>4 DEF Guardar, Tomada
        <3>6. Vale(nueva)
            BY <1>1, <3>4, <3>5 DEF PasoBien
        <3>7. QED
            BY <3>3, <3>4, <3>6
    <2> HIDE DEF Avanza
    <2>5. QED
        BY <2>1, <2>2, <2>3, <2>4
<1>5. PICK nueva \in Peticion : peticion' = [peticion EXCEPT ![q] = nueva] /\ Vale(nueva)
    BY <1>4
<1>6. Pasos'
    BY <1>2, <1>5, PeticionBien
<1>7. Candados'
    BY <1>2, <1>5, CandadosSiguen
<1>8. Saldadas'
    BY <1>2 DEF IInv, Saldadas
<1>9. TypeOK'
    BY <1>1, <1>2, <1>3, <1>5, Tipos, TiposSiguen DEF IInv
<1>10. QED
    BY <1>6, <1>7, <1>8, <1>9 DEF IInv

\* The transaction is created, expires or is answered by the gateway.
LEMMA TransaccionBien ==
    ASSUME IInv,
           \/ \E q \in Peticiones : CrearTransaccion(q) \/ ConfirmarTransaccion(q)
           \/ \E t \in Txs : ExpiraTransaccion(t)
    PROVE  IInv'
<1>1. /\ peticion \in [Peticiones -> Peticion] /\ tx \in [Txs -> Transaccion]
      /\ eventos \in 0..MaxEventos
    BY Tipos DEF IInv
<1>2. UNCHANGED <<liga, factura, mes, vencidos, cron>>
    BY DEF CrearTransaccion, ConfirmarTransaccion, ExpiraTransaccion
<1>3. eventos' \in 0..MaxEventos
    <2>1. Anota \/ eventos' = eventos
        BY DEF CrearTransaccion, ConfirmarTransaccion, ExpiraTransaccion
    <2>2. QED
        BY <1>1, <2>1, FacturacionAssumption DEF Anota
<1>4. \A q \in Peticiones : PasoBien(q)
    BY DEF IInv, Pasos
<1>5. ASSUME NEW t \in Txs, ExpiraTransaccion(t)
      PROVE  IInv'
    <2>1. /\ tx' \in [Txs -> Transaccion] /\ peticion' = peticion
          /\ \A u \in Txs : tx'[u].estado = tx[u].estado /\ tx'[u].f = tx[u].f
        BY <1>1, <1>5 DEF ExpiraTransaccion, Transaccion
    <2>2. TypeOK'
        BY <1>2, <1>3, <2>1, Tipos, TiposSiguen DEF IInv
    <2>3. Pasos'
        BY <1>1, <1>4, <2>1 DEF Pasos, PasoBien, Peticion
    <2>4. Candados' /\ Saldadas'
        BY <1>2, <2>1 DEF IInv, Candados, Saldadas
    <2>5. QED
        BY <2>2, <2>3, <2>4 DEF IInv
<1>6. ASSUME NEW q \in Peticiones, CrearTransaccion(q)
      PROVE  IInv'
    <2>1. PICK t \in Txs, f \in Meses :
              /\ t = peticion[q].t /\ f = peticion[q].f /\ tx[t].estado = "no"
              /\ \A r \in Peticiones : peticion[r].t = t => r = q
        BY <1>4, <1>6 DEF CrearTransaccion, PasoBien
    <2>2. /\ tx' \in [Txs -> Transaccion] /\ tx'[t].estado = "PAGO_EN_TRANSITO" /\ tx'[t].f = f
          /\ \A u \in Txs : u # t => tx'[u] = tx[u]
        BY <1>1, <1>6, <2>1 DEF CrearTransaccion, Transaccion
    <2>3. /\ Quieta \in Peticion /\ Quieta.paso = "ninguno" /\ peticion' \in [Peticiones -> Peticion]
          /\ peticion'[q] = Quieta /\ \A r \in Peticiones : r # q => peticion'[r] = peticion[r]
        BY <1>1, <1>6 DEF CrearTransaccion, Acaba, Quieta, Peticion
    <2>4. TypeOK'
        BY <1>2, <1>3, <2>2, <2>3, Tipos, TiposSiguen DEF IInv
    <2>5. Pasos'
        <3>1. PasoBien(q)'
            BY <2>3 DEF PasoBien
        <3>2. ASSUME NEW r \in Peticiones, r # q
              PROVE  PasoBien(r)'
            <4>1. /\ peticion[r].t # t
                  /\ \A u \in Txs : tx[u].estado # "no" => tx'[u] = tx[u]
                BY <2>1, <2>2, <3>2
            <4>2. QED
                BY <2>2, <2>3, <3>2, <4>1, PasoSigue
        <3>3. QED
            BY <3>1, <3>2 DEF Pasos
    <2>6. Candados'
        BY <1>2, <2>3 DEF IInv, Candados
    <2>7. Saldadas'
        BY <1>2, <2>2 DEF IInv, Saldadas
    <2>8. QED
        BY <2>4, <2>5, <2>6, <2>7 DEF IInv
<1>7. ASSUME NEW q \in Peticiones, ConfirmarTransaccion(q)
      PROVE  IInv'
    <2>1. PICK t \in Txs, f \in Meses :
              /\ t = peticion[q].t /\ f = peticion[q].f /\ tx[t].estado # "no" /\ tx[t].f = f
        BY <1>1, <1>4, <1>7 DEF ConfirmarTransaccion, PasoBien, Peticion
    <2>2. CASE tx' = tx
        <3>1. PICK nueva \in Peticion :
                  /\ peticion' = [peticion EXCEPT ![q] = nueva]
                  /\ nueva.t \in {Nada, t} /\ nueva.paso \in {"ninguno", "guardar"}
                  /\ nueva.paso # "ninguno" => nueva.f = f
            <4>1. CASE Acaba(q)
                <5>1. Quieta \in Peticion /\ Quieta.t = Nada /\ Quieta.paso = "ninguno"
                    BY DEF Quieta, Peticion
                <5>2. QED
                    BY <4>1, <5>1 DEF Acaba
            <4>2. CASE peticion' = [peticion EXCEPT ![q].paso = "guardar"]
                <5>1. PICK nueva : nueva = [peticion[q] EXCEPT !.paso = "guardar"]
                    OBVIOUS
                <5>2. /\ nueva \in Peticion /\ nueva.t = t /\ nueva.f = f
                      /\ nueva.paso = "guardar"
                    BY <1>1, <2>1, <5>1 DEF Peticion
                <5>3. peticion' = [peticion EXCEPT ![q] = nueva]
                    BY <1>1, <4>2, <5>1
                <5>4. QED
                    BY <5>2, <5>3
            <4>3. QED
                BY <1>7, <4>1, <4>2 DEF ConfirmarTransaccion
        <3>2. Pasos'
            BY <2>1, <2>2, <3>1, PeticionBien
        <3>3. Candados'
            BY <1>2, <3>1, CandadosSiguen
        <3>4. Saldadas'
            BY <1>2, <2>2 DEF IInv, Saldadas
        <3>5. TypeOK'
            BY <1>1, <1>2, <1>3, <2>2, <3>1, Tipos, TiposSiguen DEF IInv
        <3>6. QED
            BY <3>2, <3>3, <3>4, <3>5 DEF IInv
    <2>3. CASE tx' = [tx EXCEPT ![t].estado = "RECHAZADO"] /\ tx[t].estado # "APROBADO" /\ Acaba(q)
        <3>1. /\ tx' \in [Txs -> Transaccion] /\ tx'[t].estado = "RECHAZADO" /\ tx'[t].f = f
              /\ \A u \in Txs : u # t => tx'[u] = tx[u]
            BY <1>1, <2>1, <2>3 DEF Transaccion
        <3>2. /\ Quieta \in Peticion /\ Quieta.paso = "ninguno" /\ Quieta.t = Nada
              /\ peticion' \in [Peticiones -> Peticion]
              /\ peticion'[q] = Quieta /\ \A r \in Peticiones : r # q => peticion'[r] = peticion[r]
            BY <1>1, <2>3 DEF Acaba, Quieta, Peticion
        <3>3. TypeOK'
            BY <1>2, <1>3, <3>1, <3>2, Tipos, TiposSiguen DEF IInv
        <3>4. Pasos'
            <4>1. PasoBien(q)'
                BY <3>2 DEF PasoBien
            <4>2. ASSUME NEW r \in Peticiones, r # q
                  PROVE  PasoBien(r)'
                <5>1. peticion[r].paso = "crear" => peticion[r].t # t
                    BY <1>4, <2>1 DEF PasoBien
                <5>2. \A u \in Txs : tx[u].estado # "no" => tx'[u].estado # "no" /\ tx'[u].f = tx[u].f
                    BY <2>1, <3>1
                <5>3. QED
                    BY <3>1, <3>2, <4>2, <5>1, <5>2, PasoSigue
            <4>3. QED
                BY <4>1, <4>2 DEF Pasos
        <3>5. Candados'
            BY <1>2, <3>2 DEF IInv, Candados
        <3>6. Saldadas'
            BY <1>2, <2>1, <3>1 DEF IInv, Saldadas
        <3>7. QED
            BY <3>3, <3>4, <3>5, <3>6 DEF IInv
    <2>4. QED
        BY <1>7, <2>1, <2>2, <2>3 DEF ConfirmarTransaccion
<1>8. QED
    BY <1>5, <1>6, <1>7

\* The bill is paid or annulled, with its transaction and the league.
LEMMA ConfirmarBien ==
    ASSUME IInv, NEW q \in Peticiones, Confirmar(q)
    PROVE  IInv'
<1>1. /\ peticion \in [Peticiones -> Peticion] /\ tx \in [Txs -> Transaccion]
      /\ factura \in [Meses -> Factura] /\ liga \in Liga
      /\ UNCHANGED <<mes, vencidos, cron, eventos>> /\ peticion[q].paso = "confirmar"
      /\ \A r \in Peticiones : PasoBien(r)
    BY Tipos DEF IInv, Pasos, Confirmar
<1>2. PICK f \in Meses, t \in Txs \cup {Nada} :
          /\ f = peticion[q].f /\ t = peticion[q].t
          /\ t # Nada => tx[t].estado # "no" /\ tx[t].f = f
    BY <1>1 DEF PasoBien, Peticion
<1>3. /\ factura' \in [Meses -> Factura] /\ factura'[f].estado \in {"PAGADA", "ANULADA"}
      /\ \A g \in Meses : g # f => factura'[g] = factura[g]
    <2>1. CASE peticion[q].op = "anular"
        <3>1. factura' = [factura EXCEPT ![f].estado = "ANULADA"]
            BY <1>2, <2>1 DEF Confirmar
        <3>2. QED
            BY <1>1, <3>1 DEF Factura
    <2>2. CASE peticion[q].op # "anular"
        <3>1. PICK u \in Txs \cup {Nada} : u = IF t = Nada THEN factura[f].tx ELSE t
            BY <1>1 DEF Factura
        <3>2. factura' = [factura EXCEPT ![f] = [estado |-> "PAGADA", tx |-> u]]
            BY <1>2, <2>2, <3>1 DEF Confirmar
        <3>3. QED
            BY <1>1, <3>2 DEF Factura
    <2>3. QED
        BY <2>1, <2>2
<1>4. /\ tx' \in [Txs -> Transaccion]
      /\ \A u \in Txs : /\ tx'[u].f = tx[u].f
                        /\ tx[u].estado # "no" <=> tx'[u].estado # "no"
                        /\ u # t => tx'[u] = tx[u]
    <2>1. CASE t = Nada
        <3>1. tx' = tx
            BY <1>2, <2>1 DEF Confirmar
        <3>2. QED
            BY <1>1, <3>1
    <2>2. CASE t # Nada
        <3>1. tx' = [tx EXCEPT ![t].estado = "APROBADO"]
            BY <1>2, <2>2 DEF Confirmar
        <3>2. QED
            BY <1>1, <1>2, <2>2, <3>1 DEF Transaccion
    <2>3. QED
        BY <2>1, <2>2
<1>5. liga' \in Liga
    BY <1>1 DEF Confirmar, Liga, Estados
<1>6. /\ Quieta \in Peticion /\ Quieta.paso = "ninguno" /\ Quieta.t = Nada
      /\ peticion' \in [Peticiones -> Peticion]
      /\ peticion'[q] = Quieta /\ \A r \in Peticiones : r # q => peticion'[r] = peticion[r]
    BY <1>1 DEF Confirmar, Acaba, Quieta, Peticion
<1>7. TypeOK'
    BY <1>1, <1>3, <1>4, <1>5, <1>6, Tipos, TiposSiguen DEF IInv
<1>8. Pasos'
    <2>1. PasoBien(q)'
        BY <1>6 DEF PasoBien
    <2>2. ASSUME NEW r \in Peticiones, r # q
          PROVE  PasoBien(r)'
        <3>1. peticion[r].paso = "crear" => peticion[r].t # t
            BY <1>1, <1>2, FacturacionAssumption DEF PasoBien
        <3>2. QED
            BY <1>4, <1>6, <2>2, <3>1, PasoSigue
    <2>3. QED
        BY <2>1, <2>2 DEF Pasos
\* The run has not marked this bill: the request had written it.
<1>9. Candados'
    <2>1. f \notin cron.marcadas
        BY <1>1, <1>2 DEF IInv, Candados
    <2>2. cron.marcadas \subseteq Meses
        BY Tipos DEF IInv
    <2>3. QED
        BY <1>1, <1>3, <1>6, <2>1, <2>2 DEF IInv, Candados
<1>10. Saldadas'
    <2> SUFFICES ASSUME NEW u \in Txs
                 PROVE  /\ tx'[u].estado # "no" => tx'[u].f \in Meses
                        /\ tx'[u].estado = "APROBADO" =>
                               factura'[tx'[u].f].estado \in {"PAGADA", "ANULADA"}
        BY DEF Saldadas
    <2>1. tx'[u].estado # "no" => tx'[u].f \in Meses
        BY <1>4 DEF IInv, Saldadas
    <2>2. CASE u = t
        BY <1>2, <1>3, <1>4, <2>2, FacturacionAssumption
    <2>3. CASE u # t
        BY <1>3, <1>4, <2>1, <2>3 DEF IInv, Saldadas
    <2>4. QED
        BY <2>1, <2>2, <2>3
<1>11. QED
    BY <1>7, <1>8, <1>9, <1>10 DEF IInv

\* The run of the day marks, counts, writes, or fails.
LEMMA MoraBien ==
    ASSUME IInv, ProcesarMora \/ MoraFalla
    PROVE  IInv'
<1> DEFINE Cron == [paso : {"ninguno", "contar", "confirmar"}, marcadas : SUBSET Meses,
                    queda : {Nada} \cup Estados]
<1>1. /\ factura \in [Meses -> Factura] /\ liga \in Liga /\ cron \in Cron
      /\ eventos \in 0..MaxEventos /\ UNCHANGED <<tx, mes, vencidos, peticion>>
    BY Tipos DEF IInv, ProcesarMora, MarcarVencidas, Suspender, ConfirmarMora, MoraFalla, bd
<1>2. eventos' \in 0..MaxEventos
    BY <1>1, FacturacionAssumption
       DEF ProcesarMora, MarcarVencidas, Suspender, ConfirmarMora, MoraFalla, Anota
<1>3. Dormido \in Cron /\ Dormido.marcadas = {}
    BY DEF Dormido
<1>4. CASE ConfirmarMora
    <2>1. /\ factura' \in [Meses -> Factura]
          /\ \A f \in Meses : f \notin cron.marcadas => factura'[f] = factura[f]
        BY <1>1, <1>4 DEF ConfirmarMora, Factura
    <2>2. liga' \in Liga
        BY <1>1, <1>4 DEF ConfirmarMora, Liga
    <2>3. TypeOK'
        BY <1>1, <1>2, <1>3, <1>4, <2>1, <2>2, Tipos, TiposSiguen DEF ConfirmarMora, IInv
    <2>4. Pasos'
        BY <1>1 DEF IInv, Pasos, PasoBien
    <2>5. Candados'
        BY <1>3, <1>4 DEF ConfirmarMora, Candados
    <2>6. Saldadas'
        BY <1>1, <2>1 DEF IInv, Saldadas, Candados
    <2>7. QED
        BY <2>3, <2>4, <2>5, <2>6 DEF IInv
<1>5. CASE MarcarVencidas \/ Suspender \/ MoraFalla
    <2>1. UNCHANGED <<factura, liga>>
        BY <1>5 DEF MarcarVencidas, Suspender, MoraFalla, bd
    <2>2. /\ cron' \in Cron
          /\ \A f \in cron'.marcadas : \/ f \in cron.marcadas
                                       \/ factura[f].estado = "PENDIENTE" /\ ~Tomada(f)
        <3>1. CASE MarcarVencidas
            BY <1>1, <3>1 DEF MarcarVencidas, Vencibles, FacturasEn
        <3>2. CASE Suspender
            <4>1. PICK queda \in {Nada} \cup Estados :
                      cron' = [cron EXCEPT !.paso = "confirmar", !.queda = queda]
                BY <1>1, <3>2 DEF Suspender, TrasLaPrueba, Liga, Estados
            <4>2. QED
                BY <1>1, <4>1
        <3>3. CASE MoraFalla
            BY <1>3, <3>3 DEF MoraFalla
        <3>4. QED
            BY <1>5, <3>1, <3>2, <3>3
    <2>3. TypeOK'
        BY <1>1, <1>2, <2>1, <2>2, Tipos, TiposSiguen DEF IInv
    <2>4. Pasos' /\ Saldadas'
        BY <1>1, <2>1 DEF IInv, Pasos, PasoBien, Saldadas
    <2>5. Candados'
        BY <1>1, <2>1, <2>2 DEF IInv, Candados, Tomada
    <2>6. QED
        BY <2>3, <2>4, <2>5 DEF IInv
<1>6. QED
    BY <1>4, <1>5 DEF ProcesarMora

-----------------------------------------------------------------------------
(* The theorems                                                            *)

\* The invariant holds in every state, whatever the scheduling.
LEMMA Invariante == Spec => []IInv
<1>1. Init => IInv
    <2> SUFFICES ASSUME Init PROVE IInv
        OBVIOUS
    <2>1. TypeOK
        <3>1. liga \in Liga
            <4>1. ASSUME NEW plan \in BOOLEAN, NEW e \in Estados, NEW pr \in {"no", "corre"},
                         liga = [estado |-> e, plan |-> plan, prueba |-> pr]
                  PROVE  liga \in Liga
                BY <4>1 DEF Liga
            <4>2. QED
                BY <4>1 DEF Init, Estados
        <3>2. factura \in [Meses -> Factura] /\ tx \in [Txs -> Transaccion]
            BY DEF Init, Factura, Transaccion
        <3>3. peticion \in [Peticiones -> Peticion]
            BY DEF Init, Peticion, Quieta
        <3>4. /\ mes \in 1..Cardinality(Meses) /\ vencidos \subseteq 1..mes
              /\ eventos \in 0..MaxEventos
            BY MesesNaturales, FacturacionAssumption DEF Init
        <3>5. cron \in [paso : {"ninguno", "contar", "confirmar"}, marcadas : SUBSET Meses,
                        queda : {Nada} \cup Estados]
            BY DEF Init, Dormido
        <3>6. QED
            BY <3>1, <3>2, <3>3, <3>4, <3>5, Tipos
    <2>2. Pasos /\ Candados /\ Saldadas
        BY DEF Init, Pasos, PasoBien, Candados, Saldadas, Quieta, Dormido
    <2>3. QED
        BY <2>1, <2>2 DEF IInv
<1>2. IInv /\ [Next]_vars => IInv'
    <2> SUFFICES ASSUME IInv, [Next]_vars PROVE IInv'
        OBVIOUS
    <2>1. CASE UNCHANGED vars
        <3>1. UNCHANGED <<liga, factura, tx, mes, vencidos, peticion, cron, eventos>>
            BY <2>1 DEF vars, bd
        <3>2. TypeOK'
            BY <3>1 DEF IInv, TypeOK
        <3>3. Pasos' /\ Candados' /\ Saldadas'
            BY <3>1 DEF IInv, Pasos, PasoBien, Candados, Saldadas
        <3>4. QED
            BY <3>2, <3>3 DEF IInv
    <2>2. CASE Pagar
        BY <2>2, PagarBien, TransaccionBien, ConfirmarBien DEF Pagar, Atender
    <2>3. CASE Next /\ ~Pagar
        BY <2>3, OficinaBien, TransaccionBien, MoraBien DEF Next
    <2>4. QED
        BY <2>1, <2>2, <2>3
<1>3. QED
    BY <1>1, <1>2, PTL DEF Spec

\* The bills, their transactions, the requests and the run keep their types.
THEOREM TiposDeFacturacion == Spec => []TypeOK
<1>1. IInv => TypeOK
    BY DEF IInv
<1>2. QED
    BY <1>1, Invariante, PTL

\* A bill whose payment was approved is not owed, whoever marks bills overdue or settles
\* them by hand at the same time (retornoWebpay, marcarVencidas).
THEOREM LoAprobadoNoSeDebe == Spec => []AprobadaNoSeDebe
<1>1. IInv => AprobadaNoSeDebe
    BY DEF IInv, Saldadas, AprobadaNoSeDebe, Impagas
<1>2. QED
    BY <1>1, Invariante, PTL
=============================================================================
