-------------------------- MODULE ColaOfflineProofs --------------------------
(***************************************************************************)
(* Theorems of ColaOffline, for any number of operations, flushes that     *)
(* overlap, failures and changes of the office.                            *)
(***************************************************************************)
EXTENDS ColaOffline, FiniteSetTheorems, WellFoundedInduction, TLAPS

-----------------------------------------------------------------------------
(* The inductive invariant                                                 *)

Partido == [filas : [Ops -> 0..1], certificada : BOOLEAN, operable : BOOLEAN,
            cerrada : BOOLEAN, cerradaAlgunaVez : BOOLEAN, negadas : SUBSET Ops]

\* The match has each operation at most once, and remembers that it was closed.
ServidorBien ==
    /\ servidor \in Partido
    /\ servidor.cerrada => servidor.cerradaAlgunaVez

\* A 409 of a closing was true: the acta had been closed, or it is among the refused.
Negado(op, s) == \/ Tipo[op] # "cerrar-acta"
                 \/ s.cerradaAlgunaVez \/ op \in s.negadas

\* The match has the operation, or refused it as the closing of a suspended match.
Surtio(op) == EnElPartido(op) \/ op \in servidor.negadas

Hechas ==
    /\ hechas \in Nat
    /\ acusadas \subseteq Ops

\* An item, in the queue or copied by a flush: it has attempts left or is a dead letter.
CopiaBien(item, op, n) ==
    /\ op \in 1..n /\ op \in Ops
    /\ item \in Item /\ item.op = op
    /\ ~item.deadLetter => item.attempts < MAX_RETRIES

ColaBien == \A op \in DOMAIN cola : CopiaBien(cola[op], op, hechas)

\* A flush waits for the answer of the item it is at, and a good answer was true.
VaciadoBien(f) ==
    /\ DOMAIN vaciado[f] = {"items", "token", "envio", "respuesta"}
    /\ \A op \in Quedan(f) : CopiaBien(vaciado[f].items[op], op, hechas)
    /\ vaciado[f].respuesta \in Respuestas
    /\ vaciado[f].envio # Ninguno =>
           Quedan(f) # {} /\ vaciado[f].envio = Primero(f).op /\ ~Primero(f).deadLetter
    /\ vaciado[f].respuesta # "ninguna" => vaciado[f].envio # Ninguno
    /\ vaciado[f].respuesta = "2xx" => servidor.filas[vaciado[f].envio] > 0
    /\ vaciado[f].respuesta = "409" => Negado(vaciado[f].envio, servidor)

Vaciando == \A f \in DOMAIN vaciado : VaciadoBien(f)

Red == \A r \in enRed : r.op \in Ops

CicloVivo == ciclo # Ninguno => ciclo \in DOMAIN vaciado

IInv == /\ ServidorBien /\ Hechas /\ ColaBien /\ Vaciando /\ Red /\ CicloVivo
        /\ NadaSePierde

-----------------------------------------------------------------------------
(* Lemmas                                                                  *)

\* The operations are numbers, and none is the 0 of "nothing sent".
LEMMA OpsNaturales == Ops \subseteq Nat \ {0}
<1>1. Cardinality(Ops) \in Nat
    BY OpsAssumption, FS_CardinalityType
<1>2. QED
    BY <1>1, OpsAssumption

\* A flush that has items left has a first one.
LEMMA HayPrimero ==
    ASSUME NEW S, S \subseteq Ops, S # {}
    PROVE  Min(S) \in S
<1> DEFINE R == OpToRel(<, Nat)
<1>1. IsWellFoundedOn(R, Nat)
    BY NatLessThanWellFounded
<1> HIDE DEF R
<1>2. S \subseteq Nat
    BY OpsNaturales
<1>3. PICK x \in S : \A y \in S : ~(<<y, x>> \in R)
    BY ONLY <1>1, <1>2, S # {}, WFMin, Zenon
<1>4. \A y, z \in Nat : y < z => <<y, z>> \in R
    BY DEF R, OpToRel
<1>5. \A y \in S : x <= y
    <2>1. \A y \in S : x \in Nat /\ y \in Nat /\ ~(y < x)
        BY <1>2, <1>3, <1>4
    <2>2. QED
        BY <2>1
<1>6. QED
    BY <1>5 DEF Min

\* The match after a request: what it had it keeps, and an operation that was answered
\* 2xx is in it.
LEMMA AplicadaBien ==
    ASSUME ServidorBien, NEW op \in Ops
    PROVE  LET s == Aplicada(op, servidor) IN
           /\ s \in Partido
           /\ s.cerrada => s.cerradaAlgunaVez
           /\ \A o \in Ops : servidor.filas[o] > 0 => s.filas[o] > 0
           /\ servidor.cerradaAlgunaVez => s.cerradaAlgunaVez
           /\ servidor.negadas \subseteq s.negadas
           /\ Respuesta(op, servidor) \in {"2xx", "400", "409"}
           /\ Respuesta(op, servidor) = "2xx" => s.filas[op] > 0
           /\ Respuesta(op, servidor) = "409" => Negado(op, s)
<1>1. servidor \in Partido /\ (servidor.cerrada => servidor.cerradaAlgunaVez)
    BY DEF ServidorBien
<1> DEFINE negada == /\ Respuesta(op, servidor) = "409" /\ ~servidor.cerrada
                     /\ Tipo[op] = "cerrar-acta"
<1>4. CASE negada
    <2>1. Aplicada(op, servidor) = [servidor EXCEPT !.negadas = @ \cup {op}]
        BY <1>4 DEF Aplicada
    <2>2. PICK s : s = Aplicada(op, servidor)
        OBVIOUS
    <2>3. s = [filas |-> servidor.filas, certificada |-> servidor.certificada,
               operable |-> servidor.operable, cerrada |-> servidor.cerrada,
               cerradaAlgunaVez |-> servidor.cerradaAlgunaVez,
               negadas |-> servidor.negadas \cup {op}]
        BY <1>1, <2>1, <2>2 DEF Partido
    <2>4. s \in Partido
        BY <1>1, <2>3 DEF Partido
    <2>5. QED
        BY <1>1, <1>4, <2>2, <2>3, <2>4 DEF Negado
<1>2. CASE ~negada /\ (Respuesta(op, servidor) # "2xx" \/ (Tipo[op] = "incidencia" /\ servidor.filas[op] > 0))
    <2>1. Aplicada(op, servidor) = servidor
        BY <1>2 DEF Aplicada
    <2>2. Respuesta(op, servidor) \in {"2xx", "400", "409"}
        BY DEF Respuesta
    <2>3. Respuesta(op, servidor) = "409" => Negado(op, servidor)
        BY <1>1, <1>2 DEF Negado
    <2>4. QED
        BY <1>1, <1>2, <2>1, <2>2, <2>3
<1>3. CASE Respuesta(op, servidor) = "2xx" /\ ~(Tipo[op] = "incidencia" /\ servidor.filas[op] > 0)
    <2>1. PICK a \in BOOLEAN, b \in BOOLEAN, c \in BOOLEAN :
              /\ a = (servidor.certificada \/ Tipo[op] = "certificar-presentes")
              /\ b = (servidor.cerrada \/ Tipo[op] = "cerrar-acta")
              /\ c = (servidor.cerradaAlgunaVez \/ Tipo[op] = "cerrar-acta")
        OBVIOUS
    <2>2. PICK s : /\ s = [servidor EXCEPT !.filas[op] = 1, !.certificada = a, !.cerrada = b,
                                           !.cerradaAlgunaVez = c]
                   /\ s = Aplicada(op, servidor)
        BY <1>3, <2>1 DEF Aplicada
    <2>3. /\ s \in Partido /\ s.filas = [servidor.filas EXCEPT ![op] = 1]
          /\ s.cerrada = b /\ s.cerradaAlgunaVez = c /\ s.negadas = servidor.negadas
        <3>1. s = [filas |-> [servidor.filas EXCEPT ![op] = 1], certificada |-> a,
                   operable |-> servidor.operable, cerrada |-> b,
                   cerradaAlgunaVez |-> c, negadas |-> servidor.negadas]
            BY <1>1, <2>2 DEF Partido
        <3>2. [servidor.filas EXCEPT ![op] = 1] \in [Ops -> 0..1]
            BY <1>1 DEF Partido
        <3>3. QED
            BY <1>1, <3>1, <3>2 DEF Partido
    <2>4. s.filas[op] = 1 /\ \A o \in Ops : o # op => s.filas[o] = servidor.filas[o]
        BY <1>1, <2>3 DEF Partido
    <2>5. b => c
        BY <1>1, <2>1
    <2>6. servidor.cerradaAlgunaVez => c
        BY <2>1
    <2>7. /\ s.cerrada => s.cerradaAlgunaVez
          /\ servidor.cerradaAlgunaVez => s.cerradaAlgunaVez
          /\ \A o \in Ops : servidor.filas[o] > 0 => s.filas[o] > 0
          /\ s.filas[op] > 0
        BY <2>3, <2>4, <2>5, <2>6
    <2>8. QED
        BY <1>3, <2>2, <2>3, <2>7
<1>5. QED
    BY <1>2, <1>3, <1>4

\* What a step may do to the match and to the referee's count, for the rest to hold on.
Crece ==
    /\ ServidorBien' /\ Hechas' /\ hechas <= hechas'
    /\ \A o \in Ops : servidor.filas[o] > 0 => servidor'.filas[o] > 0
    /\ servidor.cerradaAlgunaVez => servidor'.cerradaAlgunaVez
    /\ servidor.negadas \subseteq servidor'.negadas

\* A flush that a step does not touch stays as it should.
LEMMA VaciadoSigue ==
    ASSUME IInv, Crece, NEW f \in DOMAIN vaciado, vaciado'[f] = vaciado[f]
    PROVE  VaciadoBien(f)'
<1>1. VaciadoBien(f)
    BY DEF IInv, Vaciando
<1>2. Quedan(f)' = Quedan(f) /\ Primero(f)' = Primero(f)
    BY DEF Quedan, Primero
<1>3. hechas \in Nat /\ hechas' \in Nat /\ hechas <= hechas'
    BY DEF IInv, Hechas, Crece
<1>4. \A op \in Quedan(f)' : CopiaBien(vaciado'[f].items[op], op, hechas')
    BY <1>1, <1>2, <1>3 DEF VaciadoBien, CopiaBien
<1>5. vaciado[f].envio # Ninguno => vaciado[f].envio \in Ops
    <2>1. CASE vaciado[f].envio # Ninguno
        <3>1. Quedan(f) # {} /\ Quedan(f) \subseteq Ops /\ vaciado[f].envio = Primero(f).op
            BY <1>1, <2>1 DEF VaciadoBien, CopiaBien
        <3>2. Min(Quedan(f)) \in Quedan(f)
            BY <3>1, HayPrimero
        <3>3. QED
            BY <1>1, <3>1, <3>2 DEF VaciadoBien, CopiaBien, Primero
    <2>2. QED
        BY <2>1
<1>6. QED
    BY <1>1, <1>2, <1>4, <1>5 DEF VaciadoBien, Crece, Negado

\* Nobody loses what was saved when the queue only changes its items.
LEMMA NadaSePierdeSigue ==
    ASSUME IInv, Crece, acusadas' = acusadas, descartadas \subseteq descartadas',
           \A op \in DOMAIN cola : \/ op \in DOMAIN cola' \/ op \in descartadas'
                                   \/ Surtio(op)'
    PROVE  NadaSePierde'
<1>1. ASSUME NEW op \in acusadas
      PROVE  Surtio(op)' \/ op \in DOMAIN cola' \/ op \in descartadas'
    <2>1. op \in Ops /\ (Surtio(op) \/ op \in DOMAIN cola \/ op \in descartadas)
        BY DEF IInv, NadaSePierde, Hechas, Surtio, ALaVista
    <2>2. Surtio(op) => Surtio(op)'
        BY <2>1 DEF Surtio, EnElPartido, Crece
    <2>3. QED
        BY <2>1, <2>2
<1>2. QED
    BY <1>1 DEF NadaSePierde, Surtio, ALaVista

\* A step that leaves the match and the referee alone.
LEMMA Quieto ==
    ASSUME IInv, UNCHANGED <<servidor, hechas, acusadas>>
    PROVE  Crece
BY DEF IInv, Crece, ServidorBien, Hechas

\* The items that a step leaves in the queue, and the copies that it puts.
LEMMA ColaSigue ==
    ASSUME IInv, Crece,
           \A op \in DOMAIN cola' : \/ op \in DOMAIN cola /\ cola'[op] = cola[op]
                                    \/ CopiaBien(cola'[op], op, hechas')
    PROVE  ColaBien'
<1>1. hechas \in Nat /\ hechas' \in Nat /\ hechas <= hechas'
    BY DEF IInv, Hechas, Crece
<1>2. ASSUME NEW op \in DOMAIN cola'
      PROVE  CopiaBien(cola'[op], op, hechas')
    <2>1. \/ CopiaBien(cola'[op], op, hechas)
          \/ CopiaBien(cola'[op], op, hechas')
        BY <1>2 DEF IInv, ColaBien
    <2>2. QED
        BY <1>1, <2>1 DEF CopiaBien
<1>3. QED
    BY <1>2 DEF ColaBien

\* What a flush waits for.
LEMMA EsperaBien ==
    ASSUME IInv, NEW f \in DOMAIN vaciado
    PROVE  /\ Quedan(f) \subseteq Ops
           /\ Quedan(f) # {} => /\ Min(Quedan(f)) \in Quedan(f)
                                /\ CopiaBien(Primero(f), Min(Quedan(f)), hechas)
                                /\ Primero(f).op = Min(Quedan(f)) /\ Primero(f).op \in Ops
           /\ vaciado[f].envio # Ninguno => vaciado[f].envio \in Ops
<1>1. VaciadoBien(f)
    BY DEF IInv, Vaciando
<1>2. Quedan(f) \subseteq Ops
    BY <1>1 DEF VaciadoBien, CopiaBien
<1>3. Quedan(f) # {} => /\ Min(Quedan(f)) \in Quedan(f)
                        /\ CopiaBien(Primero(f), Min(Quedan(f)), hechas)
    BY <1>1, <1>2, HayPrimero DEF VaciadoBien, Primero
<1>4. Quedan(f) # {} => Primero(f).op = Min(Quedan(f)) /\ Primero(f).op \in Ops
    BY <1>2, <1>3 DEF CopiaBien
<1>5. vaciado[f].envio # Ninguno => vaciado[f].envio \in Ops
    BY <1>1, <1>4 DEF VaciadoBien
<1>6. QED
    BY <1>2, <1>3, <1>4, <1>5

\* An answer reaches the flush that waits for it.
LEMMA RespuestaBien ==
    ASSUME IInv, Crece, NEW f \in DOMAIN vaciado, NEW codigo \in Respuestas, codigo # "ninguna",
           vaciado[f].envio # Ninguno, vaciado' = [vaciado EXCEPT ![f].respuesta = codigo],
           codigo = "2xx" => servidor'.filas[vaciado[f].envio] > 0,
           codigo = "409" => Negado(vaciado[f].envio, servidor')
    PROVE  Vaciando' /\ DOMAIN vaciado' = DOMAIN vaciado
<1>1. VaciadoBien(f)
    BY DEF IInv, Vaciando
<1>2. /\ DOMAIN vaciado' = DOMAIN vaciado
      /\ \A g \in DOMAIN vaciado : g # f => vaciado'[g] = vaciado[g]
    OBVIOUS
<1>3. /\ DOMAIN vaciado'[f] = DOMAIN vaciado[f] /\ vaciado'[f].items = vaciado[f].items
      /\ vaciado'[f].envio = vaciado[f].envio /\ vaciado'[f].respuesta = codigo
    BY <1>1 DEF VaciadoBien
<1>4. Quedan(f)' = Quedan(f) /\ Primero(f)' = Primero(f)
    BY <1>3 DEF Quedan, Primero
<1>5. hechas \in Nat /\ hechas' \in Nat /\ hechas <= hechas'
    BY DEF IInv, Hechas, Crece
<1>6. \A op \in Quedan(f)' : CopiaBien(vaciado'[f].items[op], op, hechas')
    BY <1>1, <1>3, <1>4, <1>5 DEF VaciadoBien, CopiaBien
<1>7. VaciadoBien(f)'
    BY <1>1, <1>3, <1>4, <1>6 DEF VaciadoBien
<1>8. QED
    BY <1>2, <1>7, VaciadoSigue DEF Vaciando

\* The next item, and nothing under way.
LEMMA SiguienteBien ==
    ASSUME IInv, Crece, NEW f \in DOMAIN vaciado, vaciado' = Siguiente(f)
    PROVE  Vaciando' /\ DOMAIN vaciado' = DOMAIN vaciado
<1>1. VaciadoBien(f)
    BY DEF IInv, Vaciando
<1>2. /\ DOMAIN vaciado' = DOMAIN vaciado
      /\ \A g \in DOMAIN vaciado : g # f => vaciado'[g] = vaciado[g]
    BY DEF Siguiente
<1>3. /\ DOMAIN vaciado'[f] = DOMAIN vaciado[f]
      /\ vaciado'[f].items = Sin(vaciado[f].items, Min(Quedan(f)))
      /\ vaciado'[f].envio = Ninguno /\ vaciado'[f].respuesta = "ninguna"
    BY <1>1 DEF VaciadoBien, Siguiente
<1>4. \A op \in Quedan(f)' : op \in Quedan(f) /\ vaciado'[f].items[op] = vaciado[f].items[op]
    BY <1>3 DEF Quedan, Sin
<1>5. hechas \in Nat /\ hechas' \in Nat /\ hechas <= hechas'
    BY DEF IInv, Hechas, Crece
<1>6. \A op \in Quedan(f)' : CopiaBien(vaciado'[f].items[op], op, hechas')
    BY <1>1, <1>4, <1>5 DEF VaciadoBien, CopiaBien
<1>7. VaciadoBien(f)'
    BY <1>1, <1>3, <1>6 DEF VaciadoBien, Respuestas
<1>8. QED
    BY <1>2, <1>7, VaciadoSigue DEF Vaciando

-----------------------------------------------------------------------------
(* The steps                                                               *)

\* A request reaches the server, or fails there.
LEMMA ServirBien ==
    ASSUME IInv, NEW r \in enRed, Servir(r) \/ ServidorFalla(r)
    PROVE  IInv'
<1>1. r.op \in Ops /\ enRed' \subseteq enRed
    BY DEF IInv, Red, Servir, ServidorFalla
<1>2. UNCHANGED <<hechas, acusadas, descartadas, cola, ciclo>>
    BY DEF Servir, ServidorFalla, usuario
<1>3. PICK codigo \in Respuestas :
          /\ Contesta(r, codigo) /\ codigo # "ninguna"
          /\ Crece
          /\ codigo = "2xx" => servidor'.filas[r.op] > 0
          /\ codigo = "409" => Negado(r.op, servidor')
    <2>1. CASE Servir(r) /\ r.token
        <3>1. servidor' = Aplicada(r.op, servidor) /\ Contesta(r, Respuesta(r.op, servidor))
            BY <2>1 DEF Servir
        <3>2. PICK codigo : codigo = Respuesta(r.op, servidor)
            OBVIOUS
        <3>3. /\ servidor' \in Partido
              /\ servidor'.cerrada => servidor'.cerradaAlgunaVez
              /\ \A o \in Ops : servidor.filas[o] > 0 => servidor'.filas[o] > 0
              /\ servidor.cerradaAlgunaVez => servidor'.cerradaAlgunaVez
              /\ servidor.negadas \subseteq servidor'.negadas
              /\ codigo \in {"2xx", "400", "409"}
              /\ codigo = "2xx" => servidor'.filas[r.op] > 0
              /\ codigo = "409" => Negado(r.op, servidor')
            BY <1>1, <3>1, <3>2, AplicadaBien DEF IInv
        <3>4. Crece
            BY <1>2, <3>3 DEF Crece, ServidorBien, IInv, Hechas
        <3>5. QED
            BY <3>1, <3>2, <3>3, <3>4 DEF Respuestas
    <2>2. CASE ~(Servir(r) /\ r.token)
        <3>1. UNCHANGED servidor /\ \E codigo \in {"401", "5xx", "red"} : Contesta(r, codigo)
            BY <2>2 DEF Servir, ServidorFalla
        <3>2. Crece
            BY <1>2, <3>1, Quieto
        <3>3. QED
            BY <3>1, <3>2 DEF Respuestas
    <2>3. QED
        BY <2>1, <2>2
<1>4. Vaciando' /\ DOMAIN vaciado' = DOMAIN vaciado
    <2>1. CASE r.vaciado \in DOMAIN vaciado /\ vaciado[r.vaciado].envio = r.op
        <3>1. vaciado' = [vaciado EXCEPT ![r.vaciado].respuesta = codigo]
            BY <1>3, <2>1 DEF Contesta
        <3>2. vaciado[r.vaciado].envio # Ninguno
            BY <1>1, <2>1, OpsNaturales DEF Ninguno
        <3>3. QED
            BY <1>3, <2>1, <3>1, <3>2, RespuestaBien
    <2>2. CASE ~(r.vaciado \in DOMAIN vaciado /\ vaciado[r.vaciado].envio = r.op)
        <3>1. vaciado' = vaciado
            BY <1>3, <2>2 DEF Contesta
        <3>2. QED
            BY <1>3, <3>1, VaciadoSigue DEF Vaciando
    <2>3. QED
        BY <2>1, <2>2
<1>5. ColaBien' /\ NadaSePierde'
    BY <1>2, <1>3, ColaSigue, NadaSePierdeSigue
<1>6. Red' /\ CicloVivo'
    BY <1>1, <1>2, <1>4 DEF IInv, Red, CicloVivo
<1>7. QED
    BY <1>3, <1>4, <1>5, <1>6 DEF IInv, Crece

\* What the referee does: with a signal it goes to the server, without it to the queue.
LEMMA ArbitroBien ==
    ASSUME IInv, NEW op \in Ops, Encolar(op) \/ Directo(op) \/ DirectoFalla(op)
    PROVE  IInv'
<1>1. /\ hechas \in Nat /\ acusadas \subseteq Ops /\ op = hechas + 1 /\ hechas' = op
      /\ UNCHANGED <<descartadas, vaciado, ciclo, enRed>>
    BY DEF IInv, Hechas, Encolar, Directo, DirectoFalla
<1>2. /\ acusadas' \in {acusadas, acusadas \cup {op}}
      /\ servidor' \in {servidor, Aplicada(op, servidor)}
    BY DEF Encolar, Directo, DirectoFalla
<1>3. Crece
    <2>1. /\ ServidorBien'
          /\ \A o \in Ops : servidor.filas[o] > 0 => servidor'.filas[o] > 0
          /\ servidor.cerradaAlgunaVez => servidor'.cerradaAlgunaVez
          /\ servidor.negadas \subseteq servidor'.negadas
        <3>1. CASE servidor' = servidor
            BY <3>1 DEF IInv, ServidorBien
        <3>2. CASE servidor' = Aplicada(op, servidor)
            BY <3>2, AplicadaBien DEF IInv, ServidorBien
        <3>3. QED
            BY <1>2, <3>1, <3>2
    <2>2. Hechas' /\ hechas <= hechas'
        BY <1>1, <1>2 DEF Hechas
    <2>3. QED
        BY <2>1, <2>2 DEF Crece
<1>4. /\ DOMAIN cola \subseteq DOMAIN cola'
      /\ \A o \in DOMAIN cola' : \/ o \in DOMAIN cola /\ cola'[o] = cola[o]
                                 \/ CopiaBien(cola'[o], o, hechas')
    <2>1. CASE Encolar(op)
        <3>1. Nuevo(op) \in Item /\ CopiaBien(Nuevo(op), op, hechas')
            BY <1>1, OpsAssumption DEF Nuevo, Item, CopiaBien
        <3>2. QED
            BY <2>1, <3>1 DEF Encolar, Con
    <2>2. CASE ~Encolar(op)
        BY <2>2 DEF Directo, DirectoFalla
    <2>3. QED
        BY <2>1, <2>2
<1>5. op \in acusadas' /\ op \notin acusadas => Surtio(op)' \/ op \in DOMAIN cola'
    <2>1. CASE Encolar(op)
        BY <2>1 DEF Encolar, Con
    <2>2. CASE Directo(op)
        <3>1. op \in acusadas' /\ op \notin acusadas => Respuesta(op, servidor) = "2xx"
            BY <2>2 DEF Directo
        <3>2. servidor' = Aplicada(op, servidor)
            BY <2>2 DEF Directo
        <3>3. QED
            BY <3>1, <3>2, AplicadaBien DEF IInv, Surtio, EnElPartido
    <2>3. CASE DirectoFalla(op)
        BY <2>3 DEF DirectoFalla
    <2>4. QED
        BY <2>1, <2>2, <2>3
<1>6. NadaSePierde'
    <2>1. ASSUME NEW o \in acusadas'
          PROVE  Surtio(o)' \/ o \in DOMAIN cola' \/ o \in descartadas'
        <3>1. CASE o \in acusadas
            <4>1. o \in Ops /\ (Surtio(o) \/ o \in DOMAIN cola \/ o \in descartadas)
                BY <1>1, <3>1 DEF IInv, NadaSePierde, Surtio, ALaVista
            <4>2. Surtio(o) => Surtio(o)'
                BY <1>3, <4>1 DEF Surtio, EnElPartido, Crece
            <4>3. QED
                BY <1>1, <1>4, <4>1, <4>2
        <3>2. CASE o \notin acusadas
            BY <1>2, <1>5, <2>1, <3>2
        <3>3. QED
            BY <3>1, <3>2
    <2>2. QED
        BY <2>1 DEF NadaSePierde, Surtio, ALaVista
<1>7. Vaciando'
    BY <1>1, <1>3, VaciadoSigue DEF Vaciando
<1>8. ColaBien' /\ Red' /\ CicloVivo'
    BY <1>1, <1>3, <1>4, ColaSigue DEF IInv, Red, CicloVivo
<1>9. QED
    BY <1>3, <1>6, <1>7, <1>8 DEF IInv, Crece

\* What the user throws away, the office and the backoffs that expire
LEMMA AlrededorBien ==
    ASSUME IInv,
           \/ Descartar \/ Logout \/ OficinaCambiaActa \/ OficinaCambiaEstado \/ RenovarSesion
           \/ \E op \in DOMAIN cola : VencerEspera(op)
    PROVE  IInv'
<1>1. /\ UNCHANGED <<hechas, acusadas, vaciado, ciclo, enRed>>
      /\ descartadas \subseteq descartadas'
    BY DEF Descartar, Logout, OficinaCambiaActa, OficinaCambiaEstado, RenovarSesion,
           VencerEspera, usuario
<1>2. Crece
    <2>1. CASE OficinaCambiaActa
        <3>1. PICK no \in BOOLEAN : no = ~servidor.cerrada
            OBVIOUS
        <3>2. servidor' = [servidor EXCEPT !.cerrada = no, !.cerradaAlgunaVez = TRUE]
            BY <2>1, <3>1 DEF OficinaCambiaActa
        <3>3. /\ servidor' \in Partido /\ servidor'.cerradaAlgunaVez
              /\ servidor'.filas = servidor.filas /\ servidor'.negadas = servidor.negadas
            BY <3>2 DEF IInv, ServidorBien, Partido
        <3>4. QED
            BY <1>1, <3>3 DEF IInv, ServidorBien, Hechas, Crece
    <2>4. CASE OficinaCambiaEstado
        <3>1. PICK no \in BOOLEAN : no = ~servidor.operable
            OBVIOUS
        <3>2. servidor' = [servidor EXCEPT !.operable = no]
            BY <2>4, <3>1 DEF OficinaCambiaEstado
        <3>3. /\ servidor' \in Partido /\ servidor'.filas = servidor.filas
              /\ servidor'.cerrada = servidor.cerrada /\ servidor'.negadas = servidor.negadas
              /\ servidor'.cerradaAlgunaVez = servidor.cerradaAlgunaVez
            BY <3>2 DEF IInv, ServidorBien, Partido
        <3>4. QED
            BY <1>1, <3>3 DEF IInv, ServidorBien, Hechas, Crece
    <2>2. CASE ~OficinaCambiaActa /\ ~OficinaCambiaEstado
        <3>1. UNCHANGED servidor
            BY <2>2 DEF Descartar, Logout, RenovarSesion, VencerEspera
        <3>2. QED
            BY <1>1, <3>1, Quieto
    <2>3. QED
        BY <2>1, <2>2, <2>4
<1> DEFINE Conserva ==
               /\ \A op \in DOMAIN cola' : \/ op \in DOMAIN cola /\ cola'[op] = cola[op]
                                           \/ CopiaBien(cola'[op], op, hechas')
               /\ \A op \in DOMAIN cola : op \in DOMAIN cola' \/ op \in descartadas'
<1>3. Conserva
    <2>1. CASE Descartar
        BY <2>1 DEF Descartar
    <2>2. CASE Logout
        BY <2>2 DEF Logout
    <2>3. CASE OficinaCambiaActa \/ OficinaCambiaEstado \/ RenovarSesion
        BY <2>3 DEF OficinaCambiaActa, OficinaCambiaEstado, RenovarSesion
    <2>4. ASSUME NEW op \in DOMAIN cola, VencerEspera(op)
          PROVE  Conserva
        <3>1. CopiaBien(cola[op], op, hechas)
            BY DEF IInv, ColaBien
        <3>2. /\ DOMAIN cola' = DOMAIN cola /\ cola'[op] = [cola[op] EXCEPT !.espera = FALSE]
              /\ \A o \in DOMAIN cola : o # op => cola'[o] = cola[o]
            BY <2>4, <3>1 DEF VencerEspera
        <3>3. CopiaBien(cola'[op], op, hechas')
            BY <1>1, <3>1, <3>2 DEF CopiaBien, Item
        <3>4. QED
            BY <3>2, <3>3
    <2> HIDE DEF Conserva
    <2>5. QED
        BY <2>1, <2>2, <2>3, <2>4
<1>4. ColaBien' /\ NadaSePierde'
    BY <1>1, <1>2, <1>3, ColaSigue, NadaSePierdeSigue
<1>5. Vaciando'
    BY <1>1, <1>2, VaciadoSigue DEF Vaciando
<1>6. Red' /\ CicloVivo'
    BY <1>1 DEF IInv, Red, CicloVivo
<1>7. QED
    BY <1>2, <1>4, <1>5, <1>6 DEF IInv, Crece

\* The tab and its banner: the effect that changes, the token that expires, the end.
LEMMA PestanaBien ==
    ASSUME IInv, CambiarEnlace \/ VencerSesion \/ CerrarPestana
    PROVE  IInv'
<1>1. UNCHANGED <<hechas, acusadas, descartadas, cola, enRed, servidor>>
    BY DEF CambiarEnlace, VencerSesion, CerrarPestana, usuario
<1>2. Crece
    BY <1>1, Quieto
<1>3. Vaciando' /\ CicloVivo'
    <2>1. CASE CambiarEnlace
        <3>1. vaciado' = vaciado /\ ciclo' = Ninguno
            BY <2>1 DEF CambiarEnlace
        <3>2. QED
            BY <1>2, <3>1, VaciadoSigue DEF Vaciando, CicloVivo
    <2>2. CASE VencerSesion
        <3>1. /\ vaciado' = [f \in DOMAIN vaciado |-> [vaciado[f] EXCEPT !.token = FALSE]]
              /\ ciclo' = ciclo
            BY <2>2 DEF VencerSesion
        <3>2. ASSUME NEW f \in DOMAIN vaciado'
              PROVE  VaciadoBien(f)'
            <4>1. VaciadoBien(f) /\ f \in DOMAIN vaciado
                BY <3>1, <3>2 DEF IInv, Vaciando
            <4>2. /\ DOMAIN vaciado'[f] = DOMAIN vaciado[f]
                  /\ vaciado'[f].items = vaciado[f].items /\ vaciado'[f].envio = vaciado[f].envio
                  /\ vaciado'[f].respuesta = vaciado[f].respuesta
                BY <3>1, <4>1 DEF VaciadoBien
            <4>3. Quedan(f)' = Quedan(f) /\ Primero(f)' = Primero(f)
                BY <4>2 DEF Quedan, Primero
            <4>4. QED
                BY <1>1, <4>1, <4>2, <4>3 DEF VaciadoBien
        <3>3. QED
            BY <3>1, <3>2 DEF IInv, Vaciando, CicloVivo
    <2>3. CASE CerrarPestana
        BY <2>3 DEF CerrarPestana, Vaciando, CicloVivo
    <2>4. QED
        BY <2>1, <2>2, <2>3
<1>4. ColaBien' /\ NadaSePierde'
    BY <1>1, <1>2, ColaSigue, NadaSePierdeSigue
<1>5. QED
    BY <1>1, <1>2, <1>3, <1>4 DEF IInv, Crece, Red

\* A flush begins, sends, passes over an item or ends, and loses an answer.
LEMMA VaciadosBien ==
    ASSUME IInv, NEW f, \/ IniciarVaciado(f)
                        \/ f \in DOMAIN vaciado /\ (Saltar(f) \/ Enviar(f) \/ TerminarVaciado(f))
                        \/ Pierde(f)
    PROVE  IInv'
<1>1. UNCHANGED <<hechas, acusadas, descartadas, cola, servidor>>
    BY DEF IniciarVaciado, Saltar, Enviar, TerminarVaciado, Pierde, EnvioFalla, RespuestaPerdida,
           usuario
<1>2. Crece
    BY <1>1, Quieto
<1>3. Vaciando' /\ CicloVivo' /\ Red'
    <2>1. CASE IniciarVaciado(f)
        <3> DEFINE nuevo == [items |-> cola, token |-> sesion, envio |-> Ninguno,
                             respuesta |-> "ninguna"]
        <3>1. /\ vaciado' = Con(vaciado, f, nuevo) /\ ciclo' = f /\ enRed' = enRed
              /\ f \notin DOMAIN vaciado
            BY <2>1 DEF IniciarVaciado
        <3>2. /\ DOMAIN vaciado' = DOMAIN vaciado \cup {f} /\ vaciado'[f] = nuevo
              /\ \A g \in DOMAIN vaciado : vaciado'[g] = vaciado[g]
            BY <3>1 DEF Con
        <3>3. VaciadoBien(f)'
            <4>1. Quedan(f)' = DOMAIN cola /\ vaciado'[f].items = cola
                BY <3>2 DEF Quedan
            <4>2. \A op \in Quedan(f)' : CopiaBien(vaciado'[f].items[op], op, hechas')
                BY <1>1, <4>1 DEF IInv, ColaBien
            <4>3. QED
                BY <3>2, <4>2 DEF VaciadoBien, Respuestas
        <3>4. QED
            BY <1>2, <3>1, <3>2, <3>3, VaciadoSigue DEF IInv, Vaciando, CicloVivo, Red
    <2>2. CASE f \in DOMAIN vaciado /\ Saltar(f)
        <3>1. vaciado' = Siguiente(f) /\ ciclo' = ciclo /\ enRed' = enRed
            BY <2>2 DEF Saltar
        <3>2. QED
            BY <1>2, <2>2, <3>1, SiguienteBien DEF IInv, CicloVivo, Red
    <2>3. CASE f \in DOMAIN vaciado /\ Enviar(f)
        <3>1. PICK op : op = Primero(f).op
            OBVIOUS
        <3>2. /\ vaciado' = [vaciado EXCEPT ![f].envio = op] /\ ciclo' = ciclo
              /\ Quedan(f) # {} /\ vaciado[f].envio = Ninguno /\ ~Primero(f).deadLetter
            BY <2>3, <3>1 DEF Enviar
        <3>3. VaciadoBien(f) /\ op \in Ops
            BY <2>3, <3>1, <3>2, EsperaBien DEF IInv, Vaciando
        <3>4. /\ DOMAIN vaciado' = DOMAIN vaciado
              /\ \A g \in DOMAIN vaciado : g # f => vaciado'[g] = vaciado[g]
              /\ DOMAIN vaciado'[f] = DOMAIN vaciado[f] /\ vaciado'[f].items = vaciado[f].items
              /\ vaciado'[f].envio = op /\ vaciado'[f].respuesta = vaciado[f].respuesta
            BY <2>3, <3>2, <3>3 DEF VaciadoBien
        <3>5. Quedan(f)' = Quedan(f) /\ Primero(f)' = Primero(f)
            BY <3>4 DEF Quedan, Primero
        <3>6. VaciadoBien(f)'
            BY <1>1, <3>1, <3>2, <3>3, <3>4, <3>5 DEF VaciadoBien
        <3>7. Red'
            BY <2>3, <3>1, <3>3 DEF Enviar, IInv, Red
        <3>8. QED
            BY <1>2, <3>2, <3>4, <3>6, <3>7, VaciadoSigue DEF IInv, Vaciando, CicloVivo
    <2>4. CASE f \in DOMAIN vaciado /\ TerminarVaciado(f)
        <3>1. /\ vaciado' = Sin(vaciado, f) /\ ciclo' = IF ciclo = f THEN Ninguno ELSE ciclo
              /\ enRed' = enRed
            BY <2>4 DEF TerminarVaciado
        <3>2. /\ DOMAIN vaciado' = DOMAIN vaciado \ {f}
              /\ \A g \in DOMAIN vaciado' : vaciado'[g] = vaciado[g]
            BY <3>1 DEF Sin
        <3>3. QED
            BY <1>2, <3>1, <3>2, VaciadoSigue DEF IInv, Vaciando, CicloVivo, Red
    <2>5. CASE Pierde(f)
        <3>1. /\ f \in DOMAIN vaciado /\ vaciado' = [vaciado EXCEPT ![f].respuesta = "red"]
              /\ vaciado[f].envio # Ninguno \/ vaciado[f].respuesta # "ninguna"
              /\ ciclo' = ciclo /\ enRed' = enRed
            BY <2>5 DEF Pierde, EnvioFalla, RespuestaPerdida
        <3>2. vaciado[f].envio # Ninguno
            BY <3>1 DEF IInv, Vaciando, VaciadoBien
        <3>3. PICK codigo \in Respuestas : codigo = "red"
            BY DEF Respuestas
        <3>4. Vaciando' /\ DOMAIN vaciado' = DOMAIN vaciado
            BY <1>2, <3>1, <3>2, <3>3, RespuestaBien
        <3>5. QED
            BY <3>1, <3>4 DEF IInv, CicloVivo, Red
    <2>6. QED
        BY <2>1, <2>2, <2>3, <2>4, <2>5
<1>4. ColaBien' /\ NadaSePierde'
    BY <1>1, <1>2, ColaSigue, NadaSePierdeSigue
<1>5. QED
    BY <1>2, <1>3, <1>4 DEF IInv, Crece

\* The answer is dealt with: the item leaves the queue only when the match has it, or
\* refused it as the closing of a suspended match.
LEMMA RecibirBien ==
    ASSUME IInv, NEW f \in DOMAIN vaciado, Recibir(f)
    PROVE  IInv'
<1>0. PICK item, respuesta : item = Primero(f) /\ respuesta = vaciado[f].respuesta
    OBVIOUS
<1>1. /\ UNCHANGED <<hechas, acusadas, descartadas, ciclo, enRed, servidor>>
      /\ vaciado' = Siguiente(f) /\ cola' = ColaTras(item, respuesta)
    BY <1>0 DEF Recibir, usuario
<1>2. Crece
    BY <1>1, Quieto
<1>3. /\ VaciadoBien(f) /\ Quedan(f) # {} /\ vaciado[f].envio = item.op /\ ~item.deadLetter
      /\ respuesta \in Respuestas /\ respuesta # "ninguna"
    BY <1>0 DEF Recibir, IInv, Vaciando, VaciadoBien
<1>4. item.op \in Ops /\ CopiaBien(item, item.op, hechas)
    BY <1>0, <1>3, EsperaBien
<1>5. /\ respuesta = "2xx" => servidor.filas[item.op] > 0
      /\ respuesta = "409" => Negado(item.op, servidor)
    BY <1>0, <1>3 DEF VaciadoBien
<1>6. item.attempts \in 0..MAX_RETRIES /\ item.attempts < MAX_RETRIES /\ MAX_RETRIES \in Nat
    BY <1>3, <1>4, OpsAssumption DEF CopiaBien, Item
<1>7. \/ cola' = Sin(cola, item.op) /\ Surtio(item.op)'
      \/ \E copia : cola' = Con(cola, item.op, copia) /\ CopiaBien(copia, item.op, hechas')
    <2>1. CASE respuesta = "2xx" \/ (respuesta = "409" /\ Tipo[item.op] = "cerrar-acta")
        BY <1>1, <1>5, <2>1 DEF ColaTras, Surtio, EnElPartido, Negado
    <2>2. CASE ~(respuesta = "2xx" \/ (respuesta = "409" /\ Tipo[item.op] = "cerrar-acta"))
        <3>1. PICK n \in 0..MAX_RETRIES :
                  \/ n < MAX_RETRIES /\ cola' = Reintentar(item, n)
                  \/ cola' = MarcarDead(item, n)
            BY <1>1, <1>6, <2>2 DEF ColaTras
        <3>2. CASE n < MAX_RETRIES /\ cola' = Reintentar(item, n)
            <4>1. CopiaBien([item EXCEPT !.attempts = n, !.espera = TRUE], item.op, hechas')
                BY <1>1, <1>4, <3>1, <3>2 DEF CopiaBien, Item
            <4>2. QED
                BY <3>2, <4>1 DEF Reintentar
        <3>3. CASE cola' = MarcarDead(item, n)
            <4>1. CopiaBien([item EXCEPT !.attempts = n, !.deadLetter = TRUE], item.op, hechas')
                BY <1>1, <1>4, <3>1 DEF CopiaBien, Item
            <4>2. QED
                BY <3>3, <4>1 DEF MarcarDead
        <3>4. QED
            BY <3>1, <3>2, <3>3
    <2>3. QED
        BY <2>1, <2>2
<1>8. /\ \A op \in DOMAIN cola' : \/ op \in DOMAIN cola /\ cola'[op] = cola[op]
                                  \/ CopiaBien(cola'[op], op, hechas')
      /\ \A op \in DOMAIN cola : \/ op \in DOMAIN cola'
                                 \/ Surtio(op)'
    BY <1>7 DEF Con, Sin
<1>9. ColaBien' /\ NadaSePierde'
    BY <1>1, <1>2, <1>8, ColaSigue, NadaSePierdeSigue
<1>10. Vaciando' /\ DOMAIN vaciado' = DOMAIN vaciado
    BY <1>1, <1>2, SiguienteBien
<1>11. QED
    BY <1>1, <1>2, <1>9, <1>10 DEF IInv, Crece, Red, CicloVivo

-----------------------------------------------------------------------------
(* The theorems                                                            *)

\* The invariant holds in every state, whatever the scheduling.
LEMMA Invariante == Spec => []IInv
<1>1. Init => IInv
    <2> SUFFICES ASSUME Init PROVE IInv
        OBVIOUS
    <2>1. ServidorBien
        BY DEF Init, ServidorBien, Partido
    <2>2. Hechas /\ Red /\ CicloVivo /\ NadaSePierde
        BY DEF Init, Hechas, Red, CicloVivo, NadaSePierde
    <2>3. ColaBien /\ Vaciando
        BY DEF Init, ColaBien, Vaciando
    <2>4. QED
        BY <2>1, <2>2, <2>3 DEF IInv
<1>2. IInv /\ [Next]_vars => IInv'
    <2> SUFFICES ASSUME IInv, [Next]_vars PROVE IInv'
        OBVIOUS
    <2>1. CASE UNCHANGED vars
        <3>1. UNCHANGED <<hechas, acusadas, cola, descartadas, vaciado, ciclo, enRed, servidor>>
            BY <2>1 DEF vars
        <3>2. Crece
            BY <3>1, Quieto
        <3>3. Vaciando'
            BY <3>1, <3>2, VaciadoSigue DEF Vaciando
        <3>4. ColaBien' /\ NadaSePierde'
            BY <3>1, <3>2, ColaSigue, NadaSePierdeSigue
        <3>5. QED
            BY <3>1, <3>2, <3>3, <3>4 DEF IInv, Crece, Red, CicloVivo
    <2>2. CASE Next
        BY <2>2, ServirBien, ArbitroBien, AlrededorBien, PestanaBien, VaciadosBien, RecibirBien
           DEF Next, Avanza
    <2>3. QED
        BY <2>1, <2>2
<1>3. QED
    BY <1>1, <1>2, PTL DEF Spec

\* Items, answers and rows keep their types; a flush sends the item it is at.
THEOREM TiposDeLaCola == Spec => []TypeOK
<1>1. IInv => TypeOK
    BY DEF IInv, ColaBien, CopiaBien, Vaciando, VaciadoBien, CicloVivo, TypeOK
<1>2. QED
    BY <1>1, Invariante, PTL

\* However often an incident is sent, and whichever answers are lost, it is in the match
\* once (addIncidencia, the clientKey of MOV-1).
THEOREM IncidenciaSinDuplicar == Spec => []IncidenciaUnaVez
<1>1. IInv => IncidenciaUnaVez
    BY DEF IInv, ServidorBien, Partido, IncidenciaUnaVez
<1>2. QED
    BY <1>1, Invariante, PTL

\* Nothing that the referee was told is saved disappears (flushQueue, MOV-4), but for the
\* closings that cerrarActa refuses because the office suspended the match.
THEOREM LoAcusadoSeConserva == Spec => []NadaSePierde
<1>1. IInv => NadaSePierde
    BY DEF IInv
<1>2. QED
    BY <1>1, Invariante, PTL
=============================================================================
