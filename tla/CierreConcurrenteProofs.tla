----------------------- MODULE CierreConcurrenteProofs -----------------------
(***************************************************************************)
(* Theorems of CierreConcurrente, for any number of requests, matches and  *)
(* matchdays.  The types and UnSoloCierre hold whatever the requests ask   *)
(* for.  That no complete matchday stays open and no suspended one keeps   *)
(* open matches, for requests that resolve matches or suspend matchdays    *)
(* (SoloResuelven); that no closed one has a pending match, also while     *)
(* matches are reopened and moved (ReabrenUna); the score of a closed acta,*)
(* while goals and cards are entered (SoloCargan).                         *)
(***************************************************************************)
EXTENDS CierreConcurrente, TLAPS, FiniteSetTheorems, SequenceTheorems

-----------------------------------------------------------------------------
(* The inductive invariant: what holds whatever is asked for                *)

Pedidos == UNION {UNION {e.pedidos[t] : t \in Transacciones} : e \in Escenarios}

Campos == {"estado", "acta", "fecha", "goles"}
Modos == {"FOR_UPDATE", "UPDATE", "FOR_KEY_SHARE"}
Copia == FilaPartido \cup {<<>>}
DeFecha == [op : {"evaluar", "revertir"}, fila : Fechas]
DePartido == [op : {"reservar"}, fila : Partidos]

Tx == [pedido : Pedidos, paso : Pasos, copia : Copia, cambios : SUBSET Campos,
       trabajos : Seq(DeFecha \cup DePartido)]

Version(v) ==
    /\ v \in [Filas -> FilaPartido \cup FilaFecha]
    /\ \A p \in Partidos : v[p] \in FilaPartido
    /\ \A f \in Fechas : v[f] \in FilaFecha

Tipos ==
    /\ Version(base) /\ Version(actual)
    /\ tx \in [Transacciones -> Tx]
    /\ candados \subseteq [t : Transacciones, fila : Filas, modo : Modos]
    /\ incidencias \subseteq [t : Transacciones, partido : Partidos, tipo : {"GOL", "ROJA"}]
    /\ IsFiniteSet(incidencias)

\* Which requests go through which statements, and what they carry there
FaseBien(s) ==
    /\ s.pedido.tipo = "CERRAR" => s.paso \in {"inicio", "cascada", "confirmada", "anulada"}
    /\ s.paso \in {"reservar", "arrastrar"} => s.pedido.tipo = "SUSPENDER_FECHA"
    /\ s.paso \in {"insertar", "contar", "comparar", "escribir", "clave"} =>
           s.copia \in FilaPartido /\ s.pedido.tipo # "SUSPENDER_FECHA"
    /\ s.paso \in {"insertar", "contar"} => s.pedido.tipo \in {"GOL", "ROJA"}

Fases == \A t \in Transacciones : FaseBien(tx[t])

\* Locks and incidents belong to requests that got to take or insert them.
Rastros ==
    /\ \A c \in candados : tx[c.t].paso \notin {"inicio", "confirmada", "anulada"}
    /\ \A i \in incidencias : tx[i.t].paso \notin {"inicio", "insertar", "anulada"}

Excluyen == \A c, d \in candados : c.fila = d.fila /\ Choca(c.modo, d.modo) => c.t = d.t

\* A row that nobody is changing is as it was committed.
SinDueno == \A x \in Filas : actual[x] = base[x] \/ \E t \in Transacciones : Propia(t, x)

\* Who is closing an acta has the match, and found it open.
Cerrando == \A t \in Transacciones :
    tx[t].pedido.tipo = "CERRAR" /\ tx[t].paso = "cascada" =>
        Propia(t, tx[t].pedido.fila) /\ ~base[tx[t].pedido.fila].acta

IInv == Tipos /\ Fases /\ Rastros /\ Excluyen /\ SinDueno /\ Cerrando

-----------------------------------------------------------------------------
(* And for requests that resolve                                            *)

\* The requests close actas, call matches off, call whole matchdays off, or insert red
\* cards: none saves a stale copy that makes a match pending (addIncidencia with its
\* score, reabrirActa) or takes it to another matchday (MOVER).
SoloResuelven ==
    \A e \in Escenarios : \A t \in Transacciones : \A s \in e.pedidos[t] :
        s.tipo \in {"CERRAR", "SUSPENDER", "SUSPENDER_FECHA", "ROJA"}

De(f) == {p \in Partidos : base[p].fecha = f}
Resuelta(r) == r.estado \in EstadosResueltos

\* Matches stay in their matchday and do not become pending; an acta is of a resolved match.
Avanzan == \A p \in Partidos :
    /\ actual[p].fecha = base[p].fecha
    /\ Resuelta(base[p]) => Resuelta(actual[p])
    /\ base[p].acta => Resuelta(base[p])
    /\ actual[p].acta => Resuelta(actual[p])

\* CERRAR and SUSPENDER have their match once they saved it, and its matchday once they
\* have evaluated it.
Evaluada(t, f) ==
    /\ Propia(t, f)
    /\ \/ /\ actual[f].estado \in {"FINALIZADA", "SUSPENDIDA"}
          /\ \A p \in De(f) : Resuelta(Vista(t, p))
       \/ /\ actual[f].estado \in {"PROGRAMADA", "EN_CURSO"}
          /\ \E p \in De(f) : ~Resuelta(base[p]) /\ ~Propia(t, p)

UnPartido(t) ==
    LET s == tx[t]
        p == s.pedido.fila
        f == base[p].fecha
    IN  /\ \A x \in Filas : Propia(t, x) => x = p \/ (x = f /\ s.trabajos = <<>>)
        /\ Propia(t, p) => Resuelta(actual[p])
        /\ s.paso \in {"inicio", "comparar", "escribir", "cascada", "confirmada", "anulada"}
        /\ s.paso \in {"comparar", "escribir"} =>
               /\ s.copia.estado = "SUSPENDIDO_FUERZA_MAYOR" /\ s.copia.fecha = f
               /\ s.trabajos = <<Trabajo("evaluar", f)>> /\ ~Propia(t, p)
        /\ s.paso = "escribir" =>
               "fecha" \notin s.cambios /\ ("estado" \in s.cambios \/ Resuelta(base[p]))
        /\ s.paso = "cascada" =>
               s.trabajos = <<Trabajo("evaluar", f)>> \/ (s.trabajos = <<>> /\ Evaluada(t, f))

\* SUSPENDER_FECHA has matches of its matchday, and then the matchday.
UnaFecha(t) ==
    LET s == tx[t]
        f == s.pedido.fila
    IN  /\ \A x \in Filas : Propia(t, x) => x = f \/ x \in De(f)
        /\ s.paso \in {"inicio", "reservar", "arrastrar", "cascada", "confirmada", "anulada"}
        /\ s.paso = "reservar" => \A i \in DOMAIN s.trabajos : s.trabajos[i].fila \in De(f)
        /\ s.paso \in {"arrastrar", "cascada"} =>
               Propia(t, f) /\ actual[f].estado = "SUSPENDIDA" /\ s.trabajos = <<>>
        /\ s.paso = "cascada" => \A p \in De(f) : Resuelta(Vista(t, p))

\* A red card saves no row.
UnaRoja(t) ==
    /\ \A x \in Filas : ~Propia(t, x)
    /\ tx[t].paso \in {"inicio", "insertar", "cascada", "confirmada", "anulada"}
    /\ tx[t].trabajos = <<>>

Sirve(t) ==
    \/ tx[t].pedido.tipo \in {"CERRAR", "SUSPENDER"} /\ UnPartido(t)
    \/ tx[t].pedido.tipo = "SUSPENDER_FECHA" /\ UnaFecha(t)
    \/ tx[t].pedido.tipo = "ROJA" /\ UnaRoja(t)

\* A committed matchday that is closed or suspended has nothing pending; one to be played
\* has.
FechaBien(f) ==
    /\ base[f].estado \in {"FINALIZADA", "SUSPENDIDA"} => \A p \in De(f) : Resuelta(base[p])
    /\ base[f].estado \in {"PROGRAMADA", "EN_CURSO"} =>
           De(f) = {} \/ \E p \in De(f) : ~Resuelta(base[p])

Resolver == Avanzan /\ (\A t \in Transacciones : Sirve(t)) /\ \A f \in Fechas : FechaBien(f)

-----------------------------------------------------------------------------
(* Rows, requests and locks                                                *)

LEMMA PedidoBien ==
    ASSUME NEW s \in Pedidos
    PROVE  /\ s.tipo \in {"CERRAR", "SUSPENDER", "REABRIR", "GOL", "ROJA", "MOVER", "SUSPENDER_FECHA"}
           /\ s.tipo = "SUSPENDER_FECHA" => s.fila \in Fechas
           /\ s.tipo # "SUSPENDER_FECHA" => s.fila \in Partidos
           /\ s.fila \in Filas /\ s.destino \in Fechas /\ s.goles \in Nat
BY EscenariosAssumption DEF Pedidos, Filas

LEMMA FilaBien ==
    /\ \A p \in Partidos : p \in Filas /\ p \notin Fechas
    /\ \A f \in Fechas : f \in Filas /\ f \notin Partidos
BY FilasAssumption DEF Filas

\* A row is changed by one request at a time.
LEMMA UnDueno ==
    ASSUME Excluyen, NEW t, NEW u, NEW x, Propia(t, x), Propia(u, x)
    PROVE  t = u
BY DEF Excluyen, Propia, Choca

\* A table of rows of the right kinds
LEMMA TablaBien ==
    ASSUME NEW v, v = [x \in Filas |-> v[x]],
           \A p \in Partidos : v[p] \in FilaPartido, \A f \in Fechas : v[f] \in FilaFecha
    PROVE  Version(v)
<1>1. \A x \in Filas : v[x] \in FilaPartido \cup FilaFecha
    BY DEF Filas
<1>2. v \in [Filas -> FilaPartido \cup FilaFecha]
    <2>  DEFINE W == FilaPartido \cup FilaFecha
    <2>1. \A x \in Filas : v[x] \in W
        BY <1>1
    <2>  HIDE DEF W
    <2>2. [x \in Filas |-> v[x]] \in [Filas -> W]
        BY <2>1
    <2>3. QED
        BY <2>2 DEF W
<1>3. QED
    BY <1>2 DEF Version

LEMMA SinOtroDueno ==
    ASSUME NEW t, NEW x, NEW m, Libre(t, x, m), m \in {"FOR_UPDATE", "UPDATE"}, NEW u, u # t
    PROVE  ~Propia(u, x)
BY DEF Libre, Propia, Choca

-----------------------------------------------------------------------------
(* A step of one request                                                   *)

\* It leaves the others as they were, takes locks that nobody has, and changes rows that
\* it has: until it ends, and then the row is as it was committed.
Suyo(t) ==
    /\ \A u \in Transacciones \ {t} : tx'[u] = tx[u]
    /\ tx'[t].pedido = tx[t].pedido
    /\ \A c \in candados : c.t # t => c \in candados'
    /\ \A c \in candados' : c \in candados \/ (c.t = t /\ Libre(t, c.fila, c.modo))
    /\ \A x \in Filas : actual'[x] = actual[x] \/ Propia(t, x) \/ Propia(t, x)'
    /\ \A x \in Filas : base'[x] = base[x] \/ Propia(t, x)
    /\ \A x \in Filas : Propia(t, x) => Propia(t, x)' \/ actual'[x] = base'[x]

Pasa(t) == Tipos' /\ FaseBien(tx'[t]) /\ Rastros' /\ Suyo(t)

\* The rows of the others stay theirs.
LEMMA Ajenas ==
    ASSUME NEW t \in Transacciones, Suyo(t), NEW u \in Transacciones, u # t, NEW x
    PROVE  Propia(u, x)' <=> Propia(u, x)
BY DEF Suyo, Propia

LEMMA SigueExcluyendo ==
    ASSUME Excluyen, NEW t \in Transacciones, Suyo(t)
    PROVE  Excluyen'
<1>1. ASSUME NEW c \in candados', NEW d \in candados', c.fila = d.fila, Choca(c.modo, d.modo)
      PROVE  c.t = d.t
    <2>1. Choca(d.modo, c.modo)
        BY <1>1 DEF Choca
    <2>2. CASE c \in candados /\ d \in candados
        BY <1>1, <2>2 DEF Excluyen
    <2>3. CASE c.t = t /\ Libre(t, c.fila, c.modo) /\ d \in candados
        BY <1>1, <2>1, <2>3 DEF Libre
    <2>4. CASE d.t = t /\ Libre(t, d.fila, d.modo) /\ c \in candados
        BY <1>1, <2>4 DEF Libre
    <2>5. QED
        BY <1>1, <2>2, <2>3, <2>4 DEF Suyo
<1>2. QED
    BY <1>1 DEF Excluyen

LEMMA SigueSinDueno ==
    ASSUME IInv, NEW t \in Transacciones, Suyo(t)
    PROVE  SinDueno'
<1>1. ASSUME NEW x \in Filas, \A u \in Transacciones : ~Propia(u, x)'
      PROVE  actual'[x] = base'[x]
    <2>1. \A u \in Transacciones \ {t} : ~Propia(u, x)
        BY <1>1, Ajenas
    <2>2. CASE Propia(t, x)
        BY <1>1, <2>2 DEF Suyo
    <2>3. CASE ~Propia(t, x)
        <3>1. actual[x] = base[x]
            BY <1>1, <2>1, <2>3 DEF IInv, SinDueno
        <3>2. QED
            BY <1>1, <2>3, <3>1 DEF Suyo
    <2>4. QED
        BY <2>2, <2>3
<1>2. QED
    BY <1>1 DEF SinDueno

\* So a step keeps the invariant, if the request that it leaves closing an acta has its
\* match and found it open.
LEMMA PasaBien ==
    ASSUME IInv, NEW t \in Transacciones, Pasa(t),
           tx[t].pedido.tipo = "CERRAR" /\ tx'[t].paso = "cascada" =>
               Propia(t, tx[t].pedido.fila)' /\ ~base'[tx[t].pedido.fila].acta
    PROVE  IInv'
<1>1. Tipos' /\ Rastros' /\ Suyo(t)
    BY DEF Pasa
<1>2. Fases'
    BY <1>1 DEF Pasa, Suyo, IInv, Fases
<1>3. ASSUME NEW u \in Transacciones, tx'[u].pedido.tipo = "CERRAR", tx'[u].paso = "cascada"
      PROVE  (Propia(u, tx[u].pedido.fila) /\ ~base[tx[u].pedido.fila].acta)'
    <2>1. PICK p \in Filas : p = tx[u].pedido.fila
        BY PedidoBien DEF IInv, Tipos, Tx
    <2>2. p = tx'[u].pedido.fila
        BY <1>1, <2>1 DEF Suyo
    <2>3. CASE u = t
        BY <1>1, <1>3, <2>1, <2>2, <2>3 DEF Suyo, Propia
    <2>4. CASE u # t
        <3>1. tx'[u] = tx[u]
            BY <1>1, <2>4 DEF Suyo
        <3>2. Propia(u, p) /\ ~base[p].acta
            BY <1>3, <2>1, <3>1 DEF IInv, Cerrando
        <3>3. ~Propia(t, p)
            BY <2>4, <3>2, UnDueno DEF IInv
        <3>4. Propia(u, p)' /\ base'[p] = base[p]
            BY <1>1, <2>4, <3>2, <3>3, Ajenas DEF Suyo
        <3>5. QED
            BY <2>2, <3>2, <3>4 DEF Propia
    <2>5. QED
        BY <2>3, <2>4
<1>4. Cerrando'
    <2>1. \A u \in Transacciones : tx'[u].pedido.tipo = "CERRAR" /\ tx'[u].paso = "cascada" =>
              (Propia(u, tx[u].pedido.fila) /\ ~base[tx[u].pedido.fila].acta)'
        BY <1>3
    <2>2. QED
        BY <2>1 DEF Cerrando
<1>5. QED
    BY <1>1, <1>2, <1>4, SigueExcluyendo, SigueSinDueno DEF IInv

-----------------------------------------------------------------------------
(* The statements, one by one                                              *)

AndaTx(t) ==
    /\ tx' \in [Transacciones -> Tx]
    /\ \A u \in Transacciones \ {t} : tx'[u] = tx[u]
    /\ tx'[t].pedido = tx[t].pedido
    /\ FaseBien(tx'[t])
    /\ tx'[t].paso \notin {"inicio", "confirmada"}
    /\ tx'[t].paso \in {"insertar", "anulada"} => tx[t].paso = "inicio"

\* A statement that only reads.
LEMMA Lee ==
    ASSUME IInv, NEW t \in Transacciones, AndaTx(t), UNCHANGED <<base, actual, incidencias, candados>>
    PROVE  Pasa(t)
<1>1. Tipos'
    BY DEF IInv, Tipos, AndaTx
<1>2. Rastros'
    BY DEF IInv, Tipos, Rastros, AndaTx
<1>3. Suyo(t)
    BY DEF Suyo, AndaTx, Propia
<1>4. QED
    BY <1>1, <1>2, <1>3 DEF Pasa, AndaTx

\* A statement that takes the lock of a row, and may write it if the lock is for that.
LEMMA TomaUna ==
    ASSUME IInv, NEW t \in Transacciones, AndaTx(t), NEW x \in Filas, NEW m \in Modos,
           Toma(t, x, m), tx'[t].paso # "anulada", UNCHANGED <<base, incidencias>>,
           actual' = actual \/
               /\ m \in {"FOR_UPDATE", "UPDATE"}
               /\ \E r : /\ actual' = [actual EXCEPT ![x] = r]
                         /\ IF x \in Partidos THEN r \in FilaPartido ELSE r \in FilaFecha
    PROVE  Pasa(t)
<1>0. candados' = candados \cup {Candado(t, x, m)} /\ Libre(t, x, m)
    BY DEF Toma
<1>1. Version(actual')
    BY FilaBien DEF IInv, Tipos, Version
<1>2. Tipos'
    BY <1>0, <1>1 DEF IInv, Tipos, AndaTx, Candado
<1>3. Rastros'
    <2>1. \A c \in candados' : tx'[c.t].paso \notin {"inicio", "confirmada", "anulada"}
        BY <1>0 DEF IInv, Tipos, Rastros, AndaTx, Candado
    <2>2. \A i \in incidencias' : tx'[i.t].paso \notin {"inicio", "insertar", "anulada"}
        BY DEF IInv, Tipos, Rastros, AndaTx
    <2>3. QED
        BY <2>1, <2>2 DEF Rastros
<1>4. \A y \in Filas : actual'[y] = actual[y] \/ Propia(t, y)'
    <2>1. m \in {"FOR_UPDATE", "UPDATE"} => Propia(t, x)'
        <3>1. Candado(t, x, m) \in candados'
            BY <1>0
        <3>2. Candado(t, x, m).t = t /\ Candado(t, x, m).fila = x /\ Candado(t, x, m).modo = m
            BY DEF Candado
        <3>3. QED
            BY <3>1, <3>2 DEF Propia
    <2>2. \A y \in Filas : actual'[y] = actual[y] \/ y = x
        BY DEF IInv, Tipos, Version
    <2>3. QED
        BY <2>1, <2>2
<1>5. Suyo(t)
    BY <1>0, <1>4 DEF Suyo, AndaTx, Propia, Candado
<1>6. QED
    BY <1>2, <1>3, <1>5 DEF Pasa, AndaTx

LEMMA LeerPartidoPasa ==
    ASSUME IInv, NEW t \in Transacciones, LeerPartido(t)
    PROVE  Pasa(t)
<1>  DEFINE s == tx[t].pedido
<1>1. s \in Pedidos /\ base[s.fila] \in FilaPartido /\ tx[t] \in Tx
    BY PedidoBien DEF IInv, Tipos, Version, LeerPartido, Tx
<1>2. Cambiada(s, base[s.fila]) \in FilaPartido
    BY <1>1, PedidoBien DEF Cambiada, FilaPartido, EstadosPartido, EstadosResueltos
<1>3. Trabajos(s, base[s.fila]) \in Seq(DeFecha \cup DePartido)
    <2>  DEFINE D == DeFecha \cup DePartido  r == base[s.fila]
    <2>1. \A f \in Fechas : <<Trabajo("evaluar", f)>> \in Seq(D) /\ <<Trabajo("revertir", f)>> \in Seq(D)
        BY DEF Trabajo, DeFecha
    <2>2. r.fecha \in Fechas /\ s.destino \in Fechas /\ <<>> \in Seq(D)
        BY <1>1, PedidoBien DEF FilaPartido
    <2>3. \A a, b \in Seq(D) : a \o b \in Seq(D)
        BY ConcatProperties
    <2>4. \A e : TrabajosDeMover(r.fecha, s.destino, e) \in Seq(D)
        <3>  HIDE DEF D, s, r
        <3>1. QED
            BY <2>1, <2>2, <2>3 DEF TrabajosDeMover
    <2>  HIDE DEF D, s, r
    <2>5. QED
        BY <2>1, <2>2, <2>4 DEF Trabajos, r, D
<1>4. CASE Rechaza(t)
    <2>1. AndaTx(t)
        BY <1>1, <1>4 DEF Rechaza, Sigue, AndaTx, IInv, Tipos, Tx, FaseBien, LeerPartido, Pasos
    <2>2. QED
        BY <1>4, <2>1, Lee DEF Rechaza
<1>5. CASE ~Rechaza(t)
    <2>1. AndaTx(t)
        <3>  HIDE DEF s
        <3>1. PICK c \in FilaPartido, w \in Seq(DeFecha \cup DePartido) :
                  /\ c = Cambiada(s, base[s.fila]) /\ w = Trabajos(s, base[s.fila])
            BY <1>2, <1>3
        <3>2. tx' = [tx EXCEPT ![t].paso = IF s.tipo \in {"GOL", "ROJA"} THEN "insertar" ELSE "comparar",
                               ![t].copia = c, ![t].trabajos = w]
            BY <1>5, <3>1 DEF LeerPartido, s
        <3>3. tx[t].paso = "inicio" /\ s.tipo \notin {"CERRAR", "SUSPENDER_FECHA"} /\ s = tx[t].pedido
            BY DEF LeerPartido, s
        <3>4. QED
            BY <1>1, <3>2, <3>3 DEF AndaTx, IInv, Tipos, Tx, FaseBien, Pasos, Copia
    <2>2. QED
        BY <1>5, <2>1, Lee DEF LeerPartido
<1>6. QED
    BY <1>4, <1>5

LEMMA ContarComparar ==
    ASSUME IInv, NEW t \in Transacciones, ContarGoles(t) \/ CompararCopia(t)
    PROVE  Pasa(t)
<1>1. tx[t] \in Tx /\ FaseBien(tx[t])
    BY DEF IInv, Tipos, Fases
<1>2. CASE ContarGoles(t)
    <2>1. PICK n : n = GolesDe(t, tx[t].pedido.fila)
        OBVIOUS
    <2>2. n \in Nat
        BY <2>1, FS_Subset, FS_CardinalityType DEF GolesDe, IInv, Tipos
    <2>3. tx' = [tx EXCEPT ![t].paso = "comparar", ![t].copia.goles = n]
        BY <1>2, <2>1 DEF ContarGoles
    <2>4. tx[t].copia \in FilaPartido /\ tx[t].pedido.tipo \in {"GOL", "ROJA"}
        BY <1>1, <1>2 DEF ContarGoles, FaseBien
    <2>5. AndaTx(t)
        BY <1>1, <2>2, <2>3, <2>4 DEF AndaTx, IInv, Tipos, Tx, FilaPartido, Copia, FaseBien, Pasos
    <2>6. QED
        BY <1>2, <2>5, Lee DEF ContarGoles
<1>3. CASE CompararCopia(t)
    <2>1. tx[t].copia \in FilaPartido /\ tx[t].paso = "comparar" /\ tx[t].pedido.fila \in Partidos
        BY <1>1, <1>3, PedidoBien DEF CompararCopia, FaseBien, Tx
    <2>2. DOMAIN Vista(t, tx[t].pedido.fila) = Campos
        BY <2>1 DEF Vista, IInv, Tipos, Version, FilaPartido, Campos
    <2>3. PICK k \in SUBSET Campos : tx' = [tx EXCEPT ![t].paso = "escribir", ![t].cambios = k]
        BY <1>3, <2>2 DEF CompararCopia
    <2>4. AndaTx(t)
        BY <1>1, <2>1, <2>3 DEF AndaTx, IInv, Tipos, Tx, FaseBien, Pasos
    <2>5. QED
        BY <1>3, <2>4, Lee DEF CompararCopia
<1>4. QED
    BY <1>2, <1>3

LEMMA LeerFechaPasa ==
    ASSUME IInv, NEW t \in Transacciones, LeerFecha(t)
    PROVE  Pasa(t)
<1>1. tx[t] \in Tx /\ FaseBien(tx[t]) /\ tx[t].paso = "inicio" /\ tx[t].pedido.tipo = "SUSPENDER_FECHA"
    BY DEF IInv, Tipos, Fases, LeerFecha
<1>2. CASE Rechaza(t)
    <2>1. AndaTx(t)
        BY <1>1, <1>2 DEF Rechaza, Sigue, AndaTx, IInv, Tipos, Tx, FaseBien, Pasos
    <2>2. QED
        BY <1>2, <2>1, Lee DEF Rechaza
<1>3. CASE ~Rechaza(t)
    <2>1. PICK s \in EnOrden({p \in Partidos : base[p].fecha = tx[t].pedido.fila}) :
              tx' = [tx EXCEPT ![t].paso = "reservar",
                               ![t].trabajos = [i \in DOMAIN s |-> Trabajo("reservar", s[i])]]
        BY <1>3 DEF LeerFecha
    <2>2. PICK n \in Nat : s \in [1..n -> Partidos]
        <3>1. IsFiniteSet({p \in Partidos : base[p].fecha = tx[t].pedido.fila})
            BY FilasAssumption, FS_Subset
        <3>2. QED
            BY <2>1, <3>1, FS_CardinalityType DEF EnOrden
    <2>3. PICK w \in Seq(DeFecha \cup DePartido) : w = [i \in DOMAIN s |-> Trabajo("reservar", s[i])]
        <3>1. \A i \in 1..n : Trabajo("reservar", s[i]) \in DeFecha \cup DePartido
            BY <2>2 DEF Trabajo, DePartido
        <3>2. [i \in DOMAIN s |-> Trabajo("reservar", s[i])] \in [1..n -> DeFecha \cup DePartido]
            BY <2>2, <3>1
        <3>3. [i \in DOMAIN s |-> Trabajo("reservar", s[i])] \in Seq(DeFecha \cup DePartido)
            BY <3>2, SeqDef
        <3>4. QED
            BY <3>3
    <2>4. AndaTx(t)
        BY <1>1, <2>1, <2>3 DEF AndaTx, IInv, Tipos, Tx, FaseBien, Pasos
    <2>5. QED
        BY <1>3, <2>4, Lee DEF LeerFecha
<1>4. QED
    BY <1>2, <1>3

LEMMA InsertarPasa ==
    ASSUME IInv, NEW t \in Transacciones, InsertarIncidencia(t)
    PROVE  Pasa(t)
<1>1. /\ tx[t] \in Tx /\ tx[t].paso = "insertar" /\ tx[t].copia \in FilaPartido
      /\ tx[t].pedido.tipo \in {"GOL", "ROJA"} /\ tx[t].pedido.fila \in Partidos
      /\ tx[t].pedido.fila \in Filas
    BY PedidoBien DEF IInv, Tipos, Fases, FaseBien, Tx, InsertarIncidencia
<1>2. PICK p \in Partidos, i \in [t : Transacciones, partido : Partidos, tipo : {"GOL", "ROJA"}] :
          /\ p = tx[t].pedido.fila /\ i = [t |-> t, partido |-> p, tipo |-> tx[t].pedido.tipo]
    BY <1>1
<1>3. /\ incidencias' = incidencias \cup {i} /\ i.t = t
      /\ candados' = candados \cup {Candado(t, p, "FOR_KEY_SHARE")}
      /\ Libre(t, p, "FOR_KEY_SHARE") /\ UNCHANGED <<base, actual>>
    BY <1>2 DEF InsertarIncidencia, Toma
<1>4. AndaTx(t) /\ tx'[t].paso \in {"contar", "cascada"}
    BY <1>1 DEF InsertarIncidencia, Sigue, AndaTx, IInv, Tipos, Tx, FaseBien, Pasos
<1>5. Tipos'
    <2>1. IsFiniteSet(incidencias \cup {i})
        BY FS_AddElement DEF IInv, Tipos
    <2>2. candados' \subseteq [t : Transacciones, fila : Filas, modo : Modos]
        BY <1>2, <1>3, FilaBien DEF IInv, Tipos, Candado, Modos
    <2>3. QED
        BY <1>2, <1>3, <1>4, <2>1, <2>2 DEF IInv, Tipos, AndaTx
<1>6. Rastros'
    <2>1. \A c \in candados' : tx'[c.t].paso \notin {"inicio", "confirmada", "anulada"}
        BY <1>3, <1>4 DEF IInv, Tipos, Rastros, AndaTx, Candado
    <2>2. \A j \in incidencias' : tx'[j.t].paso \notin {"inicio", "insertar", "anulada"}
        BY <1>3, <1>4 DEF IInv, Tipos, Rastros, AndaTx
    <2>3. QED
        BY <2>1, <2>2 DEF Rastros
<1>7. Suyo(t)
    BY <1>3, <1>4 DEF Suyo, AndaTx, Propia, Candado
<1>8. QED
    BY <1>4, <1>5, <1>6, <1>7 DEF Pasa, AndaTx

\* What a request writes of its copy is a row of partidos.
LEMMA Escrita ==
    ASSUME NEW r \in FilaPartido, NEW c \in FilaPartido, NEW k \in SUBSET Campos
    PROVE  [x \in DOMAIN r |-> IF x \in k THEN c[x] ELSE r[x]] \in FilaPartido
<1>  DEFINE w == [x \in DOMAIN r |-> IF x \in k THEN c[x] ELSE r[x]]
<1>1. /\ w.estado \in EstadosPartido /\ w.acta \in BOOLEAN /\ w.fecha \in Fechas /\ w.goles \in Nat
      /\ DOMAIN w = Campos
    BY DEF FilaPartido, Campos
<1>2. w = [estado |-> w.estado, acta |-> w.acta, fecha |-> w.fecha, goles |-> w.goles]
    BY <1>1 DEF Campos
<1>  HIDE DEF w
<1>3. QED
    BY <1>1, <1>2 DEF FilaPartido, w

LEMMA EscribirPasa ==
    ASSUME IInv, NEW t \in Transacciones, EscribirCopia(t)
    PROVE  Pasa(t)
<1>1. /\ tx[t] \in Tx /\ tx[t].paso = "escribir" /\ tx[t].copia \in FilaPartido
      /\ tx[t].pedido.fila \in Partidos /\ tx[t].pedido.tipo \notin {"CERRAR", "SUSPENDER_FECHA"}
    BY PedidoBien DEF IInv, Tipos, Fases, FaseBien, Tx, EscribirCopia
<1>2. AndaTx(t) /\ tx'[t].paso # "anulada"
    BY <1>1 DEF EscribirCopia, Sigue, AndaTx, IInv, Tipos, Tx, FaseBien, Pasos
<1>3. PICK p \in Partidos : p = tx[t].pedido.fila
    BY <1>1
<1>4. CASE tx[t].cambios = {}
    BY <1>2, <1>4, Lee DEF EscribirCopia
<1>5. CASE tx[t].cambios # {}
    <2>1. actual[p] \in FilaPartido
        BY DEF IInv, Tipos, Version
    <2>2. PICK w \in FilaPartido :
              w = [x \in DOMAIN actual[p] |-> IF x \in tx[t].cambios THEN tx[t].copia[x] ELSE actual[p][x]]
        BY <1>1, <2>1, Escrita DEF Tx
    <2>3. Toma(t, p, "UPDATE") /\ actual' = [actual EXCEPT ![p] = w] /\ UNCHANGED <<base, incidencias>>
        BY <1>3, <1>5, <2>2 DEF EscribirCopia
    <2>4. QED
        BY <1>2, <2>3, FilaBien, TomaUna DEF Modos
<1>6. QED
    BY <1>4, <1>5

LEMMA ClavePasa ==
    ASSUME IInv, NEW t \in Transacciones, ClaveFecha(t)
    PROVE  Pasa(t)
<1>1. /\ tx[t] \in Tx /\ tx[t].paso = "clave" /\ tx[t].copia \in FilaPartido
      /\ tx[t].pedido.tipo \notin {"CERRAR", "SUSPENDER_FECHA"}
    BY PedidoBien DEF IInv, Tipos, Fases, FaseBien, Tx, ClaveFecha
<1>2. AndaTx(t) /\ tx'[t].paso # "anulada"
    BY <1>1 DEF ClaveFecha, Sigue, AndaTx, IInv, Tipos, Tx, FaseBien, Pasos
<1>3. PICK f \in Fechas : f = tx[t].copia.fecha
    BY <1>1 DEF FilaPartido
<1>4. Toma(t, f, "FOR_KEY_SHARE") /\ UNCHANGED <<base, actual, incidencias>>
    BY <1>3 DEF ClaveFecha
<1>5. QED
    BY <1>2, <1>4, FilaBien, TomaUna DEF Modos

\* The first job of a request, and what is left after it
LEMMA Trabajando ==
    ASSUME IInv, NEW t \in Transacciones, tx[t].trabajos # <<>>
    PROVE  /\ Head(tx[t].trabajos) \in DeFecha \cup DePartido
           /\ Tail(tx[t].trabajos) \in Seq(DeFecha \cup DePartido)
BY HeadTailProperties DEF IInv, Tipos, Tx

LEMMA TrabajoPasa ==
    ASSUME IInv, NEW t \in Transacciones, EvaluarCierre(t) \/ RevertirCierre(t)
    PROVE  Pasa(t)
<1>1. /\ tx[t] \in Tx /\ FaseBien(tx[t]) /\ tx[t].paso = "cascada" /\ tx[t].trabajos # <<>>
      /\ Head(tx[t].trabajos).op \in {"evaluar", "revertir"}
      /\ tx' = [tx EXCEPT ![t].trabajos = Tail(@)] /\ UNCHANGED <<base, incidencias>>
    BY DEF IInv, Tipos, Fases, EvaluarCierre, RevertirCierre, HaceTrabajo
<1>2. PICK f \in Fechas : f = Head(tx[t].trabajos).fila
    BY <1>1, Trabajando DEF DeFecha, DePartido
<1>3. AndaTx(t) /\ tx'[t].paso # "anulada"
    <2>1. PICK w \in Seq(DeFecha \cup DePartido) : w = Tail(tx[t].trabajos)
        BY <1>1, Trabajando
    <2>2. tx' = [tx EXCEPT ![t].trabajos = w]
        BY <1>1, <2>1
    <2>3. PICK r \in Tx : r = [tx[t] EXCEPT !.trabajos = w]
        BY <1>1 DEF Tx
    <2>4. tx' = [tx EXCEPT ![t] = r]
        BY <2>2, <2>3
    <2>5. r.paso = tx[t].paso /\ r.pedido = tx[t].pedido /\ r.copia = tx[t].copia
        BY <1>1, <2>3 DEF Tx
    <2>6. QED
        BY <1>1, <2>4, <2>5 DEF AndaTx, IInv, Tipos, FaseBien
<1>4. Toma(t, f, "FOR_UPDATE")
    BY <1>2 DEF EvaluarCierre, RevertirCierre
<1>5. PICK e \in {"PROGRAMADA", "EN_CURSO", "FINALIZADA", "SUSPENDIDA"} :
          actual' = [actual EXCEPT ![f].estado = e]
    <2>1. actual[f].estado \in {"PROGRAMADA", "EN_CURSO", "FINALIZADA", "SUSPENDIDA"}
        BY DEF IInv, Tipos, Version, FilaFecha
    <2>2. CASE EvaluarCierre(t)
        BY <1>2, <2>1, <2>2 DEF EvaluarCierre
    <2>3. CASE RevertirCierre(t)
        BY <1>2, <2>1, <2>3 DEF RevertirCierre
    <2>4. QED
        BY <2>2, <2>3
<1>6. \E r : actual' = [actual EXCEPT ![f] = r] /\ r \in FilaFecha
    <2>1. PICK r \in FilaFecha : r = [actual[f] EXCEPT !.estado = e]
        BY DEF IInv, Tipos, Version, FilaFecha
    <2>2. QED
        BY <1>5, <2>1
<1>7. QED
    BY <1>1, <1>3, <1>4, <1>6, FilaBien, TomaUna DEF Modos

LEMMA ReservarPasa ==
    ASSUME IInv, NEW t \in Transacciones, ReservarPartido(t)
    PROVE  Pasa(t)
<1>1. /\ tx[t] \in Tx /\ FaseBien(tx[t]) /\ tx[t].paso = "reservar" /\ tx[t].trabajos # <<>>
      /\ tx' = [tx EXCEPT ![t].trabajos = Tail(@)] /\ UNCHANGED <<base, actual, incidencias>>
    BY DEF IInv, Tipos, Fases, ReservarPartido
<1>2. PICK x \in Filas : x = Head(tx[t].trabajos).fila
    BY <1>1, Trabajando, FilaBien DEF DeFecha, DePartido
<1>3. AndaTx(t) /\ tx'[t].paso # "anulada"
    <2>1. PICK w \in Seq(DeFecha \cup DePartido) : w = Tail(tx[t].trabajos)
        BY <1>1, Trabajando
    <2>2. tx' = [tx EXCEPT ![t].trabajos = w]
        BY <1>1, <2>1
    <2>3. PICK r \in Tx : r = [tx[t] EXCEPT !.trabajos = w]
        BY <1>1 DEF Tx
    <2>4. tx' = [tx EXCEPT ![t] = r]
        BY <2>2, <2>3
    <2>5. r.paso = tx[t].paso /\ r.pedido = tx[t].pedido /\ r.copia = tx[t].copia
        BY <1>1, <2>3 DEF Tx
    <2>6. QED
        BY <1>1, <2>4, <2>5 DEF AndaTx, IInv, Tipos, FaseBien
<1>4. Toma(t, x, "FOR_UPDATE")
    BY <1>2 DEF ReservarPartido
<1>5. QED
    BY <1>1, <1>3, <1>4, TomaUna DEF Modos

LEMMA MarcarPasa ==
    ASSUME IInv, NEW t \in Transacciones, MarcarFecha(t)
    PROVE  Pasa(t)
<1>1. /\ tx[t] \in Tx /\ FaseBien(tx[t]) /\ tx[t].paso = "reservar"
      /\ tx[t].pedido.tipo = "SUSPENDER_FECHA" /\ tx[t].pedido.fila \in Fechas
    BY PedidoBien DEF IInv, Tipos, Fases, FaseBien, MarcarFecha, Tx
<1>2. PICK f \in Fechas : f = tx[t].pedido.fila
    BY <1>1
<1>3. AndaTx(t) /\ tx'[t].paso # "anulada"
    BY <1>1 DEF MarcarFecha, Sigue, AndaTx, IInv, Tipos, Tx, FaseBien, Pasos
<1>4. /\ Toma(t, f, "UPDATE") /\ actual' = [actual EXCEPT ![f].estado = "SUSPENDIDA"]
      /\ UNCHANGED <<base, incidencias>>
    BY <1>2 DEF MarcarFecha
<1>5. \E r : actual' = [actual EXCEPT ![f] = r] /\ r \in FilaFecha
    <2>1. PICK r \in FilaFecha : r = [actual[f] EXCEPT !.estado = "SUSPENDIDA"]
        BY DEF IInv, Tipos, Version, FilaFecha
    <2>2. QED
        BY <1>4, <2>1
<1>6. QED
    BY <1>3, <1>4, <1>5, FilaBien, TomaUna DEF Modos

LEMMA CerrarPasa ==
    ASSUME IInv, NEW t \in Transacciones, CerrarActa(t)
    PROVE  Pasa(t)
<1>1. /\ tx[t] \in Tx /\ FaseBien(tx[t]) /\ tx[t].paso = "inicio" /\ tx[t].pedido.tipo = "CERRAR"
      /\ tx[t].pedido.fila \in Partidos
    BY PedidoBien DEF IInv, Tipos, Fases, CerrarActa, CerrarActaCon, Tx
<1>2. PICK p \in Partidos : p = tx[t].pedido.fila
    BY <1>1
<1>3. actual[p] \in FilaPartido
    BY DEF IInv, Tipos, Version
<1>4. CASE Rechaza(t)
    <2>1. AndaTx(t)
        BY <1>1, <1>4 DEF Rechaza, Sigue, AndaTx, IInv, Tipos, Tx, FaseBien, Pasos
    <2>2. QED
        BY <1>4, <2>1, Lee DEF Rechaza
<1>5. CASE ~Rechaza(t)
    <2>1. PICK n : n = tx[t].pedido.goles
        OBVIOUS
    <2>2. n \in Nat
        BY <1>1, <2>1, PedidoBien DEF Tx
    <2>3. PICK r \in FilaPartido : r = [actual[p] EXCEPT !.estado = "FINALIZADO", !.acta = TRUE, !.goles = n]
        BY <1>3, <2>2 DEF FilaPartido, EstadosPartido, EstadosResueltos
    <2>4. /\ Toma(t, p, "FOR_UPDATE") /\ actual' = [actual EXCEPT ![p] = r]
          /\ UNCHANGED <<base, incidencias>>
        BY <1>2, <1>5, <2>1, <2>3 DEF CerrarActa, CerrarActaCon
    <2>5. AndaTx(t) /\ tx'[t].paso # "anulada"
        <3>1. PICK f \in Fechas : f = actual[p].fecha
            BY <1>3 DEF FilaPartido
        <3>2. <<Trabajo("evaluar", f)>> \in Seq(DeFecha \cup DePartido)
            BY DEF Trabajo, DeFecha
        <3>3. PICK w \in Seq(DeFecha \cup DePartido) : w = <<Trabajo("evaluar", f)>>
            BY <3>2
        <3>4. tx' = [tx EXCEPT ![t].paso = "cascada", ![t].trabajos = w]
            BY <1>2, <1>5, <3>1, <3>3 DEF CerrarActa, CerrarActaCon
        <3>5. QED
            BY <1>1, <3>4 DEF AndaTx, IInv, Tipos, Tx, FaseBien, Pasos
    <2>6. QED
        BY <2>4, <2>5, FilaBien, TomaUna DEF Modos
<1>6. QED
    BY <1>4, <1>5

\* What suspenderFecha suspends in one UPDATE
Pendientes(t) == {p \in PartidosEn(t, tx[t].pedido.fila) :
                     ~Vista(t, p).acta /\ Vista(t, p).estado \notin EstadosResueltos}

LEMMA Arrastrados ==
    ASSUME NEW t \in Transacciones, ArrastrarPartidos(t)
    PROVE  /\ Pendientes(t) \subseteq Partidos /\ \A p \in Pendientes(t) : Libre(t, p, "UPDATE")
           /\ candados' = candados \cup {Candado(t, p, "UPDATE") : p \in Pendientes(t)}
           /\ actual' = [x \in Filas |-> IF x \in Pendientes(t)
                                     THEN [actual[x] EXCEPT !.estado = "SUSPENDIDO_FUERZA_MAYOR"]
                                     ELSE actual[x]]
BY DEF ArrastrarPartidos, Pendientes, PartidosEn

LEMMA ArrastrarPasa ==
    ASSUME IInv, NEW t \in Transacciones, ArrastrarPartidos(t)
    PROVE  Pasa(t)
<1>1. /\ tx[t] \in Tx /\ FaseBien(tx[t]) /\ tx[t].paso = "arrastrar"
      /\ tx[t].pedido.tipo = "SUSPENDER_FECHA" /\ UNCHANGED <<base, incidencias>>
    BY DEF IInv, Tipos, Fases, FaseBien, ArrastrarPartidos
<1>2. AndaTx(t) /\ tx'[t].paso = "cascada"
    BY <1>1 DEF ArrastrarPartidos, Sigue, AndaTx, IInv, Tipos, Tx, FaseBien, Pasos
<1>3. PICK S \in SUBSET Partidos : S = Pendientes(t)
    BY Arrastrados
<1>4. /\ candados' = candados \cup {Candado(t, p, "UPDATE") : p \in S}
      /\ \A p \in S : Libre(t, p, "UPDATE")
      /\ actual' = [x \in Filas |-> IF x \in S
                                 THEN [actual[x] EXCEPT !.estado = "SUSPENDIDO_FUERZA_MAYOR"]
                                 ELSE actual[x]]
    BY <1>3, Arrastrados
<1>5. Version(actual')
    <2>1. \A p \in Partidos : [actual[p] EXCEPT !.estado = "SUSPENDIDO_FUERZA_MAYOR"] \in FilaPartido
        BY DEF IInv, Tipos, Version, FilaPartido, EstadosPartido, EstadosResueltos
    <2>2. \A p \in Partidos : actual'[p] \in FilaPartido
        BY <1>4, <2>1, FilaBien DEF IInv, Tipos, Version
    <2>3. \A f \in Fechas : actual'[f] \in FilaFecha
        BY <1>4, FilaBien DEF IInv, Tipos, Version
    <2>4. actual' = [x \in Filas |-> actual'[x]]
        BY <1>4
    <2>5. QED
        BY <2>2, <2>3, <2>4, TablaBien
<1>6. Tipos'
    <2>1. candados' \subseteq [t : Transacciones, fila : Filas, modo : Modos]
        BY <1>4, FilaBien DEF IInv, Tipos, Candado, Modos
    <2>2. QED
        BY <1>1, <1>2, <1>5, <2>1 DEF IInv, Tipos, AndaTx
<1>7. Rastros'
    <2>1. \A c \in candados' : tx'[c.t].paso \notin {"inicio", "confirmada", "anulada"}
        BY <1>2, <1>4 DEF IInv, Tipos, Rastros, AndaTx, Candado
    <2>2. \A i \in incidencias' : tx'[i.t].paso \notin {"inicio", "insertar", "anulada"}
        BY <1>1, <1>2 DEF IInv, Tipos, Rastros, AndaTx
    <2>3. QED
        BY <2>1, <2>2 DEF Rastros
<1>8. \A y \in Filas : actual'[y] = actual[y] \/ Propia(t, y)'
    <2>1. ASSUME NEW y \in S
          PROVE  Propia(t, y)'
        <3>1. Candado(t, y, "UPDATE") \in candados'
            BY <1>4
        <3>2. /\ Candado(t, y, "UPDATE").t = t /\ Candado(t, y, "UPDATE").fila = y
              /\ Candado(t, y, "UPDATE").modo = "UPDATE"
            BY DEF Candado
        <3>3. QED
            BY <3>1, <3>2 DEF Propia
    <2>2. QED
        BY <1>4, <2>1
<1>9. Suyo(t)
    <2>1. \A c \in candados' : c \in candados \/ (c.t = t /\ Libre(t, c.fila, c.modo))
        BY <1>4 DEF Candado
    <2>2. \A c \in candados : c \in candados'
        BY <1>4
    <2>3. QED
        BY <1>1, <1>2, <1>8, <2>1, <2>2 DEF Suyo, AndaTx, Propia
<1>10. QED
    BY <1>2, <1>6, <1>7, <1>9 DEF Pasa, AndaTx

\* The two ways to end: nothing of the request is left locked.
Acabado(t, s) ==
    /\ tx' = [tx EXCEPT ![t].paso = s] /\ s \in {"confirmada", "anulada"}
    /\ candados' = {c \in candados : c.t # t}

LEMMA AcabaBien ==
    ASSUME IInv, NEW t \in Transacciones, NEW s, Acabado(t, s)
    PROVE  /\ tx' \in [Transacciones -> Tx] /\ tx'[t].paso = s /\ tx'[t].pedido = tx[t].pedido
           /\ \A u \in Transacciones \ {t} : tx'[u] = tx[u]
           /\ FaseBien(tx'[t])
           /\ \A c \in candados' : c \in candados /\ c.t # t
           /\ \A c \in candados : c.t # t => c \in candados'
           /\ \A x \in Filas : ~Propia(t, x)'
<1>1. tx[t] \in Tx /\ FaseBien(tx[t])
    BY DEF IInv, Tipos, Fases
<1>2. /\ tx' \in [Transacciones -> Tx] /\ tx'[t].paso = s /\ tx'[t].pedido = tx[t].pedido
      /\ \A u \in Transacciones \ {t} : tx'[u] = tx[u]
    BY <1>1 DEF Acabado, IInv, Tipos, Tx, Pasos
<1>3. FaseBien(tx'[t])
    BY <1>2 DEF FaseBien, Acabado
<1>4. QED
    BY <1>2, <1>3 DEF Acabado, Propia

LEMMA ConfirmarPasa ==
    ASSUME IInv, NEW t \in Transacciones, Confirmar(t)
    PROVE  Pasa(t)
<1>1. Acabado(t, "confirmada") /\ UNCHANGED <<actual, incidencias>> /\ tx[t].paso = "cascada"
    BY DEF Confirmar, Suelta, Sigue, Acabado
<1>2. base' = [x \in Filas |-> IF Propia(t, x) THEN actual[x] ELSE base[x]]
    BY DEF Confirmar
<1>3. Version(base')
    <2>1. \A p \in Partidos : base'[p] \in FilaPartido
        BY <1>2, FilaBien DEF IInv, Tipos, Version
    <2>2. \A f \in Fechas : base'[f] \in FilaFecha
        BY <1>2, FilaBien DEF IInv, Tipos, Version
    <2>3. base' = [x \in Filas |-> base'[x]]
        BY <1>2
    <2>4. QED
        BY <2>1, <2>2, <2>3, TablaBien
<1>4. Tipos'
    BY <1>1, <1>3, AcabaBien DEF IInv, Tipos
<1>5. Rastros'
    <2>1. \A c \in candados' : tx'[c.t].paso \notin {"inicio", "confirmada", "anulada"}
        BY <1>1, AcabaBien DEF IInv, Tipos, Rastros
    <2>2. \A i \in incidencias' : tx'[i.t].paso \notin {"inicio", "insertar", "anulada"}
        BY <1>1, AcabaBien DEF IInv, Tipos, Rastros
    <2>3. QED
        BY <2>1, <2>2 DEF Rastros
<1>6. Suyo(t)
    BY <1>1, <1>2, AcabaBien DEF Suyo
<1>7. QED
    BY <1>1, <1>4, <1>5, <1>6, AcabaBien DEF Pasa

LEMMA AbortarPasa ==
    ASSUME IInv, NEW t \in Transacciones, Abortar(t)
    PROVE  Pasa(t)
<1>1. Acabado(t, "anulada") /\ UNCHANGED base /\ incidencias' = {i \in incidencias : i.t # t}
    BY DEF Abortar, Suelta, Sigue, Acabado
<1>2. actual' = [x \in Filas |-> IF Propia(t, x) THEN base[x] ELSE actual[x]]
    BY DEF Abortar
<1>3. Version(actual')
    <2>1. \A p \in Partidos : actual'[p] \in FilaPartido
        BY <1>2, FilaBien DEF IInv, Tipos, Version
    <2>2. \A f \in Fechas : actual'[f] \in FilaFecha
        BY <1>2, FilaBien DEF IInv, Tipos, Version
    <2>3. actual' = [x \in Filas |-> actual'[x]]
        BY <1>2
    <2>4. QED
        BY <2>1, <2>2, <2>3, TablaBien
<1>4. Tipos'
    <2>1. IsFiniteSet(incidencias')
        BY <1>1, FS_Subset DEF IInv, Tipos
    <2>2. QED
        BY <1>1, <1>3, <2>1, AcabaBien DEF IInv, Tipos
<1>5. Rastros'
    <2>1. \A c \in candados' : tx'[c.t].paso \notin {"inicio", "confirmada", "anulada"}
        BY <1>1, AcabaBien DEF IInv, Tipos, Rastros
    <2>2. \A i \in incidencias' : tx'[i.t].paso \notin {"inicio", "insertar", "anulada"}
        BY <1>1, AcabaBien DEF IInv, Tipos, Rastros
    <2>3. QED
        BY <2>1, <2>2 DEF Rastros
<1>6. Suyo(t)
    BY <1>1, <1>2, AcabaBien DEF Suyo
<1>7. QED
    BY <1>1, <1>4, <1>5, <1>6, AcabaBien DEF Pasa

-----------------------------------------------------------------------------
(* The invariant                                                           *)

LEMMA AvanzaPasa ==
    ASSUME IInv, NEW t \in Transacciones, Avanza(t) \/ Abortar(t)
    PROVE  Pasa(t)
BY LeerPartidoPasa, ContarComparar, LeerFechaPasa, InsertarPasa, EscribirPasa, ClavePasa,
   TrabajoPasa, ReservarPasa, MarcarPasa, CerrarPasa, ArrastrarPasa, ConfirmarPasa, AbortarPasa
   DEF Avanza

\* A request that is left closing an acta has its match, and found it open.
LEMMA CierraLoAbierto ==
    ASSUME IInv, NEW t \in Transacciones, Avanza(t) \/ Abortar(t), Pasa(t),
           tx[t].pedido.tipo = "CERRAR", tx'[t].paso = "cascada",
           NEW p \in Partidos, p = tx[t].pedido.fila
    PROVE  Propia(t, p)' /\ ~base'[p].acta
<1>1. tx[t] \in Tx /\ tx[t].paso \in {"inicio", "cascada", "confirmada", "anulada"}
    BY DEF IInv, Tipos, Fases, FaseBien
<1>2. CASE CerrarActa(t)
    <2>1. /\ ~actual[p].acta /\ Libre(t, p, "FOR_UPDATE") /\ tx[t].paso = "inicio"
          /\ candados' = candados \cup {Candado(t, p, "FOR_UPDATE")} /\ base' = base
        <3>1. ~Rechaza(t)
            BY <1>1 DEF Rechaza, Sigue, IInv, Tipos, Tx
        <3>2. QED
            BY <1>2, <3>1 DEF CerrarActa, CerrarActaCon, Toma
    <2>2. \A u \in Transacciones : ~Propia(u, p)
        <3>1. ~Propia(t, p)
            BY <2>1 DEF Propia, IInv, Rastros
        <3>2. QED
            BY <2>1, <3>1, SinOtroDueno
    <2>3. base[p] = actual[p]
        BY <2>2, FilaBien DEF IInv, SinDueno
    <2>4. Propia(t, p)'
        <3>1. Candado(t, p, "FOR_UPDATE") \in candados'
            BY <2>1
        <3>2. /\ Candado(t, p, "FOR_UPDATE").t = t /\ Candado(t, p, "FOR_UPDATE").fila = p
              /\ Candado(t, p, "FOR_UPDATE").modo = "FOR_UPDATE"
            BY DEF Candado
        <3>3. QED
            BY <3>1, <3>2 DEF Propia
    <2>5. QED
        BY <2>1, <2>3, <2>4
<1>3. CASE EvaluarCierre(t) \/ RevertirCierre(t)
    <2>1. tx[t].paso = "cascada" /\ base' = base /\ candados \subseteq candados'
        BY <1>3 DEF EvaluarCierre, RevertirCierre, HaceTrabajo, Toma
    <2>2. Propia(t, p) /\ ~base[p].acta
        BY <2>1 DEF IInv, Cerrando
    <2>3. QED
        BY <2>1, <2>2 DEF Propia
<1>4. CASE Confirmar(t) \/ Abortar(t)
    BY <1>4, AcabaBien DEF Confirmar, Abortar, Acabado, Sigue, Suelta
<1>5. CASE LeerPartido(t) \/ LeerFecha(t)
    BY <1>5 DEF LeerPartido, LeerFecha
<1>6. QED
    BY <1>1, <1>2, <1>3, <1>4, <1>5
       DEF Avanza, InsertarIncidencia, ContarGoles, CompararCopia, EscribirCopia, ClaveFecha,
           ReservarPartido, MarcarFecha, ArrastrarPartidos

LEMMA PasoBien == IInv /\ [Next]_vars => IInv'
<1>1. ASSUME IInv, NEW t \in Transacciones, Avanza(t) \/ Abortar(t)
      PROVE  IInv'
    <2>1. Pasa(t)
        BY <1>1, AvanzaPasa
    <2>2. ASSUME tx[t].pedido.tipo = "CERRAR", tx'[t].paso = "cascada"
          PROVE  Propia(t, tx[t].pedido.fila)' /\ ~base'[tx[t].pedido.fila].acta
        <3>1. PICK p \in Partidos : p = tx[t].pedido.fila
            BY <1>1, <2>2, PedidoBien DEF IInv, Tipos, Tx
        <3>2. p = tx'[t].pedido.fila
            BY <2>1, <3>1 DEF Pasa, Suyo
        <3>3. Propia(t, p)' /\ ~base'[p].acta
            BY <1>1, <2>1, <2>2, <3>1, CierraLoAbierto
        <3>4. QED
            BY <3>1, <3>2, <3>3 DEF Propia
    <2>3. QED
        BY <1>1, <2>1, <2>2, PasaBien
<1>2. ASSUME IInv, UNCHANGED vars
      PROVE  IInv'
    BY <1>2
       DEF vars, IInv, Tipos, Fases, Rastros, Excluyen, SinDueno, Cerrando, Propia, Version
<1>3. QED
    BY <1>1, <1>2 DEF Next, Reposo

LEMMA InicioBien == Init => IInv
<1>  SUFFICES ASSUME Init
     PROVE  IInv
    OBVIOUS
<1>1. PICK e \in Escenarios :
          /\ tx \in [Transacciones ->
                      [pedido : UNION {e.pedidos[t] : t \in Transacciones}, paso : {"inicio"},
                       copia : {<<>>}, cambios : {{}}, trabajos : {<<>>}]]
          /\ \E estado \in [Partidos -> EstadosPartido], fecha \in [Partidos -> Fechas] :
              base = [x \in Filas |->
                        IF x \in Partidos
                        THEN [estado |-> estado[x], acta |-> estado[x] = "FINALIZADO",
                              fecha |-> fecha[x], goles |-> 0]
                        ELSE [estado |->
                                 IF FechaCompleta({estado[p] : p \in {q \in Partidos : fecha[q] = x}})
                                 THEN "FINALIZADA" ELSE "PROGRAMADA"]]
    BY DEF Init
<1>2. actual = base /\ incidencias = {} /\ candados = {}
    BY DEF Init
<1>3. Version(base)
    <2>1. \A p \in Partidos : base[p] \in FilaPartido
        BY <1>1, FilaBien DEF FilaPartido
    <2>2. \A f \in Fechas : base[f] \in FilaFecha
        BY <1>1, FilaBien DEF FilaFecha, FechaCompleta
    <2>3. base = [x \in Filas |-> base[x]]
        BY <1>1
    <2>4. QED
        BY <2>1, <2>2, <2>3, TablaBien
<1>4. tx \in [Transacciones -> Tx] /\ \A t \in Transacciones : tx[t].paso = "inicio"
    <2>1. ASSUME NEW t \in Transacciones
          PROVE  tx[t] \in Tx /\ tx[t].paso = "inicio"
        <3>1. tx[t].pedido \in Pedidos
            BY <1>1 DEF Pedidos
        <3>2. <<>> \in Seq(DeFecha \cup DePartido) /\ <<>> \in Copia /\ "inicio" \in Pasos
            BY DEF Copia, Pasos
        <3>3. PICK w \in Seq(DeFecha \cup DePartido), c \in Copia, k \in SUBSET Campos :
                  w = <<>> /\ c = <<>> /\ k = {}
            BY <3>2
        <3>4. tx[t] = [pedido |-> tx[t].pedido, paso |-> "inicio", copia |-> c, cambios |-> k,
                       trabajos |-> w]
            BY <1>1, <3>3
        <3>5. QED
            BY <3>1, <3>2, <3>4 DEF Tx
    <2>2. QED
        BY <1>1, <2>1
<1>5. Tipos
    BY <1>2, <1>3, <1>4, FS_EmptySet DEF Tipos
<1>6. QED
    BY <1>2, <1>4, <1>5 DEF IInv, Fases, FaseBien, Rastros, Excluyen, SinDueno, Cerrando

LEMMA Invariante == Spec => []IInv
BY InicioBien, PasoBien, PTL DEF Spec

\* Only a COMMIT confirms a request.
LEMMA SoloConfirma ==
    ASSUME IInv, NEW t \in Transacciones, Avanza(t) \/ Abortar(t), tx'[t].paso = "confirmada",
           tx[t].paso # "confirmada"
    PROVE  Confirmar(t)
<1>1. tx[t] \in Tx /\ tx \in [Transacciones -> Tx]
    BY DEF IInv, Tipos
<1>2. ~CerrarActa(t) /\ ~LeerPartido(t) /\ ~LeerFecha(t)
    <2>1. ~Rechaza(t)
        BY <1>1 DEF Rechaza, Sigue, Tx
    <2>2. \A a : tx' # [tx EXCEPT ![t].paso = "cascada", ![t].trabajos = a]
        BY <1>1 DEF Tx
    <2>3. \A a, b, s : s # "confirmada" =>
              tx' # [tx EXCEPT ![t].paso = s, ![t].copia = a, ![t].trabajos = b]
        BY <1>1 DEF Tx
    <2>4. \A a : tx' # [tx EXCEPT ![t].paso = "reservar", ![t].trabajos = a]
        BY <1>1 DEF Tx
    <2>5. ~CerrarActa(t)
        BY <2>1, <2>2 DEF CerrarActa, CerrarActaCon
    <2>6. ~LeerPartido(t)
        <3>  SUFFICES ASSUME LeerPartido(t)
             PROVE  FALSE
            OBVIOUS
        <3>1. PICK s, a, b :
                  /\ s \in {"insertar", "comparar"}
                  /\ s = IF tx[t].pedido.tipo \in {"GOL", "ROJA"} THEN "insertar" ELSE "comparar"
                  /\ a = Cambiada(tx[t].pedido, base[tx[t].pedido.fila])
                  /\ b = Trabajos(tx[t].pedido, base[tx[t].pedido.fila])
            OBVIOUS
        <3>2. tx' = [tx EXCEPT ![t].paso = s, ![t].copia = a, ![t].trabajos = b]
            BY <2>1, <3>1 DEF LeerPartido
        <3>3. s # "confirmada"
            BY <3>1
        <3>4. QED
            BY <2>3, <3>2, <3>3
    <2>7. ~LeerFecha(t)
        BY <2>1, <2>4 DEF LeerFecha
    <2>8. QED
        BY <2>5, <2>6, <2>7
<1>3. ~InsertarIncidencia(t) /\ ~ContarGoles(t) /\ ~CompararCopia(t) /\ ~EscribirCopia(t) /\ ~ClaveFecha(t)
    BY <1>1 DEF InsertarIncidencia, ContarGoles, CompararCopia, EscribirCopia, ClaveFecha, Sigue, Tx
<1>4. ~EvaluarCierre(t) /\ ~RevertirCierre(t) /\ ~ReservarPartido(t)
    BY <1>1 DEF EvaluarCierre, RevertirCierre, ReservarPartido, HaceTrabajo, Tx
<1>5. ~MarcarFecha(t) /\ ~ArrastrarPartidos(t) /\ ~Abortar(t)
    BY <1>1 DEF MarcarFecha, ArrastrarPartidos, Abortar, Sigue, Tx
<1>6. QED
    BY <1>2, <1>3, <1>4, <1>5 DEF Avanza

-----------------------------------------------------------------------------
(* Requests that resolve                                                   *)

LEMMA UnTrabajo ==
    ASSUME NEW a
    PROVE  Head(<<a>>) = a /\ Tail(<<a>>) = <<>> /\ <<a>> # <<>>
OBVIOUS

\* What is committed by a step: matches stay where they are, none becomes pending, and
\* those that change have their matchday locked by whoever commits.
Progresa(t) ==
    \A p \in Partidos :
        /\ base'[p].fecha = base[p].fecha
        /\ Resuelta(base[p]) => Resuelta(base'[p])
        /\ base'[p] = base[p] \/ Propia(t, base[p].fecha)

\* The rows of the others do not move.
LEMMA FilasAjenas ==
    ASSUME IInv, IInv', NEW t \in Transacciones, Pasa(t), NEW u \in Transacciones, u # t,
           NEW x \in Filas, Propia(u, x)
    PROVE  Propia(u, x)' /\ actual'[x] = actual[x] /\ base'[x] = base[x]
<1>1. Propia(u, x)' /\ ~Propia(t, x)
    BY Ajenas, UnDueno DEF Pasa, IInv
<1>2. ~Propia(t, x)'
    BY <1>1 DEF IInv, Excluyen, Propia, Choca
<1>3. QED
    BY <1>1, <1>2 DEF Pasa, Suyo

LEMMA VistaAjena ==
    ASSUME IInv, IInv', NEW t \in Transacciones, Pasa(t), NEW u \in Transacciones, u # t,
           Progresa(t), NEW p \in Partidos, Resuelta(Vista(u, p))
    PROVE  Resuelta(Vista(u, p))'
<1>1. CASE Propia(u, p)
    BY <1>1, FilasAjenas, FilaBien DEF Vista, Resuelta
<1>2. CASE ~Propia(u, p)
    <2>1. ~Propia(u, p)'
        BY <1>2, Ajenas DEF Pasa
    <2>2. QED
        BY <1>2, <2>1 DEF Vista, Progresa, Resuelta
<1>3. QED
    BY <1>1, <1>2

LEMMA DeFechaQueda ==
    ASSUME NEW t, Progresa(t), NEW f
    PROVE  De(f)' = De(f)
BY DEF De, Progresa

LEMMA EvaluadaAjena ==
    ASSUME IInv, IInv', NEW t \in Transacciones, Pasa(t), NEW u \in Transacciones, u # t,
           Progresa(t), NEW f \in Fechas, Evaluada(u, f)
    PROVE  Evaluada(u, f)'
<1>1. Propia(u, f)' /\ actual'[f] = actual[f] /\ ~Propia(t, f)
    BY FilasAjenas, FilaBien, UnDueno DEF Evaluada, IInv
<1>2. CASE /\ actual[f].estado \in {"FINALIZADA", "SUSPENDIDA"}
          /\ \A p \in De(f) : Resuelta(Vista(u, p))
    <2>1. \A p \in De(f) : Resuelta(Vista(u, p))'
        BY <1>2, VistaAjena DEF De
    <2>2. QED
        BY <1>1, <1>2, <2>1, DeFechaQueda DEF Evaluada
<1>3. CASE /\ actual[f].estado \in {"PROGRAMADA", "EN_CURSO"}
          /\ \E p \in De(f) : ~Resuelta(base[p]) /\ ~Propia(u, p)
    <2>1. PICK p \in De(f) : ~Resuelta(base[p]) /\ ~Propia(u, p)
        BY <1>3
    <2>2. p \in Partidos /\ base[p].fecha = f
        BY <2>1 DEF De
    <2>3. base'[p] = base[p] /\ ~Propia(u, p)'
        BY <1>1, <2>1, <2>2, Ajenas DEF Progresa, Pasa
    <2>4. p \in De(f)' /\ ~Resuelta(base[p])'
        BY <2>1, <2>3, DeFechaQueda DEF Resuelta
    <2>5. QED
        BY <1>1, <1>3, <2>3, <2>4 DEF Evaluada
<1>4. QED
    BY <1>2, <1>3 DEF Evaluada

\* So the other requests go on as they were.
LEMMA OtraSirve ==
    ASSUME IInv, IInv', NEW t \in Transacciones, Pasa(t), NEW u \in Transacciones, u # t,
           Progresa(t), Sirve(u)
    PROVE  Sirve(u)'
<1>1. tx'[u] = tx[u] /\ tx[u].pedido \in Pedidos
    BY DEF Pasa, Suyo, IInv, Tipos, Tx
<1>2. PICK x \in Filas : x = tx[u].pedido.fila
    BY <1>1, PedidoBien
<1>3. \A y \in Filas : Propia(u, y)' => Propia(u, y)
    BY Ajenas DEF Pasa
<1>4. CASE tx[u].pedido.tipo \in {"CERRAR", "SUSPENDER"} /\ UnPartido(u)
    <2>1. x \in Partidos
        BY <1>1, <1>2, <1>4, PedidoBien
    <2>2. PICK f \in Fechas : f = base[x].fecha /\ f = base'[x].fecha
        BY <2>1 DEF IInv, Tipos, Version, FilaPartido, Progresa
    <2>3. /\ \A y \in Filas : Propia(u, y) => y = x \/ (y = f /\ tx[u].trabajos = <<>>)
          /\ Propia(u, x) => Resuelta(actual[x])
          /\ tx[u].paso \in {"inicio", "comparar", "escribir", "cascada", "confirmada", "anulada"}
          /\ tx[u].paso \in {"comparar", "escribir"} =>
                 /\ tx[u].copia.estado = "SUSPENDIDO_FUERZA_MAYOR" /\ tx[u].copia.fecha = f
                 /\ tx[u].trabajos = <<Trabajo("evaluar", f)>> /\ ~Propia(u, x)
          /\ tx[u].paso = "escribir" =>
                 "fecha" \notin tx[u].cambios /\ ("estado" \in tx[u].cambios \/ Resuelta(base[x]))
          /\ tx[u].paso = "cascada" =>
                 \/ tx[u].trabajos = <<Trabajo("evaluar", f)>>
                 \/ tx[u].trabajos = <<>> /\ Evaluada(u, f)
        BY <1>2, <1>4, <2>2 DEF UnPartido
    <2>4. Propia(u, x)' => Resuelta(actual[x])'
        BY <1>3, <2>3, FilasAjenas DEF Resuelta
    <2>5. Resuelta(base[x]) => Resuelta(base[x])'
        BY <2>1 DEF Progresa, Resuelta
    <2>6. Evaluada(u, f) => Evaluada(u, f)'
        BY EvaluadaAjena
    <2>7. UnPartido(u)'
        BY <1>1, <1>2, <1>3, <2>2, <2>3, <2>4, <2>5, <2>6 DEF UnPartido
    <2>8. QED
        BY <1>1, <1>4, <2>7 DEF Sirve
<1>5. CASE tx[u].pedido.tipo = "SUSPENDER_FECHA" /\ UnaFecha(u)
    <2>1. De(x)' = De(x) /\ x \in Fechas
        BY <1>1, <1>2, <1>5, DeFechaQueda, PedidoBien
    <2>2. Propia(u, x) => Propia(u, x)' /\ actual'[x] = actual[x]
        BY FilasAjenas
    <2>3. \A p \in De(x) : Resuelta(Vista(u, p)) => Resuelta(Vista(u, p))'
        BY VistaAjena DEF De
    <2>4. /\ \A y \in Filas : Propia(u, y) => y = x \/ y \in De(x)
          /\ tx[u].paso \in {"inicio", "reservar", "arrastrar", "cascada", "confirmada", "anulada"}
          /\ tx[u].paso = "reservar" => \A i \in DOMAIN tx[u].trabajos : tx[u].trabajos[i].fila \in De(x)
          /\ tx[u].paso \in {"arrastrar", "cascada"} =>
                 Propia(u, x) /\ actual[x].estado = "SUSPENDIDA" /\ tx[u].trabajos = <<>>
          /\ tx[u].paso = "cascada" => \A p \in De(x) : Resuelta(Vista(u, p))
        BY <1>2, <1>5 DEF UnaFecha
    <2>5. UnaFecha(u)'
        BY <1>1, <1>2, <1>3, <2>1, <2>2, <2>3, <2>4 DEF UnaFecha, De, Resuelta, Vista, Propia
    <2>6. QED
        BY <1>1, <1>5, <2>5 DEF Sirve
<1>6. CASE tx[u].pedido.tipo = "ROJA" /\ UnaRoja(u)
    BY <1>1, <1>3, <1>6 DEF Sirve, UnaRoja
<1>7. QED
    BY <1>4, <1>5, <1>6 DEF Sirve

\* A statement that commits nothing leaves the matchdays as they were.
LEMMA SinConfirmar ==
    ASSUME NEW t, base' = base
    PROVE  Progresa(t) /\ \A f \in Fechas : FechaBien(f) => FechaBien(f)'
BY DEF Progresa, FechaBien, De, Resuelta

\* What a step does to the invariant of its own request and of its rows
Mia(t) == Sirve(t)' /\ Avanzan'

LEMMA CerrarResuelve ==
    ASSUME IInv, IInv', Resolver, NEW t \in Transacciones, Pasa(t), CerrarActa(t)
    PROVE  Mia(t)
<1>1. /\ tx[t] \in Tx /\ tx[t].paso = "inicio" /\ tx[t].pedido.tipo = "CERRAR"
      /\ tx'[t].pedido = tx[t].pedido /\ base' = base /\ UnPartido(t)
    BY DEF IInv, Tipos, CerrarActa, CerrarActaCon, Rechaza, Pasa, Suyo, Resolver, Sirve
<1>2. PICK p \in Partidos : p = tx[t].pedido.fila /\ p = tx'[t].pedido.fila
    BY <1>1, PedidoBien DEF Tx
<1>3. \A x \in Filas : ~Propia(t, x)
    BY <1>1 DEF Propia, IInv, Rastros
<1>4. CASE Rechaza(t)
    <2>1. /\ tx'[t].paso = "anulada" /\ \A x \in Filas : ~Propia(t, x)'
          /\ actual' = actual
        BY <1>1, <1>3, <1>4 DEF Rechaza, Sigue, IInv, Tipos, Tx, Propia
    <2>2. UnPartido(t)'
        BY <1>2, <2>1, FilaBien DEF UnPartido
    <2>3. QED
        BY <1>1, <2>1, <2>2 DEF Mia, Sirve, Resolver, Avanzan, Resuelta
<1>5. CASE ~Rechaza(t)
    <2>1. /\ candados' = candados \cup {Candado(t, p, "FOR_UPDATE")}
          /\ tx' = [tx EXCEPT ![t].paso = "cascada",
                              ![t].trabajos = <<Trabajo("evaluar", actual[p].fecha)>>]
          /\ actual' = [actual EXCEPT ![p] = [actual[p] EXCEPT !.estado = "FINALIZADO", !.acta = TRUE,
                                                              !.goles = tx[t].pedido.goles]]
        BY <1>2, <1>5 DEF CerrarActa, CerrarActaCon, Toma
    <2>2. /\ actual'[p].estado = "FINALIZADO" /\ actual'[p].fecha = actual[p].fecha
          /\ \A q \in Partidos : q # p => actual'[q] = actual[q]
        BY <2>1, FilaBien DEF IInv, Tipos, Version, FilaPartido
    <2>3. \A x \in Filas : Propia(t, x)' => x = p
        BY <1>3, <2>1 DEF Propia, Candado
    <2>4. Resuelta(actual[p])'
        BY <2>2 DEF Resuelta, EstadosResueltos
    <2>5. Avanzan'
        BY <1>1, <2>2, <2>4 DEF Resolver, Avanzan, Resuelta
    <2>6. PICK f \in Fechas : f = actual[p].fecha /\ f = base[p].fecha
        BY DEF Resolver, Avanzan, IInv, Tipos, Version, FilaPartido
    <2>7. tx'[t].paso = "cascada" /\ tx'[t].trabajos = <<Trabajo("evaluar", f)>>
        BY <1>1, <2>1, <2>6 DEF IInv, Tipos, Tx
    <2>8. UnPartido(t)'
        BY <1>1, <1>2, <2>3, <2>4, <2>6, <2>7 DEF UnPartido
    <2>9. QED
        BY <1>1, <2>5, <2>8 DEF Mia, Sirve
<1>6. QED
    BY <1>4, <1>5

\* A request that ends has nothing.
LEMMA Terminado ==
    ASSUME IInv, Resolver, NEW t \in Transacciones, tx'[t].paso \in {"confirmada", "anulada"},
           tx'[t].pedido = tx[t].pedido, \A x \in Filas : ~Propia(t, x)',
           tx[t].pedido.tipo = "ROJA" => tx'[t].trabajos = tx[t].trabajos
    PROVE  Sirve(t)'
<1>1. tx[t].pedido \in Pedidos /\ Sirve(t)
    BY DEF IInv, Tipos, Tx, Resolver
<1>2. PICK x \in Filas : x = tx'[t].pedido.fila
    BY <1>1, PedidoBien
<1>3. CASE tx[t].pedido.tipo \in {"CERRAR", "SUSPENDER"}
    BY <1>2, <1>3 DEF Sirve, UnPartido
<1>4. CASE tx[t].pedido.tipo = "SUSPENDER_FECHA"
    BY <1>2, <1>4 DEF Sirve, UnaFecha
<1>5. CASE tx[t].pedido.tipo = "ROJA" /\ UnaRoja(t)
    BY <1>5 DEF Sirve, UnaRoja
<1>6. QED
    BY <1>1, <1>3, <1>4, <1>5 DEF Sirve

LEMMA LeerResuelve ==
    ASSUME IInv, IInv', Resolver, NEW t \in Transacciones, Pasa(t), LeerPartido(t)
    PROVE  Mia(t)
<1>1. /\ tx[t] \in Tx /\ tx[t].paso = "inicio" /\ Sirve(t)
      /\ tx[t].pedido.tipo \in {"SUSPENDER", "ROJA"}
      /\ tx'[t].pedido = tx[t].pedido /\ UNCHANGED <<base, actual, candados>>
    BY DEF IInv, Tipos, LeerPartido, Rechaza, Pasa, Suyo, Resolver, Sirve
<1>2. PICK p \in Partidos : p = tx[t].pedido.fila /\ p = tx'[t].pedido.fila
    BY <1>1, PedidoBien DEF Tx
<1>3. \A x \in Filas : ~Propia(t, x) /\ ~Propia(t, x)'
    BY <1>1 DEF Propia, IInv, Rastros
<1>4. Avanzan'
    BY <1>1 DEF Resolver, Avanzan, Resuelta
<1>5. CASE Rechaza(t)
    <2>1. tx'[t].paso = "anulada" /\ tx'[t].trabajos = tx[t].trabajos
        BY <1>1, <1>5 DEF Rechaza, Sigue, IInv, Tipos, Tx
    <2>2. QED
        BY <1>1, <1>3, <1>4, <2>1, Terminado DEF Mia
<1>6. CASE ~Rechaza(t) /\ tx[t].pedido.tipo = "SUSPENDER"
    <2>1. PICK f \in Fechas : f = base[p].fecha
        BY DEF IInv, Tipos, Version, FilaPartido
    <2>2. Trabajos(tx[t].pedido, base[p]) = <<Trabajo("evaluar", f)>>
        BY <1>6, <2>1 DEF Trabajos
    <2>3. PICK c : /\ c = Cambiada(tx[t].pedido, base[p])
                   /\ c.estado = "SUSPENDIDO_FUERZA_MAYOR" /\ c.fecha = f
        <3>1. Cambiada(tx[t].pedido, base[p]) = [base[p] EXCEPT !.estado = "SUSPENDIDO_FUERZA_MAYOR"]
            BY <1>6 DEF Cambiada
        <3>2. QED
            BY <2>1, <3>1 DEF IInv, Tipos, Version, FilaPartido
    <2>4. tx' = [tx EXCEPT ![t].paso = "comparar", ![t].copia = c,
                           ![t].trabajos = <<Trabajo("evaluar", f)>>]
        BY <1>2, <1>6, <2>2, <2>3 DEF LeerPartido
    <2>5. tx'[t].paso = "comparar" /\ tx'[t].copia = c /\ tx'[t].trabajos = <<Trabajo("evaluar", f)>>
        BY <1>1, <2>4 DEF IInv, Tipos, Tx
    <2>6. UnPartido(t)'
        BY <1>1, <1>2, <1>3, <2>1, <2>3, <2>5, FilaBien DEF UnPartido
    <2>7. QED
        BY <1>1, <1>4, <1>6, <2>6 DEF Mia, Sirve
<1>7. CASE ~Rechaza(t) /\ tx[t].pedido.tipo = "ROJA"
    <2>1. Trabajos(tx[t].pedido, base[p]) = <<>>
        BY <1>7 DEF Trabajos
    <2>2. PICK c : c = Cambiada(tx[t].pedido, base[p])
        OBVIOUS
    <2>3. tx' = [tx EXCEPT ![t].paso = "insertar", ![t].copia = c, ![t].trabajos = <<>>]
        BY <1>2, <1>7, <2>1, <2>2 DEF LeerPartido
    <2>4. tx'[t].paso = "insertar" /\ tx'[t].trabajos = <<>>
        BY <1>1, <2>3 DEF IInv, Tipos, Tx
    <2>5. UnaRoja(t)'
        BY <1>3, <2>4 DEF UnaRoja
    <2>6. QED
        BY <1>1, <1>4, <1>7, <2>5 DEF Mia, Sirve
<1>8. QED
    BY <1>1, <1>5, <1>6, <1>7

LEMMA InsertarResuelve ==
    ASSUME IInv, IInv', Resolver, NEW t \in Transacciones, Pasa(t), InsertarIncidencia(t)
    PROVE  Mia(t)
<1>1. /\ tx[t] \in Tx /\ tx[t].paso = "insertar" /\ Sirve(t)
      /\ tx'[t].pedido = tx[t].pedido /\ UNCHANGED <<base, actual>>
      /\ candados' = candados \cup {Candado(t, tx[t].pedido.fila, "FOR_KEY_SHARE")}
    BY DEF IInv, Tipos, InsertarIncidencia, Toma, Pasa, Suyo, Resolver
<1>2. tx[t].pedido.tipo = "ROJA" /\ UnaRoja(t)
    BY <1>1 DEF Sirve, UnPartido, UnaFecha
<1>3. tx'[t].paso = "cascada" /\ tx'[t].trabajos = tx[t].trabajos
    BY <1>1, <1>2 DEF InsertarIncidencia, Sigue, IInv, Tipos, Tx
<1>4. \A x \in Filas : ~Propia(t, x)'
    BY <1>1, <1>2 DEF UnaRoja, Propia, Candado
<1>5. UnaRoja(t)'
    BY <1>2, <1>3, <1>4 DEF UnaRoja
<1>6. Avanzan'
    BY <1>1 DEF Resolver, Avanzan, Resuelta
<1>7. QED
    BY <1>1, <1>2, <1>5, <1>6 DEF Mia, Sirve

LEMMA CompararResuelve ==
    ASSUME IInv, IInv', Resolver, NEW t \in Transacciones, Pasa(t), CompararCopia(t)
    PROVE  Mia(t)
<1>1. /\ tx[t] \in Tx /\ tx[t].paso = "comparar" /\ Sirve(t)
      /\ tx'[t].pedido = tx[t].pedido /\ UNCHANGED <<base, actual, candados>>
    BY DEF IInv, Tipos, CompararCopia, Pasa, Suyo, Resolver
<1>2. tx[t].pedido.tipo \in {"CERRAR", "SUSPENDER"} /\ UnPartido(t)
    BY <1>1 DEF Sirve, UnaRoja, UnaFecha
<1>3. PICK p \in Partidos : p = tx[t].pedido.fila /\ p = tx'[t].pedido.fila
    BY <1>1, <1>2, PedidoBien DEF Tx
<1>4. PICK f \in Fechas : f = base[p].fecha
    BY DEF IInv, Tipos, Version, FilaPartido
<1>5. /\ tx[t].copia.estado = "SUSPENDIDO_FUERZA_MAYOR" /\ tx[t].copia.fecha = f
      /\ tx[t].trabajos = <<Trabajo("evaluar", f)>>
      /\ \A x \in Filas : Propia(t, x) => x = p \/ (x = f /\ tx[t].trabajos = <<>>)
      /\ ~Propia(t, p)
    BY <1>1, <1>2, <1>3, <1>4 DEF UnPartido
<1>6. PICK k : /\ k = {c \in DOMAIN Vista(t, p) : tx[t].copia[c] # Vista(t, p)[c]}
               /\ tx' = [tx EXCEPT ![t].paso = "escribir", ![t].cambios = k]
    BY <1>3 DEF CompararCopia
<1>7. /\ tx'[t].paso = "escribir" /\ tx'[t].cambios = k /\ tx'[t].copia = tx[t].copia
      /\ tx'[t].trabajos = tx[t].trabajos
    BY <1>1, <1>6 DEF IInv, Tipos, Tx
<1>8. Vista(t, p) \in FilaPartido /\ Vista(t, p).fecha = f
    BY <1>4 DEF Vista, IInv, Tipos, Version, Resolver, Avanzan
<1>9. "fecha" \notin k
    BY <1>5, <1>6, <1>8 DEF FilaPartido
<1>10. "estado" \in k \/ Resuelta(base[p])
    <2>1. CASE Vista(t, p).estado # "SUSPENDIDO_FUERZA_MAYOR"
        BY <1>5, <1>6, <1>8, <2>1 DEF FilaPartido
    <2>2. CASE Vista(t, p).estado = "SUSPENDIDO_FUERZA_MAYOR"
        BY <1>5, <2>2 DEF Vista, Resuelta, EstadosResueltos
    <2>3. QED
        BY <2>1, <2>2
<1>11. UnPartido(t)'
    BY <1>1, <1>3, <1>4, <1>5, <1>7, <1>9, <1>10 DEF UnPartido, Propia, Resuelta
<1>12. Avanzan'
    BY <1>1 DEF Resolver, Avanzan, Resuelta
<1>13. QED
    BY <1>1, <1>2, <1>11, <1>12 DEF Mia, Sirve

LEMMA EscribirResuelve ==
    ASSUME IInv, IInv', Resolver, NEW t \in Transacciones, Pasa(t), EscribirCopia(t)
    PROVE  Mia(t)
<1>1. /\ tx[t] \in Tx /\ tx[t].paso = "escribir" /\ Sirve(t) /\ FaseBien(tx[t])
      /\ tx'[t].pedido = tx[t].pedido /\ UNCHANGED base
    BY DEF IInv, Tipos, Fases, EscribirCopia, Pasa, Suyo, Resolver
<1>2. tx[t].pedido.tipo \in {"CERRAR", "SUSPENDER"} /\ UnPartido(t)
    BY <1>1 DEF Sirve, UnaRoja, UnaFecha
<1>3. PICK p \in Partidos : p = tx[t].pedido.fila /\ p = tx'[t].pedido.fila
    BY <1>1, <1>2, PedidoBien DEF Tx
<1>4. PICK f \in Fechas : f = base[p].fecha
    BY DEF IInv, Tipos, Version, FilaPartido
<1>5. /\ tx[t].copia.estado = "SUSPENDIDO_FUERZA_MAYOR" /\ ~Propia(t, p)
      /\ tx[t].trabajos = <<Trabajo("evaluar", f)>>
      /\ \A x \in Filas : Propia(t, x) => x = p \/ (x = f /\ tx[t].trabajos = <<>>)
      /\ "fecha" \notin tx[t].cambios /\ ("estado" \in tx[t].cambios \/ Resuelta(base[p]))
    BY <1>1, <1>2, <1>3, <1>4 DEF UnPartido
<1>6. /\ tx'[t].paso = "cascada" /\ tx'[t].trabajos = <<Trabajo("evaluar", f)>>
    BY <1>1, <1>5 DEF EscribirCopia, Sigue, IInv, Tipos, Tx
<1>7. \A x \in Filas : ~Propia(t, x) \/ x = p
    BY <1>5, UnTrabajo
<1>8. CASE tx[t].cambios = {}
    <2>1. UNCHANGED <<actual, candados>>
        BY <1>8 DEF EscribirCopia
    <2>2. UnPartido(t)'
        BY <1>1, <1>3, <1>4, <1>5, <1>6, <1>7, <2>1 DEF UnPartido, Propia
    <2>3. Avanzan'
        BY <1>1, <2>1 DEF Resolver, Avanzan, Resuelta
    <2>4. QED
        BY <1>1, <1>2, <2>2, <2>3 DEF Mia, Sirve
<1>9. CASE tx[t].cambios # {}
    <2>1. PICK r : r = [c \in DOMAIN actual[p] |->
                            IF c \in tx[t].cambios THEN tx[t].copia[c] ELSE actual[p][c]]
        OBVIOUS
    <2>2. actual' = [actual EXCEPT ![p] = r] /\ candados' = candados \cup {Candado(t, p, "UPDATE")}
        BY <1>3, <1>9, <2>1 DEF EscribirCopia, Toma
    <2>3. actual[p].fecha = f /\ (Resuelta(base[p]) => Resuelta(actual[p])) /\ actual[p] \in FilaPartido
        BY <1>4 DEF Resolver, Avanzan, IInv, Tipos, Version
    <2>4. r.fecha = f /\ Resuelta(r)
        <3>1. r.fecha = f
            BY <1>5, <2>1, <2>3 DEF FilaPartido
        <3>2. r.estado = IF "estado" \in tx[t].cambios THEN "SUSPENDIDO_FUERZA_MAYOR" ELSE actual[p].estado
            BY <1>5, <2>1, <2>3 DEF FilaPartido
        <3>3. QED
            BY <1>5, <2>3, <3>1, <3>2 DEF Resuelta, EstadosResueltos
    <2>5. actual'[p] = r /\ \A q \in Partidos : q # p => actual'[q] = actual[q]
        BY <2>2, FilaBien DEF IInv, Tipos, Version
    <2>6. Avanzan'
        BY <1>1, <1>4, <2>4, <2>5 DEF Resolver, Avanzan, Resuelta
    <2>7. \A x \in Filas : Propia(t, x)' => x = p
        BY <1>7, <2>2 DEF Propia, Candado
    <2>8. Resuelta(actual[p])'
        BY <2>4, <2>5 DEF Resuelta
    <2>9. UnPartido(t)'
        BY <1>1, <1>3, <1>4, <1>6, <2>7, <2>8 DEF UnPartido
    <2>10. QED
        BY <1>1, <1>2, <2>6, <2>9 DEF Mia, Sirve
<1>10. QED
    BY <1>8, <1>9

\* The lock that makes a row one's own
LEMMA TomarEsTener ==
    ASSUME NEW t, NEW x, NEW m \in {"FOR_UPDATE", "UPDATE"}, candados' = candados \cup {Candado(t, x, m)}
    PROVE  Propia(t, x)' /\ \A y : Propia(t, y)' <=> Propia(t, y) \/ y = x
<1>1. /\ Candado(t, x, m) \in candados' /\ Candado(t, x, m).t = t /\ Candado(t, x, m).fila = x
      /\ Candado(t, x, m).modo = m
    BY DEF Candado
<1>2. Propia(t, x)'
    BY <1>1 DEF Propia
<1>3. ASSUME NEW y, Propia(t, y)', y # x
      PROVE  Propia(t, y)
    BY <1>3 DEF Propia, Candado
<1>4. ASSUME NEW y, Propia(t, y)
      PROVE  Propia(t, y)'
    BY <1>4 DEF Propia
<1>5. QED
    BY <1>2, <1>3, <1>4

\* A row that can be locked, and is not one's own, is as it was committed.
LEMMA LibreEsGuardada ==
    ASSUME IInv, NEW t \in Transacciones, NEW x \in Filas, NEW m \in {"FOR_UPDATE", "UPDATE"},
           Libre(t, x, m), ~Propia(t, x)
    PROVE  actual[x] = base[x]
BY SinOtroDueno DEF IInv, SinDueno

LEMMA EvaluarResuelve ==
    ASSUME IInv, IInv', Resolver, NEW t \in Transacciones, Pasa(t), EvaluarCierre(t)
    PROVE  Mia(t)
<1>1. /\ tx[t] \in Tx /\ tx[t].paso = "cascada" /\ Sirve(t) /\ tx[t].trabajos # <<>>
      /\ tx'[t].pedido = tx[t].pedido /\ base' = base /\ tx' = [tx EXCEPT ![t].trabajos = Tail(@)]
    BY DEF IInv, Tipos, EvaluarCierre, HaceTrabajo, Pasa, Suyo, Resolver
<1>2. tx[t].pedido.tipo \in {"CERRAR", "SUSPENDER"} /\ UnPartido(t)
    BY <1>1 DEF Sirve, UnaRoja, UnaFecha
<1>3. PICK p \in Partidos : p = tx[t].pedido.fila /\ p = tx'[t].pedido.fila
    BY <1>1, <1>2, PedidoBien DEF Tx
<1>4. PICK f \in Fechas : f = base[p].fecha
    BY DEF IInv, Tipos, Version, FilaPartido
<1>5. /\ tx[t].trabajos = <<Trabajo("evaluar", f)>>
      /\ \A x \in Filas : Propia(t, x) => x = p
      /\ Propia(t, p) => Resuelta(actual[p])
    BY <1>1, <1>2, <1>3, <1>4 DEF UnPartido
<1>6. Head(tx[t].trabajos).fila = f /\ Tail(tx[t].trabajos) = <<>>
    BY <1>5, UnTrabajo DEF Trabajo
<1>7. tx'[t].paso = "cascada" /\ tx'[t].trabajos = <<>>
    BY <1>1, <1>6 DEF IInv, Tipos, Tx
<1>8. /\ Libre(t, f, "FOR_UPDATE") /\ candados' = candados \cup {Candado(t, f, "FOR_UPDATE")}
      /\ actual' = [actual EXCEPT ![f].estado =
                        IF /\ @ # "FINALIZADA" /\ ~(@ = "SUSPENDIDA" /\ TieneBis(t, f))
                           /\ FechaCompleta(EstadosEn(t, f))
                        THEN "FINALIZADA" ELSE @]
    BY <1>6 DEF EvaluarCierre, Toma
<1>9. Propia(t, f)' /\ \A x : Propia(t, x)' <=> Propia(t, x) \/ x = f
    BY <1>8, TomarEsTener
<1>10. actual[f] = base[f] /\ actual[f] \in FilaFecha
    <2>1. ~Propia(t, f)
        BY <1>5, FilaBien
    <2>2. QED
        BY <1>8, <2>1, FilaBien, LibreEsGuardada DEF IInv, Tipos, Version
<1>11. \A q \in Partidos : actual'[q] = actual[q]
    BY <1>8, FilaBien DEF IInv, Tipos, Version
<1>12. actual'[f].estado = IF /\ actual[f].estado # "FINALIZADA"
                             /\ ~(actual[f].estado = "SUSPENDIDA" /\ TieneBis(t, f))
                             /\ FechaCompleta(EstadosEn(t, f))
                          THEN "FINALIZADA" ELSE actual[f].estado
    BY <1>8, <1>10, FilaBien DEF IInv, Tipos, Version, FilaFecha
<1>13. De(f)' = De(f)
    BY <1>1 DEF De
<1>14. \A q \in Partidos : Vista(t, q).fecha = base[q].fecha
    BY DEF Vista, Resolver, Avanzan
<1>15. \A q \in Partidos : Resuelta(Vista(t, q)) => Resuelta(Vista(t, q))'
    BY <1>1, <1>9, <1>11, FilaBien DEF Vista, Resuelta
<1>16. ASSUME actual'[f].estado \in {"FINALIZADA", "SUSPENDIDA"}
       PROVE  Evaluada(t, f)'
    <2>1. ASSUME actual[f].estado \in {"FINALIZADA", "SUSPENDIDA"}
          PROVE  \A q \in De(f) : Resuelta(Vista(t, q))
        <3>1. \A q \in De(f) : Resuelta(base[q])
            BY <1>10, <2>1 DEF Resolver, FechaBien
        <3>2. QED
            BY <3>1 DEF De, Vista, Resolver, Avanzan
    <2>2. ASSUME FechaCompleta(EstadosEn(t, f))
          PROVE  \A q \in De(f) : Resuelta(Vista(t, q))
        BY <1>14, <2>2 DEF FechaCompleta, EstadosEn, PartidosEn, De, Resuelta
    <2>3. \A q \in De(f) : Resuelta(Vista(t, q))
        BY <1>10, <1>12, <1>16, <2>1, <2>2
    <2>4. \A q \in De(f)' : Resuelta(Vista(t, q))'
        BY <1>13, <1>15, <2>3 DEF De
    <2>5. QED
        BY <1>9, <1>16, <2>4 DEF Evaluada
<1>17. ASSUME actual'[f].estado \notin {"FINALIZADA", "SUSPENDIDA"}
       PROVE  Evaluada(t, f)'
    <2>1. ~FechaCompleta(EstadosEn(t, f)) /\ actual'[f].estado \in {"PROGRAMADA", "EN_CURSO"}
        BY <1>10, <1>12, <1>17 DEF FilaFecha
    <2>2. p \in PartidosEn(t, f)
        BY <1>4, <1>14 DEF PartidosEn
    <2>3. PICK q \in PartidosEn(t, f) : Vista(t, q).estado \notin EstadosResueltos
        BY <2>1, <2>2 DEF FechaCompleta, EstadosEn
    <2>4. q \in Partidos /\ base[q].fecha = f
        BY <1>14, <2>3 DEF PartidosEn
    <2>5. ~Propia(t, q)
        BY <1>5, <2>3, <2>4, FilaBien DEF Vista, Resuelta
    <2>6. ~Resuelta(base[q]) /\ ~Propia(t, q)'
        BY <1>9, <2>3, <2>4, <2>5, FilaBien DEF Vista, Resuelta
    <2>7. q \in De(f)' /\ ~Resuelta(base[q])'
        BY <1>1, <2>4, <2>6 DEF De, Resuelta
    <2>8. QED
        BY <1>9, <2>1, <2>6, <2>7 DEF Evaluada
<1>18. Evaluada(t, f)'
    BY <1>16, <1>17
<1>19. Propia(t, p)' => Resuelta(actual[p])'
    BY <1>5, <1>9, <1>11, FilaBien DEF Resuelta
<1>20. UnPartido(t)'
    BY <1>1, <1>3, <1>4, <1>5, <1>7, <1>9, <1>18, <1>19 DEF UnPartido
<1>21. Avanzan'
    BY <1>1, <1>11 DEF Resolver, Avanzan, Resuelta
<1>22. QED
    BY <1>1, <1>2, <1>20, <1>21 DEF Mia, Sirve

LEMMA LeerFechaResuelve ==
    ASSUME IInv, IInv', Resolver, NEW t \in Transacciones, Pasa(t), LeerFecha(t)
    PROVE  Mia(t)
<1>1. /\ tx[t] \in Tx /\ tx[t].paso = "inicio" /\ tx[t].pedido.tipo = "SUSPENDER_FECHA"
      /\ tx'[t].pedido = tx[t].pedido /\ UNCHANGED <<base, actual, candados>>
    BY DEF IInv, Tipos, LeerFecha, Rechaza, Pasa, Suyo
<1>2. PICK f \in Fechas : f = tx[t].pedido.fila /\ f = tx'[t].pedido.fila
    BY <1>1, PedidoBien DEF Tx
<1>3. \A x \in Filas : ~Propia(t, x) /\ ~Propia(t, x)'
    BY <1>1 DEF Propia, IInv, Rastros
<1>4. Avanzan'
    BY <1>1 DEF Resolver, Avanzan, Resuelta
<1>5. CASE Rechaza(t)
    <2>1. tx'[t].paso = "anulada"
        BY <1>1, <1>5 DEF Rechaza, Sigue, IInv, Tipos, Tx
    <2>2. QED
        BY <1>1, <1>3, <1>4, <2>1, Terminado DEF Mia
<1>6. CASE ~Rechaza(t)
    <2>1. PICK s \in EnOrden({p \in Partidos : base[p].fecha = tx[t].pedido.fila}) :
              tx' = [tx EXCEPT ![t].paso = "reservar",
                               ![t].trabajos = [i \in DOMAIN s |-> Trabajo("reservar", s[i])]]
        BY <1>6 DEF LeerFecha
    <2>2. \A i \in DOMAIN s : s[i] \in De(f)
        BY <1>2, <2>1 DEF EnOrden, De
    <2>3. PICK w : w = [i \in DOMAIN s |-> Trabajo("reservar", s[i])]
        OBVIOUS
    <2>4. \A i \in DOMAIN w : w[i].fila \in De(f)
        BY <2>2, <2>3 DEF Trabajo
    <2>5. tx'[t].paso = "reservar" /\ tx'[t].trabajos = w
        BY <1>1, <2>1, <2>3 DEF IInv, Tipos, Tx
    <2>6. De(f)' = De(f)
        BY <1>1 DEF De
    <2>7. UnaFecha(t)'
        BY <1>2, <1>3, <2>4, <2>5, <2>6 DEF UnaFecha
    <2>8. QED
        BY <1>1, <1>4, <2>7 DEF Mia, Sirve
<1>7. QED
    BY <1>5, <1>6

LEMMA ReservarResuelve ==
    ASSUME IInv, IInv', Resolver, NEW t \in Transacciones, Pasa(t), ReservarPartido(t)
    PROVE  Mia(t)
<1>1. /\ tx[t] \in Tx /\ tx[t].paso = "reservar" /\ tx[t].trabajos # <<>> /\ Sirve(t)
      /\ tx'[t].pedido = tx[t].pedido /\ UNCHANGED <<base, actual>>
      /\ tx' = [tx EXCEPT ![t].trabajos = Tail(@)]
    BY DEF IInv, Tipos, ReservarPartido, Pasa, Suyo, Resolver
<1>2. tx[t].pedido.tipo = "SUSPENDER_FECHA" /\ UnaFecha(t)
    BY <1>1 DEF Sirve, UnaRoja, UnPartido
<1>3. PICK f \in Fechas : f = tx[t].pedido.fila /\ f = tx'[t].pedido.fila
    BY <1>1, <1>2, PedidoBien DEF Tx
<1>4. /\ \A x \in Filas : Propia(t, x) => x = f \/ x \in De(f)
      /\ \A i \in DOMAIN tx[t].trabajos : tx[t].trabajos[i].fila \in De(f)
    BY <1>1, <1>2, <1>3 DEF UnaFecha
<1>5. PICK w \in Seq(DeFecha \cup DePartido) : w = tx[t].trabajos
    BY <1>1 DEF Tx
<1>6. Head(w).fila \in De(f) /\ \A i \in DOMAIN Tail(w) : Tail(w)[i].fila \in De(f)
    <2>1. Head(w) = w[1] /\ 1 \in DOMAIN w
        BY <1>1, <1>5
    <2>2. ASSUME NEW i \in DOMAIN Tail(w)
          PROVE  Tail(w)[i] = w[i + 1] /\ i + 1 \in DOMAIN w
        BY <1>1, <1>5, HeadTailProperties
    <2>3. QED
        BY <1>4, <1>5, <2>1, <2>2
<1>7. PICK p \in De(f) : p = Head(tx[t].trabajos).fila
    BY <1>5, <1>6
<1>8. candados' = candados \cup {Candado(t, p, "FOR_UPDATE")}
    BY <1>7 DEF ReservarPartido, Toma
<1>9. \A x : Propia(t, x)' <=> Propia(t, x) \/ x = p
    BY <1>8, TomarEsTener
<1>10. De(f)' = De(f)
    BY <1>1 DEF De
<1>11. tx'[t].paso = "reservar" /\ tx'[t].trabajos = Tail(w)
    BY <1>1, <1>5 DEF IInv, Tipos, Tx
<1>12. UnaFecha(t)'
    BY <1>3, <1>4, <1>6, <1>9, <1>10, <1>11 DEF UnaFecha
<1>13. Avanzan'
    BY <1>1 DEF Resolver, Avanzan, Resuelta
<1>14. QED
    BY <1>1, <1>2, <1>12, <1>13 DEF Mia, Sirve

LEMMA MarcarResuelve ==
    ASSUME IInv, IInv', Resolver, NEW t \in Transacciones, Pasa(t), MarcarFecha(t)
    PROVE  Mia(t)
<1>1. /\ tx[t] \in Tx /\ tx[t].paso = "reservar" /\ tx[t].trabajos = <<>> /\ Sirve(t)
      /\ tx'[t].pedido = tx[t].pedido /\ UNCHANGED base
    BY DEF IInv, Tipos, MarcarFecha, Pasa, Suyo, Resolver
<1>2. tx[t].pedido.tipo = "SUSPENDER_FECHA" /\ UnaFecha(t)
    BY <1>1 DEF Sirve, UnaRoja, UnPartido
<1>3. PICK f \in Fechas : f = tx[t].pedido.fila /\ f = tx'[t].pedido.fila
    BY <1>1, <1>2, PedidoBien DEF Tx
<1>4. \A x \in Filas : Propia(t, x) => x = f \/ x \in De(f)
    BY <1>2, <1>3 DEF UnaFecha
<1>5. /\ candados' = candados \cup {Candado(t, f, "UPDATE")}
      /\ actual' = [actual EXCEPT ![f].estado = "SUSPENDIDA"]
    BY <1>3 DEF MarcarFecha, Toma
<1>6. Propia(t, f)' /\ \A x : Propia(t, x)' <=> Propia(t, x) \/ x = f
    BY <1>5, TomarEsTener
<1>7. actual'[f].estado = "SUSPENDIDA" /\ \A q \in Partidos : actual'[q] = actual[q]
    BY <1>5, FilaBien DEF IInv, Tipos, Version, FilaFecha
<1>8. tx'[t].paso = "arrastrar" /\ tx'[t].trabajos = <<>>
    BY <1>1 DEF MarcarFecha, Sigue, IInv, Tipos, Tx
<1>9. De(f)' = De(f)
    BY <1>1 DEF De
<1>10. UnaFecha(t)'
    BY <1>3, <1>4, <1>6, <1>7, <1>8, <1>9 DEF UnaFecha
<1>11. Avanzan'
    BY <1>1, <1>7 DEF Resolver, Avanzan, Resuelta
<1>12. QED
    BY <1>1, <1>2, <1>10, <1>11 DEF Mia, Sirve

LEMMA ArrastrarResuelve ==
    ASSUME IInv, IInv', Resolver, NEW t \in Transacciones, Pasa(t), ArrastrarPartidos(t)
    PROVE  Mia(t)
<1>1. /\ tx[t] \in Tx /\ tx[t].paso = "arrastrar" /\ Sirve(t)
      /\ tx'[t].pedido = tx[t].pedido /\ UNCHANGED base
    BY DEF IInv, Tipos, ArrastrarPartidos, Pasa, Suyo, Resolver
<1>2. tx[t].pedido.tipo = "SUSPENDER_FECHA" /\ UnaFecha(t)
    BY <1>1 DEF Sirve, UnaRoja, UnPartido
<1>3. PICK f \in Fechas : f = tx[t].pedido.fila /\ f = tx'[t].pedido.fila
    BY <1>1, <1>2, PedidoBien DEF Tx
<1>4. /\ \A x \in Filas : Propia(t, x) => x = f \/ x \in De(f)
      /\ Propia(t, f) /\ actual[f].estado = "SUSPENDIDA" /\ tx[t].trabajos = <<>>
    BY <1>1, <1>2, <1>3 DEF UnaFecha
<1>5. \A q \in Partidos : Vista(t, q).fecha = base[q].fecha
    BY DEF Vista, Resolver, Avanzan
<1>6. PICK S \in SUBSET Partidos : S = Pendientes(t)
    BY Arrastrados
<1>7. S = {q \in De(f) : ~Vista(t, q).acta /\ ~Resuelta(Vista(t, q))}
    BY <1>3, <1>5, <1>6 DEF Pendientes, PartidosEn, De, Resuelta
<1>8. \A q \in De(f) : q \notin S => Resuelta(Vista(t, q))
    BY <1>7 DEF Vista, Resolver, Avanzan, De
<1>9. /\ candados' = candados \cup {Candado(t, q, "UPDATE") : q \in S}
      /\ actual' = [x \in Filas |-> IF x \in S
                                 THEN [actual[x] EXCEPT !.estado = "SUSPENDIDO_FUERZA_MAYOR"]
                                 ELSE actual[x]]
    BY <1>6, Arrastrados
<1>10. \A x : Propia(t, x)' <=> Propia(t, x) \/ x \in S
    <2>1. ASSUME NEW x \in S
          PROVE  Propia(t, x)'
        <3>1. Candado(t, x, "UPDATE") \in candados'
            BY <1>9
        <3>2. /\ Candado(t, x, "UPDATE").t = t /\ Candado(t, x, "UPDATE").fila = x
              /\ Candado(t, x, "UPDATE").modo = "UPDATE"
            BY DEF Candado
        <3>3. QED
            BY <3>1, <3>2 DEF Propia
    <2>2. ASSUME NEW x, Propia(t, x)
          PROVE  Propia(t, x)'
        BY <1>9, <2>2 DEF Propia
    <2>3. ASSUME NEW x, Propia(t, x)', x \notin S
          PROVE  Propia(t, x)
        BY <1>9, <2>3 DEF Propia, Candado
    <2>4. QED
        BY <2>1, <2>2, <2>3
<1>11. \A q \in S : actual'[q].estado = "SUSPENDIDO_FUERZA_MAYOR" /\ actual'[q].fecha = actual[q].fecha
    BY <1>9, FilaBien DEF IInv, Tipos, Version, FilaPartido
<1>12. \A x \in Filas : x \notin S => actual'[x] = actual[x]
    BY <1>9
<1>13. \A q \in De(f) : Resuelta(Vista(t, q))'
    <2>1. ASSUME NEW q \in S
          PROVE  Resuelta(Vista(t, q))'
        BY <1>10, <1>11 DEF Vista, Resuelta, EstadosResueltos
    <2>2. ASSUME NEW q \in De(f), q \notin S
          PROVE  Resuelta(Vista(t, q))'
        <3>1. Resuelta(Vista(t, q)) /\ q \in Filas
            BY <1>8, <2>2, FilaBien DEF De
        <3>2. (Propia(t, q)' <=> Propia(t, q)) /\ actual'[q] = actual[q] /\ base'[q] = base[q]
            BY <1>1, <1>10, <1>12, <2>2, <3>1
        <3>3. QED
            BY <3>1, <3>2 DEF Vista, Resuelta
    <2>3. QED
        BY <2>1, <2>2
<1>14. De(f)' = De(f) /\ f \notin S /\ S \subseteq De(f)
    BY <1>1, <1>7, FilaBien DEF De
<1>15. tx'[t].paso = "cascada" /\ tx'[t].trabajos = <<>>
    BY <1>1, <1>4 DEF ArrastrarPartidos, Sigue, IInv, Tipos, Tx
<1>16. UnaFecha(t)'
    <2>1. Propia(t, f)' /\ actual'[f].estado = "SUSPENDIDA"
        BY <1>4, <1>10, <1>12, <1>14, FilaBien
    <2>2. \A x \in Filas : Propia(t, x)' => x = f \/ x \in De(f)'
        BY <1>4, <1>10, <1>14
    <2>3. \A q \in De(f)' : Resuelta(Vista(t, q))'
        BY <1>13, <1>14
    <2>4. QED
        BY <1>3, <1>15, <2>1, <2>2, <2>3 DEF UnaFecha
<1>17. Avanzan'
    BY <1>1, <1>11, <1>12, FilaBien DEF Resolver, Avanzan, Resuelta, EstadosResueltos
<1>18. QED
    BY <1>1, <1>2, <1>16, <1>17 DEF Mia, Sirve

LEMMA AbortarResuelve ==
    ASSUME IInv, IInv', Resolver, NEW t \in Transacciones, Pasa(t), Abortar(t)
    PROVE  Mia(t)
<1>1. Acabado(t, "anulada") /\ UNCHANGED base /\ tx[t] \in Tx
    BY DEF Abortar, Suelta, Sigue, Acabado, IInv, Tipos
<1>2. actual' = [x \in Filas |-> IF Propia(t, x) THEN base[x] ELSE actual[x]]
    BY DEF Abortar
<1>3. \A p \in Partidos : actual'[p] = base[p] \/ actual'[p] = actual[p]
    BY <1>2, FilaBien
<1>4. Avanzan'
    BY <1>1, <1>3 DEF Resolver, Avanzan, Resuelta
<1>5. tx'[t].trabajos = tx[t].trabajos
    BY <1>1 DEF Acabado, IInv, Tipos, Tx
<1>6. Sirve(t)'
    BY <1>1, <1>5, AcabaBien, Terminado
<1>7. QED
    BY <1>4, <1>6 DEF Mia

\* What is committed is what the request saw.
LEMMA LoQueVio ==
    ASSUME IInv, NEW t \in Transacciones, Confirmar(t), NEW x \in Filas
    PROVE  base'[x] = Vista(t, x)
BY DEF Confirmar, Vista

LEMMA ConfirmarResuelve ==
    ASSUME IInv, IInv', Resolver, NEW t \in Transacciones, Pasa(t), Confirmar(t)
    PROVE  Mia(t) /\ Progresa(t) /\ \A f \in Fechas : FechaBien(f)'
<1>1. /\ Acabado(t, "confirmada") /\ UNCHANGED actual /\ tx[t] \in Tx
      /\ tx[t].paso = "cascada" /\ tx[t].trabajos = <<>> /\ Sirve(t)
    BY DEF Confirmar, Suelta, Sigue, Acabado, IInv, Tipos, Resolver
<1>2. \A p \in Partidos : /\ base'[p] = base[p] \/ (Propia(t, p) /\ base'[p] = actual[p])
                          /\ base'[p].fecha = base[p].fecha
                          /\ Resuelta(base[p]) => Resuelta(base'[p])
    BY LoQueVio, FilaBien DEF Vista, Resolver, Avanzan
<1>3. Avanzan'
    BY <1>1, <1>2 DEF Resolver, Avanzan, Resuelta
<1>4. tx'[t].trabajos = tx[t].trabajos
    BY <1>1 DEF Acabado, IInv, Tipos, Tx
<1>5. Sirve(t)'
    BY <1>1, <1>4, AcabaBien, Terminado
<1>6. \A f : De(f)' = De(f)
    BY <1>2 DEF De
<1>7. Mia(t)
    BY <1>3, <1>5 DEF Mia
\* A matchday that it does not have, and of which it has no match
<1>8. ASSUME NEW f \in Fechas, ~Propia(t, f), \A p \in De(f) : ~Propia(t, p)
      PROVE  FechaBien(f)'
    <2>1. base'[f] = base[f] /\ \A p \in De(f) : base'[p] = base[p]
        BY <1>2, <1>8, LoQueVio, FilaBien DEF Vista, De
    <2>2. FechaBien(f)
        BY DEF Resolver
    <2>3. QED
        BY <1>6, <2>1, <2>2 DEF FechaBien, Resuelta
<1>9. ASSUME NEW f \in Fechas, NEW p \in De(f), Propia(t, f), Evaluada(t, f),
             \A x \in Filas : Propia(t, x) => x = p \/ x = f
      PROVE  Progresa(t) /\ \A g \in Fechas : FechaBien(g)'
    <2>1. p \in Partidos /\ base[p].fecha = f
        BY DEF De
    <2>2. Progresa(t)
        BY <1>2, <1>9, <2>1, FilaBien DEF Progresa
    <2>3. ASSUME NEW g \in Fechas, g # f
          PROVE  FechaBien(g)'
        <3>1. ~Propia(t, g)
            BY <1>9, <2>1, <2>3, FilaBien
        <3>2. \A q \in De(g) : ~Propia(t, q)
            BY <1>9, <2>1, <2>3, FilaBien DEF De
        <3>3. QED
            BY <1>8, <3>1, <3>2
    <2>4. FechaBien(f)'
        <3>1. base'[f] = actual[f] /\ \A q \in De(f) : base'[q] = Vista(t, q)
            BY <1>9, LoQueVio, FilaBien DEF Vista, De
        <3>2. CASE /\ actual[f].estado \in {"FINALIZADA", "SUSPENDIDA"}
                   /\ \A q \in De(f) : Resuelta(Vista(t, q))
            BY <1>6, <3>1, <3>2 DEF FechaBien, Resuelta
        <3>3. CASE /\ actual[f].estado \in {"PROGRAMADA", "EN_CURSO"}
                   /\ \E q \in De(f) : ~Resuelta(base[q]) /\ ~Propia(t, q)
            <4>1. PICK q \in De(f) : ~Resuelta(base[q]) /\ ~Propia(t, q)
                BY <3>3
            <4>2. q \in De(f)' /\ ~Resuelta(base'[q])
                BY <1>6, <3>1, <4>1 DEF Vista
            <4>3. QED
                BY <3>1, <3>3, <4>2 DEF FechaBien, Resuelta
        <3>4. QED
            BY <1>9, <3>2, <3>3 DEF Evaluada
    <2>5. QED
        BY <2>2, <2>3, <2>4
<1>10. CASE tx[t].pedido.tipo \in {"CERRAR", "SUSPENDER"} /\ UnPartido(t)
    <2>1. PICK p \in Partidos : p = tx[t].pedido.fila
        BY <1>1, <1>10, PedidoBien DEF Tx
    <2>2. PICK f \in Fechas : f = base[p].fecha
        BY DEF IInv, Tipos, Version, FilaPartido
    <2>3. Evaluada(t, f) /\ \A x \in Filas : Propia(t, x) => x = p \/ x = f
        BY <1>1, <1>10, <2>1, <2>2, UnTrabajo DEF UnPartido
    <2>4. p \in De(f) /\ Propia(t, f)
        BY <2>2, <2>3 DEF De, Evaluada
    <2>5. QED
        BY <1>7, <1>9, <2>3, <2>4
<1>11. CASE tx[t].pedido.tipo = "SUSPENDER_FECHA" /\ UnaFecha(t)
    <2>1. PICK f \in Fechas : f = tx[t].pedido.fila
        BY <1>1, <1>11, PedidoBien DEF Tx
    <2>2. /\ \A x \in Filas : Propia(t, x) => x = f \/ x \in De(f)
          /\ Propia(t, f) /\ actual[f].estado = "SUSPENDIDA"
          /\ \A p \in De(f) : Resuelta(Vista(t, p))
        BY <1>1, <1>11, <2>1 DEF UnaFecha
    <2>3. Progresa(t)
        BY <1>2, <2>2, FilaBien DEF Progresa, De
    <2>4. ASSUME NEW g \in Fechas, g # f
          PROVE  FechaBien(g)'
        <3>1. ~Propia(t, g) /\ \A q \in De(g) : ~Propia(t, q)
            BY <2>2, <2>4, FilaBien DEF De
        <3>2. QED
            BY <1>8, <3>1
    <2>5. FechaBien(f)'
        <3>1. base'[f] = actual[f] /\ \A q \in De(f) : base'[q] = Vista(t, q)
            BY <2>2, LoQueVio, FilaBien DEF Vista, De
        <3>2. QED
            BY <1>6, <2>2, <3>1 DEF FechaBien, Resuelta
    <2>6. QED
        BY <1>7, <2>3, <2>4, <2>5
<1>12. CASE tx[t].pedido.tipo = "ROJA" /\ UnaRoja(t)
    <2>1. \A x \in Filas : ~Propia(t, x)
        BY <1>12 DEF UnaRoja
    <2>2. Progresa(t)
        BY <1>2, <2>1, FilaBien DEF Progresa
    <2>3. ASSUME NEW f \in Fechas
          PROVE  FechaBien(f)'
        BY <1>8, <2>1, FilaBien DEF De
    <2>4. QED
        BY <1>7, <2>2, <2>3
<1>13. QED
    BY <1>1, <1>10, <1>11, <1>12 DEF Sirve

\* What such requests do not do: count goals, change the matchday of a match, reopen one.
LEMMA NoHace ==
    ASSUME IInv, Resolver, NEW t \in Transacciones
    PROVE  ~ContarGoles(t) /\ ~ClaveFecha(t) /\ ~RevertirCierre(t)
<1>1. Sirve(t) /\ tx[t] \in Tx
    BY DEF Resolver, IInv, Tipos
<1>2. tx[t].paso \notin {"contar", "clave"}
    BY <1>1 DEF Sirve, UnPartido, UnaFecha, UnaRoja
<1>3. ASSUME tx[t].paso = "cascada", tx[t].trabajos # <<>>
      PROVE  Head(tx[t].trabajos).op # "revertir"
    <2>1. UnPartido(t)
        BY <1>1, <1>3 DEF Sirve, UnaFecha, UnaRoja
    <2>2. PICK f : tx[t].trabajos = <<Trabajo("evaluar", f)>>
        BY <1>3, <2>1 DEF UnPartido
    <2>3. QED
        BY <2>2, UnTrabajo DEF Trabajo
<1>4. QED
    BY <1>2, <1>3 DEF ContarGoles, ClaveFecha, RevertirCierre, HaceTrabajo

LEMMA ResolverPaso == IInv /\ IInv' /\ Resolver /\ [Next]_vars => Resolver'
<1>1. ASSUME IInv, IInv', Resolver, NEW t \in Transacciones, Avanza(t) \/ Abortar(t)
      PROVE  Resolver'
    <2>1. Pasa(t)
        BY <1>1, AvanzaPasa
    <2>2. Mia(t)
        BY <1>1, <2>1, NoHace, CerrarResuelve, LeerResuelve, InsertarResuelve, CompararResuelve,
           EscribirResuelve, EvaluarResuelve, LeerFechaResuelve, ReservarResuelve, MarcarResuelve,
           ArrastrarResuelve, ConfirmarResuelve, AbortarResuelve DEF Avanza
    <2>3. Progresa(t) /\ \A f \in Fechas : FechaBien(f)'
        <3>1. CASE Confirmar(t)
            BY <1>1, <2>1, <3>1, ConfirmarResuelve
        <3>2. CASE ~Confirmar(t)
            <4>1. base' = base
                BY <1>1, <3>2
                   DEF Avanza, CerrarActa, CerrarActaCon, LeerPartido, InsertarIncidencia, ContarGoles,
                       CompararCopia, EscribirCopia, ClaveFecha, EvaluarCierre, RevertirCierre,
                       HaceTrabajo, LeerFecha, ReservarPartido, MarcarFecha, ArrastrarPartidos,
                       Rechaza, Abortar
            <4>2. QED
                BY <1>1, <4>1, SinConfirmar DEF Resolver
        <3>3. QED
            BY <3>1, <3>2
    <2>4. \A u \in Transacciones : Sirve(u)'
        BY <1>1, <2>1, <2>2, <2>3, OtraSirve DEF Mia, Resolver
    <2>5. QED
        BY <2>2, <2>3, <2>4 DEF Mia, Resolver
<1>2. ASSUME Resolver, UNCHANGED vars
      PROVE  Resolver'
    BY <1>2
       DEF vars, Resolver, Avanzan, Sirve, UnPartido, UnaFecha, UnaRoja, FechaBien, Evaluada,
           Propia, Vista, De, Resuelta
<1>3. QED
    BY <1>1, <1>2 DEF Next, Reposo

LEMMA ResolverInicio ==
    ASSUME SoloResuelven, Init
    PROVE  Resolver
<1>0. PICK e \in Escenarios :
          /\ tx \in [Transacciones ->
                      [pedido : UNION {e.pedidos[t] : t \in Transacciones}, paso : {"inicio"},
                       copia : {<<>>}, cambios : {{}}, trabajos : {<<>>}]]
          /\ \A t \in Transacciones : tx[t].pedido \in e.pedidos[t]
          /\ \E estado \in [Partidos -> EstadosPartido], fecha \in [Partidos -> Fechas] :
              /\ \A p \in Partidos : estado[p] \in e.estados[p] /\ fecha[p] \in e.fechas[p]
              /\ base = [x \in Filas |->
                        IF x \in Partidos
                        THEN [estado |-> estado[x], acta |-> estado[x] = "FINALIZADO",
                              fecha |-> fecha[x], goles |-> 0]
                        ELSE [estado |->
                                 IF FechaCompleta({estado[p] : p \in {q \in Partidos : fecha[q] = x}})
                                 THEN "FINALIZADA" ELSE "PROGRAMADA"]]
    BY DEF Init
<1>1. \A t \in Transacciones :
          /\ tx[t].pedido \in e.pedidos[t]
          /\ tx[t].paso = "inicio"
          /\ tx[t].trabajos = <<>>
    BY <1>0
<1>2. PICK estado \in [Partidos -> EstadosPartido], fecha \in [Partidos -> Fechas] :
          base = [x \in Filas |->
                    IF x \in Partidos
                    THEN [estado |-> estado[x], acta |-> estado[x] = "FINALIZADO",
                          fecha |-> fecha[x], goles |-> 0]
                    ELSE [estado |->
                             IF FechaCompleta({estado[p] : p \in {q \in Partidos : fecha[q] = x}})
                             THEN "FINALIZADA" ELSE "PROGRAMADA"]]
    BY <1>0
<1>3. actual = base /\ candados = {}
    BY DEF Init
<1>4. \A p \in Partidos : /\ base[p].estado = estado[p] /\ base[p].fecha = fecha[p]
                          /\ base[p].acta <=> estado[p] = "FINALIZADO"
    BY <1>2, FilaBien
<1>5. \A f \in Fechas :
          base[f].estado = IF FechaCompleta({estado[p] : p \in {q \in Partidos : fecha[q] = f}})
                           THEN "FINALIZADA" ELSE "PROGRAMADA"
    BY <1>2, FilaBien
<1>6. Avanzan
    BY <1>3, <1>4 DEF Avanzan, Resuelta, EstadosResueltos
<1>7. \A t, x : ~Propia(t, x)
    BY <1>3 DEF Propia
<1>8. ASSUME NEW t \in Transacciones
      PROVE  Sirve(t)
    <2>1. /\ tx[t].pedido.tipo \in {"CERRAR", "SUSPENDER", "SUSPENDER_FECHA", "ROJA"}
          /\ tx[t].paso = "inicio" /\ tx[t].trabajos = <<>>
        BY <1>1 DEF SoloResuelven
    <2>2. QED
        BY <1>7, <2>1 DEF Sirve, UnPartido, UnaFecha, UnaRoja
<1>9. ASSUME NEW f \in Fechas
      PROVE  FechaBien(f)
    <2>1. CASE FechaCompleta({estado[p] : p \in {q \in Partidos : fecha[q] = f}})
        <3>1. base[f].estado = "FINALIZADA"
            BY <1>5, <2>1
        <3>2. \A p \in De(f) : Resuelta(base[p])
            BY <1>4, <2>1 DEF De, Resuelta, FechaCompleta
        <3>3. QED
            BY <3>1, <3>2 DEF FechaBien
    <2>2. CASE ~FechaCompleta({estado[p] : p \in {q \in Partidos : fecha[q] = f}})
        <3>1. base[f].estado = "PROGRAMADA"
            BY <1>5, <2>2
        <3>2. ASSUME De(f) # {}, \A p \in De(f) : Resuelta(base[p])
              PROVE  FALSE
            <4>  DEFINE E == {estado[p] : p \in {q \in Partidos : fecha[q] = f}}
            <4>1. \A p \in De(f) : p \in Partidos /\ fecha[p] = f
                BY <1>4 DEF De
            <4>2. E # {}
                BY <3>2, <4>1
            <4>3. \A p \in Partidos : fecha[p] = f => estado[p] \in EstadosResueltos
                BY <1>4, <3>2 DEF De, Resuelta
            <4>4. E \subseteq EstadosResueltos
                BY <4>3
            <4>5. FechaCompleta(E)
                BY <4>2, <4>4 DEF FechaCompleta
            <4>6. QED
                BY <2>2, <4>5
        <3>3. QED
            BY <3>1, <3>2 DEF FechaBien
    <2>3. QED
        BY <2>1, <2>2
<1>10. QED
    BY <1>6, <1>8, <1>9 DEF Resolver

LEMMA Resueltos ==
    ASSUME SoloResuelven
    PROVE  Spec => [](IInv /\ Resolver)
<1>1. Init => IInv /\ Resolver
    BY InicioBien, ResolverInicio
<1>2. IInv /\ Resolver /\ [Next]_vars => (IInv /\ Resolver)'
    BY PasoBien, ResolverPaso
<1>3. QED
    BY <1>1, <1>2, PTL DEF Spec

-----------------------------------------------------------------------------
(* The score                                                               *)

\* Goals and red cards are entered, as many at once as there are requests, while actas are
\* closed and whole matchdays suspended; no other handler saves a copy of a match
\* (suspenderPartido, reabrirActa and update would save an old score with it).
SoloCargan ==
    \A e \in Escenarios : \A t \in Transacciones : \A s \in e.pedidos[t] :
        s.tipo \in {"CERRAR", "GOL", "ROJA", "SUSPENDER_FECHA"}

EsGol(t) == tx[t].pedido.tipo = "GOL"

\* The goals of a match that t sees, and who inserted them
Vistos(t, p) == {i \in incidencias : /\ i.partido = p /\ i.tipo = "GOL"
                                     /\ i.t = t \/ tx[i.t].paso = "confirmada"}
SuIncidencia(t) == [t |-> t, partido |-> tx[t].pedido.fila, tipo |-> tx[t].pedido.tipo]
Pedidas == \A i \in incidencias : i.partido = tx[i.t].pedido.fila /\ i.tipo = tx[i.t].pedido.tipo

\* From its INSERT on a goal holds the match against a closing.  Its copy has at least its
\* own goal and at most those it sees; so has the row, once it is written or if it needs no
\* writing, and the acta is open.
CuentaGol(t) ==
    LET s == tx[t]
        p == s.pedido.fila
    IN  /\ \A x \in Partidos : Propia(t, x) => x = p /\ s.paso \in {"clave", "cascada"}
        /\ s.paso \in {"insertar", "contar", "comparar", "escribir"} => ~s.copia.acta
        /\ s.paso \in {"contar", "comparar", "escribir", "clave", "cascada"} =>
               Candado(t, p, "FOR_KEY_SHARE") \in candados /\ SuIncidencia(t) \in incidencias
        /\ s.paso \in {"comparar", "escribir"} => s.copia.goles \in 1..GolesDe(t, p)
        /\ s.paso = "escribir" =>
               /\ "goles" \in s.cambios \/ base[p].goles \in 1..GolesDe(t, p)
               /\ "acta" \in s.cambios \/ ~base[p].acta
        /\ s.paso \in {"clave", "cascada"} =>
               Vista(t, p).goles \in 1..GolesDe(t, p) /\ ~Vista(t, p).acta

\* Who closes the acta found in it the goals there are, or none.
CuentaCerrar(t) ==
    LET p == tx[t].pedido.fila
    IN  /\ \A x \in Partidos : Propia(t, x) => x = p
        /\ tx[t].paso = "cascada" =>
               /\ Candado(t, p, "FOR_UPDATE") \in candados
               /\ Firmes(p) # {} => actual[p].goles = Cardinality(Firmes(p))

CuentaFecha(t) ==
    \A x \in Partidos : Propia(t, x) =>
        actual[x].goles = base[x].goles /\ actual[x].acta = base[x].acta

Cuenta(t) ==
    /\ tx[t].pedido.tipo \in {"CERRAR", "GOL", "ROJA", "SUSPENDER_FECHA"}
    /\ EsGol(t) => CuentaGol(t)
    /\ tx[t].pedido.tipo = "CERRAR" => CuentaCerrar(t)
    /\ tx[t].pedido.tipo = "SUSPENDER_FECHA" => CuentaFecha(t)
    /\ tx[t].pedido.tipo = "ROJA" =>
           /\ tx[t].paso \in {"inicio", "insertar", "cascada", "confirmada", "anulada"}
           /\ \A x \in Partidos : ~Propia(t, x)

Marca == MarcadorDelActa /\ Pedidas /\ \A t \in Transacciones : Cuenta(t)

LEMMA Viva ==
    ASSUME NEW t, Avanza(t) \/ Abortar(t)
    PROVE  tx[t].paso \notin {"confirmada", "anulada"}
BY DEF Avanza, CerrarActa, CerrarActaCon, LeerPartido, InsertarIncidencia, ContarGoles,
       CompararCopia, EscribirCopia, ClaveFecha, EvaluarCierre, RevertirCierre, HaceTrabajo,
       LeerFecha, ReservarPartido, MarcarFecha, ArrastrarPartidos, Confirmar, Abortar, Terminada

\* A request inserts its incident, and takes it away if it fails.
LEMMA Inserta ==
    ASSUME NEW t, Avanza(t) \/ Abortar(t)
    PROVE  \/ UNCHANGED incidencias
           \/ InsertarIncidencia(t) /\ incidencias' = incidencias \cup {SuIncidencia(t)}
           \/ Abortar(t) /\ incidencias' = {i \in incidencias : i.t # t}
BY DEF Avanza, CerrarActa, CerrarActaCon, LeerPartido, InsertarIncidencia, ContarGoles,
       CompararCopia, EscribirCopia, ClaveFecha, EvaluarCierre, RevertirCierre, HaceTrabajo,
       LeerFecha, ReservarPartido, MarcarFecha, ArrastrarPartidos, Confirmar, Abortar, Rechaza,
       SuIncidencia

LEMMA SiguenPedidas ==
    ASSUME IInv, Pedidas, NEW t \in Transacciones, Avanza(t) \/ Abortar(t), Pasa(t)
    PROVE  Pedidas'
<1>1. \A i \in incidencias' : i \in incidencias \/ i = SuIncidencia(t)
    BY Inserta
<1>2. \A u \in Transacciones : tx'[u].pedido = tx[u].pedido
    BY DEF Pasa, Suyo
<1>3. \A i \in incidencias : i.t \in Transacciones
    BY DEF IInv, Tipos
<1>4. QED
    BY <1>1, <1>2, <1>3 DEF Pedidas, SuIncidencia

\* Only a commit changes what is committed.
LEMMA SoloGuarda ==
    ASSUME NEW t \in Transacciones, Avanza(t) \/ Abortar(t), NEW x \in Filas, base'[x] # base[x]
    PROVE  Confirmar(t) /\ Propia(t, x) /\ base'[x] = actual[x]
<1>1. Confirmar(t)
    BY DEF Avanza, CerrarActa, CerrarActaCon, LeerPartido, InsertarIncidencia, ContarGoles,
           CompararCopia, EscribirCopia, ClaveFecha, EvaluarCierre, RevertirCierre,
           HaceTrabajo, LeerFecha, ReservarPartido, MarcarFecha, ArrastrarPartidos,
           Rechaza, Abortar
<1>2. QED
    BY <1>1 DEF Confirmar

\* The committed goals of a match only change when a goal is committed.
LEMMA LosFirmes ==
    ASSUME IInv, Pedidas, NEW t \in Transacciones, Avanza(t) \/ Abortar(t), Pasa(t), NEW p,
           ~(Confirmar(t) /\ EsGol(t) /\ tx[t].pedido.fila = p)
    PROVE  Firmes(p)' = Firmes(p)
<1>1. \A u \in Transacciones \ {t} : tx'[u] = tx[u]
    BY DEF Pasa, Suyo
<1>2. \A i : i.t # t => (i \in incidencias' <=> i \in incidencias)
    BY Inserta DEF SuIncidencia
<1>3. (\A i \in incidencias : i.t \in Transacciones) /\ \A i \in incidencias' : i.t \in Transacciones
    BY DEF Pasa, IInv, Tipos
<1>4. tx[t].paso # "confirmada"
    BY Viva
<1>5. ASSUME NEW i \in incidencias', i.t = t, i.partido = p, i.tipo = "GOL"
      PROVE  tx'[t].paso # "confirmada"
    <2>  SUFFICES ASSUME tx'[t].paso = "confirmada"
         PROVE  FALSE
        OBVIOUS
    <2>1. Confirmar(t)
        BY <1>4, SoloConfirma
    <2>2. i \in incidencias
        BY <2>1 DEF Confirmar
    <2>3. QED
        BY <1>5, <2>1, <2>2 DEF Pedidas, EsGol
<1>6. \A i : i \in Firmes(p)' <=> i \in Firmes(p)
    BY <1>1, <1>2, <1>3, <1>4, <1>5 DEF Firmes
<1>7. QED
    BY <1>6

\* Goals are finitely many, and whoever sees more of them counts more.
LEMMA SonFinitos ==
    ASSUME IInv, NEW t, NEW p
    PROVE  /\ IsFiniteSet(Vistos(t, p)) /\ IsFiniteSet(Firmes(p))
           /\ GolesDe(t, p) = Cardinality(Vistos(t, p)) /\ GolesDe(t, p) \in Nat
           /\ Cardinality(Firmes(p)) \in Nat
<1>1. IsFiniteSet(Vistos(t, p)) /\ IsFiniteSet(Firmes(p))
    BY FS_Subset DEF Vistos, Firmes, IInv, Tipos
<1>2. GolesDe(t, p) = Cardinality(Vistos(t, p))
    BY DEF GolesDe, Vistos
<1>3. QED
    BY <1>1, <1>2, FS_CardinalityType

LEMMA CuentanMas ==
    ASSUME NEW S, NEW T, S \subseteq T, IsFiniteSet(T), NEW n \in 1..Cardinality(S)
    PROVE  n \in 1..Cardinality(T)
<1>1. IsFiniteSet(S) /\ Cardinality(S) <= Cardinality(T)
    BY FS_Subset
<1>2. Cardinality(S) \in Nat /\ Cardinality(T) \in Nat
    BY <1>1, FS_CardinalityType
<1>3. QED
    BY <1>1, <1>2

\* The others see at least what they saw.
LEMMA LosDemasVen ==
    ASSUME IInv, IInv', NEW t \in Transacciones, Avanza(t) \/ Abortar(t), Pasa(t),
           NEW u \in Transacciones, u # t, NEW p, NEW n \in 1..GolesDe(u, p)
    PROVE  n \in 1..GolesDe(u, p)'
<1>1. \A w \in Transacciones \ {t} : tx'[w] = tx[w]
    BY DEF Pasa, Suyo
<1>2. \A i : i.t # t => (i \in incidencias' <=> i \in incidencias)
    BY Inserta DEF SuIncidencia
<1>3. (\A i \in incidencias : i.t \in Transacciones) /\ tx[t].paso # "confirmada"
    BY Viva DEF IInv, Tipos
<1>4. Vistos(u, p) \subseteq Vistos(u, p)'
    BY <1>1, <1>2, <1>3 DEF Vistos
<1>5. GolesDe(u, p) = Cardinality(Vistos(u, p)) /\ GolesDe(u, p)' = Cardinality(Vistos(u, p)')
    BY DEF GolesDe, Vistos
<1>6. IsFiniteSet(Vistos(u, p)')
    BY FS_Subset DEF Vistos, IInv, Tipos
<1>7. QED
    BY <1>4, <1>5, <1>6, CuentanMas

LEMMA LosDelPartido ==
    ASSUME Pedidas, NEW t, NEW x, ~(EsGol(t) /\ tx[t].pedido.fila = x)
    PROVE  Vistos(t, x) = Firmes(x)
BY DEF Pedidas, EsGol, Vistos, Firmes

\* A goal that is committed leaves in the match a score that counts it, and the acta open.
LEMMA GolFirme ==
    ASSUME IInv, NEW t \in Transacciones, Cuenta(t), Pasa(t), Confirmar(t), EsGol(t),
           NEW p \in Partidos, p = tx[t].pedido.fila
    PROVE  /\ Firmes(p)' = Vistos(t, p)
           /\ base'[p].goles \in 1..Cardinality(Firmes(p)') /\ ~base'[p].acta
           /\ Candado(t, p, "FOR_KEY_SHARE") \in candados
<1>1. /\ tx[t].paso = "cascada" /\ UNCHANGED incidencias
      /\ base'[p] = Vista(t, p)
    BY FilaBien DEF Confirmar, Vista
<1>2. CuentaGol(t)
    BY DEF Cuenta
<1>3. Vista(t, p).goles \in 1..GolesDe(t, p) /\ ~Vista(t, p).acta
    BY <1>1, <1>2 DEF CuentaGol
<1>4. Candado(t, p, "FOR_KEY_SHARE") \in candados
    BY <1>1, <1>2 DEF CuentaGol
<1>5. tx'[t].paso = "confirmada" /\ \A u \in Transacciones \ {t} : tx'[u] = tx[u]
    BY AcabaBien DEF Confirmar, Suelta, Sigue, Acabado
<1>6. \A i \in incidencias : i.t \in Transacciones
    BY DEF IInv, Tipos
<1>7. Firmes(p)' = Vistos(t, p)
    BY <1>1, <1>5, <1>6 DEF Firmes, Vistos
<1>8. QED
    BY <1>1, <1>3, <1>4, <1>7, SonFinitos

\* What a step commits in a match
LEMMA Guardado ==
    ASSUME IInv, Marca, NEW t \in Transacciones, Avanza(t) \/ Abortar(t), Pasa(t),
           NEW p \in Partidos, base'[p] # base[p]
    PROVE  \/ /\ base'[p].goles = base[p].goles /\ base'[p].acta = base[p].acta
              /\ Firmes(p)' = Firmes(p)
           \/ /\ Candado(t, p, "FOR_UPDATE") \in candados /\ Firmes(p)' = Firmes(p)
              /\ Firmes(p) # {} => base'[p].goles = Cardinality(Firmes(p))
           \/ /\ EsGol(t) /\ base'[p].goles \in 1..Cardinality(Firmes(p)') /\ ~base'[p].acta
<1>1. Confirmar(t) /\ Propia(t, p) /\ base'[p] = actual[p]
    BY SoloGuarda, FilaBien
<1>2. Cuenta(t) /\ tx[t].paso = "cascada"
    BY <1>1 DEF Marca, Confirmar
<1>3. CASE EsGol(t)
    <2>1. p = tx[t].pedido.fila
        BY <1>1, <1>2, <1>3 DEF Cuenta, CuentaGol
    <2>2. QED
        BY <1>1, <1>2, <1>3, <2>1, GolFirme
<1>4. CASE tx[t].pedido.tipo = "CERRAR"
    <2>1. p = tx[t].pedido.fila
        BY <1>1, <1>2, <1>4 DEF Cuenta, CuentaCerrar
    <2>2. Firmes(p)' = Firmes(p)
        BY <1>4, LosFirmes DEF Marca, EsGol
    <2>3. QED
        BY <1>1, <1>2, <1>4, <2>1, <2>2 DEF Cuenta, CuentaCerrar
<1>5. CASE tx[t].pedido.tipo = "SUSPENDER_FECHA"
    <2>1. Firmes(p)' = Firmes(p)
        BY <1>5, LosFirmes DEF Marca, EsGol
    <2>2. QED
        BY <1>1, <1>2, <1>5, <2>1 DEF Cuenta, CuentaFecha
<1>6. QED
    BY <1>1, <1>2, <1>3, <1>4, <1>5 DEF Cuenta, EsGol

LEMMA MarcadorSigue ==
    ASSUME IInv, IInv', Marca, NEW t \in Transacciones, Avanza(t) \/ Abortar(t), Pasa(t)
    PROVE  MarcadorDelActa'
<1>1. ASSUME NEW p \in Partidos, Firmes(p)' # {}
      PROVE  /\ base'[p].goles \in 1..Cardinality(Firmes(p)')
             /\ base'[p].acta => base'[p].goles = Cardinality(Firmes(p)')
    <2>1. CASE Firmes(p)' = Firmes(p) /\ base'[p].goles = base[p].goles /\ base'[p].acta = base[p].acta
        BY <1>1, <2>1 DEF Marca, MarcadorDelActa
    <2>2. CASE Confirmar(t) /\ EsGol(t) /\ tx[t].pedido.fila = p
        BY <2>2, GolFirme DEF Marca
    <2>3. CASE base'[p] = base[p] /\ ~(Confirmar(t) /\ EsGol(t) /\ tx[t].pedido.fila = p)
        <3>1. Firmes(p)' = Firmes(p)
            BY <2>3, LosFirmes DEF Marca
        <3>2. QED
            BY <2>1, <2>3, <3>1
    <2>4. CASE /\ base'[p] # base[p] /\ Firmes(p)' = Firmes(p)
               /\ Firmes(p) # {} => base'[p].goles = Cardinality(Firmes(p))
        <3>1. base'[p].goles = Cardinality(Firmes(p)')
            BY <1>1, <2>4
        <3>2. Cardinality(Firmes(p)) \in Nat /\ Cardinality(Firmes(p)) # 0
            BY <1>1, <2>4, SonFinitos, FS_EmptySet
        <3>3. QED
            BY <2>4, <3>1, <3>2
    <2>5. CASE base'[p] # base[p] /\ base'[p].goles \in 1..Cardinality(Firmes(p)') /\ ~base'[p].acta
        BY <2>5
    <2>6. QED
        BY <2>1, <2>2, <2>3, <2>4, <2>5, Guardado
<1>2. QED
    BY <1>1 DEF MarcadorDelActa, Firmes

\* So the other requests count on: nobody closes the acta of a match with a goal on its way,
\* nor enters a goal in one that is being closed.
LEMMA OtraCuenta ==
    ASSUME IInv, IInv', Marca, NEW t \in Transacciones, Avanza(t) \/ Abortar(t), Pasa(t),
           NEW u \in Transacciones, u # t
    PROVE  Cuenta(u)'
<1>1. tx'[u] = tx[u] /\ Cuenta(u) /\ Cuenta(t) /\ Pedidas
    BY DEF Pasa, Suyo, Marca
<1>2. \A x : Propia(u, x)' <=> Propia(u, x)
    BY Ajenas DEF Pasa
<1>3. \A x \in Filas : Propia(u, x) => actual'[x] = actual[x] /\ base'[x] = base[x]
    BY FilasAjenas
<1>4. \A c \in candados : c.t = u => c \in candados'
    BY DEF Pasa, Suyo
<1>5. tx[u].pedido \in Pedidos
    BY DEF IInv, Tipos, Tx
<1>6. ASSUME EsGol(u)
      PROVE  CuentaGol(u)'
    <2>1. PICK p \in Partidos : p = tx[u].pedido.fila
        BY <1>5, <1>6, PedidoBien DEF EsGol
    <2>2. CuentaGol(u)
        BY <1>1, <1>6 DEF Cuenta
    <2>3. ASSUME Candado(u, p, "FOR_KEY_SHARE") \in candados, base[p].goles \in 1..GolesDe(u, p)
          PROVE  base'[p].goles \in 1..GolesDe(u, p)'
        <3>1. CASE base'[p].goles = base[p].goles
            BY <2>3, <3>1, LosDemasVen
        <3>2. CASE EsGol(t) /\ base'[p].goles \in 1..Cardinality(Firmes(p)')
            <4>1. Firmes(p)' \subseteq Vistos(u, p)'
                BY DEF Firmes, Vistos
            <4>2. IsFiniteSet(Vistos(u, p)') /\ GolesDe(u, p)' = Cardinality(Vistos(u, p)')
                BY FS_Subset DEF Vistos, GolesDe, IInv, Tipos
            <4>3. QED
                BY <3>2, <4>1, <4>2, CuentanMas
        <3>3. ~(Candado(t, p, "FOR_UPDATE") \in candados)
            BY <2>3 DEF IInv, Excluyen, Candado, Choca
        <3>4. QED
            BY <3>1, <3>2, <3>3, Guardado
    <2>4. ASSUME Candado(u, p, "FOR_KEY_SHARE") \in candados, ~base[p].acta
          PROVE  ~base'[p].acta
        <3>1. ~(Candado(t, p, "FOR_UPDATE") \in candados)
            BY <2>4 DEF IInv, Excluyen, Candado, Choca
        <3>2. QED
            BY <2>4, <3>1, Guardado
    <2>5. Candado(u, p, "FOR_KEY_SHARE") \in candados => Candado(u, p, "FOR_KEY_SHARE") \in candados'
        BY <1>4 DEF Candado
    <2>6. SuIncidencia(u) \in incidencias => SuIncidencia(u)' \in incidencias'
        BY <1>1, Inserta DEF SuIncidencia
    <2>7. tx[u].copia.goles \in 1..GolesDe(u, p) => tx[u].copia.goles \in 1..GolesDe(u, p)'
        BY LosDemasVen
    <2>8. ASSUME tx[u].paso \in {"clave", "cascada"}
          PROVE  Vista(u, p)'.goles \in 1..GolesDe(u, p)' /\ ~Vista(u, p)'.acta
        <3>1. /\ Vista(u, p).goles \in 1..GolesDe(u, p) /\ ~Vista(u, p).acta
              /\ Candado(u, p, "FOR_KEY_SHARE") \in candados
            BY <2>1, <2>2, <2>8 DEF CuentaGol
        <3>2. CASE Propia(u, p)
            <4>1. Vista(u, p)' = Vista(u, p)
                BY <1>2, <1>3, <3>2, FilaBien DEF Vista
            <4>2. QED
                BY <3>1, <4>1, LosDemasVen
        <3>3. CASE ~Propia(u, p)
            <4>1. Vista(u, p) = base[p] /\ Vista(u, p)' = base'[p]
                BY <1>2, <3>3 DEF Vista
            <4>2. QED
                BY <2>3, <2>4, <3>1, <4>1
        <3>4. QED
            BY <3>2, <3>3
    <2>9. QED
        <3>1. p = tx'[u].pedido.fila
            BY <1>1, <2>1
        <3>2. \A x \in Partidos : Propia(u, x)' => x = p /\ tx[u].paso \in {"clave", "cascada"}
            BY <1>2, <2>1, <2>2 DEF CuentaGol
        <3>3. tx[u].paso \in {"contar", "comparar", "escribir", "clave", "cascada"} =>
                  Candado(u, p, "FOR_KEY_SHARE") \in candados /\ SuIncidencia(u) \in incidencias
            BY <2>1, <2>2 DEF CuentaGol
        <3>4. tx[u].paso \in {"comparar", "escribir"} => tx[u].copia.goles \in 1..GolesDe(u, p)'
            BY <2>1, <2>2, <2>7 DEF CuentaGol
        <3>5. tx[u].paso = "escribir" =>
                  /\ "goles" \in tx[u].cambios \/ base'[p].goles \in 1..GolesDe(u, p)'
                  /\ "acta" \in tx[u].cambios \/ ~base'[p].acta
            BY <2>1, <2>2, <2>3, <2>4, <3>3 DEF CuentaGol
        <3>6. tx[u].paso \in {"insertar", "contar", "comparar", "escribir"} => ~tx[u].copia.acta
            BY <2>2 DEF CuentaGol
        <3>7. QED
            BY <1>1, <2>5, <2>6, <2>8, <3>1, <3>2, <3>3, <3>4, <3>5, <3>6
               DEF CuentaGol, Vista, Propia, GolesDe
<1>7. ASSUME tx[u].pedido.tipo = "CERRAR"
      PROVE  CuentaCerrar(u)'
    <2>1. PICK p \in Partidos : p = tx[u].pedido.fila
        BY <1>5, <1>7, PedidoBien
    <2>2. CuentaCerrar(u)
        BY <1>1, <1>7 DEF Cuenta
    <2>3. ASSUME tx[u].paso = "cascada"
          PROVE  /\ Candado(u, p, "FOR_UPDATE") \in candados'
                 /\ Firmes(p)' # {} => actual'[p].goles = Cardinality(Firmes(p)')
        <3>1. /\ Candado(u, p, "FOR_UPDATE") \in candados
              /\ Firmes(p) # {} => actual[p].goles = Cardinality(Firmes(p))
            BY <2>1, <2>2, <2>3 DEF CuentaCerrar
        <3>2. Propia(u, p)
            BY <3>1 DEF Propia, Candado
        <3>3. actual'[p] = actual[p]
            BY <1>3, <3>2, FilaBien
        <3>4. ~(Candado(t, p, "FOR_KEY_SHARE") \in candados)
            BY <3>1 DEF IInv, Excluyen, Candado, Choca
        <3>5. ~(Confirmar(t) /\ EsGol(t) /\ tx[t].pedido.fila = p)
            BY <1>1, <3>4, GolFirme
        <3>6. Firmes(p)' = Firmes(p)
            BY <1>1, <3>5, LosFirmes
        <3>7. Candado(u, p, "FOR_UPDATE") \in candados'
            BY <1>4, <3>1 DEF Candado
        <3>8. QED
            BY <3>1, <3>3, <3>6, <3>7
    <2>4. \A x \in Partidos : Propia(u, x)' => x = p
        BY <1>2, <2>1, <2>2 DEF CuentaCerrar
    <2>5. p = tx'[u].pedido.fila
        BY <1>1, <2>1
    <2>6. QED
        BY <1>1, <2>3, <2>4, <2>5 DEF CuentaCerrar, Firmes
<1>8. CuentaFecha(u) => CuentaFecha(u)'
    BY <1>2, <1>3, FilaBien DEF CuentaFecha
<1>9. EsGol(u)' <=> EsGol(u)
    BY <1>1 DEF EsGol
<1>10. QED
    BY <1>1, <1>2, <1>6, <1>7, <1>8, <1>9 DEF Cuenta

\* Its own step: what it sees stays until it inserts or is undone.
LEMMA MisVistos ==
    ASSUME IInv, NEW t \in Transacciones, Pasa(t), UNCHANGED incidencias, NEW x
    PROVE  Vistos(t, x)' = Vistos(t, x) /\ GolesDe(t, x)' = GolesDe(t, x)
<1>1. \A i \in incidencias : i.t \in Transacciones
    BY DEF IInv, Tipos
<1>2. \A i \in incidencias : i.t # t => tx'[i.t] = tx[i.t]
    BY <1>1 DEF Pasa, Suyo
<1>3. Vistos(t, x)' = Vistos(t, x)
    BY <1>2 DEF Vistos
<1>4. QED
    BY <1>3 DEF GolesDe, Vistos

LEMMA MisFirmes ==
    ASSUME IInv, NEW t \in Transacciones, Pasa(t), UNCHANGED incidencias, NEW x,
           tx[t].paso # "confirmada", tx'[t].paso # "confirmada"
    PROVE  Firmes(x)' = Firmes(x)
<1>1. \A i \in incidencias : i.t \in Transacciones
    BY DEF IInv, Tipos
<1>2. QED
    BY <1>1 DEF Pasa, Suyo, Firmes

LEMMA SigueDeTipo ==
    ASSUME Marca, NEW t \in Transacciones, Pasa(t)
    PROVE  /\ tx'[t].pedido = tx[t].pedido /\ (EsGol(t)' <=> EsGol(t)) /\ Cuenta(t)
           /\ tx[t].pedido.tipo \in {"CERRAR", "GOL", "ROJA", "SUSPENDER_FECHA"}
BY DEF Marca, Cuenta, Pasa, Suyo, EsGol

LEMMA NadaTiene ==
    ASSUME IInv, Marca, NEW t \in Transacciones, Pasa(t), \A x \in Partidos : ~Propia(t, x)',
           tx'[t].paso \in {"confirmada", "anulada"}
    PROVE  Cuenta(t)'
BY SigueDeTipo DEF Cuenta, CuentaGol, CuentaCerrar, CuentaFecha, EsGol

LEMMA LeerCuenta ==
    ASSUME IInv, Marca, NEW t \in Transacciones, Pasa(t), LeerPartido(t)
    PROVE  Cuenta(t)'
<1>1. /\ tx[t] \in Tx /\ tx[t].paso = "inicio" /\ tx[t].pedido.tipo \in {"GOL", "ROJA"}
      /\ UNCHANGED <<base, actual, incidencias, candados>> /\ tx'[t].pedido = tx[t].pedido
    BY SigueDeTipo DEF IInv, Tipos, LeerPartido, Rechaza
<1>2. \A x : ~Propia(t, x)'
    BY <1>1 DEF Propia, IInv, Rastros
<1>3. PICK p \in Partidos : p = tx[t].pedido.fila
    BY <1>1, PedidoBien DEF Tx
<1>4. CASE Rechaza(t)
    <2>1. tx'[t].paso = "anulada"
        BY <1>4 DEF Rechaza, Sigue, IInv, Tipos, Tx
    <2>2. QED
        BY <1>2, <2>1, NadaTiene
<1>5. CASE ~Rechaza(t)
    <2>1. PICK c, w : c = Cambiada(tx[t].pedido, base[p]) /\ w = Trabajos(tx[t].pedido, base[p])
        OBVIOUS
    <2>2. tx' = [tx EXCEPT ![t].paso = "insertar", ![t].copia = c, ![t].trabajos = w]
        BY <1>1, <1>3, <1>5, <2>1 DEF LeerPartido
    <2>3. tx'[t].copia = c /\ tx'[t].paso = "insertar"
        BY <1>1, <2>2 DEF IInv, Tipos, Tx
    <2>4. ~c.acta
        BY <1>1, <1>3, <1>5, <2>1 DEF LeerPartido, Admite, Cambiada
    <2>5. QED
        BY <1>1, <1>2, <2>3, <2>4 DEF Cuenta, CuentaGol, EsGol
<1>6. QED
    BY <1>4, <1>5

LEMMA InsertarCuenta ==
    ASSUME IInv, Marca, NEW t \in Transacciones, Pasa(t), InsertarIncidencia(t)
    PROVE  Cuenta(t)'
<1>1. /\ tx[t] \in Tx /\ tx[t].paso = "insertar" /\ tx[t].pedido.tipo \in {"GOL", "ROJA"}
      /\ tx'[t].pedido = tx[t].pedido /\ \A x \in Partidos : ~Propia(t, x)
      /\ EsGol(t) => ~tx[t].copia.acta
    BY SigueDeTipo DEF IInv, Tipos, Fases, FaseBien, InsertarIncidencia, Cuenta, CuentaGol, EsGol
<1>2. PICK p : p = tx[t].pedido.fila
    OBVIOUS
<1>3. /\ candados' = candados \cup {Candado(t, p, "FOR_KEY_SHARE")}
      /\ incidencias' = incidencias \cup {SuIncidencia(t)}
    BY <1>2 DEF InsertarIncidencia, Toma, SuIncidencia
<1>4. \A x \in Partidos : ~Propia(t, x)'
    BY <1>1, <1>3 DEF Propia, Candado
<1>5. /\ tx'[t].paso = IF tx[t].pedido.tipo = "GOL" THEN "contar" ELSE "cascada"
      /\ tx'[t].copia = tx[t].copia
    BY <1>1 DEF InsertarIncidencia, Sigue, IInv, Tipos, Tx
<1>6. SuIncidencia(t)' \in incidencias'
    BY <1>1, <1>3 DEF SuIncidencia
<1>7. QED
    BY <1>1, <1>2, <1>3, <1>4, <1>5, <1>6 DEF Cuenta, CuentaGol, EsGol

\* Of the requests that enter, close or suspend, only goals save a copy.
LEMMA SoloGoles ==
    ASSUME IInv, Marca, NEW t \in Transacciones,
           tx[t].paso \in {"contar", "comparar", "escribir", "clave"}
    PROVE  EsGol(t) /\ CuentaGol(t) /\ tx[t].pedido.fila \in Partidos
BY PedidoBien DEF Marca, Cuenta, EsGol, IInv, Tipos, Tx, Fases, FaseBien

LEMMA ContarCuenta ==
    ASSUME IInv, Marca, NEW t \in Transacciones, Pasa(t), ContarGoles(t)
    PROVE  Cuenta(t)'
<1>1. /\ tx[t] \in Tx /\ tx[t].paso = "contar" /\ EsGol(t) /\ CuentaGol(t)
      /\ UNCHANGED <<base, actual, incidencias, candados>>
    BY SoloGoles DEF IInv, Tipos, ContarGoles
<1>2. PICK p \in Partidos : p = tx[t].pedido.fila
    BY <1>1, SoloGoles
<1>3. PICK n : n = GolesDe(t, p)
    OBVIOUS
<1>4. tx[t].copia \in FilaPartido
    BY <1>1 DEF IInv, Fases, FaseBien
<1>5. tx' = [tx EXCEPT ![t].paso = "comparar", ![t].copia.goles = n]
    BY <1>2, <1>3 DEF ContarGoles
<1>6. /\ tx'[t].paso = "comparar" /\ tx'[t].copia.goles = n /\ tx'[t].copia.acta = tx[t].copia.acta
      /\ tx'[t].pedido = tx[t].pedido
    BY <1>1, <1>4, <1>5 DEF IInv, Tipos, Tx, FilaPartido
<1>7. GolesDe(t, p)' = n /\ n \in 1..n
    <2>1. SuIncidencia(t) \in Vistos(t, p)
        BY <1>1, <1>2 DEF CuentaGol, SuIncidencia, Vistos, EsGol
    <2>2. n = Cardinality(Vistos(t, p)) /\ n \in Nat /\ n # 0
        BY <1>3, <2>1, SonFinitos, FS_EmptySet
    <2>3. GolesDe(t, p)' = GolesDe(t, p)
        BY <1>1, MisVistos
    <2>4. n \in 1..n
        BY <2>2
    <2>5. QED
        BY <1>3, <2>3, <2>4
<1>8. SuIncidencia(t)' = SuIncidencia(t)
    BY <1>6 DEF SuIncidencia
<1>9. \A x \in Partidos : ~Propia(t, x)'
    BY <1>1 DEF CuentaGol, Propia
<1>10. CuentaGol(t)'
    <2>1. Candado(t, p, "FOR_KEY_SHARE") \in candados /\ SuIncidencia(t) \in incidencias
        BY <1>1, <1>2 DEF CuentaGol
    <2>2. ~tx[t].copia.acta
        BY <1>1 DEF CuentaGol
    <2>3. p = tx'[t].pedido.fila
        BY <1>2, <1>6
    <2>4. QED
        BY <1>1, <1>6, <1>7, <1>8, <1>9, <2>1, <2>2, <2>3 DEF CuentaGol, GolesDe
<1>11. QED
    BY <1>1, <1>6, <1>10, SigueDeTipo DEF Cuenta, EsGol

LEMMA CompararCuenta ==
    ASSUME IInv, Marca, NEW t \in Transacciones, Pasa(t), CompararCopia(t)
    PROVE  Cuenta(t)'
<1>1. /\ tx[t] \in Tx /\ tx[t].paso = "comparar" /\ EsGol(t) /\ CuentaGol(t)
      /\ UNCHANGED <<base, actual, incidencias, candados>>
    BY SoloGoles DEF IInv, Tipos, CompararCopia
<1>2. PICK p \in Partidos : p = tx[t].pedido.fila
    BY <1>1, SoloGoles
<1>3. /\ tx[t].copia.goles \in 1..GolesDe(t, p) /\ ~tx[t].copia.acta /\ ~Propia(t, p)
      /\ base[p] \in FilaPartido /\ tx[t].copia \in FilaPartido
    BY <1>1, <1>2 DEF CuentaGol, IInv, Tipos, Version, Fases, FaseBien
<1>4. PICK k : k = {c \in DOMAIN base[p] : tx[t].copia[c] # base[p][c]}
    OBVIOUS
<1>5. tx' = [tx EXCEPT ![t].paso = "escribir", ![t].cambios = k]
    BY <1>2, <1>3, <1>4 DEF CompararCopia, Vista
<1>6. /\ tx'[t].paso = "escribir" /\ tx'[t].cambios = k /\ tx'[t].copia = tx[t].copia
      /\ tx'[t].pedido = tx[t].pedido
    BY <1>1, <1>5 DEF IInv, Tipos, Tx
<1>7. ("goles" \in k \/ base[p].goles = tx[t].copia.goles) /\ ("acta" \in k \/ ~base[p].acta)
    BY <1>3, <1>4 DEF FilaPartido
<1>8. GolesDe(t, p)' = GolesDe(t, p)
    BY <1>1, MisVistos
<1>9. SuIncidencia(t)' = SuIncidencia(t) /\ \A x \in Partidos : ~Propia(t, x)'
    BY <1>1, <1>6 DEF SuIncidencia, CuentaGol, Propia
<1>10. CuentaGol(t)'
    <2>1. Candado(t, p, "FOR_KEY_SHARE") \in candados /\ SuIncidencia(t) \in incidencias
        BY <1>1, <1>2 DEF CuentaGol
    <2>2. p = tx'[t].pedido.fila
        BY <1>2, <1>6
    <2>3. QED
        BY <1>1, <1>3, <1>6, <1>7, <1>8, <1>9, <2>1, <2>2 DEF CuentaGol, GolesDe
<1>11. QED
    BY <1>1, <1>6, <1>10, SigueDeTipo DEF Cuenta, EsGol

LEMMA EscribirCuenta ==
    ASSUME IInv, Marca, NEW t \in Transacciones, Pasa(t), EscribirCopia(t)
    PROVE  Cuenta(t)'
<1>1. /\ tx[t] \in Tx /\ tx[t].paso = "escribir" /\ EsGol(t) /\ CuentaGol(t)
      /\ UNCHANGED <<base, incidencias>>
    BY SoloGoles DEF IInv, Tipos, EscribirCopia
<1>2. PICK p \in Partidos : p = tx[t].pedido.fila
    BY <1>1, SoloGoles
<1>3. /\ tx'[t].paso \in {"clave", "cascada"} /\ tx'[t].pedido = tx[t].pedido
    BY <1>1 DEF EscribirCopia, Sigue, IInv, Tipos, Tx
<1>4. /\ tx[t].copia.goles \in 1..GolesDe(t, p) /\ ~tx[t].copia.acta
      /\ Candado(t, p, "FOR_KEY_SHARE") \in candados /\ SuIncidencia(t) \in incidencias
      /\ "goles" \in tx[t].cambios \/ base[p].goles \in 1..GolesDe(t, p)
      /\ "acta" \in tx[t].cambios \/ ~base[p].acta
      /\ \A x \in Partidos : ~Propia(t, x)
    BY <1>1, <1>2 DEF CuentaGol
<1>5. /\ Vista(t, p)'.goles \in 1..GolesDe(t, p) /\ ~Vista(t, p)'.acta
      /\ \A x \in Partidos : Propia(t, x)' => x = p
      /\ Candado(t, p, "FOR_KEY_SHARE") \in candados'
    <2>1. CASE tx[t].cambios = {}
        <3>1. candados' = candados
            BY <1>2, <2>1 DEF EscribirCopia
        <3>2. \A x \in Partidos : ~Propia(t, x)'
            BY <1>4, <3>1 DEF Propia
        <3>3. QED
            BY <1>1, <1>4, <2>1, <3>1, <3>2 DEF Vista
    <2>2. CASE tx[t].cambios # {}
        <3>1. /\ candados' = candados \cup {Candado(t, p, "UPDATE")} /\ Libre(t, p, "UPDATE")
              /\ actual' = [actual EXCEPT ![p] = [c \in DOMAIN @ |->
                                IF c \in tx[t].cambios THEN tx[t].copia[c] ELSE @[c]]]
            BY <1>2, <2>2 DEF EscribirCopia, Toma
        <3>2. Propia(t, p)' /\ \A x \in Partidos : Propia(t, x)' => x = p
            BY <1>4, <3>1, TomarEsTener
        <3>3. actual[p] = base[p] /\ actual[p] \in FilaPartido
            BY <1>4, <3>1, FilaBien, LibreEsGuardada DEF IInv, Tipos, Version
        <3>4. /\ actual'[p].goles = IF "goles" \in tx[t].cambios THEN tx[t].copia.goles ELSE base[p].goles
              /\ actual'[p].acta = IF "acta" \in tx[t].cambios THEN tx[t].copia.acta ELSE base[p].acta
            BY <3>1, <3>3, FilaBien DEF IInv, Tipos, Version, FilaPartido
        <3>5. Vista(t, p)' = actual'[p]
            BY <3>2 DEF Vista
        <3>6. QED
            BY <1>4, <3>1, <3>2, <3>4, <3>5
    <2>3. QED
        BY <2>1, <2>2
<1>6. GolesDe(t, p)' = GolesDe(t, p) /\ SuIncidencia(t)' = SuIncidencia(t)
    BY <1>1, <1>3, MisVistos DEF SuIncidencia
<1>7. CuentaGol(t)'
    <2>1. p = tx'[t].pedido.fila
        BY <1>2, <1>3
    <2>2. QED
        BY <1>1, <1>3, <1>4, <1>5, <1>6, <2>1 DEF CuentaGol, GolesDe, Vista, Propia
<1>8. QED
    BY <1>1, <1>3, <1>7, SigueDeTipo DEF Cuenta, EsGol

\* A step of the cascade leaves the matches as they are.
LEMMA SinPartidos ==
    ASSUME IInv, Marca, NEW t \in Transacciones, Pasa(t), tx[t].paso \in {"clave", "cascada"},
           tx'[t].paso = "cascada", UNCHANGED <<base, incidencias>>, candados \subseteq candados',
           \A x \in Partidos : actual'[x] = actual[x] /\ (Propia(t, x)' <=> Propia(t, x))
    PROVE  Cuenta(t)'
<1>1. Cuenta(t) /\ tx'[t].pedido = tx[t].pedido /\ tx[t].pedido \in Pedidos
    BY SigueDeTipo DEF IInv, Tipos, Tx
<1>2. ASSUME EsGol(t)
      PROVE  CuentaGol(t)'
    <2>1. PICK p \in Partidos : p = tx[t].pedido.fila /\ p = tx'[t].pedido.fila
        BY <1>1, <1>2, PedidoBien DEF EsGol
    <2>2. CuentaGol(t)
        BY <1>1, <1>2 DEF Cuenta
    <2>3. /\ \A x \in Partidos : Propia(t, x)' => x = p
          /\ Candado(t, p, "FOR_KEY_SHARE") \in candados' /\ SuIncidencia(t) \in incidencias'
          /\ Vista(t, p).goles \in 1..GolesDe(t, p) /\ ~Vista(t, p).acta
        BY <2>1, <2>2 DEF CuentaGol
    <2>4. /\ GolesDe(t, p)' = GolesDe(t, p) /\ Vista(t, p)' = Vista(t, p)
          /\ SuIncidencia(t)' = SuIncidencia(t)
        BY <1>1, MisVistos DEF Vista, SuIncidencia
    <2>5. QED
        BY <2>1, <2>3, <2>4 DEF CuentaGol, Vista, GolesDe, Propia
<1>3. ASSUME tx[t].pedido.tipo = "CERRAR"
      PROVE  CuentaCerrar(t)'
    <2>1. PICK p \in Partidos : p = tx[t].pedido.fila /\ p = tx'[t].pedido.fila
        BY <1>1, <1>3, PedidoBien
    <2>2. tx[t].paso = "cascada" /\ CuentaCerrar(t)
        BY <1>1, <1>3 DEF Cuenta, IInv, Fases, FaseBien
    <2>3. Firmes(p)' = Firmes(p)
        BY MisFirmes
    <2>4. /\ \A x \in Partidos : Propia(t, x)' => x = p
          /\ Candado(t, p, "FOR_UPDATE") \in candados'
          /\ Firmes(p)' # {} => actual'[p].goles = Cardinality(Firmes(p)')
        BY <2>1, <2>2, <2>3 DEF CuentaCerrar
    <2>5. QED
        BY <2>1, <2>4 DEF CuentaCerrar, Firmes
<1>4. CuentaFecha(t) => CuentaFecha(t)'
    BY DEF CuentaFecha
<1>5. QED
    BY <1>1, <1>2, <1>3, <1>4 DEF Cuenta, EsGol

LEMMA CascadaCuenta ==
    ASSUME IInv, Marca, NEW t \in Transacciones, Pasa(t),
           ClaveFecha(t) \/ EvaluarCierre(t) \/ RevertirCierre(t)
    PROVE  Cuenta(t)'
<1>1. CASE ClaveFecha(t)
    <2>1. /\ tx[t] \in Tx /\ tx[t].paso = "clave" /\ UNCHANGED <<base, actual, incidencias>>
          /\ candados' = candados \cup {Candado(t, tx[t].copia.fecha, "FOR_KEY_SHARE")}
        BY <1>1 DEF IInv, Tipos, ClaveFecha, Toma
    <2>2. \A x : Propia(t, x)' <=> Propia(t, x)
        BY <2>1 DEF Propia, Candado
    <2>3. tx'[t].paso = "cascada"
        BY <1>1, <2>1 DEF ClaveFecha, Sigue, IInv, Tipos, Tx
    <2>4. QED
        BY <2>1, <2>2, <2>3, SinPartidos
<1>2. CASE EvaluarCierre(t) \/ RevertirCierre(t)
    <2>1. /\ tx[t] \in Tx /\ tx[t].paso = "cascada" /\ UNCHANGED <<base, incidencias>>
          /\ tx[t].trabajos # <<>> /\ tx' = [tx EXCEPT ![t].trabajos = Tail(@)]
          /\ Head(tx[t].trabajos).op \in {"evaluar", "revertir"}
        BY <1>2 DEF IInv, Tipos, EvaluarCierre, RevertirCierre, HaceTrabajo
    <2>2. PICK f \in Fechas : f = Head(tx[t].trabajos).fila
        BY <2>1, Trabajando DEF DeFecha, DePartido
    <2>3. /\ candados' = candados \cup {Candado(t, f, "FOR_UPDATE")}
          /\ \A x \in Partidos : actual'[x] = actual[x]
        BY <1>2, <2>2, FilaBien DEF EvaluarCierre, RevertirCierre, Toma, IInv, Tipos, Version
    <2>4. \A x \in Partidos : Propia(t, x)' <=> Propia(t, x)
        BY <2>3, FilaBien, TomarEsTener
    <2>5. tx'[t].paso = "cascada"
        BY <2>1 DEF IInv, Tipos, Tx
    <2>6. QED
        BY <2>1, <2>3, <2>4, <2>5, SinPartidos
<1>3. QED
    BY <1>1, <1>2

\* suspenderFecha takes matches and leaves their score.
LEMMA FechaCuenta ==
    ASSUME IInv, Marca, NEW t \in Transacciones, Pasa(t),
           LeerFecha(t) \/ ReservarPartido(t) \/ MarcarFecha(t) \/ ArrastrarPartidos(t)
    PROVE  Cuenta(t)'
<1>1. /\ tx[t] \in Tx /\ tx[t].pedido.tipo = "SUSPENDER_FECHA" /\ UNCHANGED <<base, incidencias>>
      /\ tx'[t].pedido = tx[t].pedido /\ CuentaFecha(t)
    BY SigueDeTipo DEF IInv, Tipos, Fases, FaseBien, LeerFecha, Rechaza, ReservarPartido,
           MarcarFecha, ArrastrarPartidos, Cuenta
<1>2. \A x \in Partidos : actual'[x].goles = actual[x].goles /\ actual'[x].acta = actual[x].acta
    <2>1. CASE LeerFecha(t) \/ ReservarPartido(t)
        BY <2>1 DEF LeerFecha, Rechaza, ReservarPartido
    <2>2. CASE MarcarFecha(t)
        <3>1. PICK f \in Fechas : f = tx[t].pedido.fila
            BY <1>1, PedidoBien DEF Tx
        <3>2. QED
            BY <2>2, <3>1, FilaBien DEF MarcarFecha, IInv, Tipos, Version
    <2>3. CASE ArrastrarPartidos(t)
        <3>1. PICK S \in SUBSET Partidos : S = Pendientes(t)
            BY <2>3, Arrastrados
        <3>2. actual' = [x \in Filas |-> IF x \in S
                                 THEN [actual[x] EXCEPT !.estado = "SUSPENDIDO_FUERZA_MAYOR"]
                                 ELSE actual[x]]
            BY <2>3, <3>1, Arrastrados
        <3>3. QED
            BY <3>2, FilaBien DEF IInv, Tipos, Version, FilaPartido
    <2>4. QED
        BY <2>1, <2>2, <2>3
<1>3. ASSUME NEW x \in Partidos, Propia(t, x)'
      PROVE  actual'[x].goles = base'[x].goles /\ actual'[x].acta = base'[x].acta
    <2>1. CASE Propia(t, x)
        BY <1>1, <1>2, <2>1 DEF CuentaFecha
    <2>2. CASE ~Propia(t, x)
        <3>1. PICK c \in candados' : c.t = t /\ c.fila = x /\ c.modo \in {"FOR_UPDATE", "UPDATE"}
            BY <1>3 DEF Propia
        <3>2. Libre(t, x, c.modo)
            BY <2>2, <3>1 DEF Propia, Pasa, Suyo
        <3>3. actual[x] = base[x]
            BY <2>2, <3>1, <3>2, FilaBien, LibreEsGuardada
        <3>4. QED
            BY <1>1, <1>2, <3>3
    <2>3. QED
        BY <2>1, <2>2
<1>4. CuentaFecha(t)'
    BY <1>3 DEF CuentaFecha
<1>5. QED
    BY <1>1, <1>4 DEF Cuenta, EsGol

\* cerrarActa counts with the match locked: no goal of another request is on its way, and
\* its own are none.
LEMMA CerrarCuenta ==
    ASSUME IInv, Marca, NEW t \in Transacciones, Pasa(t), CerrarActa(t)
    PROVE  Cuenta(t)'
<1>1. /\ tx[t] \in Tx /\ tx[t].paso = "inicio" /\ tx[t].pedido.tipo = "CERRAR"
      /\ tx'[t].pedido = tx[t].pedido /\ UNCHANGED <<base, incidencias>>
    BY DEF IInv, Tipos, CerrarActa, CerrarActaCon, Rechaza, Pasa, Suyo
<1>2. PICK p \in Partidos : p = tx[t].pedido.fila /\ p = tx'[t].pedido.fila
    BY <1>1, PedidoBien DEF Tx
<1>3. \A x : ~Propia(t, x)
    BY <1>1 DEF Propia, IInv, Rastros
<1>4. CASE Rechaza(t)
    <2>1. tx'[t].paso = "anulada" /\ \A x : ~Propia(t, x)'
        BY <1>1, <1>3, <1>4 DEF Rechaza, Sigue, IInv, Tipos, Tx, Propia
    <2>2. QED
        BY <2>1, NadaTiene
<1>5. CASE ~Rechaza(t)
    <2>1. PICK w, n : w = <<Trabajo("evaluar", actual[p].fecha)>> /\ n = tx[t].pedido.goles
        OBVIOUS
    <2>2. /\ candados' = candados \cup {Candado(t, p, "FOR_UPDATE")}
          /\ tx' = [tx EXCEPT ![t].paso = "cascada", ![t].trabajos = w]
          /\ actual' = [actual EXCEPT ![p] = [actual[p] EXCEPT !.estado = "FINALIZADO", !.acta = TRUE,
                                                              !.goles = n]]
          /\ GolesDe(t, p) = 0 \/ n = GolesDe(t, p)
        BY <1>2, <1>5, <2>1 DEF CerrarActa, CerrarActaCon, Toma
    <2>3. tx'[t].paso = "cascada"
        BY <1>1, <2>2 DEF IInv, Tipos, Tx
    <2>4. \A x : Propia(t, x)' => x = p
        BY <1>3, <2>2, TomarEsTener
    <2>5. actual'[p].goles = n
        BY <2>2, FilaBien DEF IInv, Tipos, Version, FilaPartido
    <2>6. Firmes(p)' = Firmes(p)
        BY <1>1, <2>3, MisFirmes
    <2>7. GolesDe(t, p) = Cardinality(Firmes(p))
        BY <1>1, LosDelPartido, SonFinitos DEF Marca, EsGol
    <2>8. Firmes(p) # {} => Cardinality(Firmes(p)) # 0
        BY SonFinitos, FS_EmptySet
    <2>9. /\ Candado(t, p, "FOR_UPDATE") \in candados'
          /\ Firmes(p)' # {} => actual'[p].goles = Cardinality(Firmes(p)')
        BY <2>2, <2>5, <2>6, <2>7, <2>8
    <2>10. CuentaCerrar(t)'
        BY <1>2, <2>4, <2>9 DEF CuentaCerrar, Firmes
    <2>11. QED
        BY <1>1, <2>10 DEF Cuenta, EsGol
<1>6. QED
    BY <1>4, <1>5

LEMMA AcabarCuenta ==
    ASSUME IInv, Marca, NEW t \in Transacciones, Pasa(t), Confirmar(t) \/ Abortar(t)
    PROVE  Cuenta(t)'
<1>1. PICK s \in {"confirmada", "anulada"} : Acabado(t, s)
    BY DEF Confirmar, Abortar, Suelta, Sigue, Acabado
<1>2. tx'[t].paso \in {"confirmada", "anulada"} /\ \A x \in Partidos : ~Propia(t, x)'
    BY <1>1, AcabaBien, FilaBien
<1>3. QED
    BY <1>2, NadaTiene

LEMMA MarcaPaso == IInv /\ IInv' /\ Marca /\ [Next]_vars => Marca'
<1>1. ASSUME IInv, IInv', Marca, NEW t \in Transacciones, Avanza(t) \/ Abortar(t)
      PROVE  Marca'
    <2>1. Pasa(t)
        BY <1>1, AvanzaPasa
    <2>2. Cuenta(t)'
        BY <1>1, <2>1, CerrarCuenta, LeerCuenta, InsertarCuenta, ContarCuenta, CompararCuenta,
           EscribirCuenta, CascadaCuenta, FechaCuenta, AcabarCuenta DEF Avanza
    <2>3. \A u \in Transacciones \ {t} : Cuenta(u)'
        BY <1>1, <2>1, OtraCuenta
    <2>4. MarcadorDelActa' /\ Pedidas'
        BY <1>1, <2>1, MarcadorSigue, SiguenPedidas DEF Marca
    <2>5. QED
        BY <2>2, <2>3, <2>4 DEF Marca
<1>2. ASSUME Marca, UNCHANGED vars
      PROVE  Marca'
    <2>1. MarcadorDelActa' /\ Pedidas'
        BY <1>2 DEF vars, Marca, MarcadorDelActa, Firmes, Pedidas
    <2>2. ASSUME NEW t \in Transacciones
          PROVE  Cuenta(t)'
        <3>1. /\ \A x : (Propia(t, x)' <=> Propia(t, x)) /\ Vista(t, x)' = Vista(t, x)
              /\ \A x : GolesDe(t, x)' = GolesDe(t, x) /\ Firmes(x)' = Firmes(x)
              /\ SuIncidencia(t)' = SuIncidencia(t)
            BY <1>2 DEF vars, Propia, Vista, GolesDe, Firmes, SuIncidencia
        <3>2. Cuenta(t)
            BY <1>2 DEF Marca
        <3>3. CuentaGol(t) => CuentaGol(t)'
            BY <1>2, <3>1 DEF vars, CuentaGol
        <3>4. (CuentaCerrar(t) => CuentaCerrar(t)') /\ (CuentaFecha(t) => CuentaFecha(t)')
            BY <1>2, <3>1 DEF vars, CuentaCerrar, CuentaFecha
        <3>5. QED
            BY <1>2, <3>1, <3>2, <3>3, <3>4 DEF vars, Cuenta, EsGol
    <2>3. QED
        BY <2>1, <2>2 DEF Marca
<1>3. QED
    BY <1>1, <1>2 DEF Next, Reposo

LEMMA MarcaInicio ==
    ASSUME SoloCargan, Init
    PROVE  Marca
<1>1. /\ \A t \in Transacciones :
             tx[t].paso = "inicio" /\ tx[t].pedido.tipo \in {"CERRAR", "GOL", "ROJA", "SUSPENDER_FECHA"}
      /\ incidencias = {} /\ candados = {}
    BY DEF Init, SoloCargan
<1>2. MarcadorDelActa
    BY <1>1 DEF MarcadorDelActa, Firmes
<1>3. \A t, x : ~Propia(t, x)
    BY <1>1 DEF Propia
<1>4. \A t \in Transacciones : Cuenta(t)
    BY <1>1, <1>3 DEF Cuenta, CuentaGol, CuentaCerrar, CuentaFecha
<1>5. QED
    BY <1>1, <1>2, <1>4 DEF Marca, Pedidas
-----------------------------------------------------------------------------
(* Requests that make matches pending again                                *)

\* Matches are also reopened and moved.  What is opened are the matchdays of one number (a
\* matchday and its twins): there are the reopened matches, there the moved ones go, and the
\* matchdays that are suspended meanwhile are not later.  A match is not moved while others
\* save it, and no goal is entered (addIncidencia would save its old state).
ReabrenUna ==
    \A e \in Escenarios : \E n \in Nat : \A t \in Transacciones : \A s \in e.pedidos[t] :
        /\ s.tipo # "GOL"
        /\ s.tipo = "REABRIR" => \A f \in e.fechas[s.fila] : NumeroDe[f] = n
        /\ s.tipo = "MOVER" =>
               /\ NumeroDe[s.destino] = n
               /\ \A u \in Transacciones \ {t} : \A r \in e.pedidos[u] :
                      r.fila = s.fila => r.tipo = "ROJA"
        /\ s.tipo = "SUSPENDER_FECHA" => NumeroDe[s.fila] <= n

Reparte(t, n) ==
    LET s == tx[t].pedido
    IN  /\ s.tipo # "GOL"
        /\ s.tipo = "REABRIR" => NumeroDe[base[s.fila].fecha] = n
        /\ s.tipo = "MOVER" =>
               /\ NumeroDe[s.destino] = n
               /\ \A u \in Transacciones \ {t} :
                      tx[u].pedido.fila = s.fila => tx[u].pedido.tipo = "ROJA"
        /\ s.tipo = "SUSPENDER_FECHA" => NumeroDe[s.fila] <= n

\* Only who reopens or moves a match reverts, and nobody closes what it opened.
Encargos(t, n) ==
    LET s == tx[t].pedido
    IN  \A i \in DOMAIN tx[t].trabajos :
            LET w == tx[t].trabajos[i]
            IN  /\ w.op = "revertir" => s.tipo \in {"REABRIR", "MOVER"} /\ NumeroDe[w.fila] = n
                /\ w.op = "evaluar" => /\ s.tipo \in {"CERRAR", "SUSPENDER", "MOVER"}
                                       /\ s.tipo = "MOVER" => w.fila # s.destino

\* A request that opens a match reverts its matchday, or has done it: and then the matchday
\* is its own, and open unless a later one is closed (and a later one stays closed).
Encargado(t, f) == \E i \in DOMAIN tx[t].trabajos : tx[t].trabajos[i] = Trabajo("revertir", f)
Cubre(t, n, f) ==
    /\ Propia(t, f) /\ NumeroDe[f] = n
    /\ \/ actual[f].estado # "FINALIZADA"
       \/ \E g \in Fechas : NumeroDe[g] > n /\ Vista(t, g).estado = "FINALIZADA"
Debe(t, n, f) == Encargado(t, f) \/ Cubre(t, n, f)

\* What each request makes of the matches it has
SinReabrir(t) == \A p \in Partidos : Propia(t, p) =>
    /\ actual[p].fecha = base[p].fecha
    /\ Resuelta(base[p]) => Resuelta(actual[p])

Libera(t) == \A x \in Partidos : ~Propia(t, x)

LlevaSuspender(t) ==
    LET s == tx[t]
        p == s.pedido.fila
    IN  /\ SinReabrir(t)
        /\ s.paso \in {"comparar", "escribir"} =>
               s.copia.fecha = base[p].fecha /\ Resuelta(s.copia) /\ Libera(t)
        /\ s.paso = "escribir" => "fecha" \notin s.cambios

LlevaReabrir(t, n) ==
    LET s == tx[t]
        p == s.pedido.fila
        f == base[p].fecha
    IN  /\ \A x \in Partidos : Propia(t, x) => x = p /\ actual[p].fecha = f
        /\ s.paso \in {"comparar", "escribir"} => s.copia.fecha = f /\ Libera(t)
        /\ s.paso = "escribir" => "fecha" \notin s.cambios
        /\ s.paso \in {"comparar", "escribir", "clave", "cascada"} => Debe(t, n, f)

LlevaMover(t, n) ==
    LET s == tx[t]
        p == s.pedido.fila
        d == s.pedido.destino
    IN  /\ \A x \in Partidos : Propia(t, x) => x = p /\ actual[p].fecha = d
        /\ s.paso \in {"comparar", "escribir"} =>
               /\ s.copia.fecha = d /\ base[p].fecha # d /\ Libera(t)
               /\ Resuelta(s.copia) => Resuelta(base[p])
               /\ Resuelta(s.copia) \/ Debe(t, n, d)
        /\ s.paso = "escribir" => "fecha" \in s.cambios
        /\ s.paso \in {"clave", "cascada"} =>
               Propia(t, p) /\ (Resuelta(actual[p]) \/ Debe(t, n, d))

Lleva(t, n) ==
    LET s == tx[t]
    IN  /\ s.pedido.tipo \in {"CERRAR", "SUSPENDER_FECHA"} =>
               SinReabrir(t) /\ s.paso \notin {"comparar", "escribir"}
        /\ s.pedido.tipo = "SUSPENDER" => LlevaSuspender(t)
        /\ s.pedido.tipo = "REABRIR" => LlevaReabrir(t, n)
        /\ s.pedido.tipo = "MOVER" => LlevaMover(t, n)
        /\ s.pedido.tipo = "ROJA" =>
               Libera(t) /\ s.paso \in {"inicio", "insertar", "cascada", "confirmada", "anulada"}

\* Who closed a matchday sees its matches resolved, and goes on seeing them so.
Vio(t) == \A f \in Fechas :
    Propia(t, f) /\ actual[f].estado = "FINALIZADA" /\ base[f].estado # "FINALIZADA" =>
        \A p \in PartidosEn(t, f) : Resuelta(Vista(t, p))

\* Matchdays are taken last, and suspenderFecha closes none.
Fechada(t) == \A f \in Fechas : Propia(t, f) =>
    IF tx[t].pedido.tipo = "SUSPENDER_FECHA" THEN actual[f].estado # "FINALIZADA"
                                             ELSE tx[t].paso = "cascada"

\* Later matchdays stay closed.
Fijas(n) == \A g \in Fechas :
    NumeroDe[g] > n /\ base[g].estado = "FINALIZADA" => actual[g].estado = "FINALIZADA"

Posterior(n) == \E g \in Fechas : NumeroDe[g] > n /\ base[g].estado = "FINALIZADA"
Cerradas(n) == \A f \in Fechas : base[f].estado = "FINALIZADA" =>
    (\A p \in De(f) : Resuelta(base[p])) \/ (NumeroDe[f] = n /\ Posterior(n))

Suya(t, n) == Reparte(t, n) /\ Encargos(t, n) /\ Lleva(t, n) /\ Vio(t) /\ Fechada(t)
Reabre(n) == (\A t \in Transacciones : Suya(t, n)) /\ Fijas(n) /\ Cerradas(n)

\* What a step of t commits in a match: it stays where it is and does not become pending, or
\* it is the match that t reopens or moves, and then it is resolved or its matchday covered.
Queda(p) == base'[p].fecha = base[p].fecha /\ (Resuelta(base[p]) => Resuelta(base'[p]))
Abre(t, n, p) ==
    /\ p = tx[t].pedido.fila /\ tx[t].pedido.tipo \in {"REABRIR", "MOVER"} /\ Confirmar(t)
    /\ tx[t].pedido.tipo = "REABRIR" => base'[p].fecha = base[p].fecha
    /\ Resuelta(base'[p]) \/ Cubre(t, n, base'[p].fecha)

LEMMA Cambia ==
    ASSUME IInv, NEW t \in Transacciones, Avanza(t) \/ Abortar(t), NEW n, Suya(t, n),
           NEW p \in Partidos
    PROVE  Queda(p) \/ Abre(t, n, p)
<1>1. CASE base'[p] = base[p]
    BY <1>1 DEF Queda, Resuelta
<1>2. CASE base'[p] # base[p]
    <2>1. /\ Confirmar(t) /\ Propia(t, p) /\ base'[p] = actual[p]
          /\ tx[t].paso = "cascada" /\ tx[t].trabajos = <<>>
        BY <1>2, FilaBien, SoloGuarda DEF Confirmar
    <2>2. \A f : ~Encargado(t, f)
        BY <2>1 DEF Encargado
    <2>3. Lleva(t, n) /\ Reparte(t, n) /\ tx[t].pedido \in Pedidos
        BY DEF Suya, IInv, Tipos, Tx
    <2>4. CASE tx[t].pedido.tipo \in {"CERRAR", "SUSPENDER", "SUSPENDER_FECHA"}
        <3>1. SinReabrir(t)
            BY <2>3, <2>4 DEF Lleva, LlevaSuspender
        <3>2. QED
            BY <2>1, <3>1 DEF SinReabrir, Queda, Resuelta
    <2>5. CASE tx[t].pedido.tipo = "REABRIR"
        <3>1. p = tx[t].pedido.fila /\ actual[p].fecha = base[p].fecha /\ Debe(t, n, base[p].fecha)
            BY <2>1, <2>3, <2>5 DEF Lleva, LlevaReabrir
        <3>2. QED
            BY <2>1, <2>2, <2>5, <3>1 DEF Abre, Debe
    <2>6. CASE tx[t].pedido.tipo = "MOVER"
        <3>1. /\ p = tx[t].pedido.fila /\ actual[p].fecha = tx[t].pedido.destino
              /\ Resuelta(actual[p]) \/ Debe(t, n, tx[t].pedido.destino)
            BY <2>1, <2>3, <2>6 DEF Lleva, LlevaMover
        <3>2. QED
            BY <2>1, <2>2, <2>6, <3>1 DEF Abre, Debe, Resuelta
    <2>7. tx[t].pedido.tipo # "ROJA"
        BY <2>1, <2>3 DEF Lleva, Libera
    <2>8. QED
        BY <2>3, <2>4, <2>5, <2>6, <2>7, PedidoBien DEF Reparte
<1>3. QED
    BY <1>1, <1>2

\* Later matchdays stay closed.
LEMMA FijaQueda ==
    ASSUME IInv, NEW t \in Transacciones, Avanza(t) \/ Abortar(t), NEW n, Fijas(n),
           NEW g \in Fechas, NumeroDe[g] > n, base[g].estado = "FINALIZADA"
    PROVE  base'[g].estado = "FINALIZADA"
BY FilaBien, SoloGuarda DEF Fijas

LEMMA CubreAjena ==
    ASSUME IInv, IInv', NEW t \in Transacciones, Avanza(t) \/ Abortar(t), Pasa(t), NEW n, Fijas(n),
           NEW u \in Transacciones, u # t, NEW f \in Fechas, Cubre(u, n, f)
    PROVE  Cubre(u, n, f)'
<1>1. Propia(u, f)' /\ actual'[f] = actual[f] /\ NumeroDe[f] = n
    BY FilasAjenas, FilaBien DEF Cubre
<1>2. ASSUME NEW g \in Fechas, NumeroDe[g] > n, Vista(u, g).estado = "FINALIZADA"
      PROVE  Vista(u, g)'.estado = "FINALIZADA"
    <2>1. CASE Propia(u, g)
        BY <1>2, <2>1, FilasAjenas, FilaBien DEF Vista
    <2>2. CASE ~Propia(u, g)
        <3>1. ~Propia(u, g)' /\ base'[g].estado = "FINALIZADA"
            BY <1>2, <2>2, Ajenas, FijaQueda DEF Vista, Pasa
        <3>2. QED
            BY <3>1 DEF Vista
    <2>3. QED
        BY <2>1, <2>2
<1>3. QED
    BY <1>1, <1>2 DEF Cubre

LEMMA VioAjena ==
    ASSUME IInv, IInv', NEW t \in Transacciones, Avanza(t) \/ Abortar(t), Pasa(t), NEW n,
           Suya(t, n), NEW u \in Transacciones, u # t, Vio(u)
    PROVE  Vio(u)'
<1>1. ASSUME NEW f \in Fechas, Propia(u, f)', actual'[f].estado = "FINALIZADA",
             base'[f].estado # "FINALIZADA", NEW p \in Partidos, Vista(u, p)'.fecha = f
      PROVE  Resuelta(Vista(u, p))'
    <2>1. Propia(u, f)
        BY <1>1, Ajenas DEF Pasa
    <2>2. actual'[f] = actual[f] /\ base'[f] = base[f] /\ ~Propia(t, f)
        BY <2>1, FilasAjenas, FilaBien, UnDueno DEF IInv
    <2>3. p \in PartidosEn(u, f) => Resuelta(Vista(u, p))
        BY <1>1, <2>1, <2>2 DEF Vio
    <2>4. CASE Propia(u, p)
        BY <1>1, <2>3, <2>4, FilasAjenas, FilaBien DEF Vista, Resuelta, PartidosEn
    <2>5. CASE ~Propia(u, p)
        <3>1. ~Propia(u, p)'
            BY <2>5, Ajenas DEF Pasa
        <3>2. CASE Queda(p)
            BY <1>1, <2>3, <2>5, <3>1, <3>2 DEF Vista, Resuelta, PartidosEn, Queda
        <3>3. CASE Abre(t, n, p)
            BY <1>1, <2>2, <3>1, <3>3 DEF Abre, Cubre, Vista, Resuelta
        <3>4. QED
            BY <3>2, <3>3, Cambia
    <2>6. QED
        BY <2>4, <2>5
<1>2. QED
    BY <1>1 DEF Vio, PartidosEn

\* The match of a request that does not insert a card is only moved by it.
LEMMA Ajeno ==
    ASSUME IInv, NEW t \in Transacciones, Avanza(t) \/ Abortar(t), NEW n, Suya(t, n),
           NEW u \in Transacciones, u # t, Reparte(u, n), tx[u].pedido.tipo # "ROJA",
           NEW p \in Partidos, p = tx[u].pedido.fila
    PROVE  /\ base'[p].fecha = base[p].fecha
           /\ tx[u].pedido.tipo = "MOVER" => Queda(p)
<1>1. Queda(p) \/ Abre(t, n, p)
    BY Cambia
<1>2. tx[t].pedido.tipo = "MOVER" => tx[t].pedido.fila # p
    BY DEF Suya, Reparte
<1>3. tx[u].pedido.tipo = "MOVER" /\ tx[t].pedido.fila = p => tx[t].pedido.tipo = "ROJA"
    BY DEF Reparte
<1>4. QED
    BY <1>1, <1>2, <1>3 DEF Queda, Abre

LEMMA OtraReparte ==
    ASSUME IInv, NEW t \in Transacciones, Avanza(t) \/ Abortar(t), Pasa(t), NEW n,
           \A u \in Transacciones : Suya(u, n), NEW u \in Transacciones
    PROVE  Reparte(u, n)'
<1>1. Reparte(u, n) /\ \A v \in Transacciones : tx'[v].pedido = tx[v].pedido
    BY DEF Suya, Pasa, Suyo
<1>2. ASSUME tx[u].pedido.tipo = "REABRIR"
      PROVE  base'[tx[u].pedido.fila].fecha = base[tx[u].pedido.fila].fecha
    <2>1. PICK p \in Partidos : p = tx[u].pedido.fila
        BY <1>2, PedidoBien DEF IInv, Tipos, Tx
    <2>2. CASE u # t
        BY <1>1, <1>2, <2>1, <2>2, Ajeno
    <2>3. CASE u = t
        BY <1>2, <2>1, <2>3, Cambia DEF Queda, Abre
    <2>4. QED
        BY <2>1, <2>2, <2>3
<1>3. QED
    BY <1>1, <1>2 DEF Reparte

\* So a step of another request keeps the invariant of one.
LEMMA OtraLleva ==
    ASSUME IInv, IInv', NEW t \in Transacciones, Avanza(t) \/ Abortar(t), Pasa(t), NEW n,
           Suya(t, n), Fijas(n), NEW u \in Transacciones, u # t, Suya(u, n)
    PROVE  Lleva(u, n)'
<1>1. tx'[u] = tx[u] /\ tx[u] \in Tx /\ tx[u].pedido \in Pedidos /\ Lleva(u, n) /\ Reparte(u, n)
    BY DEF Pasa, Suyo, IInv, Tipos, Tx, Suya
<1>2. \A x : Propia(u, x)' <=> Propia(u, x)
    BY Ajenas DEF Pasa
<1>3. \A x \in Partidos : Propia(u, x) => actual'[x] = actual[x] /\ base'[x] = base[x]
    BY FilasAjenas, FilaBien
<1>4. SinReabrir(u) => SinReabrir(u)'
    BY <1>2, <1>3 DEF SinReabrir, Resuelta
<1>5. (Libera(u)' <=> Libera(u)) /\ \A f : Encargado(u, f)' <=> Encargado(u, f)
    BY <1>1, <1>2 DEF Libera, Encargado
<1>6. \A f \in Fechas : Debe(u, n, f) => Debe(u, n, f)'
    BY <1>5, CubreAjena DEF Debe
<1>7. CASE tx[u].pedido.tipo \in {"CERRAR", "SUSPENDER_FECHA"}
    BY <1>1, <1>4, <1>7 DEF Lleva
<1>8. CASE tx[u].pedido.tipo = "ROJA"
    BY <1>1, <1>5, <1>8 DEF Lleva
<1>9. CASE tx[u].pedido.tipo \in {"SUSPENDER", "REABRIR", "MOVER"}
    <2>1. PICK p \in Partidos : p = tx[u].pedido.fila /\ p = tx'[u].pedido.fila
        BY <1>1, <1>9, PedidoBien
    <2>2. base'[p].fecha = base[p].fecha /\ (tx[u].pedido.tipo = "MOVER" => Queda(p))
        BY <1>1, <1>9, <2>1, Ajeno
    <2>3. base[p].fecha \in Fechas /\ tx[u].pedido.destino \in Fechas
        BY <1>1, PedidoBien DEF IInv, Tipos, Version, FilaPartido
    <2>4. CASE tx[u].pedido.tipo = "SUSPENDER"
        <3>1. LlevaSuspender(u)'
            BY <1>1, <1>4, <1>5, <2>1, <2>2, <2>4 DEF Lleva, LlevaSuspender, Resuelta
        <3>2. QED
            BY <1>1, <2>4, <3>1 DEF Lleva
    <2>5. CASE tx[u].pedido.tipo = "REABRIR"
        <3>1. LlevaReabrir(u, n)
            BY <1>1, <2>5 DEF Lleva
        <3>2. LlevaReabrir(u, n)'
            BY <1>1, <1>2, <1>3, <1>5, <1>6, <2>1, <2>2, <2>3, <3>1 DEF LlevaReabrir
        <3>3. QED
            BY <1>1, <2>5, <3>2 DEF Lleva
    <2>6. CASE tx[u].pedido.tipo = "MOVER"
        <3>1. LlevaMover(u, n)
            BY <1>1, <2>6 DEF Lleva
        <3>2. LlevaMover(u, n)'
            BY <1>1, <1>2, <1>3, <1>5, <1>6, <2>1, <2>2, <2>3, <2>6, <3>1 DEF LlevaMover, Queda, Resuelta
        <3>3. QED
            BY <1>1, <2>6, <3>2 DEF Lleva
    <2>7. QED
        BY <1>9, <2>4, <2>5, <2>6
<1>10. QED
    BY <1>1, <1>7, <1>8, <1>9, PedidoBien DEF Reparte

LEMMA OtraSuya ==
    ASSUME IInv, IInv', NEW t \in Transacciones, Avanza(t) \/ Abortar(t), Pasa(t), NEW n,
           \A v \in Transacciones : Suya(v, n), Fijas(n), NEW u \in Transacciones, u # t
    PROVE  Suya(u, n)'
<1>1. tx'[u] = tx[u] /\ Encargos(u, n) /\ Vio(u) /\ Fechada(u)
    BY DEF Pasa, Suyo, Suya
<1>2. Reparte(u, n)' /\ Lleva(u, n)'
    BY OtraReparte, OtraLleva
<1>3. Encargos(u, n)'
    BY <1>1 DEF Encargos
<1>4. Vio(u)'
    BY <1>1, VioAjena
<1>5. \A f \in Fechas : Propia(u, f)' => Propia(u, f) /\ actual'[f] = actual[f]
    BY Ajenas, FilasAjenas, FilaBien DEF Pasa
<1>6. Fechada(u)'
    BY <1>1, <1>5 DEF Fechada
<1>7. QED
    BY <1>2, <1>3, <1>4, <1>6 DEF Suya

\* What a step does to the invariant of its own request
Hace(t, n) == Encargos(t, n)' /\ Lleva(t, n)' /\ Vio(t)' /\ Fechada(t)' /\ Fijas(n)'

LEMMA SonSuyas ==
    ASSUME IInv, NEW t \in Transacciones, Pasa(t), NEW n, Suya(t, n)
    PROVE  /\ tx[t] \in Tx /\ tx[t].pedido \in Pedidos /\ FaseBien(tx[t])
           /\ tx'[t].pedido = tx[t].pedido
           /\ Reparte(t, n) /\ Encargos(t, n) /\ Lleva(t, n) /\ Vio(t) /\ Fechada(t)
           /\ tx[t].pedido.tipo \in {"CERRAR", "SUSPENDER", "REABRIR", "ROJA", "MOVER", "SUSPENDER_FECHA"}
<1>1. tx[t] \in Tx /\ tx[t].pedido \in Pedidos /\ FaseBien(tx[t])
    BY DEF IInv, Tipos, Fases, Tx
<1>2. QED
    BY <1>1, PedidoBien DEF Pasa, Suyo, Suya, Reparte

LEMMA RecienTomada ==
    ASSUME IInv, NEW t \in Transacciones, Pasa(t), NEW x \in Filas, Propia(t, x)', ~Propia(t, x)
    PROVE  actual[x] = base[x]
<1>1. PICK c \in candados' : c.t = t /\ c.fila = x /\ c.modo \in {"FOR_UPDATE", "UPDATE"}
    BY DEF Propia
<1>2. Libre(t, x, c.modo)
    BY <1>1 DEF Propia, Pasa, Suyo
<1>3. QED
    BY <1>1, <1>2, LibreEsGuardada

\* A request that has no matchday closed nothing.
LEMMA SinFechas ==
    ASSUME NEW t \in Transacciones, NEW n, Fijas(n), base' = base,
           \A g \in Fechas : actual'[g] = actual[g] /\ ~Propia(t, g)'
    PROVE  Vio(t)' /\ Fechada(t)' /\ Fijas(n)'
BY DEF Vio, Fechada, Fijas

\* A request that ends keeps nothing.
LEMMA SinNada ==
    ASSUME IInv, NEW t \in Transacciones, Pasa(t), NEW n, Suya(t, n),
           tx'[t].paso \in {"confirmada", "anulada"}, tx'[t].trabajos = tx[t].trabajos,
           \A x \in Filas : ~Propia(t, x)'
    PROVE  Encargos(t, n)' /\ Lleva(t, n)' /\ Vio(t)' /\ Fechada(t)'
<1>1. Encargos(t, n)'
    BY SonSuyas DEF Encargos
<1>2. \A x \in Partidos : ~Propia(t, x)'
    BY FilaBien
<1>3. Lleva(t, n)'
    BY <1>2, SonSuyas
       DEF Lleva, LlevaSuspender, LlevaReabrir, LlevaMover, SinReabrir, Libera
<1>4. Vio(t)' /\ Fechada(t)'
    BY FilaBien DEF Vio, Fechada
<1>5. QED
    BY <1>1, <1>3, <1>4

LEMMA UnoSolo ==
    ASSUME NEW S, NEW a \in S
    PROVE  <<a>> \in Seq(S) /\ Len(<<a>>) = 1 /\ DOMAIN <<a>> = 1..1 /\ <<a>>[1] = a
OBVIOUS

LEMMA Juntos ==
    ASSUME NEW S, NEW a \in S, NEW b \in S, NEW w, w = <<a>> \o <<b>>
    PROVE  DOMAIN w = 1..2 /\ w[1] = a /\ w[2] = b
<1>1. w \in Seq(S) /\ Len(w) = 1 + 1 /\ \A i \in 1..(1 + 1) :
          w[i] = IF i <= 1 THEN <<a>>[i] ELSE <<b>>[i - 1]
    BY UnoSolo, ConcatProperties
<1>2. <<a>>[1] = a /\ <<b>>[1] = b
    BY UnoSolo
<1>3. DOMAIN w = 1..2
    BY <1>1
<1>4. QED
    BY <1>1, <1>2, <1>3

LEMMA Unico ==
    ASSUME NEW a, NEW w, w \in {<<a>>, <<a>> \o <<>>, <<>> \o <<a>>}
    PROVE  (\A i \in DOMAIN w : w[i] = a) /\ \E i \in DOMAIN w : w[i] = a
<1>  DEFINE S == {a}
<1>1. a \in S
    OBVIOUS
<1>  HIDE DEF S
<1>2. w = <<a>>
    BY <1>1, UnoSolo, ConcatEmptySeq
<1>3. DOMAIN w = 1..1 /\ w[1] = a
    BY <1>1, <1>2, UnoSolo
<1>4. QED
    BY <1>3

LEMMA Dos ==
    ASSUME NEW a, NEW b, NEW w, w = <<a>> \o <<b>>
    PROVE  /\ \A i \in DOMAIN w : w[i] \in {a, b}
           /\ (\E i \in DOMAIN w : w[i] = a) /\ \E i \in DOMAIN w : w[i] = b
<1>  DEFINE S == {a, b}
<1>1. a \in S /\ b \in S
    OBVIOUS
<1>  HIDE DEF S
<1>2. DOMAIN w = 1..2 /\ w[1] = a /\ w[2] = b
    BY <1>1, Juntos
<1>3. 1 \in DOMAIN w /\ 2 \in DOMAIN w /\ \A i \in DOMAIN w : i = 1 \/ i = 2
    BY <1>2
<1>4. \A i \in DOMAIN w : w[i] \in {a, b}
    <2>1. ASSUME NEW i \in DOMAIN w PROVE w[i] = a \/ w[i] = b
        BY <1>2, <1>3, Zenon
    <2>2. QED
        BY <2>1
<1>5. \E i \in DOMAIN w : w[i] = a
    BY <1>2, <1>3, Zenon
<1>6. \E i \in DOMAIN w : w[i] = b
    BY <1>2, <1>3, Zenon
<1>7. QED
    BY <1>4, <1>5, <1>6

\* MOVER evaluates the matchday the match leaves, and reverts the one it goes to if it is
\* pending there.
LEMMA LosDeMover ==
    ASSUME NEW origen \in Nat, NEW destino \in Nat, NEW e, NEW w, w = TrabajosDeMover(origen, destino, e)
    PROVE  /\ \A i \in DOMAIN w : w[i] \in {Trabajo("evaluar", origen), Trabajo("revertir", destino)}
           /\ e \notin EstadosResueltos => \E i \in DOMAIN w : w[i] = Trabajo("revertir", destino)
<1>  DEFINE a == Trabajo("evaluar", origen)  b == Trabajo("revertir", destino)
<1>1. w \in {<<a>> \o <<b>>, <<b>> \o <<a>>, <<a>> \o <<>>, <<>> \o <<a>>}
    BY DEF TrabajosDeMover
<1>2. e \notin EstadosResueltos => w \in {<<a>> \o <<b>>, <<b>> \o <<a>>}
    BY DEF TrabajosDeMover
<1>  HIDE DEF a, b
<1>3. (\A i \in DOMAIN w : w[i] \in {a, b}) /\ (e \notin EstadosResueltos => \E i \in DOMAIN w : w[i] = b)
    <2>1. CASE w = <<a>> \o <<b>>
        BY <2>1, Dos
    <2>2. CASE w = <<b>> \o <<a>>
        <3>1. (\A i \in DOMAIN w : w[i] \in {b, a}) /\ \E i \in DOMAIN w : w[i] = b
            BY <2>2, Dos
        <3>2. QED
            BY <3>1
    <2>3. CASE w \in {<<a>> \o <<>>, <<>> \o <<a>>}
        <3>1. \A i \in DOMAIN w : w[i] = a
            BY <2>3, Unico
        <3>2. QED
            BY <1>2, <2>1, <2>2, <3>1
    <2>4. QED
        BY <1>1, <2>1, <2>2, <2>3
<1>4. QED
    BY <1>3 DEF a, b

LEMMA LeerReabre ==
    ASSUME IInv, NEW t \in Transacciones, Pasa(t), NEW n, Suya(t, n), Fijas(n), LeerPartido(t)
    PROVE  Hace(t, n)
<1>1. /\ tx[t].paso = "inicio" /\ tx[t].pedido.tipo \in {"SUSPENDER", "REABRIR", "ROJA", "MOVER"}
      /\ UNCHANGED <<base, actual, candados>>
    BY SonSuyas DEF LeerPartido, Rechaza
<1>2. PICK p \in Partidos : p = tx[t].pedido.fila /\ p = tx'[t].pedido.fila
    BY <1>1, SonSuyas, PedidoBien
<1>3. \A x : ~Propia(t, x) /\ ~Propia(t, x)'
    BY <1>1 DEF Propia, IInv, Rastros
<1>4. Vio(t)' /\ Fechada(t)' /\ Fijas(n)'
    BY <1>1, <1>3, SinFechas
<1>5. CASE Rechaza(t)
    <2>1. tx'[t].paso = "anulada" /\ tx'[t].trabajos = tx[t].trabajos
        BY <1>5, SonSuyas DEF Rechaza, Sigue, IInv, Tipos, Tx
    <2>2. QED
        BY <1>3, <1>4, <2>1, SinNada DEF Hace
<1>6. CASE ~Rechaza(t)
    <2>  DEFINE s == tx[t].pedido
    <2>1. PICK c, w, o : /\ c = Cambiada(s, base[p]) /\ w = Trabajos(s, base[p])
                         /\ o = IF s.tipo = "ROJA" THEN "insertar" ELSE "comparar"
        OBVIOUS
    <2>2. tx' = [tx EXCEPT ![t].paso = o, ![t].copia = c, ![t].trabajos = w] /\ Admite(s, base[p])
        BY <1>1, <1>2, <1>6, <2>1 DEF LeerPartido
    <2>3. tx'[t].paso = o /\ tx'[t].copia = c /\ tx'[t].trabajos = w /\ tx'[t].pedido = s
        BY <2>2, SonSuyas DEF IInv, Tipos, Tx
    <2>4. PICK f \in Fechas : f = base[p].fecha
        BY DEF IInv, Tipos, Version, FilaPartido
    <2>5. base[p] \in FilaPartido /\ base'[p] = base[p] /\ Libera(t)' /\ SinReabrir(t)'
        BY <1>1, <1>3 DEF IInv, Tipos, Version, Libera, SinReabrir
    <2>6. CASE s.tipo = "SUSPENDER"
        <3>1. c.fecha = f /\ Resuelta(c)
            BY <2>1, <2>4, <2>5, <2>6 DEF Cambiada, FilaPartido, Resuelta, EstadosResueltos
        <3>2. w = <<Trabajo("evaluar", f)>>
            BY <2>1, <2>4, <2>6 DEF Trabajos
        <3>3. Encargos(t, n)'
            <4>1. \A i \in DOMAIN w : w[i] = Trabajo("evaluar", f)
                BY <3>2, Unico
            <4>2. QED
                BY <2>3, <2>6, <4>1 DEF Encargos, Trabajo
        <3>4. LlevaSuspender(t)'
            BY <1>2, <2>1, <2>3, <2>4, <2>5, <2>6, <3>1 DEF LlevaSuspender, Resuelta
        <3>5. QED
            BY <1>4, <2>3, <2>6, <3>3, <3>4 DEF Hace, Lleva
    <2>7. CASE s.tipo = "REABRIR"
        <3>1. c.fecha = f /\ NumeroDe[f] = n
            <4>1. c = [base[p] EXCEPT !.estado = "EN_CURSO", !.acta = FALSE]
                BY <2>1, <2>7 DEF Cambiada
            <4>2. c.fecha = f
                BY <2>4, <2>5, <4>1 DEF FilaPartido
            <4>3. NumeroDe[f] = n
                BY <1>2, <2>4, <2>7, SonSuyas DEF Reparte
            <4>4. QED
                BY <4>2, <4>3
        <3>2. w = <<Trabajo("revertir", f)>>
            BY <2>1, <2>4, <2>7 DEF Trabajos
        <3>3. Encargos(t, n)' /\ Encargado(t, f)'
            <4>1. /\ \A i \in DOMAIN w : w[i] = Trabajo("revertir", f)
                  /\ \E i \in DOMAIN w : w[i] = Trabajo("revertir", f)
                BY <3>2, Unico
            <4>2. QED
                BY <2>3, <2>7, <3>1, <4>1 DEF Encargos, Encargado, Trabajo
        <3>4. LlevaReabrir(t, n)'
            BY <1>2, <1>3, <2>1, <2>3, <2>4, <2>5, <2>7, <3>1, <3>3 DEF LlevaReabrir, Debe
        <3>5. QED
            BY <1>4, <2>3, <2>7, <3>3, <3>4 DEF Hace, Lleva
    <2>8. CASE s.tipo = "MOVER"
        <3>1. PICK d \in Fechas : d = s.destino /\ NumeroDe[d] = n
            BY <2>8, SonSuyas, PedidoBien DEF Reparte
        <3>2. f # d
            BY <2>2, <2>4, <2>8, <3>1 DEF Admite
        <3>3. c.fecha = d /\ (Resuelta(c) => Resuelta(base[p]))
            BY <2>1, <2>5, <2>8, <3>1 DEF Cambiada, FilaPartido, Resuelta, EstadosResueltos
        <3>4. w = TrabajosDeMover(f, d, c.estado) /\ f \in Nat /\ d \in Nat
            BY <2>1, <2>4, <2>8, <3>1, FilasAssumption DEF Trabajos, Filas
        <3>5. Encargos(t, n)'
            <4>1. \A i \in DOMAIN w : w[i] \in {Trabajo("evaluar", f), Trabajo("revertir", d)}
                BY <3>4, LosDeMover
            <4>2. QED
                BY <2>3, <2>8, <3>1, <3>2, <4>1 DEF Encargos, Trabajo
        <3>6. Resuelta(c) \/ Encargado(t, d)'
            <4>1. c.estado \notin EstadosResueltos => \E i \in DOMAIN w : w[i] = Trabajo("revertir", d)
                BY <3>4, LosDeMover
            <4>2. (\E i \in DOMAIN w : w[i] = Trabajo("revertir", d)) => Encargado(t, d)'
                BY <2>3 DEF Encargado
            <4>3. QED
                BY <4>1, <4>2 DEF Resuelta
        <3>7. LlevaMover(t, n)'
            BY <1>2, <1>3, <2>1, <2>3, <2>4, <2>5, <2>8, <3>1, <3>2, <3>3, <3>6
               DEF LlevaMover, Debe, Resuelta
        <3>8. QED
            BY <1>4, <2>3, <2>8, <3>5, <3>7 DEF Hace, Lleva
    <2>9. CASE s.tipo = "ROJA"
        <3>1. w = <<>> /\ o = "insertar"
            BY <2>1, <2>9 DEF Trabajos
        <3>2. Encargos(t, n)'
            BY <2>3, <3>1 DEF Encargos
        <3>3. QED
            BY <1>4, <2>3, <2>5, <2>9, <3>1, <3>2 DEF Hace, Lleva
    <2>10. QED
        BY <1>1, <2>6, <2>7, <2>8, <2>9
<1>7. QED
    BY <1>5, <1>6

LEMMA InsertarReabre ==
    ASSUME IInv, NEW t \in Transacciones, Pasa(t), NEW n, Suya(t, n), Fijas(n), InsertarIncidencia(t)
    PROVE  Hace(t, n)
<1>1. /\ tx[t].paso = "insertar" /\ tx[t].pedido.tipo = "ROJA" /\ UNCHANGED <<base, actual>>
      /\ candados' = candados \cup {Candado(t, tx[t].pedido.fila, "FOR_KEY_SHARE")}
    BY SonSuyas DEF InsertarIncidencia, Toma, FaseBien
<1>2. tx'[t].paso = "cascada" /\ tx'[t].trabajos = tx[t].trabajos
    BY <1>1, SonSuyas DEF InsertarIncidencia, Sigue, IInv, Tipos, Tx
<1>3. \A x : Propia(t, x)' <=> Propia(t, x)
    BY <1>1 DEF Propia, Candado
<1>4. Libera(t)' /\ \A f \in Fechas : ~Propia(t, f)'
    BY <1>1, <1>3, SonSuyas DEF Lleva, Libera, Fechada
<1>5. Encargos(t, n)' /\ Lleva(t, n)'
    BY <1>1, <1>2, <1>4, SonSuyas DEF Encargos, Lleva
<1>6. QED
    BY <1>1, <1>4, <1>5, SinFechas DEF Hace

LEMMA CompararReabre ==
    ASSUME IInv, NEW t \in Transacciones, Pasa(t), NEW n, Suya(t, n), Fijas(n), CompararCopia(t)
    PROVE  Hace(t, n)
<1>1. /\ tx[t].paso = "comparar" /\ tx[t].pedido.tipo \in {"SUSPENDER", "REABRIR", "MOVER"}
      /\ UNCHANGED <<base, actual, candados>>
    BY SonSuyas DEF CompararCopia, Lleva
<1>2. PICK p \in Partidos : p = tx[t].pedido.fila /\ p = tx'[t].pedido.fila
    BY <1>1, SonSuyas, PedidoBien
<1>3. PICK k : /\ k = {c \in DOMAIN Vista(t, p) : tx[t].copia[c] # Vista(t, p)[c]}
               /\ tx' = [tx EXCEPT ![t].paso = "escribir", ![t].cambios = k]
    BY <1>2 DEF CompararCopia
<1>4. /\ tx'[t].paso = "escribir" /\ tx'[t].cambios = k /\ tx'[t].copia = tx[t].copia
      /\ tx'[t].trabajos = tx[t].trabajos
    BY <1>3, SonSuyas DEF IInv, Tipos, Tx
<1>5. \A x : Propia(t, x)' <=> Propia(t, x)
    BY <1>1 DEF Propia
<1>6. Libera(t) /\ Libera(t)' /\ \A f \in Fechas : ~Propia(t, f)'
    BY <1>1, <1>5, SonSuyas DEF Lleva, LlevaSuspender, LlevaReabrir, LlevaMover, Libera, Fechada
<1>7. Vista(t, p) = base[p] /\ base[p] \in FilaPartido
    BY <1>6 DEF Vista, Libera, IInv, Tipos, Version
<1>8. "fecha" \in k <=> tx[t].copia.fecha # base[p].fecha
    BY <1>3, <1>7 DEF FilaPartido
<1>9. Encargos(t, n)' /\ \A f : Debe(t, n, f) => Debe(t, n, f)'
    BY <1>1, <1>4, <1>5, SonSuyas DEF Encargos, Debe, Encargado, Cubre, Vista
<1>10. Lleva(t, n)'
    <2>1. CASE tx[t].pedido.tipo = "SUSPENDER"
        <3>1. LlevaSuspender(t)'
            BY <1>1, <1>2, <1>4, <1>6, <1>8, <2>1, SonSuyas
               DEF Lleva, LlevaSuspender, Libera, SinReabrir
        <3>2. QED
            BY <2>1, <3>1, SonSuyas DEF Lleva
    <2>2. CASE tx[t].pedido.tipo = "REABRIR"
        <3>1. LlevaReabrir(t, n)'
            BY <1>1, <1>2, <1>4, <1>6, <1>8, <1>9, <2>2, SonSuyas DEF Lleva, LlevaReabrir, Libera
        <3>2. QED
            BY <2>2, <3>1, SonSuyas DEF Lleva
    <2>3. CASE tx[t].pedido.tipo = "MOVER"
        <3>1. LlevaMover(t, n)'
            BY <1>1, <1>2, <1>4, <1>6, <1>8, <1>9, <2>3, SonSuyas DEF Lleva, LlevaMover, Libera, Resuelta
        <3>2. QED
            BY <2>3, <3>1, SonSuyas DEF Lleva
    <2>4. QED
        BY <1>1, <2>1, <2>2, <2>3
<1>11. QED
    BY <1>1, <1>6, <1>9, <1>10, SinFechas DEF Hace

\* UPDATE of the columns that differed: of a row that nobody has
LEMMA EscribirReabre ==
    ASSUME IInv, NEW t \in Transacciones, Pasa(t), NEW n, Suya(t, n), Fijas(n), EscribirCopia(t)
    PROVE  Hace(t, n)
<1>1. /\ tx[t].paso = "escribir" /\ tx[t].pedido.tipo \in {"SUSPENDER", "REABRIR", "MOVER"}
      /\ UNCHANGED base
    BY SonSuyas DEF EscribirCopia, Lleva
<1>2. PICK p \in Partidos : p = tx[t].pedido.fila /\ p = tx'[t].pedido.fila
    BY <1>1, SonSuyas, PedidoBien
<1>3. Libera(t) /\ \A f \in Fechas : ~Propia(t, f)
    BY <1>1, SonSuyas DEF Lleva, LlevaSuspender, LlevaReabrir, LlevaMover, Fechada
<1>4. /\ tx'[t].paso = IF "fecha" \in tx[t].cambios THEN "clave" ELSE "cascada"
      /\ tx'[t].copia = tx[t].copia /\ tx'[t].trabajos = tx[t].trabajos
    BY SonSuyas DEF EscribirCopia, Sigue, IInv, Tipos, Tx
<1>5. base[p] \in FilaPartido /\ actual[p] \in FilaPartido
    BY DEF IInv, Tipos, Version
<1>6. /\ \A x \in Filas : x # p => actual'[x] = actual[x] /\ ~Propia(t, x)'
      /\ tx[t].cambios = {} => ~Propia(t, p)'
      /\ tx[t].cambios # {} =>
             /\ Propia(t, p)'
             /\ actual'[p] = [c \in DOMAIN base[p] |->
                                  IF c \in tx[t].cambios THEN tx[t].copia[c] ELSE base[p][c]]
    <2>1. CASE tx[t].cambios = {}
        BY <1>3, <2>1, FilaBien DEF EscribirCopia, Libera, Propia, Filas
    <2>2. CASE tx[t].cambios # {}
        <3>1. PICK r : r = [c \in DOMAIN actual[p] |->
                                IF c \in tx[t].cambios THEN tx[t].copia[c] ELSE actual[p][c]]
            OBVIOUS
        <3>2. /\ actual' = [actual EXCEPT ![p] = r] /\ Libre(t, p, "UPDATE")
              /\ candados' = candados \cup {Candado(t, p, "UPDATE")}
            BY <1>2, <2>2, <3>1 DEF EscribirCopia, Toma
        <3>3. actual[p] = base[p]
            BY <1>3, <3>2, FilaBien, LibreEsGuardada DEF Libera
        <3>4. \A x : Propia(t, x)' <=> Propia(t, x) \/ x = p
            BY <3>2, TomarEsTener
        <3>5. \A x \in Filas : x # p => ~Propia(t, x)'
            BY <1>3, <3>4 DEF Libera, Filas
        <3>6. actual'[p] = r /\ \A x \in Filas : x # p => actual'[x] = actual[x]
            BY <3>2, FilaBien DEF IInv, Tipos, Version
        <3>7. QED
            BY <2>2, <3>1, <3>3, <3>4, <3>5, <3>6
    <2>3. QED
        BY <2>1, <2>2
<1>7. Encargos(t, n)' /\ \A f : Encargado(t, f) => Encargado(t, f)'
    BY <1>4, SonSuyas DEF Encargos, Encargado
<1>8. \A x \in Partidos : x # p => ~Propia(t, x)'
    BY <1>6, FilaBien
<1>9. Vio(t)' /\ Fechada(t)' /\ Fijas(n)'
    BY <1>1, <1>6, FilaBien, SinFechas
<1>10. Propia(t, p)' =>
          /\ actual'[p].fecha = IF "fecha" \in tx[t].cambios THEN tx[t].copia.fecha ELSE base[p].fecha
          /\ actual'[p].estado = IF "estado" \in tx[t].cambios THEN tx[t].copia.estado ELSE base[p].estado
    BY <1>5, <1>6 DEF FilaPartido
<1>11. CASE tx[t].pedido.tipo = "SUSPENDER"
    <2>1. /\ Resuelta(tx[t].copia) /\ "fecha" \notin tx[t].cambios
        BY <1>1, <1>11, SonSuyas DEF Lleva, LlevaSuspender
    <2>2. SinReabrir(t)'
        BY <1>1, <1>8, <1>10, <2>1 DEF SinReabrir, Resuelta
    <2>3. LlevaSuspender(t)'
        BY <1>4, <2>1, <2>2 DEF LlevaSuspender
    <2>4. QED
        BY <1>7, <1>9, <1>11, <2>3, SonSuyas DEF Hace, Lleva
<1>12. CASE tx[t].pedido.tipo = "REABRIR"
    <2>1. "fecha" \notin tx[t].cambios /\ Debe(t, n, base[p].fecha)
        BY <1>1, <1>2, <1>12, SonSuyas DEF Lleva, LlevaReabrir
    <2>2. PICK f \in Fechas : f = base[p].fecha /\ Encargado(t, f)'
        BY <1>3, <1>5, <1>7, <2>1 DEF Debe, Cubre, FilaPartido
    <2>3. LlevaReabrir(t, n)'
        BY <1>1, <1>2, <1>4, <1>8, <1>10, <2>1, <2>2 DEF LlevaReabrir, Debe, Encargado
    <2>4. QED
        BY <1>7, <1>9, <1>12, <2>3, SonSuyas DEF Hace, Lleva
<1>13. CASE tx[t].pedido.tipo = "MOVER"
    <2>1. PICK d \in Fechas : d = tx[t].pedido.destino /\ d = tx'[t].pedido.destino
        BY SonSuyas, PedidoBien
    <2>2. /\ "fecha" \in tx[t].cambios /\ tx[t].copia.fecha = d
          /\ Resuelta(tx[t].copia) => Resuelta(base[p])
          /\ Resuelta(tx[t].copia) \/ Debe(t, n, d)
        BY <1>1, <1>2, <1>13, <2>1, SonSuyas DEF Lleva, LlevaMover
    <2>3. Propia(t, p)' /\ actual'[p].fecha = d
        BY <1>6, <1>10, <2>2
    <2>4. Resuelta(actual'[p]) \/ Encargado(t, d)'
        BY <1>3, <1>7, <1>10, <2>1, <2>2, <2>3 DEF Debe, Cubre, Resuelta
    <2>5. LlevaMover(t, n)'
        BY <1>2, <1>4, <1>8, <2>1, <2>2, <2>3, <2>4 DEF LlevaMover, Debe, Encargado, Resuelta
    <2>6. QED
        BY <1>7, <1>9, <1>13, <2>5, SonSuyas DEF Hace, Lleva
<1>14. QED
    BY <1>1, <1>11, <1>12, <1>13

\* A step that neither takes nor changes rows, and leaves the request in its cascade
LEMMA ClaveReabre ==
    ASSUME IInv, NEW t \in Transacciones, Pasa(t), NEW n, Suya(t, n), Fijas(n), ClaveFecha(t)
    PROVE  Hace(t, n)
<1>1. /\ tx[t].paso = "clave" /\ tx[t].pedido.tipo \in {"SUSPENDER", "REABRIR", "MOVER"}
      /\ UNCHANGED <<base, actual>>
      /\ candados' = candados \cup {Candado(t, tx[t].copia.fecha, "FOR_KEY_SHARE")}
    BY SonSuyas DEF ClaveFecha, Toma, FaseBien, Lleva
<1>2. tx'[t].paso = "cascada" /\ tx'[t].trabajos = tx[t].trabajos
    BY SonSuyas DEF ClaveFecha, Sigue, IInv, Tipos, Tx
<1>3. \A x : Propia(t, x)' <=> Propia(t, x)
    BY <1>1 DEF Propia, Candado
<1>4. \A f \in Fechas : ~Propia(t, f)'
    BY <1>1, <1>3, SonSuyas DEF Fechada
<1>5. Encargos(t, n)' /\ \A f : Debe(t, n, f) => Debe(t, n, f)'
    BY <1>1, <1>2, <1>3, SonSuyas DEF Encargos, Debe, Encargado, Cubre, Vista
<1>6. LlevaSuspender(t) => LlevaSuspender(t)'
    BY <1>1, <1>2, <1>3 DEF LlevaSuspender, SinReabrir, Resuelta
<1>7. LlevaReabrir(t, n) => LlevaReabrir(t, n)'
    BY <1>1, <1>2, <1>3, <1>5, SonSuyas DEF LlevaReabrir
<1>8. LlevaMover(t, n) => LlevaMover(t, n)'
    BY <1>1, <1>2, <1>3, <1>5, SonSuyas DEF LlevaMover, Resuelta
<1>9. Lleva(t, n)'
    BY <1>1, <1>6, <1>7, <1>8, SonSuyas DEF Lleva
<1>10. QED
    BY <1>1, <1>4, <1>5, <1>9, SinFechas DEF Hace

LEMMA CerrarReabre ==
    ASSUME IInv, NEW t \in Transacciones, Pasa(t), NEW n, Suya(t, n), Fijas(n), CerrarActa(t)
    PROVE  Hace(t, n)
<1>1. tx[t].paso = "inicio" /\ tx[t].pedido.tipo = "CERRAR" /\ UNCHANGED base
    BY DEF CerrarActa, CerrarActaCon, Rechaza
<1>2. PICK p \in Partidos : p = tx[t].pedido.fila /\ p = tx'[t].pedido.fila
    BY <1>1, SonSuyas, PedidoBien
<1>3. \A x : ~Propia(t, x)
    BY <1>1 DEF Propia, IInv, Rastros
<1>4. CASE Rechaza(t)
    <2>1. /\ tx'[t].paso = "anulada" /\ tx'[t].trabajos = tx[t].trabajos /\ actual' = actual
          /\ \A x : ~Propia(t, x)'
        BY <1>3, <1>4, SonSuyas DEF Rechaza, Sigue, IInv, Tipos, Tx, Propia
    <2>2. QED
        BY <1>1, <2>1, SinNada, SinFechas DEF Hace
<1>5. CASE ~Rechaza(t)
    <2>1. PICK w, g : w = <<Trabajo("evaluar", actual[p].fecha)>> /\ g = tx[t].pedido.goles
        OBVIOUS
    <2>2. /\ candados' = candados \cup {Candado(t, p, "FOR_UPDATE")} /\ Libre(t, p, "FOR_UPDATE")
          /\ tx' = [tx EXCEPT ![t].paso = "cascada", ![t].trabajos = w]
          /\ actual' = [actual EXCEPT ![p] = [actual[p] EXCEPT !.estado = "FINALIZADO", !.acta = TRUE,
                                                              !.goles = g]]
        BY <1>2, <1>5, <2>1 DEF CerrarActa, CerrarActaCon, Toma
    <2>3. tx'[t].paso = "cascada" /\ tx'[t].trabajos = w
        BY <2>2, SonSuyas DEF IInv, Tipos, Tx
    <2>4. \A x : Propia(t, x)' <=> x = p
        BY <1>3, <2>2, TomarEsTener
    <2>5. actual[p] = base[p]
        BY <1>3, <2>2, FilaBien, LibreEsGuardada
    <2>6. /\ actual'[p].estado = "FINALIZADO" /\ actual'[p].fecha = base[p].fecha
          /\ \A f \in Fechas : actual'[f] = actual[f]
        BY <2>2, <2>5, FilaBien DEF IInv, Tipos, Version, FilaPartido
    <2>7. SinReabrir(t)'
        BY <1>1, <2>4, <2>6 DEF SinReabrir, Resuelta, EstadosResueltos
    <2>8. Encargos(t, n)'
        <3>1. \A i \in DOMAIN w : w[i] = Trabajo("evaluar", actual[p].fecha)
            BY <2>1, Unico
        <3>2. QED
            BY <1>1, <2>3, <3>1, SonSuyas DEF Encargos, Trabajo
    <2>9. Lleva(t, n)'
        BY <1>1, <2>3, <2>7, SonSuyas DEF Lleva
    <2>10. QED
        BY <1>1, <2>4, <2>6, <2>8, <2>9, FilaBien, SinFechas DEF Hace
<1>6. QED
    BY <1>4, <1>5

LEMMA LeerFechaReabre ==
    ASSUME IInv, NEW t \in Transacciones, Pasa(t), NEW n, Suya(t, n), Fijas(n), LeerFecha(t)
    PROVE  Hace(t, n)
<1>1. /\ tx[t].paso = "inicio" /\ tx[t].pedido.tipo = "SUSPENDER_FECHA"
      /\ UNCHANGED <<base, actual, candados>>
    BY DEF LeerFecha, Rechaza
<1>2. \A x : ~Propia(t, x)'
    BY <1>1 DEF Propia, IInv, Rastros
<1>3. CASE Rechaza(t)
    <2>1. tx'[t].paso = "anulada" /\ tx'[t].trabajos = tx[t].trabajos
        BY <1>3, SonSuyas DEF Rechaza, Sigue, IInv, Tipos, Tx
    <2>2. QED
        BY <1>1, <1>2, <2>1, SinNada, SinFechas DEF Hace
<1>4. CASE ~Rechaza(t)
    <2>1. PICK s : tx' = [tx EXCEPT ![t].paso = "reservar",
                               ![t].trabajos = [i \in DOMAIN s |-> Trabajo("reservar", s[i])]]
        BY <1>4 DEF LeerFecha
    <2>2. PICK w : w = [i \in DOMAIN s |-> Trabajo("reservar", s[i])]
        OBVIOUS
    <2>3. tx'[t].paso = "reservar" /\ tx'[t].trabajos = w
        BY <2>1, <2>2, SonSuyas DEF IInv, Tipos, Tx
    <2>4. Encargos(t, n)'
        BY <2>2, <2>3 DEF Encargos, Trabajo
    <2>5. Lleva(t, n)'
        BY <1>1, <1>2, <2>3, SonSuyas DEF Lleva, SinReabrir
    <2>6. QED
        BY <1>1, <1>2, <2>4, <2>5, SinFechas DEF Hace
<1>5. QED
    BY <1>3, <1>4

\* What is left of the jobs of a request after the first one
LEMMA Quedan ==
    ASSUME IInv, NEW t \in Transacciones, tx[t].trabajos # <<>>,
           tx' = [tx EXCEPT ![t].trabajos = Tail(@)]
    PROVE  /\ tx'[t].paso = tx[t].paso
           /\ \E j \in DOMAIN tx[t].trabajos : tx[t].trabajos[j] = Head(tx[t].trabajos)
           /\ \A i \in DOMAIN tx'[t].trabajos :
                  \E j \in DOMAIN tx[t].trabajos : tx'[t].trabajos[i] = tx[t].trabajos[j]
           /\ \A j \in DOMAIN tx[t].trabajos : tx[t].trabajos[j] = Head(tx[t].trabajos) \/
                  \E i \in DOMAIN tx'[t].trabajos : tx'[t].trabajos[i] = tx[t].trabajos[j]
<1>1. PICK w \in Seq(DeFecha \cup DePartido) : w = tx[t].trabajos
    BY DEF IInv, Tipos, Tx
<1>2. tx'[t].trabajos = Tail(w) /\ tx'[t].paso = tx[t].paso
    BY <1>1 DEF IInv, Tipos, Tx
<1>3. w # <<>> /\ Len(w) \in Nat \ {0} /\ DOMAIN w = 1..Len(w) /\ Head(w) = w[1]
    BY <1>1
<1>4. DOMAIN Tail(w) = 1..(Len(w) - 1) /\ \A i \in 1..(Len(w) - 1) : Tail(w)[i] = w[i + 1]
    BY <1>1, <1>3, HeadTailProperties
<1>5. ASSUME NEW i \in DOMAIN Tail(w)
      PROVE  \E j \in DOMAIN w : Tail(w)[i] = w[j]
    BY <1>3, <1>4
<1>6. ASSUME NEW j \in DOMAIN w, j # 1
      PROVE  \E i \in DOMAIN Tail(w) : Tail(w)[i] = w[j]
    <2>1. j - 1 \in DOMAIN Tail(w) /\ Tail(w)[j - 1] = w[j]
        BY <1>3, <1>4, <1>6
    <2>2. QED
        BY <2>1
<1>7. QED
    BY <1>1, <1>2, <1>3, <1>5, <1>6

\* The first job of a cascade, on a matchday that becomes t's
LEMMA Cascada ==
    ASSUME IInv, NEW t \in Transacciones, Pasa(t), NEW n, Suya(t, n),
           EvaluarCierre(t) \/ RevertirCierre(t), NEW f \in Fechas, f = Head(tx[t].trabajos).fila
    PROVE  /\ tx[t].paso = "cascada" /\ tx'[t].paso = "cascada" /\ base' = base
           /\ \A x : Propia(t, x)' <=> Propia(t, x) \/ x = f
           /\ \A x \in Filas : x # f => actual'[x] = actual[x] /\ Vista(t, x)' = Vista(t, x)
           /\ Propia(t, f) \/ actual[f] = base[f]
           /\ Encargos(t, n)'
           /\ \A x : Encargado(t, x) => Encargado(t, x)' \/ Head(tx[t].trabajos) = Trabajo("revertir", x)
           /\ EvaluarCierre(t) => /\ tx[t].pedido.tipo \in {"CERRAR", "SUSPENDER", "MOVER"}
                                  /\ tx[t].pedido.tipo = "MOVER" => f # tx[t].pedido.destino
           /\ RevertirCierre(t) => tx[t].pedido.tipo \in {"REABRIR", "MOVER"} /\ NumeroDe[f] = n
<1>1. /\ tx[t].paso = "cascada" /\ tx[t].trabajos # <<>> /\ base' = base
      /\ tx' = [tx EXCEPT ![t].trabajos = Tail(@)]
      /\ EvaluarCierre(t) => Head(tx[t].trabajos).op = "evaluar"
      /\ RevertirCierre(t) => Head(tx[t].trabajos).op = "revertir"
    BY DEF EvaluarCierre, RevertirCierre, HaceTrabajo
<1>2. candados' = candados \cup {Candado(t, f, "FOR_UPDATE")} /\ Libre(t, f, "FOR_UPDATE")
    BY DEF EvaluarCierre, RevertirCierre, Toma
<1>3. \A x : Propia(t, x)' <=> Propia(t, x) \/ x = f
    BY <1>2, TomarEsTener
<1>4. \A x \in Filas : x # f => actual'[x] = actual[x]
    BY DEF EvaluarCierre, RevertirCierre, IInv, Tipos, Version
<1>5. \A x \in Filas : x # f => Vista(t, x)' = Vista(t, x)
    BY <1>1, <1>3, <1>4 DEF Vista
<1>6. Propia(t, f) \/ actual[f] = base[f]
    BY <1>2, FilaBien, LibreEsGuardada
<1>7. /\ tx'[t].paso = tx[t].paso
      /\ \E j \in DOMAIN tx[t].trabajos : tx[t].trabajos[j] = Head(tx[t].trabajos)
      /\ \A i \in DOMAIN tx'[t].trabajos :
             \E j \in DOMAIN tx[t].trabajos : tx'[t].trabajos[i] = tx[t].trabajos[j]
      /\ \A j \in DOMAIN tx[t].trabajos : tx[t].trabajos[j] = Head(tx[t].trabajos) \/
             \E i \in DOMAIN tx'[t].trabajos : tx'[t].trabajos[i] = tx[t].trabajos[j]
    BY <1>1, Quedan
<1>8. Encargos(t, n) /\ tx'[t].pedido = tx[t].pedido
    BY SonSuyas
<1>9. Encargos(t, n)'
    BY <1>7, <1>8 DEF Encargos
<1>10. \A x : Encargado(t, x) => Encargado(t, x)' \/ Head(tx[t].trabajos) = Trabajo("revertir", x)
    BY <1>7 DEF Encargado
<1>11. /\ EvaluarCierre(t) => /\ tx[t].pedido.tipo \in {"CERRAR", "SUSPENDER", "MOVER"}
                              /\ tx[t].pedido.tipo = "MOVER" => f # tx[t].pedido.destino
       /\ RevertirCierre(t) => tx[t].pedido.tipo \in {"REABRIR", "MOVER"} /\ NumeroDe[f] = n
    BY <1>1, <1>7, <1>8 DEF Encargos
<1>12. QED
    BY <1>1, <1>3, <1>4, <1>5, <1>6, <1>7, <1>9, <1>10, <1>11

\* Neither job writes a match.
LEMMA CascadaLleva ==
    ASSUME IInv, NEW t \in Transacciones, Pasa(t), NEW n, Suya(t, n),
           EvaluarCierre(t) \/ RevertirCierre(t), NEW f \in Fechas, f = Head(tx[t].trabajos).fila,
           tx[t].pedido.tipo \in {"REABRIR", "MOVER"} =>
               \A x \in Fechas : Debe(t, n, x) /\ (tx[t].pedido.tipo = "MOVER" =>
                   x = tx[t].pedido.destino) => Debe(t, n, x)'
    PROVE  Lleva(t, n)'
<1>1. /\ tx[t].paso = "cascada" /\ tx'[t].paso = "cascada" /\ base' = base
      /\ \A x \in Partidos : (Propia(t, x)' <=> Propia(t, x)) /\ actual'[x] = actual[x]
      /\ tx'[t].pedido = tx[t].pedido
    BY Cascada, SonSuyas, FilaBien
<1>2. SinReabrir(t) => SinReabrir(t)'
    BY <1>1 DEF SinReabrir, Resuelta
<1>3. Libera(t) => Libera(t)'
    BY <1>1 DEF Libera
<1>4. LlevaSuspender(t) => LlevaSuspender(t)'
    BY <1>1, <1>2 DEF LlevaSuspender
<1>5. ASSUME tx[t].pedido.tipo = "REABRIR"
      PROVE  LlevaReabrir(t, n)'
    <2>1. PICK p \in Partidos : p = tx[t].pedido.fila /\ p = tx'[t].pedido.fila
        BY <1>5, SonSuyas, PedidoBien
    <2>2. PICK g \in Fechas : g = base[p].fecha /\ g = base'[p].fecha
        BY <1>1 DEF IInv, Tipos, Version, FilaPartido
    <2>3. LlevaReabrir(t, n)
        BY <1>5, SonSuyas DEF Lleva
    <2>4. Debe(t, n, g)'
        BY <1>1, <1>5, <2>1, <2>2, <2>3 DEF LlevaReabrir
    <2>5. Debe(t, n, base[p].fecha)'
        BY <2>2, <2>4 DEF Debe, Encargado, Cubre
    <2>6. QED
        BY <1>1, <2>1, <2>3, <2>5 DEF LlevaReabrir
<1>6. ASSUME tx[t].pedido.tipo = "MOVER"
      PROVE  LlevaMover(t, n)'
    <2>1. PICK p \in Partidos, d \in Fechas : /\ p = tx[t].pedido.fila /\ p = tx'[t].pedido.fila
                                              /\ d = tx[t].pedido.destino /\ d = tx'[t].pedido.destino
        BY <1>6, SonSuyas, PedidoBien
    <2>2. LlevaMover(t, n)
        BY <1>6, SonSuyas DEF Lleva
    <2>3. Debe(t, n, d) => Debe(t, n, d)'
        BY <1>6, <2>1
    <2>4. QED
        BY <1>1, <2>1, <2>2, <2>3 DEF LlevaMover, Resuelta
<1>7. QED
    BY <1>1, <1>2, <1>3, <1>4, <1>5, <1>6, SonSuyas DEF Lleva

\* A job leaves the other matchdays as t saw them, and of its own it says what it saw.
LEMMA CascadaVio ==
    ASSUME IInv, NEW t \in Transacciones, Pasa(t), NEW n, Suya(t, n),
           EvaluarCierre(t) \/ RevertirCierre(t), NEW f \in Fechas, f = Head(tx[t].trabajos).fila,
           actual'[f].estado = "FINALIZADA" =>
               actual[f].estado = "FINALIZADA" \/ FechaCompleta(EstadosEn(t, f))
    PROVE  Vio(t)' /\ Fechada(t)'
<1>1. /\ base' = base /\ tx'[t].paso = "cascada" /\ tx[t].pedido.tipo # "SUSPENDER_FECHA"
      /\ \A x : Propia(t, x)' <=> Propia(t, x) \/ x = f
      /\ \A p \in Partidos : Vista(t, p)' = Vista(t, p)
      /\ \A x \in Filas : x # f => actual'[x] = actual[x]
      /\ Propia(t, f) \/ actual[f] = base[f]
    <2>1. \A x \in Filas : x # f => Vista(t, x)' = Vista(t, x)
        BY Cascada
    <2>2. \A p \in Partidos : Vista(t, p)' = Vista(t, p)
        BY <2>1, FilaBien
    <2>3. QED
        BY <2>2, Cascada
<1>2. ASSUME NEW g \in Fechas, Propia(t, g)', actual'[g].estado = "FINALIZADA",
             base'[g].estado # "FINALIZADA", NEW p \in Partidos, Vista(t, p)'.fecha = g
      PROVE  Resuelta(Vista(t, p))'
    <2>1. Vista(t, p)' = Vista(t, p) /\ p \in PartidosEn(t, g)
        BY <1>1, <1>2 DEF PartidosEn
    <2>2. CASE Propia(t, g) /\ actual[g].estado = "FINALIZADA"
        BY <1>1, <1>2, <2>1, <2>2, SonSuyas DEF Vio, Resuelta
    <2>3. CASE g = f /\ FechaCompleta(EstadosEn(t, f))
        BY <2>1, <2>3 DEF FechaCompleta, EstadosEn, Resuelta
    <2>4. QED
        BY <1>1, <1>2, <2>2, <2>3, FilaBien
<1>3. Vio(t)'
    BY <1>2 DEF Vio, PartidosEn
<1>4. QED
    BY <1>1, <1>3, SonSuyas DEF Fechada

LEMMA EvaluarReabre ==
    ASSUME IInv, NEW t \in Transacciones, Pasa(t), NEW n, Suya(t, n), Fijas(n), EvaluarCierre(t)
    PROVE  Hace(t, n)
<1>1. tx[t].trabajos # <<>> /\ Head(tx[t].trabajos).op = "evaluar"
    BY DEF EvaluarCierre, HaceTrabajo
<1>2. PICK f \in Fechas : f = Head(tx[t].trabajos).fila
    BY <1>1, Trabajando DEF DeFecha, DePartido
<1>3. /\ actual'[f].estado = "FINALIZADA" =>
             actual[f].estado = "FINALIZADA" \/ FechaCompleta(EstadosEn(t, f))
      /\ actual[f].estado = "FINALIZADA" => actual'[f].estado = "FINALIZADA"
    BY <1>2, FilaBien DEF EvaluarCierre, IInv, Tipos, Version, FilaFecha
<1>4. /\ base' = base /\ \A x : Propia(t, x)' <=> Propia(t, x) \/ x = f
      /\ \A x \in Filas : x # f => actual'[x] = actual[x] /\ Vista(t, x)' = Vista(t, x)
      /\ Propia(t, f) \/ actual[f] = base[f]
      /\ tx[t].pedido.tipo \in {"CERRAR", "SUSPENDER", "MOVER"}
      /\ tx[t].pedido.tipo = "MOVER" => f # tx[t].pedido.destino
      /\ Encargos(t, n)'
    BY <1>2, Cascada
<1>5. \A g \in Fechas : Vista(t, g).estado = "FINALIZADA" => Vista(t, g)'.estado = "FINALIZADA"
    <2>1. Vista(t, f).estado = "FINALIZADA" => Vista(t, f)'.estado = "FINALIZADA"
        BY <1>3, <1>4 DEF Vista
    <2>2. QED
        BY <1>4, <2>1, FilaBien
<1>6. \A x : Encargado(t, x) => Encargado(t, x)'
    <2>1. \A x : Head(tx[t].trabajos) # Trabajo("revertir", x)
        BY <1>1 DEF Trabajo
    <2>2. \A x : Encargado(t, x) => Encargado(t, x)' \/ Head(tx[t].trabajos) = Trabajo("revertir", x)
        BY <1>2, Cascada
    <2>3. QED
        BY <2>1, <2>2
<1>7. \A x \in Fechas : x # f /\ Debe(t, n, x) => Debe(t, n, x)'
    <2>1. ASSUME NEW x \in Fechas, x # f, Cubre(t, n, x)
          PROVE  Cubre(t, n, x)'
        <3>1. Propia(t, x)' /\ actual'[x] = actual[x] /\ NumeroDe[x] = n
            BY <1>4, <2>1, FilaBien DEF Cubre
        <3>2. QED
            BY <1>5, <2>1, <3>1 DEF Cubre
    <2>2. QED
        BY <1>6, <2>1 DEF Debe
<1>8. Lleva(t, n)'
    BY <1>2, <1>4, <1>7, CascadaLleva
<1>9. Vio(t)' /\ Fechada(t)'
    BY <1>2, <1>3, CascadaVio
<1>10. Fijas(n)'
    BY <1>3, <1>4, FilaBien DEF Fijas
<1>11. QED
    BY <1>4, <1>8, <1>9, <1>10 DEF Hace

\* The matchday it reverts is open now, unless a later one is closed.
LEMMA RevertirReabre ==
    ASSUME IInv, NEW t \in Transacciones, Pasa(t), NEW n \in Nat, Suya(t, n), Fijas(n),
           RevertirCierre(t)
    PROVE  Hace(t, n)
<1>1. tx[t].trabajos # <<>> /\ Head(tx[t].trabajos).op = "revertir"
    BY DEF RevertirCierre, HaceTrabajo
<1>2. PICK f \in Fechas : f = Head(tx[t].trabajos).fila
    BY <1>1, Trabajando DEF DeFecha, DePartido
<1>3. actual'[f].estado = IF actual[f].estado = "FINALIZADA" /\ ~PosteriorCerrada(t, f)
                          THEN "EN_CURSO" ELSE actual[f].estado
    BY <1>2, FilaBien DEF RevertirCierre, IInv, Tipos, Version, FilaFecha
<1>4. /\ base' = base /\ \A x : Propia(t, x)' <=> Propia(t, x) \/ x = f
      /\ \A x \in Filas : x # f => actual'[x] = actual[x] /\ Vista(t, x)' = Vista(t, x)
      /\ NumeroDe[f] = n /\ Encargos(t, n)'
    BY <1>2, Cascada
<1>5. \A g \in Fechas : NumeroDe[g] > n => g # f /\ Vista(t, g)' = Vista(t, g) /\ actual'[g] = actual[g]
    BY <1>4, FilaBien
<1>6. Cubre(t, n, f)'
    <2>1. CASE actual'[f].estado # "FINALIZADA"
        BY <1>4, <2>1 DEF Cubre
    <2>2. CASE PosteriorCerrada(t, f)
        <3>1. PICK g \in Fechas : NumeroDe[g] > n /\ Vista(t, g).estado = "FINALIZADA"
            BY <1>4, <2>2 DEF PosteriorCerrada
        <3>2. Vista(t, g)'.estado = "FINALIZADA"
            BY <1>5, <3>1
        <3>3. QED
            BY <1>4, <3>1, <3>2 DEF Cubre
    <2>3. QED
        BY <1>3, <2>1, <2>2
<1>7. ASSUME NEW x \in Fechas, Debe(t, n, x)
      PROVE  Debe(t, n, x)'
    <2>1. CASE x = f
        BY <1>6, <2>1 DEF Debe
    <2>2. CASE x # f /\ Encargado(t, x)
        <3>1. Head(tx[t].trabajos) # Trabajo("revertir", x)
            BY <1>2, <2>2 DEF Trabajo
        <3>2. Encargado(t, x)'
            BY <1>2, <2>2, <3>1, Cascada
        <3>3. QED
            BY <3>2 DEF Debe
    <2>3. CASE x # f /\ Cubre(t, n, x)
        <3>1. Propia(t, x)' /\ actual'[x] = actual[x] /\ NumeroDe[x] = n
            BY <1>4, <2>3, FilaBien DEF Cubre
        <3>2. Cubre(t, n, x)'
            BY <1>5, <2>3, <3>1 DEF Cubre
        <3>3. QED
            BY <3>2 DEF Debe
    <2>4. QED
        BY <1>7, <2>1, <2>2, <2>3 DEF Debe
<1>8. Lleva(t, n)'
    BY <1>2, <1>7, CascadaLleva
<1>9. Vio(t)' /\ Fechada(t)'
    BY <1>2, <1>3, CascadaVio
<1>10. Fijas(n)'
    BY <1>4, <1>5 DEF Fijas
<1>11. QED
    BY <1>4, <1>8, <1>9, <1>10 DEF Hace

\* suspenderFecha takes matches as they were committed and resolves some.
LEMMA ReservarReabre ==
    ASSUME IInv, NEW t \in Transacciones, Pasa(t), NEW n, Suya(t, n), Fijas(n), ReservarPartido(t)
    PROVE  Hace(t, n)
<1>1. /\ tx[t].paso = "reservar" /\ tx[t].pedido.tipo = "SUSPENDER_FECHA"
      /\ UNCHANGED <<base, actual>> /\ tx[t].trabajos # <<>>
      /\ tx' = [tx EXCEPT ![t].trabajos = Tail(@)]
    BY SonSuyas DEF ReservarPartido, FaseBien
<1>2. PICK p \in Partidos : p = Head(tx[t].trabajos).fila
    <2>1. PICK j \in DOMAIN tx[t].trabajos : tx[t].trabajos[j] = Head(tx[t].trabajos)
        BY <1>1, Quedan
    <2>2. Head(tx[t].trabajos).op \notin {"evaluar", "revertir"}
        BY <1>1, <2>1, SonSuyas DEF Encargos
    <2>3. QED
        BY <1>1, <2>2, Trabajando DEF DeFecha, DePartido
<1>3. candados' = candados \cup {Candado(t, p, "FOR_UPDATE")}
    BY <1>2 DEF ReservarPartido, Toma
<1>4. \A x : Propia(t, x)' <=> Propia(t, x) \/ x = p
    BY <1>3, TomarEsTener
<1>5. \A x \in Partidos : Propia(t, x)' => Propia(t, x) \/ actual[x] = base[x]
    BY RecienTomada, FilaBien
<1>6. SinReabrir(t)'
    BY <1>1, <1>5, SonSuyas DEF SinReabrir, Lleva, Resuelta
<1>7. Encargos(t, n)' /\ tx'[t].paso = "reservar"
    <2>1. /\ tx'[t].paso = tx[t].paso
          /\ \A i \in DOMAIN tx'[t].trabajos :
                 \E j \in DOMAIN tx[t].trabajos : tx'[t].trabajos[i] = tx[t].trabajos[j]
        BY <1>1, Quedan
    <2>2. Encargos(t, n) /\ tx'[t].pedido = tx[t].pedido
        BY SonSuyas
    <2>3. QED
        BY <1>1, <2>1, <2>2 DEF Encargos
<1>8. Lleva(t, n)'
    BY <1>1, <1>6, <1>7, SonSuyas DEF Lleva
<1>9. \A f \in Fechas : Propia(t, f)' => actual'[f].estado # "FINALIZADA"
    BY <1>1, <1>4, FilaBien, SonSuyas DEF Fechada
<1>10. QED
    BY <1>1, <1>7, <1>8, <1>9, SonSuyas DEF Hace, Vio, Fechada, Fijas

LEMMA MarcarReabre ==
    ASSUME IInv, NEW t \in Transacciones, Pasa(t), NEW n \in Nat, Suya(t, n), Fijas(n), MarcarFecha(t)
    PROVE  Hace(t, n)
<1>1. /\ tx[t].paso = "reservar" /\ tx[t].pedido.tipo = "SUSPENDER_FECHA" /\ UNCHANGED base
    BY SonSuyas DEF MarcarFecha, FaseBien
<1>2. PICK f \in Fechas : f = tx[t].pedido.fila /\ NumeroDe[f] <= n
    BY <1>1, SonSuyas, PedidoBien DEF Reparte
<1>3. /\ candados' = candados \cup {Candado(t, f, "UPDATE")}
      /\ actual' = [actual EXCEPT ![f].estado = "SUSPENDIDA"]
    BY <1>2 DEF MarcarFecha, Toma
<1>4. \A x : Propia(t, x)' <=> Propia(t, x) \/ x = f
    BY <1>3, TomarEsTener
<1>5. actual'[f].estado = "SUSPENDIDA" /\ \A x \in Filas : x # f => actual'[x] = actual[x]
    BY <1>3, FilaBien DEF IInv, Tipos, Version, FilaFecha
<1>6. tx'[t].paso = "arrastrar" /\ tx'[t].trabajos = tx[t].trabajos
    BY SonSuyas DEF MarcarFecha, Sigue, IInv, Tipos, Tx
<1>7. SinReabrir(t)'
    BY <1>1, <1>4, <1>5, FilaBien, SonSuyas DEF SinReabrir, Lleva, Resuelta
<1>8. Encargos(t, n)' /\ Lleva(t, n)'
    BY <1>1, <1>6, <1>7, SonSuyas DEF Encargos, Lleva
<1>9. \A g \in Fechas : Propia(t, g)' => actual'[g].estado # "FINALIZADA"
    BY <1>1, <1>4, <1>5, FilaBien, SonSuyas DEF Fechada
<1>10. \A g \in Fechas : NumeroDe[g] > n => g # f
    BY <1>2, FilasAssumption
<1>11. Fijas(n)'
    BY <1>1, <1>5, <1>10, FilaBien DEF Fijas
<1>12. QED
    BY <1>1, <1>8, <1>9, <1>11, SonSuyas DEF Hace, Vio, Fechada

LEMMA ArrastrarReabre ==
    ASSUME IInv, NEW t \in Transacciones, Pasa(t), NEW n, Suya(t, n), Fijas(n), ArrastrarPartidos(t)
    PROVE  Hace(t, n)
<1>1. tx[t].paso = "arrastrar" /\ tx[t].pedido.tipo = "SUSPENDER_FECHA" /\ UNCHANGED base
    BY SonSuyas DEF ArrastrarPartidos, FaseBien
<1>2. PICK S \in SUBSET Partidos : S = Pendientes(t)
    BY Arrastrados
<1>3. /\ candados' = candados \cup {Candado(t, p, "UPDATE") : p \in S}
      /\ actual' = [x \in Filas |-> IF x \in S
                                 THEN [actual[x] EXCEPT !.estado = "SUSPENDIDO_FUERZA_MAYOR"]
                                 ELSE actual[x]]
    BY <1>2, Arrastrados
<1>4. \A x : Propia(t, x)' => Propia(t, x) \/ x \in S
    BY <1>3 DEF Propia, Candado
<1>5. /\ \A x \in Filas : x \notin S => actual'[x] = actual[x]
      /\ \A p \in S : actual'[p].fecha = actual[p].fecha /\ actual'[p].estado = "SUSPENDIDO_FUERZA_MAYOR"
    BY <1>3, FilaBien DEF IInv, Tipos, Version, FilaPartido
<1>6. tx'[t].paso = "cascada" /\ tx'[t].trabajos = tx[t].trabajos
    BY SonSuyas DEF ArrastrarPartidos, Sigue, IInv, Tipos, Tx
<1>7. \A x \in Partidos : Propia(t, x)' => Propia(t, x) \/ actual[x] = base[x]
    BY RecienTomada, FilaBien
<1>8. SinReabrir(t)'
    <2>1. ASSUME NEW x \in Partidos, Propia(t, x)'
          PROVE  actual'[x].fecha = base[x].fecha /\ (Resuelta(base[x]) => Resuelta(actual'[x]))
        <3>1. actual[x].fecha = base[x].fecha /\ (Resuelta(base[x]) => Resuelta(actual[x]))
            BY <1>1, <1>7, <2>1, SonSuyas DEF SinReabrir, Lleva
        <3>2. CASE x \in S
            BY <1>5, <3>1, <3>2 DEF Resuelta, EstadosResueltos
        <3>3. CASE x \notin S
            BY <1>5, <3>1, <3>3, FilaBien
        <3>4. QED
            BY <3>2, <3>3
    <2>2. QED
        BY <1>1, <2>1 DEF SinReabrir, Resuelta
<1>9. Encargos(t, n)' /\ Lleva(t, n)'
    BY <1>1, <1>6, <1>8, SonSuyas DEF Encargos, Lleva
<1>10. \A g \in Fechas : g \notin S /\ actual'[g] = actual[g]
    BY <1>5, FilaBien
<1>11. \A g \in Fechas : Propia(t, g)' => actual'[g].estado # "FINALIZADA"
    BY <1>1, <1>4, <1>10, SonSuyas DEF Fechada
<1>12. QED
    BY <1>1, <1>9, <1>10, <1>11, SonSuyas DEF Hace, Vio, Fechada, Fijas

LEMMA AcabarReabre ==
    ASSUME IInv, NEW t \in Transacciones, Pasa(t), NEW n, Suya(t, n), Fijas(n),
           Confirmar(t) \/ Abortar(t)
    PROVE  Hace(t, n)
<1>1. PICK s \in {"confirmada", "anulada"} : Acabado(t, s)
    BY DEF Confirmar, Abortar, Suelta, Sigue, Acabado
<1>2. tx'[t].paso \in {"confirmada", "anulada"} /\ tx'[t].trabajos = tx[t].trabajos
    BY <1>1, SonSuyas DEF Acabado, IInv, Tipos, Tx
<1>3. \A x \in Filas : ~Propia(t, x)'
    BY <1>1, AcabaBien
<1>4. Fijas(n)'
    <2>1. CASE Confirmar(t)
        BY <2>1, FilaBien DEF Confirmar, Fijas
    <2>2. CASE Abortar(t)
        BY <2>2, FilaBien DEF Abortar, Fijas
    <2>3. QED
        BY <2>1, <2>2
<1>5. QED
    BY <1>2, <1>3, <1>4, SinNada DEF Hace

\* What is committed: nothing pending is left in a closed matchday, unless it is one of
\* those opened and a later one is closed.
LEMMA SiguenCerradas ==
    ASSUME IInv, NEW t \in Transacciones, Avanza(t) \/ Abortar(t), NEW n, Suya(t, n), Fijas(n),
           Cerradas(n)
    PROVE  Cerradas(n)'
<1>1. Posterior(n) => Posterior(n)'
    BY FijaQueda DEF Posterior
<1>2. ASSUME NEW f \in Fechas, base'[f].estado = "FINALIZADA", NEW p \in Partidos,
             base'[p].fecha = f, ~Resuelta(base'[p])
      PROVE  NumeroDe[f] = n /\ Posterior(n)'
    <2>1. CASE Abre(t, n, p)
        <3>1. Confirmar(t) /\ Cubre(t, n, f)
            BY <1>2, <2>1 DEF Abre
        <3>2. NumeroDe[f] = n /\ base'[f] = actual[f]
            BY <3>1, FilaBien DEF Cubre, Confirmar
        <3>3. PICK g \in Fechas : NumeroDe[g] > n /\ Vista(t, g).estado = "FINALIZADA"
            BY <1>2, <3>1, <3>2 DEF Cubre
        <3>4. base'[g].estado = "FINALIZADA"
            BY <3>1, <3>3, FilaBien, LoQueVio
        <3>5. QED
            BY <3>2, <3>3, <3>4 DEF Posterior
    <2>2. CASE Queda(p)
        <3>1. base[p].fecha = f /\ ~Resuelta(base[p]) /\ p \in De(f)
            BY <1>2, <2>2 DEF Queda, De
        <3>2. CASE base[f].estado = "FINALIZADA"
            BY <1>1, <3>1, <3>2 DEF Cerradas
        <3>3. CASE base[f].estado # "FINALIZADA"
            <4>1. Confirmar(t) /\ Propia(t, f) /\ actual[f].estado = "FINALIZADA"
                BY <1>2, <3>3, FilaBien, SoloGuarda
            <4>2. Vista(t, p) = base'[p]
                BY <4>1, FilaBien, LoQueVio
            <4>3. QED
                BY <1>2, <3>3, <4>1, <4>2 DEF Suya, Vio, PartidosEn, Resuelta
        <3>4. QED
            BY <3>2, <3>3
    <2>3. QED
        BY <2>1, <2>2, Cambia
<1>3. QED
    BY <1>2 DEF Cerradas, De, Resuelta

LEMMA ReabrePaso ==
    ASSUME NEW n \in Nat, IInv, IInv', Reabre(n), [Next]_vars
    PROVE  Reabre(n)'
<1>1. ASSUME NEW t \in Transacciones, Avanza(t) \/ Abortar(t)
      PROVE  Reabre(n)'
    <2>1. Pasa(t) /\ Suya(t, n) /\ Fijas(n) /\ Cerradas(n) /\ \A u \in Transacciones : Suya(u, n)
        BY <1>1, AvanzaPasa DEF Reabre
    <2>2. ~ContarGoles(t)
        BY <2>1, SonSuyas DEF ContarGoles, FaseBien, Lleva
    <2>3. Hace(t, n)
        BY <1>1, <2>1, <2>2, LeerReabre, InsertarReabre, CompararReabre, EscribirReabre, ClaveReabre,
           CerrarReabre, EvaluarReabre, RevertirReabre, LeerFechaReabre, ReservarReabre,
           MarcarReabre, ArrastrarReabre, AcabarReabre DEF Avanza
    <2>4. Suya(t, n)'
        BY <1>1, <2>1, <2>3, OtraReparte DEF Suya, Hace
    <2>5. \A u \in Transacciones \ {t} : Suya(u, n)'
        BY <1>1, <2>1, OtraSuya
    <2>6. Cerradas(n)'
        BY <1>1, <2>1, SiguenCerradas
    <2>7. QED
        BY <2>3, <2>4, <2>5, <2>6 DEF Reabre, Hace
<1>2. ASSUME UNCHANGED vars
      PROVE  Reabre(n)'
    <2>1. /\ UNCHANGED <<tx, base, actual, candados>>
          /\ \A t, x : (Propia(t, x)' <=> Propia(t, x)) /\ Vista(t, x)' = Vista(t, x)
        BY <1>2 DEF vars, Propia, Vista
    <2>2. /\ \A t, f : (Encargado(t, f)' <=> Encargado(t, f)) /\ (Cubre(t, n, f)' <=> Cubre(t, n, f))
          /\ \A t : (SinReabrir(t)' <=> SinReabrir(t)) /\ (Libera(t)' <=> Libera(t))
        BY <2>1 DEF Encargado, Cubre, SinReabrir, Libera, Resuelta
    <2>3. \A t, f : Debe(t, n, f)' <=> Debe(t, n, f)
        BY <2>2 DEF Debe
    <2>4. ASSUME NEW t \in Transacciones
          PROVE  Suya(t, n)'
        <3>1. Suya(t, n)
            BY DEF Reabre
        <3>2. Reparte(t, n)' /\ Encargos(t, n)' /\ Vio(t)' /\ Fechada(t)'
            BY <2>1, <3>1 DEF Suya, Reparte, Encargos, Vio, Fechada, PartidosEn, Resuelta
        <3>3. /\ LlevaSuspender(t) => LlevaSuspender(t)'
              /\ LlevaReabrir(t, n) => LlevaReabrir(t, n)'
              /\ LlevaMover(t, n) => LlevaMover(t, n)'
            BY <2>1, <2>2, <2>3 DEF LlevaSuspender, LlevaReabrir, LlevaMover, Resuelta
        <3>4. Lleva(t, n)'
            BY <2>1, <2>2, <3>1, <3>3 DEF Suya, Lleva
        <3>5. QED
            BY <3>2, <3>4 DEF Suya
    <2>5. Fijas(n)' /\ Cerradas(n)'
        BY <2>1 DEF Reabre, Fijas, Cerradas, Posterior, De, Resuelta
    <2>6. QED
        BY <2>4, <2>5 DEF Reabre
<1>3. QED
    BY <1>1, <1>2 DEF Next, Reposo

LEMMA ReabreInicio ==
    ASSUME ReabrenUna, Init
    PROVE  \E n \in Nat : Reabre(n)
<1>1. PICK e \in Escenarios :
          /\ \A t \in Transacciones :
                 /\ tx[t].pedido \in e.pedidos[t] /\ tx[t].paso = "inicio" /\ tx[t].trabajos = <<>>
          /\ \E estado \in [Partidos -> EstadosPartido], fecha \in [Partidos -> Fechas] :
              /\ \A p \in Partidos : estado[p] \in e.estados[p] /\ fecha[p] \in e.fechas[p]
              /\ base = [x \in Filas |->
                        IF x \in Partidos
                        THEN [estado |-> estado[x], acta |-> estado[x] = "FINALIZADO",
                              fecha |-> fecha[x], goles |-> 0]
                        ELSE [estado |->
                                 IF FechaCompleta({estado[p] : p \in {q \in Partidos : fecha[q] = x}})
                                 THEN "FINALIZADA" ELSE "PROGRAMADA"]]
    BY DEF Init
<1>2. PICK estado \in [Partidos -> EstadosPartido], fecha \in [Partidos -> Fechas] :
          /\ \A p \in Partidos : fecha[p] \in e.fechas[p]
          /\ base = [x \in Filas |->
                    IF x \in Partidos
                    THEN [estado |-> estado[x], acta |-> estado[x] = "FINALIZADO",
                          fecha |-> fecha[x], goles |-> 0]
                    ELSE [estado |->
                             IF FechaCompleta({estado[p] : p \in {q \in Partidos : fecha[q] = x}})
                             THEN "FINALIZADA" ELSE "PROGRAMADA"]]
    BY <1>1
<1>3. \A p \in Partidos : base[p].estado = estado[p] /\ base[p].fecha = fecha[p]
    BY <1>2, FilaBien
<1>4. \A f \in Fechas :
          base[f].estado = IF FechaCompleta({estado[p] : p \in {q \in Partidos : fecha[q] = f}})
                           THEN "FINALIZADA" ELSE "PROGRAMADA"
    BY <1>2, FilaBien
<1>5. PICK n \in Nat : \A t \in Transacciones : \A s \in e.pedidos[t] :
          /\ s.tipo # "GOL"
          /\ s.tipo = "REABRIR" => \A f \in e.fechas[s.fila] : NumeroDe[f] = n
          /\ s.tipo = "MOVER" =>
                 /\ NumeroDe[s.destino] = n
                 /\ \A u \in Transacciones \ {t} : \A r \in e.pedidos[u] :
                        r.fila = s.fila => r.tipo = "ROJA"
          /\ s.tipo = "SUSPENDER_FECHA" => NumeroDe[s.fila] <= n
    BY DEF ReabrenUna
<1>6. actual = base /\ \A t, x : ~Propia(t, x)
    BY DEF Init, Propia
<1>7. ASSUME NEW t \in Transacciones
      PROVE  Suya(t, n)
    <2>1. Reparte(t, n)
        <3>1. PICK s \in e.pedidos[t] : s = tx[t].pedido
            BY <1>1
        <3>2. s.tipo = "REABRIR" => s.fila \in Partidos
            BY <3>1, PedidoBien DEF Pedidos
        <3>3. s.tipo = "REABRIR" => NumeroDe[base[s.fila].fecha] = n
            <4>1. ASSUME NEW p \in Partidos, p = s.fila, s.tipo = "REABRIR"
                  PROVE  NumeroDe[base[p].fecha] = n
                <5>1. base[p].fecha \in e.fechas[p]
                    BY <1>2, <1>3
                <5>2. QED
                    BY <1>5, <4>1, <5>1
            <4>2. QED
                BY <3>2, <4>1
        <3>4. s.tipo = "MOVER" => \A u \in Transacciones \ {t} :
                  tx[u].pedido.fila = s.fila => tx[u].pedido.tipo = "ROJA"
            BY <1>1, <1>5
        <3>5. QED
            BY <1>5, <3>1, <3>3, <3>4 DEF Reparte
    <2>2. Encargos(t, n)
        BY <1>1 DEF Encargos
    <2>3. Lleva(t, n)
        BY <1>1, <1>6 DEF Lleva, LlevaSuspender, LlevaReabrir, LlevaMover, SinReabrir, Libera
    <2>4. QED
        BY <1>6, <2>1, <2>2, <2>3 DEF Suya, Vio, Fechada
<1>8. Cerradas(n)
    <2>1. ASSUME NEW f \in Fechas, base[f].estado = "FINALIZADA", NEW p \in De(f)
          PROVE  Resuelta(base[p])
        BY <1>3, <1>4, <2>1 DEF De, Resuelta, FechaCompleta
    <2>2. QED
        BY <2>1 DEF Cerradas
<1>9. QED
    BY <1>6, <1>7, <1>8 DEF Reabre, Fijas

Reabren == \E n \in Nat : Reabre(n)

LEMMA Reabiertas ==
    ASSUME ReabrenUna
    PROVE  Spec => [](IInv /\ Reabren)
<1>1. Init => IInv /\ Reabren
    BY InicioBien, ReabreInicio DEF Reabren
<1>2. IInv /\ Reabren /\ [Next]_vars => (IInv /\ Reabren)'
    BY PasoBien, ReabrePaso DEF Reabren
<1>3. QED
    BY <1>1, <1>2, PTL DEF Spec

-----------------------------------------------------------------------------
(* Theorems                                                                *)

\* Rows keep their types in every interleaving of any requests; locks are held by live
\* requests, and no incident is left of one that failed.
THEOREM TiposConcurrentes == Spec => []TypeOK
<1>1. ASSUME IInv
      PROVE  TypeOK
    <2>1. \A v \in {base, actual} :
              /\ DOMAIN v = Filas
              /\ \A p \in Partidos : v[p] \in FilaPartido
              /\ \A f \in Fechas : v[f] \in FilaFecha
        BY <1>1 DEF IInv, Tipos, Version
    <2>2. \A t \in Transacciones : tx[t].paso \in Pasos
        BY <1>1 DEF IInv, Tipos, Tx
    <2>3. \A c \in candados : c.fila \in Filas /\ ~Terminada(c.t)
        BY <1>1 DEF IInv, Tipos, Rastros, Terminada
    <2>4. \A i \in incidencias : i.partido \in Partidos /\ tx[i.t].paso # "anulada"
        BY <1>1 DEF IInv, Tipos, Rastros
    <2>5. QED
        BY <2>1, <2>2, <2>3, <2>4 DEF TypeOK
<1>2. QED
    BY <1>1, Invariante, PTL

\* An acta is closed once, whatever else is asked for at the same time: whoever commits a
\* closing has the match locked since it found it open (cerrarActa).
THEOREM CierreUnico == Spec => UnSoloCierre
<1>1. IInv /\ [Next]_vars =>
          [\A t \in Transacciones :
              Confirma(t) /\ tx[t].pedido.tipo = "CERRAR" => ~base[tx[t].pedido.fila].acta]_vars
    <2>  SUFFICES ASSUME IInv, Next, NEW t \in Transacciones, Confirma(t), tx[t].pedido.tipo = "CERRAR"
         PROVE  ~base[tx[t].pedido.fila].acta
        OBVIOUS
    <2>1. PICK u \in Transacciones : Avanza(u) \/ Abortar(u)
        BY DEF Next, Reposo, vars, Confirma
    <2>2. u = t
        BY <2>1, AvanzaPasa DEF Pasa, Suyo, Confirma
    <2>3. Confirmar(t)
        BY <2>1, <2>2, SoloConfirma DEF Confirma
    <2>4. QED
        BY <2>3 DEF Confirmar, IInv, Cerrando
<1>2. QED
    BY <1>1, Invariante, PTL DEF Spec, UnSoloCierre

\* However closings and suspensions interleave, no committed matchday is left open with
\* all its matches resolved: who commits a match has its matchday locked since before it
\* looked at the others (evaluarCierreDeFecha).
THEOREM NingunaQuedaAbierta ==
    ASSUME SoloResuelven
    PROVE  Spec => []FechaCompletaSeCierra
<1>1. ASSUME Resolver
      PROVE  FechaCompletaSeCierra
    <2>1. ASSUME NEW f \in Fechas, base[f].estado \in {"PROGRAMADA", "EN_CURSO"}
          PROVE  ~FechaCompleta(EstadosGuardados(f))
        <3>1. De(f) = {} \/ \E p \in De(f) : ~Resuelta(base[p])
            BY <1>1, <2>1 DEF Resolver, FechaBien
        <3>2. QED
            BY <3>1 DEF FechaCompleta, EstadosGuardados, De, Resuelta
    <2>2. QED
        BY <2>1 DEF FechaCompletaSeCierra
<1>2. QED
    BY <1>1, Resueltos, PTL

\* A suspended matchday has no match waiting to be played, whatever is closed or called
\* off while suspenderFecha runs.
THEOREM SuspendidaEntera ==
    ASSUME SoloResuelven
    PROVE  Spec => []SuspendidaSinAbiertos
<1>1. ASSUME Resolver
      PROVE  SuspendidaSinAbiertos
    BY <1>1 DEF Resolver, FechaBien, SuspendidaSinAbiertos, EstadosGuardados, De, Resuelta
<1>2. QED
    BY <1>1, Resueltos, PTL

\* While matches are resolved, reopened and moved, a matchday that is closed has no pending
\* match unless a later one is closed too: who closes it saw its matches resolved and has it
\* locked, and who opens one of them must lock it to revert it (evaluarCierreDeFecha,
\* revertirCierreDeFecha).
THEOREM CerradaEntera ==
    ASSUME ReabrenUna
    PROVE  Spec => []FinalizadaSinPendientes
<1>1. ASSUME NEW n \in Nat, Reabre(n)
      PROVE  FinalizadaSinPendientes
    BY <1>1 DEF Reabre, Cerradas, Posterior, FinalizadaSinPendientes, EstadosGuardados, De, Resuelta
<1>2. Reabren => FinalizadaSinPendientes
    BY <1>1 DEF Reabren
<1>3. QED
    BY <1>2, Reabiertas, PTL

\* However goals, cards, closings and suspensions of whole matchdays interleave, no committed
\* score counts goals that are not there, and a closed acta has all of them: a goal holds the
\* match from its INSERT on, so that cerrarActa waits for it and counts it.
THEOREM ElActaCuentaLosGoles ==
    ASSUME SoloCargan
    PROVE  Spec => []MarcadorDelActa
<1>1. Init => IInv /\ Marca
    BY InicioBien, MarcaInicio
<1>2. IInv /\ Marca /\ [Next]_vars => (IInv /\ Marca)'
    BY PasoBien, MarcaPaso
<1>3. Marca => MarcadorDelActa
    BY DEF Marca
<1>4. QED
    BY <1>1, <1>2, <1>3, PTL DEF Spec
=============================================================================
