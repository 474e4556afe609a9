---------------------------- MODULE TorneoProofs ----------------------------
(***************************************************************************)
(* Theorems of Torneo, for every fixture, squad and limit the assumptions  *)
(* admit: type correctness, the coherence of the actas, the accounting of  *)
(* suspensions against the ledger, what no step does to a closed acta or   *)
(* to its matchday, and the refinement of the book of accounts LibroMayor. *)
(* The accounting is proved on the discipline state t that the handlers    *)
(* pass from one helper to the next, once per helper; each action then     *)
(* only has to name the helpers it uses.                                   *)
(***************************************************************************)
EXTENDS TorneoMayor, FiniteSetTheorems, WellFoundedInduction, TLAPS

-----------------------------------------------------------------------------
(* The inductive invariant.                                                *)

\* The three tables of the discipline state have their types.
TipoDisciplina ==
    [fecha : [Fechas -> RegistroFecha], sancion : [SancionId -> RegistroSancion],
     libro : SUBSET (SancionId \X Fechas)]

SaldoBien(r) ==
    /\ r.pendientes <= r.totales
    /\ r.existe => (r.cumplida <=> r.pendientes = 0)
    /\ r.revocada => r.existe /\ r.cumplida

DescontaronEn(t, s) == {f \in Fechas : <<s, f>> \in t.libro}

Exacta(t, s) ==
    t.sancion[s].existe /\ ~t.sancion[s].ajustada /\ ~t.sancion[s].revocada
        => t.sancion[s].pendientes + Cardinality(DescontaronEn(t, s)) = t.sancion[s].totales

\* The ledger explains the balances: SaldoCoherente, LibroSoloDeFinalizadas and
\* LibroExacto of a discipline state that need not be the current one.
Contable(t) ==
    /\ t \in TipoDisciplina
    /\ \A s \in SancionId : SaldoBien(t.sancion[s])
    /\ \A s \in SancionId, f \in Fechas : <<s, f>> \in t.libro =>
            t.sancion[s].existe /\ t.fecha[f].estado = "FINALIZADA"
    /\ \A s \in SancionId : Exacta(t, s)

\* A row of table partidos: in use it has a matchday, and only then, and its acta is
\* closed exactly when its result counts.
PartidoBien(r) ==
    /\ r.estado # "LIBRE" => r.fecha \in Fechas
    /\ r.estado = "LIBRE" => r.fecha = Nada
    /\ r.acta <=> r.estado \in {"FINALIZADO", "WALKOVER"}

PartidosBien(pa) ==
    /\ pa \in [Partidos -> RegistroPartido]
    /\ \A p \in Partidos : PartidoBien(pa[p])

Resto ==
    /\ tarjetas \subseteq RegistroTarjeta
    /\ inscripcion \in [Equipos -> {"INSCRITO", "SUSPENDIDO"}]
    /\ vetados \subseteq {RutDe[j] : j \in Jugadores}
    /\ lote \in [equipo : Equipos \cup {Nada}, porEvaluar : SUBSET Fechas]

IInv == PartidosBien(partido) /\ Contable(Disciplina) /\ Resto

\* The invariant is what the runs check, and a little more.
LEMMA IInvBasta ==
    IInv => TypeOK /\ ActaCoherente /\ SaldoCoherente /\ LibroSoloDeFinalizadas /\ LibroExacto
<1> SUFFICES ASSUME IInv
             PROVE  TypeOK /\ ActaCoherente /\ SaldoCoherente /\ LibroSoloDeFinalizadas /\ LibroExacto
    OBVIOUS
<1> USE DEF IInv
<1>0. /\ Disciplina.fecha = fecha
      /\ Disciplina.sancion = sancion
      /\ Disciplina.libro = libro
    BY DEF Disciplina
<1>1. partido \in [Partidos -> RegistroPartido]
    BY DEF PartidosBien, PartidoBien
<1>2. /\ fecha \in [Fechas -> RegistroFecha]
      /\ sancion \in [SancionId -> RegistroSancion]
      /\ libro \subseteq SancionId \X Fechas
    BY <1>0 DEF Contable, TipoDisciplina
<1>3. TypeOK
    BY <1>1, <1>2 DEF TypeOK, Resto
<1>4. ActaCoherente
    BY DEF ActaCoherente, PartidosBien, PartidoBien, PartidosVivos
<1>5. SaldoCoherente
    BY <1>0 DEF SaldoCoherente, Contable, SaldoBien
<1>6. LibroSoloDeFinalizadas
    BY <1>0, <1>2 DEF LibroSoloDeFinalizadas, Contable
<1>7. LibroExacto
    BY <1>0 DEF LibroExacto, Contable, Exacta, FechasQueDescontaron, DescontaronEn
<1>8. QED
    BY <1>3, <1>4, <1>5, <1>6, <1>7

-----------------------------------------------------------------------------
(* The helpers keep the accounts.                                          *)

\* A record of the three tables, each well typed, is a well typed state of the discipline.
LEMMA ArmarDisciplina ==
    ASSUME NEW a \in [Fechas -> RegistroFecha],
           NEW b \in [SancionId -> RegistroSancion],
           NEW c \in SUBSET (SancionId \X Fechas)
    PROVE  [fecha |-> a, sancion |-> b, libro |-> c] \in TipoDisciplina
BY DEF TipoDisciplina

\* The matchdays that discounted a suspension are finitely many, so they can be counted
\* (revertirDecrementoSanciones and the ledger's count of rows).
LEMMA DescontaronFinito ==
    ASSUME NEW t, NEW s
    PROVE  /\ IsFiniteSet(DescontaronEn(t, s))
           /\ Cardinality(DescontaronEn(t, s)) \in Nat
<1>1. DescontaronEn(t, s) \in SUBSET Fechas
    BY DEF DescontaronEn
<1>2. IsFiniteSet(Fechas)
    BY ParametrosAssumption
<1>3. QED
    BY <1>1, <1>2, FS_Subset, FS_CardinalityType

\* Closing a matchday (evaluarCierreDeFecha with decrementarSancionesPendientes) keeps
\* the accounts: each suspension it discounts loses one pending and gains one row.
LEMMA FinalizarContable ==
    ASSUME NEW pa, NEW t, Contable(t), NEW f \in Fechas
    PROVE  Contable(Finalizar(pa, t, f))
<1> DEFINE desc == Descontables(pa, t, f)
           u == Finalizar(pa, t, f)
<1>0. /\ u.fecha = [t.fecha EXCEPT ![f].estado = "FINALIZADA"]
      /\ u.sancion = [s \in SancionId |->
                        IF s \in desc THEN Descontada(t.sancion[s])
                        ELSE IF t.sancion[s].existe /\ t.sancion[s].pendientes <= 0
                        THEN [t.sancion[s] EXCEPT !.cumplida = TRUE]
                        ELSE t.sancion[s]]
      /\ u.libro = t.libro \cup (desc \X {f})
      /\ u = [fecha |-> u.fecha, sancion |-> u.sancion, libro |-> u.libro]
    BY DEF Finalizar
<1>1. /\ t.fecha \in [Fechas -> RegistroFecha]
      /\ t.sancion \in [SancionId -> RegistroSancion]
      /\ t.libro \subseteq SancionId \X Fechas
    BY DEF Contable, TipoDisciplina
<1>2. ASSUME NEW s \in desc
      PROVE  /\ s \in SancionId
             /\ t.sancion[s].existe
             /\ ~t.sancion[s].revocada
             /\ t.sancion[s].pendientes > 0
             /\ <<s, f>> \notin t.libro
    BY <1>2 DEF Descontables, SancionVigente
<1>3. /\ u.fecha \in [Fechas -> RegistroFecha]
      /\ u.fecha[f].estado = "FINALIZADA"
      /\ \A g \in Fechas : g # f => u.fecha[g] = t.fecha[g]
    BY <1>0, <1>1 DEF RegistroFecha, EstadosFecha
<1>4. ASSUME NEW r \in RegistroSancion, r.pendientes > 0
      PROVE  /\ Descontada(r) \in RegistroSancion
             /\ Descontada(r).pendientes = r.pendientes - 1
             /\ Descontada(r).totales = r.totales
             /\ Descontada(r).existe = r.existe
             /\ Descontada(r).revocada = r.revocada
             /\ Descontada(r).ajustada = r.ajustada
             /\ Descontada(r).cumplida <=> r.pendientes - 1 = 0
    <2>1. Descontada(r) = [r EXCEPT !.pendientes = r.pendientes - 1,
                                    !.cumplida = (r.pendientes - 1 = 0)]
        BY <1>4 DEF Descontada
    <2> DEFINE c == (r.pendientes - 1 = 0)
    <2>2. c \in BOOLEAN /\ r.pendientes - 1 \in Nat
        BY <1>4 DEF RegistroSancion
    <2>3. Descontada(r) = [r EXCEPT !.pendientes = r.pendientes - 1, !.cumplida = c]
        BY <2>1
    <2>4. c <=> r.pendientes - 1 = 0
        OBVIOUS
    <2> HIDE DEF c
    <2>5. QED
        BY <1>4, <2>2, <2>3, <2>4 DEF RegistroSancion
<1> HIDE DEF desc, u
<1>5. ASSUME NEW s \in SancionId
      PROVE  /\ u.sancion[s] \in RegistroSancion
             /\ SaldoBien(u.sancion[s])
             /\ u.sancion[s].existe <=> t.sancion[s].existe
             /\ u.sancion[s].ajustada = t.sancion[s].ajustada
             /\ u.sancion[s].revocada = t.sancion[s].revocada
             /\ u.sancion[s].totales = t.sancion[s].totales
             /\ u.sancion[s].pendientes =
                    IF s \in desc THEN t.sancion[s].pendientes - 1 ELSE t.sancion[s].pendientes
    <2>1. t.sancion[s] \in RegistroSancion /\ SaldoBien(t.sancion[s])
        BY <1>1 DEF Contable
    <2>2. CASE s \in desc
        <3>1. u.sancion[s] = Descontada(t.sancion[s])
            BY <1>0, <2>2
        <3>2. t.sancion[s].pendientes > 0 /\ ~t.sancion[s].revocada
            BY <1>2, <2>2
        <3>3. QED
            BY <1>4, <2>1, <2>2, <3>1, <3>2 DEF SaldoBien, RegistroSancion
    <2>3. CASE s \notin desc /\ t.sancion[s].existe /\ t.sancion[s].pendientes <= 0
        <3> DEFINE r == t.sancion[s]
                   v == [r EXCEPT !.cumplida = TRUE]
        <3>1. u.sancion[s] = v
            BY <1>0, <2>3
        <3> HIDE DEF r
        <3>2. /\ v \in RegistroSancion
              /\ v.existe = r.existe /\ v.ajustada = r.ajustada /\ v.revocada = r.revocada
              /\ v.totales = r.totales /\ v.pendientes = r.pendientes /\ v.cumplida
            BY <2>1 DEF r, RegistroSancion
        <3>3. SaldoBien(v)
            BY <2>1, <2>3, <3>2 DEF r, SaldoBien, RegistroSancion
        <3>4. QED
            BY <2>3, <3>1, <3>2, <3>3 DEF r
    <2>4. CASE s \notin desc /\ ~(t.sancion[s].existe /\ t.sancion[s].pendientes <= 0)
        <3>1. u.sancion[s] = t.sancion[s]
            BY <1>0, <2>4
        <3>2. QED
            BY <2>1, <2>4, <3>1
    <2>5. QED
        BY <2>2, <2>3, <2>4
<1>6. u \in TipoDisciplina
    <2>1. u.sancion \in [SancionId -> RegistroSancion]
        BY <1>0, <1>5
    <2>2. u.libro \subseteq SancionId \X Fechas
        BY <1>0, <1>1, <1>2
    <2>3. [fecha |-> u.fecha, sancion |-> u.sancion, libro |-> u.libro] \in TipoDisciplina
        BY <1>3, <2>1, <2>2, ArmarDisciplina
    <2>4. QED
        BY <1>0, <2>3
<1>7. ASSUME NEW s \in SancionId, NEW g \in Fechas, <<s, g>> \in u.libro
      PROVE  u.sancion[s].existe /\ u.fecha[g].estado = "FINALIZADA"
    <2>1. CASE <<s, g>> \in t.libro
        BY <1>3, <1>5, <2>1 DEF Contable
    <2>2. CASE s \in desc /\ g = f
        BY <1>2, <1>3, <1>5, <2>2
    <2>3. QED
        BY <1>0, <1>7, <2>1, <2>2
<1>8. ASSUME NEW s \in SancionId
      PROVE  Exacta(u, s)
    <2>1. CASE s \in desc
        <3>1. DescontaronEn(u, s) = DescontaronEn(t, s) \cup {f}
            BY <1>0, <2>1 DEF DescontaronEn
        <3>2. f \notin DescontaronEn(t, s)
            BY <1>2, <2>1 DEF DescontaronEn
        <3>3. Cardinality(DescontaronEn(u, s)) = Cardinality(DescontaronEn(t, s)) + 1
            BY <3>1, <3>2, DescontaronFinito, FS_AddElement
        <3>4. Exacta(t, s)
            BY DEF Contable
        <3>5. t.sancion[s] \in RegistroSancion
            BY <1>1
        <3>6. QED
            BY <1>2, <1>5, <2>1, <3>3, <3>4, <3>5, DescontaronFinito DEF Exacta, RegistroSancion
    <2>2. CASE s \notin desc
        <3>1. DescontaronEn(u, s) = DescontaronEn(t, s)
            BY <1>0, <2>2 DEF DescontaronEn
        <3>2. QED
            BY <1>5, <2>2, <3>1 DEF Contable, Exacta
    <2>3. QED
        BY <2>1, <2>2
<1>9. Contable(u)
    BY <1>5, <1>6, <1>7, <1>8 DEF Contable
<1>10. QED
    BY <1>9 DEF u

\* So does evaluarCierreDeFecha, whether it closes the matchday or leaves it.
LEMMA EvaluarContable ==
    ASSUME NEW pa, NEW t, Contable(t), NEW f \in Fechas
    PROVE  Contable(Evaluar(pa, t, f))
BY FinalizarContable DEF Evaluar

\* Giving back what f discounted needs the ledger: a suspension with a row there
\* has something to be given back.
LEMMA DevueltaBien ==
    ASSUME NEW r \in RegistroSancion, SaldoBien(r)
    PROVE  /\ Devuelta(r) \in RegistroSancion
           /\ SaldoBien(Devuelta(r))
           /\ Devuelta(r).existe <=> r.existe
           /\ Devuelta(r).revocada <=> r.revocada
           /\ Devuelta(r).ajustada <=> r.ajustada
           /\ Devuelta(r).totales = r.totales
           /\ ~r.revocada /\ r.pendientes + 1 <= r.totales
                    => Devuelta(r).pendientes = r.pendientes + 1
<1>1. CASE r.revocada
    BY <1>1 DEF Devuelta
<1>2. CASE ~r.revocada
    <2> DEFINE pend == IF r.pendientes + 1 <= r.totales THEN r.pendientes + 1 ELSE r.totales
               c == IF pend > 0 THEN FALSE ELSE r.cumplida
               v == [r EXCEPT !.pendientes = pend, !.cumplida = c]
    <2>1. Devuelta(r) = v
        BY <1>2 DEF Devuelta
    <2>2. /\ pend \in Nat /\ pend <= r.totales
          /\ c \in BOOLEAN
          /\ r.pendientes + 1 <= r.totales => pend = r.pendientes + 1
        <3>1. r.pendientes \in Nat /\ r.totales \in Nat /\ r.cumplida \in BOOLEAN
            BY DEF RegistroSancion
        <3>2. pend \in Nat /\ pend <= r.totales
            BY <3>1
        <3>3. r.pendientes + 1 <= r.totales => pend = r.pendientes + 1
            OBVIOUS
        <3>4. c \in BOOLEAN
            BY <3>1, Zenon
        <3>5. QED
            BY <3>2, <3>3, <3>4, Zenon
    <2>3. pend = 0 => r.pendientes = 0
        BY DEF RegistroSancion, SaldoBien
    <2>4. r.existe => (c <=> pend = 0)
        BY <2>2, <2>3 DEF SaldoBien, RegistroSancion
    <2> HIDE DEF pend, c
    <2>5. /\ v \in RegistroSancion
          /\ v.pendientes = pend /\ v.cumplida = c /\ v.totales = r.totales
          /\ v.existe = r.existe /\ v.revocada = r.revocada /\ v.ajustada = r.ajustada
        BY <2>2 DEF RegistroSancion
    <2> HIDE DEF v
    <2>6. SaldoBien(v)
        BY <1>2, <2>2, <2>4, <2>5 DEF SaldoBien
    <2>7. QED
        BY <2>1, <2>2, <2>5, <2>6
<1>3. QED
    BY <1>1, <1>2

\* Reopening a matchday (revertirDecrementoSanciones) keeps the accounts: each row of
\* the ledger it deletes gives back one pending.
LEMMA ReabrirContable ==
    ASSUME NEW t, Contable(t), NEW f \in Fechas
    PROVE  Contable(Reabrir(t, f))
<1> DEFINE u == Reabrir(t, f)
<1>0. /\ u.fecha = [t.fecha EXCEPT ![f].estado = "EN_CURSO"]
      /\ u.sancion = [s \in SancionId |->
                        IF <<s, f>> \in t.libro THEN Devuelta(t.sancion[s]) ELSE t.sancion[s]]
      /\ u.libro = {r \in t.libro : r[2] # f}
      /\ u = [fecha |-> u.fecha, sancion |-> u.sancion, libro |-> u.libro]
    BY DEF Reabrir
<1> HIDE DEF u
<1>1. /\ t.fecha \in [Fechas -> RegistroFecha]
      /\ t.sancion \in [SancionId -> RegistroSancion]
      /\ t.libro \subseteq SancionId \X Fechas
    BY DEF Contable, TipoDisciplina
<1>2. /\ u.fecha \in [Fechas -> RegistroFecha]
      /\ \A g \in Fechas : g # f => u.fecha[g] = t.fecha[g]
    BY <1>0, <1>1 DEF RegistroFecha, EstadosFecha
<1>3. ASSUME NEW s \in SancionId
      PROVE  /\ u.sancion[s] \in RegistroSancion
             /\ SaldoBien(u.sancion[s])
             /\ u.sancion[s].existe <=> t.sancion[s].existe
    <2>1. t.sancion[s] \in RegistroSancion /\ SaldoBien(t.sancion[s])
        BY <1>1 DEF Contable
    <2>2. u.sancion[s] = IF <<s, f>> \in t.libro THEN Devuelta(t.sancion[s]) ELSE t.sancion[s]
        BY <1>0
    <2>3. QED
        BY <2>1, <2>2, DevueltaBien
<1>4. u \in TipoDisciplina
    <2>1. u.sancion \in [SancionId -> RegistroSancion]
        BY <1>0, <1>3
    <2>2. u.libro \in SUBSET (SancionId \X Fechas)
        BY <1>0, <1>1
    <2>3. [fecha |-> u.fecha, sancion |-> u.sancion, libro |-> u.libro] \in TipoDisciplina
        BY <1>2, <2>1, <2>2, ArmarDisciplina
    <2>4. QED
        BY <1>0, <2>3
<1>5. ASSUME NEW s \in SancionId, NEW g \in Fechas, <<s, g>> \in u.libro
      PROVE  u.sancion[s].existe /\ u.fecha[g].estado = "FINALIZADA"
    <2>1. <<s, g>> \in t.libro /\ g # f
        BY <1>0, <1>5
    <2>2. QED
        BY <1>2, <1>3, <2>1 DEF Contable
<1>6. ASSUME NEW s \in SancionId
      PROVE  Exacta(u, s)
    <2>1. DescontaronEn(u, s) = DescontaronEn(t, s) \ {f}
        BY <1>0 DEF DescontaronEn
    <2>2. Exacta(t, s) /\ t.sancion[s] \in RegistroSancion /\ SaldoBien(t.sancion[s])
        BY <1>1 DEF Contable
    <2>3. CASE <<s, f>> \in t.libro
        <3>1. f \in DescontaronEn(t, s)
            BY <2>3 DEF DescontaronEn
        <3>2. Cardinality(DescontaronEn(u, s)) = Cardinality(DescontaronEn(t, s)) - 1
            BY <2>1, <3>1, DescontaronFinito, FS_RemoveElement
        <3>3. Cardinality(DescontaronEn(t, s)) >= 1
            BY <3>2, DescontaronFinito
        <3>4. u.sancion[s] = Devuelta(t.sancion[s])
            BY <1>0, <2>3
        <3>5. SUFFICES ASSUME t.sancion[s].existe, ~t.sancion[s].ajustada, ~t.sancion[s].revocada
                       PROVE  u.sancion[s].pendientes + Cardinality(DescontaronEn(u, s))
                                = u.sancion[s].totales
            BY <2>2, <3>4, DevueltaBien DEF Exacta
        <3>6. t.sancion[s].pendientes + Cardinality(DescontaronEn(t, s)) = t.sancion[s].totales
            BY <2>2, <3>5 DEF Exacta
        <3>7. t.sancion[s].pendientes + 1 <= t.sancion[s].totales
            BY <2>2, <3>3, <3>6, DescontaronFinito DEF RegistroSancion
        <3>8. /\ u.sancion[s].pendientes = t.sancion[s].pendientes + 1
              /\ u.sancion[s].totales = t.sancion[s].totales
            BY <2>2, <3>4, <3>5, <3>7, DevueltaBien
        <3>9. QED
            BY <2>2, <3>2, <3>6, <3>8, DescontaronFinito DEF RegistroSancion
    <2>4. CASE <<s, f>> \notin t.libro
        <3>1. DescontaronEn(u, s) = DescontaronEn(t, s)
            BY <2>1, <2>4 DEF DescontaronEn
        <3>2. u.sancion[s] = t.sancion[s]
            BY <1>0, <2>4
        <3>3. QED
            BY <2>2, <3>1, <3>2 DEF Exacta
    <2>5. QED
        BY <2>3, <2>4
<1>7. Contable(u)
    BY <1>3, <1>4, <1>5, <1>6 DEF Contable
<1>8. QED
    BY <1>7 DEF u

\* So does revertirCierreDeFecha, whether it reopens the matchday or leaves it.
LEMMA RevertirContable ==
    ASSUME NEW t, Contable(t), NEW f \in Fechas
    PROVE  Contable(Revertir(t, f))
BY ReabrirContable DEF Revertir


\* The reconciliation only creates rows that did not exist, and takes the ledger
\* rows of the ones it deletes with them.
LEMMA AplicarContable ==
    ASSUME NEW t, Contable(t), NEW p \in Partidos, partido[p].fecha \in Fechas
    PROVE  Contable(AplicarSanciones(t, p))
<1> DEFINE nuevas == {s \in Propuestas(p) : ~t.sancion[s].existe}
           fuera  == Huerfanas(t, p)
           desde  == t.fecha[partido[p].fecha].numero + 1
           b == [s \in SancionId |-> IF s \in nuevas THEN SancionNueva(1, desde)
                                      ELSE IF s \in fuera THEN SinSancion
                                      ELSE t.sancion[s]]
           c == {r \in t.libro : r[1] \notin fuera}
           u == [fecha |-> t.fecha, sancion |-> b, libro |-> c]
<1>1. /\ t.fecha \in [Fechas -> RegistroFecha]
      /\ t.sancion \in [SancionId -> RegistroSancion]
      /\ t.libro \subseteq SancionId \X Fechas
      /\ t = [fecha |-> t.fecha, sancion |-> t.sancion, libro |-> t.libro]
    BY DEF Contable, TipoDisciplina
<1>2. AplicarSanciones(t, p) = u
    <2>1. AplicarSanciones(t, p) = [t EXCEPT !.sancion = b, !.libro = c]
        BY DEF AplicarSanciones
    <2> HIDE DEF b, c
    <2>2. QED
        BY <1>1, <2>1
<1>3. desde \in Nat
    BY <1>1 DEF RegistroFecha
<1>4. \A s \in SancionId : s \in nuevas => ~t.sancion[s].existe
    OBVIOUS
<1> HIDE DEF nuevas, fuera, desde
<1>5. ASSUME NEW s \in SancionId
      PROVE  /\ b[s] \in RegistroSancion
             /\ SaldoBien(b[s])
    <2>1. CASE s \in nuevas
        BY <1>3, <2>1 DEF SancionNueva, RegistroSancion, SaldoBien
    <2>2. CASE s \notin nuevas /\ s \in fuera
        BY <2>2 DEF SinSancion, RegistroSancion, SaldoBien
    <2>3. CASE s \notin nuevas /\ s \notin fuera
        BY <1>1, <2>3 DEF Contable
    <2>4. QED
        BY <2>1, <2>2, <2>3
<1>6. ASSUME NEW s \in SancionId, NEW g \in Fechas, <<s, g>> \in c
      PROVE  b[s].existe /\ t.fecha[g].estado = "FINALIZADA"
    <2>1. <<s, g>> \in t.libro /\ s \notin fuera
        BY <1>6
    <2>2. t.sancion[s].existe /\ t.fecha[g].estado = "FINALIZADA"
        BY <2>1 DEF Contable
    <2>3. QED
        BY <1>4, <2>1, <2>2
<1>7. ASSUME NEW s \in SancionId
      PROVE  Exacta(u, s)
    <2>1. CASE s \in nuevas
        <3>1. DescontaronEn(u, s) = {}
            BY <1>4, <2>1 DEF DescontaronEn, Contable
        <3>2. Cardinality(DescontaronEn(u, s)) = 0
            BY <3>1, FS_EmptySet
        <3>3. u.sancion[s].pendientes = 1 /\ u.sancion[s].totales = 1
            BY <2>1 DEF SancionNueva
        <3>4. QED
            BY <3>2, <3>3 DEF Exacta
    <2>2. CASE s \notin nuevas /\ s \in fuera
        BY <2>2 DEF Exacta, SinSancion
    <2>3. CASE s \notin nuevas /\ s \notin fuera
        <3>1. DescontaronEn(u, s) = DescontaronEn(t, s)
            BY <2>3 DEF DescontaronEn
        <3>2. u.sancion[s] = t.sancion[s]
            BY <2>3
        <3>3. QED
            BY <3>1, <3>2 DEF Contable, Exacta
    <2>4. QED
        BY <2>1, <2>2, <2>3
<1>8. u \in TipoDisciplina
    <2>1. b \in [SancionId -> RegistroSancion]
        BY <1>5
    <2>2. c \in SUBSET (SancionId \X Fechas)
        BY <1>1
    <2>3. QED
        BY <1>1, <2>1, <2>2, ArmarDisciplina
<1>9. Contable(u)
    <2>1. u.fecha = t.fecha /\ u.sancion = b /\ u.libro = c
        OBVIOUS
    <2> HIDE DEF u, b, c
    <2>2. QED
        BY <1>5, <1>6, <1>7, <1>8, <2>1 DEF Contable
<1>10. QED
    BY <1>2, <1>9

-----------------------------------------------------------------------------
(* Writing the tables.                                                     *)

\* A handler that saves a state with sound accounts leaves the tables with sound accounts.
LEMMA GuardarContable ==
    ASSUME NEW t, Contable(t), Guardar(t)
    PROVE  Contable(Disciplina)'
<1>1. t = [fecha |-> t.fecha, sancion |-> t.sancion, libro |-> t.libro]
    BY DEF Contable, TipoDisciplina
<1>2. Disciplina' = t
    BY <1>1 DEF Guardar, Disciplina
<1>3. QED
    BY <1>2

\* A handler that writes none of the three tables leaves the accounts as they were.
LEMMA IgualContable ==
    ASSUME Contable(Disciplina), UNCHANGED <<fecha, sancion, libro>>
    PROVE  Contable(Disciplina)'
BY DEF Disciplina

\* Handlers that write only table fechas may do anything but touch a closed one.
LEMMA FechasContable ==
    ASSUME Contable(Disciplina), UNCHANGED <<sancion, libro>>,
           fecha' \in [Fechas -> RegistroFecha],
           \A f \in Fechas : fecha[f].estado = "FINALIZADA" => fecha'[f].estado = "FINALIZADA"
    PROVE  Contable(Disciplina)'
<1> DEFINE u == [fecha |-> fecha', sancion |-> sancion, libro |-> libro]
<1>1. Disciplina' = u
    BY DEF Disciplina
<1>2. u \in TipoDisciplina
    BY ArmarDisciplina DEF Contable, TipoDisciplina, Disciplina
<1>3. \A s \in SancionId : DescontaronEn(u, s) = DescontaronEn(Disciplina, s)
    BY DEF DescontaronEn, Disciplina
<1>4. Contable(u)
    BY <1>2, <1>3 DEF Contable, Exacta, Disciplina
<1>5. QED
    BY <1>1, <1>4

\* Handlers that write one row of table sanciones_activas may leave a row with a
\* sound balance whose accounts the tribunal has changed, or a new one.
LEMMA SancionContable ==
    ASSUME Contable(Disciplina), UNCHANGED <<fecha, libro>>,
           NEW x \in SancionId, NEW r \in RegistroSancion,
           sancion' = [sancion EXCEPT ![x] = r],
           SaldoBien(r),
           r.existe,
           \/ r.ajustada
           \/ r.revocada
           \/ ~sancion[x].existe /\ r.pendientes = r.totales
    PROVE  Contable(Disciplina)'
<1> DEFINE u == [fecha |-> fecha, sancion |-> sancion', libro |-> libro]
<1>1. Disciplina' = u
    BY DEF Disciplina
<1>2. /\ fecha \in [Fechas -> RegistroFecha]
      /\ sancion \in [SancionId -> RegistroSancion]
      /\ libro \in SUBSET (SancionId \X Fechas)
    BY DEF Contable, TipoDisciplina, Disciplina
<1>3. /\ sancion' \in [SancionId -> RegistroSancion]
      /\ sancion'[x] = r
      /\ \A s \in SancionId : s # x => sancion'[s] = sancion[s]
    BY <1>2
<1>4. u \in TipoDisciplina
    BY <1>2, <1>3, ArmarDisciplina
<1>5. \A s \in SancionId : DescontaronEn(u, s) = DescontaronEn(Disciplina, s)
    BY DEF DescontaronEn, Disciplina
<1>6. \A s \in SancionId : SaldoBien(sancion'[s])
    BY <1>3 DEF Contable, Disciplina
<1>7. \A s \in SancionId, f \in Fechas : <<s, f>> \in libro =>
            sancion'[s].existe /\ fecha[f].estado = "FINALIZADA"
    BY <1>3 DEF Contable, Disciplina
<1>8. ASSUME NEW s \in SancionId
      PROVE  Exacta(u, s)
    <2>1. CASE s # x
        BY <1>3, <1>5, <2>1 DEF Contable, Exacta, Disciplina
    <2>2. CASE s = x /\ (r.ajustada \/ r.revocada)
        BY <1>3, <2>2 DEF Exacta
    <2>3. CASE s = x /\ ~sancion[x].existe /\ r.pendientes = r.totales
        <3>1. DescontaronEn(u, s) = {}
            BY <2>3 DEF DescontaronEn, Contable, Disciplina
        <3>2. Cardinality(DescontaronEn(u, s)) = 0
            BY <3>1, FS_EmptySet
        <3>3. QED
            BY <1>3, <2>3, <3>2 DEF Exacta, RegistroSancion
    <2>4. QED
        BY <2>1, <2>2, <2>3
<1>9. Contable(u)
    BY <1>4, <1>6, <1>7, <1>8 DEF Contable
<1>10. QED
    BY <1>1, <1>9

\* Rewriting one match with a sound row keeps every match sound.
LEMMA UnPartido ==
    ASSUME NEW pa, PartidosBien(pa), NEW p \in Partidos,
           NEW r \in RegistroPartido, PartidoBien(r)
    PROVE  PartidosBien([pa EXCEPT ![p] = r])
BY DEF PartidosBien


\* What the invariant says of a single match, for the handlers to use.
LEMMA FilaBien ==
    ASSUME IInv, NEW p \in Partidos
    PROVE  /\ partido[p] \in RegistroPartido
           /\ PartidoBien(partido[p])
           /\ partido[p].acta => partido[p].estado \in {"FINALIZADO", "WALKOVER"}
           /\ partido[p].estado # "LIBRE" => partido[p].fecha \in Fechas
BY DEF IInv, PartidosBien, PartidoBien

\* A row in use rewritten with another state and acta.
LEMMA ReescrituraBien ==
    ASSUME IInv, NEW p \in Partidos, partido[p].estado # "LIBRE",
           NEW e \in EstadosPartido, NEW a \in BOOLEAN,
           a <=> e \in {"FINALIZADO", "WALKOVER"}
    PROVE  LET r == [partido[p] EXCEPT !.estado = e, !.acta = a]
           IN  /\ r \in RegistroPartido
               /\ PartidoBien(r)
               /\ r.fecha = partido[p].fecha
               /\ r.fecha \in Fechas
<1> DEFINE r == [partido[p] EXCEPT !.estado = e, !.acta = a]
<1>1. partido[p] \in RegistroPartido /\ partido[p].fecha \in Fechas
    BY FilaBien
<1>2. /\ r \in RegistroPartido
      /\ r.fecha = partido[p].fecha
      /\ r.estado = e
      /\ r.acta = a
    BY <1>1 DEF RegistroPartido
<1>3. PartidoBien(r)
    BY <1>1, <1>2 DEF PartidoBien, EstadosPartido, EstadosResueltos
<1>4. QED
    BY <1>1, <1>2, <1>3

\* The same, for a row whose acta stays as it is: open.
LEMMA ConEstadoBien ==
    ASSUME IInv, NEW p \in Partidos, partido[p].estado # "LIBRE", ~partido[p].acta,
           NEW e \in EstadosPartido \ {"FINALIZADO", "WALKOVER"}
    PROVE  /\ ConEstado(p, e) \in RegistroPartido
           /\ PartidoBien(ConEstado(p, e))
           /\ ConEstado(p, e).fecha \in Fechas
<1> DEFINE r == [partido[p] EXCEPT !.estado = e]
<1>1. partido[p] \in RegistroPartido /\ partido[p].fecha \in Fechas
    BY FilaBien
<1>2. /\ r \in RegistroPartido
      /\ r.fecha = partido[p].fecha
      /\ r.estado = e
      /\ ~r.acta
    BY <1>1 DEF RegistroPartido
<1>3. PartidoBien(r)
    BY <1>1, <1>2 DEF PartidoBien, EstadosPartido, EstadosResueltos
<1>4. QED
    BY <1>1, <1>2, <1>3 DEF ConEstado

\* A handler that touches no card, inscription, veto or batch leaves them well typed.
LEMMA RestoIgual ==
    ASSUME Resto, SinTocarTarjetas
    PROVE  Resto'
BY DEF Resto, SinTocarTarjetas

\* Every handler that rewrites one match and evaluates or reopens its matchday.
LEMMA EvaluaBien ==
    ASSUME IInv, NEW p \in Partidos, NEW r \in RegistroPartido, PartidoBien(r),
           r.fecha \in Fechas, GuardarYEvaluar(p, r)
    PROVE  IInv'
<1> DEFINE pa == [partido EXCEPT ![p] = r]
<1>1. PartidosBien(partido')
    BY UnPartido DEF IInv, GuardarYEvaluar
<1>2. Contable(Evaluar(pa, Disciplina, r.fecha))
    BY EvaluarContable DEF IInv
<1>3. Contable(Disciplina)'
    BY <1>2, GuardarContable DEF GuardarYEvaluar
<1>4. Resto'
    BY RestoIgual DEF IInv, GuardarYEvaluar
<1>5. QED
    BY <1>1, <1>3, <1>4 DEF IInv

\* Every handler that rewrites one match and reopens its matchday (revertirCierreDeFecha).
LEMMA RevierteBien ==
    ASSUME IInv, NEW p \in Partidos, NEW r \in RegistroPartido, PartidoBien(r),
           r.fecha \in Fechas, GuardarYRevertir(p, r)
    PROVE  IInv'
<1>1. PartidosBien(partido')
    BY UnPartido DEF IInv, GuardarYRevertir
<1>2. Contable(Revertir(Disciplina, r.fecha))
    BY RevertirContable DEF IInv
<1>3. Contable(Disciplina)'
    BY <1>2, GuardarContable DEF GuardarYRevertir
<1>4. Resto'
    BY RestoIgual DEF IInv, GuardarYRevertir
<1>5. QED
    BY <1>1, <1>3, <1>4 DEF IInv

-----------------------------------------------------------------------------
(* Match operations.                                                       *)

\* Every handler of a single match keeps the invariant.
LEMMA OperarPartidoBien ==
    ASSUME IInv, NEW p \in Partidos, OperarPartido(p)
    PROVE  IInv'
<1> USE DEF IInv
<1>a. /\ partido[p] \in RegistroPartido
      /\ PartidoBien(partido[p])
      /\ partido[p].estado \in EstadosPartido \cup {"LIBRE"}
    BY FilaBien DEF RegistroPartido
<1>1. CASE CambiarEstado(p)
    <2> DEFINE e == IF partido[p].estado = "PROGRAMADO" THEN "EN_CURSO" ELSE "PROGRAMADO"
    <2>1. partido[p].estado # "LIBRE" /\ ~partido[p].acta
        BY <1>1 DEF CambiarEstado, Abierto, PartidosVivos
    <2>2. partido' = [partido EXCEPT ![p] = ConEstado(p, e)]
        BY <1>1, FilaBien DEF CambiarEstado, ConEstado, PartidosBien, RegistroPartido
    <2>3. e \in EstadosPartido \ {"FINALIZADO", "WALKOVER"}
        BY DEF EstadosPartido
    <2>4. PartidosBien(partido')
        BY <2>1, <2>2, <2>3, ConEstadoBien, UnPartido
    <2>5. Contable(Disciplina)' /\ Resto'
        BY <1>1, IgualContable, RestoIgual DEF CambiarEstado
    <2>6. QED
        BY <2>4, <2>5
<1>2. CASE \E g \in Destinos : MoverPartido(p, g)
    <2>1. PICK g \in Destinos : MoverPartido(p, g)
        BY <1>2
    <2> DEFINE f  == partido[p].fecha
               e  == IF partido[p].estado = "SUSPENDIDO_FUERZA_MAYOR" /\ fecha[g].estado # "SUSPENDIDA"
                     THEN "PROGRAMADO" ELSE partido[p].estado
               r  == [partido[p] EXCEPT !.fecha = g, !.estado = e]
               pa == [partido EXCEPT ![p] = r]
               Destino(t) == IF r.estado \in EstadosResueltos THEN t ELSE Revertir(t, g)
    <2>2. /\ partido[p].estado # "LIBRE" /\ ~partido[p].acta
          /\ f \in Fechas /\ g \in Fechas
          /\ partido' = pa
          /\ \/ Guardar(Destino(Evaluar(pa, Disciplina, f)))
             \/ Guardar(Evaluar(pa, Destino(Disciplina), f))
          /\ SinTocarTarjetas
        <3>1. MoverPartido(p, g)
            BY <2>1
        <3>2. partido[p].estado # "LIBRE" /\ ~partido[p].acta /\ g \in Fechas
            BY <3>1 DEF MoverPartido, Abierto, PartidosVivos, FechasVivas
        <3>3. r = [partido[p] EXCEPT
                    !.fecha = g,
                    !.estado = IF @ = "SUSPENDIDO_FUERZA_MAYOR" /\ fecha[g].estado # "SUSPENDIDA"
                               THEN "PROGRAMADO" ELSE @]
            BY <1>a DEF RegistroPartido
        <3>4. QED
            BY <3>1, <3>2, <3>3, FilaBien DEF MoverPartido
    <2>3. e \in EstadosPartido \ {"FINALIZADO", "WALKOVER"}
        BY <1>a, <2>2 DEF PartidoBien, EstadosPartido
    <2> HIDE DEF e
    <2>4. r \in RegistroPartido /\ r.estado = e /\ ~r.acta /\ r.fecha = g
        BY <1>a, <2>2, <2>3 DEF RegistroPartido
    <2>5. PartidosBien(partido')
        <3>1. PartidoBien(r)
            BY <2>2, <2>3, <2>4 DEF PartidoBien, EstadosPartido, EstadosResueltos
        <3> HIDE DEF r
        <3>2. QED
            BY <2>2, <2>4, <3>1, UnPartido
    <2> HIDE DEF r, pa
    <2>6. \A t : Contable(t) => Contable(Destino(t))
        BY <2>2, RevertirContable
    <2>7. \A t : Contable(t) => Contable(Evaluar(pa, t, f))
        BY <2>2, EvaluarContable
    <2> HIDE DEF Destino, f
    <2>8. Contable(Disciplina)'
        BY <2>2, <2>6, <2>7, GuardarContable
    <2>9. QED
        BY <2>2, <2>5, <2>8, RestoIgual
<1>3. CASE CerrarActa(p)
    <2> DEFINE r == [partido[p] EXCEPT !.estado = "FINALIZADO", !.acta = TRUE]
               pa == [partido EXCEPT ![p] = r]
               f == partido[p].fecha
    <2>1. partido[p].estado # "LIBRE"
        BY <1>3 DEF CerrarActa, Abierto, PartidosVivos
    <2>2. /\ r \in RegistroPartido /\ PartidoBien(r) /\ f \in Fechas
        BY <2>1, ReescrituraBien DEF EstadosPartido, EstadosResueltos
    <2>3. /\ partido' = pa
          /\ Guardar(Evaluar(pa, AplicarSanciones(Disciplina, p), f))
          /\ SinTocarTarjetas
        <3>1. [partido EXCEPT ![p].estado = "FINALIZADO", ![p].acta = TRUE] = pa
            BY DEF PartidosBien
        <3>2. QED
            BY <1>3, <3>1 DEF CerrarActa
    <2> HIDE DEF r
    <2>4. PartidosBien(partido')
        BY <2>2, <2>3, UnPartido
    <2>5. Contable(Evaluar(pa, AplicarSanciones(Disciplina, p), f))
        BY <2>2, AplicarContable, EvaluarContable
    <2>6. Contable(Disciplina)'
        BY <2>3, <2>5, GuardarContable
    <2>7. QED
        BY <2>3, <2>4, <2>6, RestoIgual
<1>4. CASE ReabrirActa(p)
    <2>1. partido[p].estado # "LIBRE"
        BY <1>4, FilaBien DEF ReabrirActa
    <2>2. GuardarYRevertir(p, [partido[p] EXCEPT !.estado = "EN_CURSO", !.acta = FALSE])
        BY <1>4 DEF ReabrirActa
    <2>3. "EN_CURSO" \in EstadosPartido
        BY DEF EstadosPartido
    <2>4. QED
        BY <2>1, <2>2, <2>3, ReescrituraBien, RevierteBien
<1>5. CASE SuspenderPartido(p)
    <2>1. /\ partido[p].estado # "LIBRE" /\ ~partido[p].acta
          /\ GuardarYEvaluar(p, ConEstado(p, "SUSPENDIDO_FUERZA_MAYOR"))
        BY <1>5 DEF SuspenderPartido, Abierto, PartidosVivos
    <2>2. "SUSPENDIDO_FUERZA_MAYOR" \in EstadosPartido \ {"FINALIZADO", "WALKOVER"}
        BY DEF EstadosPartido, EstadosResueltos
    <2>3. QED
        BY <2>1, <2>2, ConEstadoBien, EvaluaBien
<1>6. CASE MarcarNoJugado(p)
    <2>1. /\ partido[p].estado # "LIBRE" /\ ~partido[p].acta
          /\ GuardarYEvaluar(p, ConEstado(p, "NO_JUGADO"))
        BY <1>6 DEF MarcarNoJugado, Abierto, PartidosVivos
    <2>2. "NO_JUGADO" \in EstadosPartido \ {"FINALIZADO", "WALKOVER"}
        BY DEF EstadosPartido, EstadosResueltos
    <2>3. QED
        BY <2>1, <2>2, ConEstadoBien, EvaluaBien
<1>b. "PROGRAMADO" \in EstadosPartido \ {"FINALIZADO", "WALKOVER"}
    BY DEF EstadosPartido
<1>7. CASE ReprogramarPartido(p)
    <2>1. /\ partido[p].estado # "LIBRE" /\ ~partido[p].acta
          /\ GuardarYRevertir(p, ConEstado(p, "PROGRAMADO"))
        BY <1>7 DEF ReprogramarPartido, Abierto, PartidosVivos
    <2>2. QED
        BY <1>b, <2>1, ConEstadoBien, RevierteBien
<1>8. CASE DeclararWalkover(p)
    <2>1. /\ partido[p].estado # "LIBRE"
          /\ GuardarYEvaluar(p, [partido[p] EXCEPT !.estado = "WALKOVER", !.acta = TRUE])
        BY <1>8 DEF DeclararWalkover, Walkover, Abierto, PartidosVivos
    <2>2. "WALKOVER" \in EstadosPartido
        BY DEF EstadosPartido, EstadosResueltos
    <2>3. QED
        BY <2>1, <2>2, ReescrituraBien, EvaluaBien
<1>9. CASE AnularWalkover(p)
    <2>1. /\ partido[p].estado # "LIBRE"
          /\ GuardarYRevertir(p, [partido[p] EXCEPT !.estado = "PROGRAMADO", !.acta = FALSE])
        BY <1>9 DEF AnularWalkover
    <2>2. QED
        BY <1>b, <2>1, ReescrituraBien, RevierteBien
<1>10. CASE ReactivarPartido(p)
    <2>1. /\ partido[p].estado \in {"SUSPENDIDO_FUERZA_MAYOR", "NO_JUGADO"}
          /\ GuardarYRevertir(p, ConEstado(p, "PROGRAMADO"))
        BY <1>10 DEF ReactivarPartido
    <2>2. partido[p].estado # "LIBRE" /\ ~partido[p].acta
        BY <2>1, FilaBien
    <2>3. QED
        BY <1>b, <2>1, <2>2, ConEstadoBien, RevierteBien
<1>11. CASE \E js \in Listas : CertificarPresentes(p, js)
    <2>1. PICK js \in Listas : CertificarPresentes(p, js)
        BY <1>11
    <2> DEFINE r == [partido[p] EXCEPT !.presentes = js, !.certificado = TRUE]
    <2>2. partido' = [partido EXCEPT ![p] = r]
        BY <2>1 DEF CertificarPresentes, PartidosBien
    <2>3. js \in SUBSET Jugadores
        BY ParametrosAssumption
    <2>4. /\ r \in RegistroPartido
          /\ r.estado = partido[p].estado /\ r.acta = partido[p].acta
          /\ r.fecha = partido[p].fecha
        BY <1>a, <2>3 DEF RegistroPartido
    <2>5. PartidoBien(r)
        BY <1>a, <2>4 DEF PartidoBien
    <2> HIDE DEF r
    <2>6. PartidosBien(partido')
        BY <2>2, <2>4, <2>5, UnPartido
    <2>7. Contable(Disciplina)' /\ Resto'
        BY <2>1, IgualContable, RestoIgual DEF CertificarPresentes
    <2>8. QED
        BY <2>6, <2>7
<1>12. QED
    BY <1>1, <1>2, <1>3, <1>4, <1>5, <1>6, <1>7, <1>8, <1>9, <1>10, <1>11 DEF OperarPartido


-----------------------------------------------------------------------------
(* Cards, matchdays, the tribunal and the teams.                           *)

\* Adding, removing or reassigning a card keeps the invariant.
LEMMA CargarActaBien ==
    ASSUME IInv, CargarActa
    PROVE  IInv'
<1> USE DEF IInv
<1>1. CASE \E p \in Partidos, j \in Jugadores, tipo \in TiposTarjeta, m \in Minutos :
                AddIncidencia(p, j, tipo, m)
    <2>1. PICK p \in Partidos, j \in Jugadores, tipo \in TiposTarjeta, m \in Minutos :
                AddIncidencia(p, j, tipo, m)
        BY <1>1
    <2>2. tipo \in {"AMARILLA", "ROJA", "AMARILLA_ROJA"}
        BY ParametrosAssumption
    <2>3. Resto'
        BY <2>1, <2>2 DEF AddIncidencia, Resto, RegistroTarjeta
    <2>4. Contable(Disciplina)' /\ PartidosBien(partido')
        BY <2>1, IgualContable DEF AddIncidencia
    <2>5. QED
        BY <2>3, <2>4
<1>2. CASE \E c \in tarjetas : RemoveIncidencia(c)
    <2>1. PICK c \in tarjetas : RemoveIncidencia(c)
        BY <1>2
    <2>2. Resto'
        BY <2>1 DEF RemoveIncidencia, Resto
    <2>3. Contable(Disciplina)' /\ PartidosBien(partido')
        BY <2>1, IgualContable DEF RemoveIncidencia
    <2>4. QED
        BY <2>2, <2>3
<1>3. CASE \E c \in tarjetas, j \in Jugadores : AtribuirJugadorIncidencia(c, j)
    <2>1. PICK c \in tarjetas, j \in Jugadores : AtribuirJugadorIncidencia(c, j)
        BY <1>3
    <2>2. [c EXCEPT !.jugador = j] \in RegistroTarjeta
        BY DEF Resto, RegistroTarjeta
    <2>3. Resto'
        BY <2>1, <2>2 DEF AtribuirJugadorIncidencia, Resto
    <2>4. Contable(Disciplina)' /\ PartidosBien(partido')
        BY <2>1, IgualContable DEF AtribuirJugadorIncidencia
    <2>5. QED
        BY <2>3, <2>4
<1>4. QED
    BY <1>1, <1>2, <1>3 DEF CargarActa

\* Suspending all the open matches of a matchday leaves every match sound.
LEMMA ConSuspendidosBien ==
    ASSUME IInv, NEW f \in Fechas
    PROVE  PartidosBien(ConSuspendidos(f))
<1>1. ASSUME NEW p \in Partidos
      PROVE  /\ ConSuspendidos(f)[p] \in RegistroPartido
             /\ PartidoBien(ConSuspendidos(f)[p])
    <2>1. CASE partido[p].fecha = f /\ ~partido[p].acta /\ partido[p].estado \notin EstadosResueltos
        <3>1. ConSuspendidos(f)[p] = [partido[p] EXCEPT !.estado = "SUSPENDIDO_FUERZA_MAYOR"]
            BY <2>1 DEF ConSuspendidos, ConEstado
        <3>2. partido[p] \in RegistroPartido
            BY FilaBien
        <3>3. "SUSPENDIDO_FUERZA_MAYOR" \in EstadosPartido
            BY DEF EstadosPartido, EstadosResueltos
        <3>4. QED
            BY <2>1, <3>1, <3>2, <3>3 DEF RegistroPartido, PartidoBien
    <2>2. CASE ~(partido[p].fecha = f /\ ~partido[p].acta /\ partido[p].estado \notin EstadosResueltos)
        BY <2>2, FilaBien DEF ConSuspendidos
    <2>3. QED
        BY <2>1, <2>2
<1>2. ConSuspendidos(f) = [p \in Partidos |-> ConSuspendidos(f)[p]]
    BY DEF ConSuspendidos
<1> HIDE DEF ConSuspendidos
<1>3. QED
    BY <1>1, <1>2 DEF PartidosBien

\* Suspending a matchday that is not closed touches no other one.
LEMMA ConFechaSuspendidaBien ==
    ASSUME IInv, NEW f \in Fechas, fecha[f].estado # "FINALIZADA"
    PROVE  /\ fecha \in [Fechas -> RegistroFecha]
           /\ ConFechaSuspendida(f) \in [Fechas -> RegistroFecha]
           /\ ConFechaSuspendida(f)[f].estado = "SUSPENDIDA"
           /\ \A g \in Fechas : g # f => ConFechaSuspendida(f)[g] = fecha[g]
<1>1. fecha \in [Fechas -> RegistroFecha]
    BY DEF IInv, Contable, TipoDisciplina, Disciplina
<1>2. QED
    BY <1>1 DEF ConFechaSuspendida, RegistroFecha, EstadosFecha

\* Suspending a matchday, with each strategy, and reactivating it keep the invariant.
LEMMA OperarFechaBien ==
    ASSUME IInv, NEW f \in Fechas, OperarFecha(f)
    PROVE  IInv'
<1> USE DEF IInv
<1>1. CASE SuspenderFechaManual(f)
    <2>1. /\ fecha[f].estado # "FINALIZADA"
          /\ partido' = ConSuspendidos(f)
          /\ fecha' = ConFechaSuspendida(f)
          /\ UNCHANGED <<sancion, libro>>
          /\ SinTocarTarjetas
        BY <1>1 DEF SuspenderFechaManual, PuedeSuspender
    <2>2. PartidosBien(partido')
        BY <2>1, ConSuspendidosBien
    <2>3. Contable(Disciplina)'
        BY <2>1, ConFechaSuspendidaBien, FechasContable
    <2>4. QED
        BY <2>1, <2>2, <2>3, RestoIgual
<1>2. ASSUME NEW domino \in BOOLEAN, SuspenderFechaConBis(f, domino)
      PROVE  IInv'
    <2> DEFINE pa == ConSuspendidos(f)
               fe == [g \in Fechas |->
                        IF domino /\ fecha[g].estado # "LIBRE" /\ fecha[g].numero > fecha[f].numero
                        THEN [fecha[g] EXCEPT !.tipo = "REPROGRAMADA"]
                        ELSE ConFechaSuspendida(f)[g]]
    <2>1. /\ fecha[f].estado # "FINALIZADA"
          /\ UNCHANGED <<sancion, libro>>
          /\ SinTocarTarjetas
        BY <1>2 DEF SuspenderFechaConBis, PuedeSuspender
    <2>2. PICK bis \in Fechas \ FechasVivas,
               copia \in [AClonar(pa, f) -> Partidos \ PartidosVivos] :
                    /\ fecha' = [fe EXCEPT ![bis] = FechaNueva(fecha[f].numero, "REPROGRAMADA", f)]
                    /\ partido' = Clonados(pa, f, bis, copia)
        BY <1>2 DEF SuspenderFechaConBis
    <2>3. ASSUME NEW g \in Fechas
          PROVE  /\ fe[g] \in RegistroFecha
                 /\ fecha[g].estado = "FINALIZADA" => fe[g].estado = "FINALIZADA"
        <3>1. /\ fecha[g] \in RegistroFecha
              /\ ConFechaSuspendida(f)[g] \in RegistroFecha
              /\ fecha[g].estado = "FINALIZADA" => ConFechaSuspendida(f)[g].estado = "FINALIZADA"
            BY <2>1, ConFechaSuspendidaBien
        <3>2. CASE fe[g] = [fecha[g] EXCEPT !.tipo = "REPROGRAMADA"]
            BY <3>1, <3>2 DEF RegistroFecha
        <3>3. CASE fe[g] = ConFechaSuspendida(f)[g]
            BY <3>1, <3>3
        <3>4. QED
            BY <3>2, <3>3
    <2>4. FechaNueva(fecha[f].numero, "REPROGRAMADA", f) \in RegistroFecha
        BY <2>1, ConFechaSuspendidaBien DEF FechaNueva, RegistroFecha, EstadosFecha
    <2>5. bis \in Fechas /\ fecha[bis].estado # "FINALIZADA"
        BY DEF FechasVivas
    <2>6. DOMAIN fe = Fechas /\ fe \in [Fechas -> RegistroFecha]
        BY <2>3
    <2> HIDE DEF fe
    <2>7. /\ fecha' \in [Fechas -> RegistroFecha]
          /\ \A g \in Fechas : fecha[g].estado = "FINALIZADA" => fecha'[g].estado = "FINALIZADA"
        BY <2>2, <2>3, <2>4, <2>5, <2>6
    <2>8. Contable(Disciplina)'
        BY <2>1, <2>7, FechasContable
    <2>9. PartidosBien(pa)
        BY ConSuspendidosBien
    <2> HIDE DEF pa
    <2>10. ASSUME NEW q \in Partidos
           PROVE  /\ Clonados(pa, f, bis, copia)[q] \in RegistroPartido
                  /\ PartidoBien(Clonados(pa, f, bis, copia)[q])
        <3>1. CASE \E p \in AClonar(pa, f) : copia[p] = q
            <4> DEFINE o == CHOOSE p \in AClonar(pa, f) : copia[p] = q
            <4>1. o \in Partidos
                BY <3>1 DEF AClonar
            <4>2. pa[o].equipos \in SUBSET Equipos
                BY <2>9, <4>1 DEF PartidosBien, RegistroPartido
            <4>3. Clonados(pa, f, bis, copia)[q] = PartidoNuevo(bis, pa[o].equipos)
                BY <3>1 DEF Clonados
            <4> HIDE DEF o
            <4>4. QED
                BY <2>5, <4>2, <4>3 DEF PartidoNuevo, RegistroPartido, PartidoBien, EstadosPartido
        <3>2. CASE ~\E p \in AClonar(pa, f) : copia[p] = q
            BY <2>9, <3>2 DEF Clonados, PartidosBien
        <3>3. QED
            BY <3>1, <3>2
    <2>11. PartidosBien(partido')
        <3>1. Clonados(pa, f, bis, copia) = [q \in Partidos |-> Clonados(pa, f, bis, copia)[q]]
            BY DEF Clonados
        <3>2. QED
            BY <2>2, <2>10, <3>1 DEF PartidosBien
    <2>12. QED
        BY <2>1, <2>8, <2>11, RestoIgual
<1>3. CASE \E g \in Fechas : SuspenderFechaReusando(f, g)
    <2>1. PICK g \in Fechas : SuspenderFechaReusando(f, g)
        BY <1>3
    <2> DEFINE fe == [ConFechaSuspendida(f) EXCEPT
                        ![g].tipo = "REPROGRAMADA",
                        ![g].reemplaza = IF @ = Nada THEN f ELSE @]
    <2>2. /\ fecha[f].estado # "FINALIZADA" /\ g # f
          /\ UNCHANGED <<sancion, libro>>
          /\ SinTocarTarjetas
          /\ fecha' = fe
        BY <2>1 DEF SuspenderFechaReusando, PuedeSuspender
    <2>3. /\ fe \in [Fechas -> RegistroFecha]
          /\ \A h \in Fechas : fe[h].estado = ConFechaSuspendida(f)[h].estado
        BY <2>2, ConFechaSuspendidaBien DEF RegistroFecha
    <2>4. Contable(Disciplina)'
        BY <2>2, <2>3, ConFechaSuspendidaBien, FechasContable
    <2> DEFINE nuevo == [p \in Partidos |->
                    IF partido[p].fecha = f /\ ~partido[p].acta
                    THEN [ConEstado(p, "PROGRAMADO") EXCEPT !.fecha = g] ELSE partido[p]]
    <2>5. partido' = nuevo
        BY <2>1 DEF SuspenderFechaReusando
    <2>6. ASSUME NEW p \in Partidos
          PROVE  nuevo[p] \in RegistroPartido /\ PartidoBien(nuevo[p])
        <3>1. CASE partido[p].fecha = f /\ ~partido[p].acta
            <4>1. nuevo[p] = [[partido[p] EXCEPT !.estado = "PROGRAMADO"] EXCEPT !.fecha = g]
                BY <3>1 DEF ConEstado
            <4>2. partido[p] \in RegistroPartido
                BY FilaBien
            <4> HIDE DEF nuevo
            <4>3. QED
                BY <3>1, <4>1, <4>2 DEF RegistroPartido, PartidoBien, EstadosPartido
        <3>2. CASE ~(partido[p].fecha = f /\ ~partido[p].acta)
            BY <3>2, FilaBien
        <3>3. QED
            BY <3>1, <3>2
    <2>7. PartidosBien(partido')
        <3>1. nuevo = [p \in Partidos |-> nuevo[p]]
            OBVIOUS
        <3> HIDE DEF nuevo
        <3>2. QED
            BY <2>5, <2>6, <3>1 DEF PartidosBien
    <2>8. QED
        BY <2>2, <2>4, <2>7, RestoIgual
<1>4. CASE ReactivarFecha(f)
    <2>1. /\ fecha[f].estado = "SUSPENDIDA"
          /\ fecha' = [fecha EXCEPT ![f].estado = "PROGRAMADA"]
          /\ partido' = [p \in Partidos |->
                    IF p \in AClonar(partido, f) THEN ConEstado(p, "PROGRAMADO") ELSE partido[p]]
          /\ UNCHANGED <<sancion, libro>>
          /\ SinTocarTarjetas
        BY <1>4 DEF ReactivarFecha
    <2>2. fecha \in [Fechas -> RegistroFecha]
        BY <2>1, ConFechaSuspendidaBien
    <2>3. /\ fecha' \in [Fechas -> RegistroFecha]
          /\ \A g \in Fechas : fecha[g].estado = "FINALIZADA" => fecha'[g].estado = "FINALIZADA"
        BY <2>1, <2>2 DEF RegistroFecha, EstadosFecha
    <2>4. Contable(Disciplina)'
        BY <2>1, <2>3, FechasContable
    <2>5. ASSUME NEW p \in Partidos
          PROVE  partido'[p] \in RegistroPartido /\ PartidoBien(partido'[p])
        <3>1. CASE p \in AClonar(partido, f)
            <4>1. partido'[p] = ConEstado(p, "PROGRAMADO")
                BY <2>1, <3>1
            <4>2. partido[p].estado # "LIBRE" /\ ~partido[p].acta
                BY <3>1 DEF AClonar
            <4>3. "PROGRAMADO" \in EstadosPartido \ {"FINALIZADO", "WALKOVER"}
                BY DEF EstadosPartido
            <4>4. QED
                BY <4>1, <4>2, <4>3, ConEstadoBien
        <3>2. CASE p \notin AClonar(partido, f)
            BY <2>1, <3>2, FilaBien
        <3>3. QED
            BY <3>1, <3>2
    <2>6. PartidosBien(partido')
        <3>1. partido' = [p \in Partidos |-> partido'[p]]
            BY <2>1
        <3>2. QED
            BY <2>5, <3>1 DEF PartidosBien
    <2>7. QED
        BY <2>1, <2>4, <2>6, RestoIgual
<1>5. QED
    BY <1>1, <1>2, <1>3, <1>4 DEF OperarFecha


\* The next matchday number is a number: a nonempty set of naturals has a least one.
LEMMA MinimoNatural ==
    ASSUME NEW S \in SUBSET Nat, S # {}
    PROVE  Min(S) \in S
<1> DEFINE R == OpToRel(<, Nat)
<1>1. IsWellFoundedOn(R, Nat)
    BY NatLessThanWellFounded
<1> HIDE DEF R
<1>2. \E x \in S : \A y \in S : ~(<<y, x>> \in R)
    <2>1. S \subseteq Nat
        OBVIOUS
    <2>2. QED
        BY ONLY <1>1, <2>1, S # {}, WFMin, Zenon
<1>3. \A x, y \in Nat : y < x => <<y, x>> \in R
    BY DEF R, OpToRel
<1>4. \E x \in S : \A y \in S : x <= y
    <2>1. PICK x \in S : \A y \in S : ~(<<y, x>> \in R)
        BY <1>2
    <2>2. \A y \in S : x \in Nat /\ y \in Nat /\ ~(y < x)
        BY <1>3, <2>1
    <2>3. QED
        BY <2>2
<1>5. QED
    BY <1>4 DEF Min

\* The default first matchday of a tribunal suspension (proximaFechaNumero) is a number.
LEMMA ProximaFechaNatural ==
    ASSUME IInv
    PROVE  ProximaFechaNumero \in Nat
<1> DEFINE abiertas == {fecha[f].numero : f \in {g \in Fechas :
                            fecha[g].estado \in {"PROGRAMADA", "EN_CURSO"}}}
<1>1. fecha \in [Fechas -> RegistroFecha]
    BY DEF IInv, Contable, TipoDisciplina, Disciplina
<1>2. abiertas \in SUBSET Nat
    BY <1>1 DEF RegistroFecha
<1> HIDE DEF abiertas
<1>3. abiertas # {} => Min(abiertas) \in Nat
    BY <1>2, MinimoNatural
<1>4. ProximaFechaNumero = IF abiertas = {} THEN 1 ELSE Min(abiertas)
    BY DEF ProximaFechaNumero, abiertas
<1>5. QED
    BY <1>3, <1>4

\* Imposing, adjusting and revoking a tribunal suspension keep the invariant.
LEMMA TribunalBien ==
    ASSUME IInv, Tribunal
    PROVE  IInv'
<1> USE DEF IInv
<1>0. sancion \in [SancionId -> RegistroSancion] /\ \A s \in SancionId : SaldoBien(sancion[s])
    BY DEF Contable, TipoDisciplina, Disciplina
<1>1. ASSUME NEW j \in Jugadores, NEW r \in Resoluciones, NEW k \in Cantidades,
             NEW d \in Desdes \cup {Nada}, NEW veto \in Vetos, TribunalCreate(j, r, k, d, veto)
      PROVE  IInv'
    <2> DEFINE s == <<j, "TRIBUNAL", r>>
               desde == IF d = Nada THEN ProximaFechaNumero ELSE d
               x == SancionNueva(k, desde)
    <2>1. /\ k > 0
          /\ ~sancion[s].existe
          /\ sancion' = [sancion EXCEPT ![s] = x]
          /\ vetados' = IF veto THEN vetados \cup {RutDe[j]} ELSE vetados
          /\ UNCHANGED <<partido, fecha, tarjetas, libro, inscripcion, lote>>
        BY <1>1 DEF TribunalCreate
    <2>2. s \in SancionId
        BY DEF SancionId, IdTribunal
    <2>3. desde \in Nat /\ k \in Nat
        BY ProximaFechaNatural, ParametrosAssumption
    <2> HIDE DEF s, desde
    <2>4. /\ x \in RegistroSancion /\ SaldoBien(x) /\ x.existe
          /\ x.pendientes = x.totales
        BY <2>1, <2>3 DEF SancionNueva, RegistroSancion, SaldoBien
    <2> HIDE DEF x
    <2>5. Contable(Disciplina)'
        BY <2>1, <2>2, <2>4, SancionContable
    <2>6. PartidosBien(partido')
        BY <2>1
    <2>7. Resto'
        BY <2>1 DEF Resto
    <2>8. QED
        BY <2>5, <2>6, <2>7
<1>2. ASSUME NEW s \in SancionId, NEW k \in Cantidades, NEW d \in Desdes \cup {Nada},
             TribunalAjustar(s, k, d)
      PROVE  IInv'
    <2> DEFINE r == sancion[s]
               desde == IF d = Nada THEN r.desde ELSE d
               totales == IF k > r.totales THEN k ELSE r.totales
               cero == (k = 0)
               x == [r EXCEPT !.pendientes = k, !.desde = desde, !.cumplida = cero,
                              !.totales = totales, !.revocada = cero, !.ajustada = TRUE]
    <2>1. r.existe /\ UNCHANGED <<partido, fecha, tarjetas, libro, inscripcion, vetados, lote>>
        BY <1>2 DEF TribunalAjustar
    <2>2. sancion' = [sancion EXCEPT ![s] = x]
        BY <1>2 DEF TribunalAjustar
    <2>3. r \in RegistroSancion
        BY <1>0
    <2>4. /\ k \in Nat /\ desde \in Nat /\ totales \in Nat /\ k <= totales
        BY <2>3, ParametrosAssumption DEF RegistroSancion
    <2>5. cero \in BOOLEAN /\ (cero <=> k = 0)
        OBVIOUS
    <2> HIDE DEF r, desde, totales, cero
    <2>6. /\ x \in RegistroSancion
          /\ x.existe = r.existe /\ x.ajustada
          /\ x.pendientes = k /\ x.totales = totales
          /\ x.cumplida = cero /\ x.revocada = cero
        BY <2>3, <2>4, <2>5 DEF RegistroSancion
    <2> HIDE DEF x
    <2>7. SaldoBien(x) /\ x.existe
        BY <2>1, <2>4, <2>5, <2>6 DEF SaldoBien
    <2>8. Contable(Disciplina)'
        BY <2>1, <2>2, <2>6, <2>7, SancionContable
    <2>9. PartidosBien(partido') /\ Resto'
        BY <2>1 DEF Resto
    <2>10. QED
        BY <2>8, <2>9
<1>3. ASSUME NEW s \in SancionId, TribunalRevoke(s)
      PROVE  IInv'
    <2> DEFINE x == [sancion[s] EXCEPT !.pendientes = 0, !.cumplida = TRUE, !.revocada = TRUE]
    <2>1. /\ sancion[s].existe
          /\ sancion' = [sancion EXCEPT ![s] = x]
          /\ UNCHANGED <<partido, fecha, tarjetas, libro, inscripcion, vetados, lote>>
        BY <1>0, <1>3 DEF TribunalRevoke
    <2>2. /\ x \in RegistroSancion /\ x.existe = sancion[s].existe
          /\ x.pendientes = 0 /\ x.cumplida /\ x.revocada
          /\ x.totales = sancion[s].totales /\ x.totales \in Nat
        BY <1>0 DEF RegistroSancion
    <2> HIDE DEF x
    <2>3. SaldoBien(x) /\ x.existe
        BY <2>1, <2>2 DEF SaldoBien
    <2>4. Contable(Disciplina)'
        BY <2>1, <2>2, <2>3, SancionContable
    <2>5. PartidosBien(partido') /\ Resto'
        BY <2>1 DEF Resto
    <2>6. QED
        BY <2>4, <2>5
<1>4. QED
    BY <1>1, <1>2, <1>3 DEF Tribunal

\* Every step of the bulk suspension of a team, and its reactivation, keep the invariant.
LEMMA OperarEquipoBien ==
    ASSUME IInv, OperarEquipo
    PROVE  IInv'
<1> USE DEF IInv
<1>1. ASSUME NEW e \in Suspendibles, SuspenderEquipo(e) \/ ReactivarEquipo(e)
      PROVE  IInv'
    <2>1. e \in Equipos
        BY ParametrosAssumption
    <2>2. UNCHANGED <<partido, fecha, sancion, libro>>
        BY <1>1 DEF SuspenderEquipo, ReactivarEquipo
    <2>3. Resto'
        BY <1>1, <2>1 DEF SuspenderEquipo, ReactivarEquipo, Resto
    <2>4. QED
        BY <2>2, <2>3, IgualContable
<1>2. ASSUME NEW p \in Partidos, LoteWalkover(p)
      PROVE  IInv'
    <2>1. partido[p].estado # "LIBRE"
        BY <1>2 DEF LoteWalkover, Pendientes
    <2>2. GuardarYEvaluar(p, [partido[p] EXCEPT !.estado = "WALKOVER", !.acta = TRUE])
        BY <1>2 DEF LoteWalkover, Walkover
    <2>3. "WALKOVER" \in EstadosPartido
        BY DEF EstadosPartido, EstadosResueltos
    <2>4. QED
        BY <2>1, <2>2, <2>3, ReescrituraBien, EvaluaBien
<1>3. ASSUME NEW p \in Partidos, LoteCancela(p)
      PROVE  IInv'
    <2>1. partido[p].estado \in {"PROGRAMADO", "EN_CURSO"}
        BY <1>3 DEF LoteCancela, Pendientes
    <2>2. ~partido[p].acta /\ partido[p].fecha \in Fechas
        BY <2>1, FilaBien
    <2>3. "SUSPENDIDO_FUERZA_MAYOR" \in EstadosPartido \ {"FINALIZADO", "WALKOVER"}
        BY DEF EstadosPartido, EstadosResueltos
    <2>4. PartidosBien(partido')
        BY <1>3, <2>1, <2>2, <2>3, ConEstadoBien, UnPartido DEF LoteCancela
    <2>5. Contable(Disciplina)'
        BY <1>3, IgualContable DEF LoteCancela
    <2>6. Resto'
        BY <1>3, <2>2 DEF LoteCancela, Resto
    <2>7. QED
        BY <2>4, <2>5, <2>6
<1>4. ASSUME NEW f \in Fechas, LoteEvalua(f)
      PROVE  IInv'
    <2>1. Contable(Disciplina)'
        BY <1>4, EvaluarContable, GuardarContable DEF LoteEvalua
    <2>2. PartidosBien(partido') /\ Resto'
        BY <1>4 DEF LoteEvalua, Resto
    <2>3. QED
        BY <2>1, <2>2
<1>5. CASE LoteTermina
    <2>1. UNCHANGED <<partido, fecha, sancion, libro>>
        BY <1>5 DEF LoteTermina
    <2>2. Resto'
        BY <1>5 DEF LoteTermina, SinLote, Resto
    <2>3. QED
        BY <2>1, <2>2, IgualContable
<1>6. QED
    BY <1>1, <1>2, <1>3, <1>4, <1>5 DEF OperarEquipo

-----------------------------------------------------------------------------
(* The theorems.                                                           *)

\* A freshly generated fixture satisfies the invariant.
LEMMA InicioBien == Init => IInv
<1> SUFFICES ASSUME Init
             PROVE  IInv
    OBVIOUS
<1>1. PartidosBien(partido)
    <2>1. ASSUME NEW p \in Partidos
          PROVE  partido[p] \in RegistroPartido /\ PartidoBien(partido[p])
        <3>1. CASE p \in DOMAIN FechaDe
            <4>1. partido[p] = PartidoNuevo(FechaDe[p], EquiposDe[p])
                BY <3>1 DEF Init
            <4>2. FechaDe[p] \in Fechas /\ EquiposDe[p] \in SUBSET Equipos
                BY <3>1, ParametrosAssumption
            <4>3. QED
                BY <4>1, <4>2 DEF PartidoNuevo, RegistroPartido, PartidoBien, EstadosPartido
        <3>2. CASE p \notin DOMAIN FechaDe
            BY <3>2 DEF Init, PartidoLibre, RegistroPartido, PartidoBien
        <3>3. QED
            BY <3>1, <3>2
    <2>2. partido = [p \in Partidos |-> partido[p]]
        BY DEF Init
    <2>3. QED
        BY <2>1, <2>2 DEF PartidosBien
<1>2. fecha \in [Fechas -> RegistroFecha]
    <2>1. ASSUME NEW f \in Fechas
          PROVE  fecha[f] \in RegistroFecha
        <3>1. CASE f \in DOMAIN NumeroDe
            BY <3>1, ParametrosAssumption DEF Init, FechaNueva, RegistroFecha, EstadosFecha
        <3>2. CASE f \notin DOMAIN NumeroDe
            BY <3>2 DEF Init, FechaLibre, RegistroFecha
        <3>3. QED
            BY <3>1, <3>2
    <2>2. fecha = [f \in Fechas |-> fecha[f]]
        BY DEF Init
    <2>3. QED
        BY <2>1, <2>2
<1>3. /\ sancion \in [SancionId -> RegistroSancion]
      /\ \A s \in SancionId : SaldoBien(sancion[s]) /\ ~sancion[s].existe
    BY DEF Init, SinSancion, RegistroSancion, SaldoBien
<1>4. libro = {}
    BY DEF Init
<1>5. Contable(Disciplina)
    <2>1. Disciplina \in TipoDisciplina
        BY <1>2, <1>3, <1>4, ArmarDisciplina DEF Disciplina
    <2>2. QED
        BY <1>3, <1>4, <2>1 DEF Contable, Exacta, Disciplina
<1>6. Resto
    BY DEF Init, SinLote, Resto
<1>7. QED
    BY <1>1, <1>5, <1>6 DEF IInv

\* Every request keeps the invariant.
LEMMA PasoBien == IInv /\ [Next]_vars => IInv'
<1> SUFFICES ASSUME IInv, [Next]_vars
             PROVE  IInv'
    OBVIOUS
<1>1. CASE Next
    BY <1>1, OperarPartidoBien, CargarActaBien, OperarFechaBien, TribunalBien, OperarEquipoBien
       DEF Next
<1>2. CASE UNCHANGED vars
    BY <1>2, IgualContable DEF IInv, vars, Resto
<1>3. QED
    BY <1>1, <1>2

\* So every reachable state satisfies it.
LEMMA Invariante == Spec => []IInv
BY InicioBien, PasoBien, PTL DEF Spec

\* Every handler leaves rows of the declared types.
THEOREM TiposCorrectos == Spec => []TypeOK
BY Invariante, IInvBasta, PTL

\* No sequence of requests leaves a match with a closed acta in a state that has no
\* result, nor a result with its acta open.
THEOREM ActasCoherentes == Spec => []ActaCoherente
BY Invariante, IInvBasta, PTL

\* The balance of every suspension stays within its total, and "cumplida" says
\* exactly that nothing is pending.
THEOREM SaldosCoherentes == Spec => []SaldoCoherente
BY Invariante, IInvBasta, PTL

\* Every row of the ledger belongs to a closed matchday and to a suspension that
\* still exists: reopening and reconciling never leave one behind.
THEOREM LibroCoherente == Spec => []LibroSoloDeFinalizadas
BY Invariante, IInvBasta, PTL

\* ADR-0015, for every fixture and every history: pending plus discounted is what
\* was imposed, unless the tribunal stepped in.
THEOREM LibroExplicaElSaldo == Spec => []LibroExacto
BY Invariante, IInvBasta, PTL

-----------------------------------------------------------------------------
(* What a request does to a match and to the matchday it belongs to.       *)

\* A matchday is complete when it has matches and none waits for its acta.
LEMMA CompletaSii ==
    ASSUME NEW pa, NEW f
    PROVE  Completa(pa, f) <=>
                /\ \E p \in Partidos : pa[p].fecha = f
                /\ \A p \in Partidos : pa[p].fecha = f => pa[p].estado \in EstadosResueltos
BY DEF Completa, FechaCompleta, EstadosEn

\* A request on one match touches no other.
LEMMA OtraFila ==
    ASSUME IInv, NEW p \in Partidos, OperarPartido(p), NEW q \in Partidos, q # p
    PROVE  partido'[q] = partido[q]
BY DEF OperarPartido, CambiarEstado, MoverPartido, CerrarActa, ReabrirActa, SuspenderPartido,
       MarcarNoJugado, ReprogramarPartido, DeclararWalkover, AnularWalkover, ReactivarPartido,
       CertificarPresentes, GuardarYEvaluar, GuardarYRevertir, IInv, PartidosBien

\* Suspending or reactivating a matchday rewrites only its matches without acta, and the
\* spare rows that become their clones; what it leaves pending is in no closed matchday.
LEMMA FilasDeFecha ==
    ASSUME IInv, NEW f \in Fechas, OperarFecha(f), NEW q \in Partidos, partido'[q] # partido[q]
    PROVE  /\ ~partido[q].acta /\ ~partido'[q].acta
           /\ partido[q].fecha \in {f, Nada}
           /\ \/ partido'[q].estado \in EstadosResueltos
              \/ partido'[q].fecha \in Fechas /\ fecha[partido'[q].fecha].estado # "FINALIZADA"
           /\ fecha[f].estado = "SUSPENDIDA" \/ fecha'[f].estado = "SUSPENDIDA"
<1>0. /\ partido \in [Partidos -> RegistroPartido] /\ fecha \in [Fechas -> RegistroFecha]
      /\ partido[q] \in RegistroPartido /\ PartidoBien(partido[q])
    BY FilaBien DEF IInv, PartidosBien, Contable, TipoDisciplina, Disciplina
<1>s. ConSuspendidos(f)[q] # partido[q] =>
            /\ ~partido[q].acta /\ partido[q].fecha = f
            /\ ConSuspendidos(f)[q].estado \in EstadosResueltos /\ ~ConSuspendidos(f)[q].acta
    BY <1>0 DEF ConSuspendidos, ConEstado, RegistroPartido, EstadosResueltos
<1>1. CASE SuspenderFechaManual(f)
    BY <1>0, <1>1, <1>s DEF SuspenderFechaManual, ConFechaSuspendida, RegistroFecha
<1>2. ASSUME NEW domino \in BOOLEAN, SuspenderFechaConBis(f, domino)
      PROVE  /\ ~partido[q].acta /\ ~partido'[q].acta
             /\ partido[q].fecha \in {f, Nada}
             /\ \/ partido'[q].estado \in EstadosResueltos
                \/ partido'[q].fecha \in Fechas /\ fecha[partido'[q].fecha].estado # "FINALIZADA"
             /\ fecha'[f].estado = "SUSPENDIDA"
    <2> DEFINE pa == ConSuspendidos(f)
               fe == [g \in Fechas |->
                        IF domino /\ fecha[g].estado # "LIBRE" /\ fecha[g].numero > fecha[f].numero
                        THEN [fecha[g] EXCEPT !.tipo = "REPROGRAMADA"]
                        ELSE ConFechaSuspendida(f)[g]]
    <2>1. /\ fecha[f].estado # "FINALIZADA" /\ fecha[f].estado # "LIBRE"
        BY <1>2 DEF SuspenderFechaConBis, PuedeSuspender, FechasVivas
    <2>2. PICK bis \in Fechas \ FechasVivas,
               copia \in [AClonar(pa, f) -> Partidos \ PartidosVivos] :
                    /\ fecha' = [fe EXCEPT ![bis] = FechaNueva(fecha[f].numero, "REPROGRAMADA", f)]
                    /\ partido' = Clonados(pa, f, bis, copia)
        BY <1>2 DEF SuspenderFechaConBis
    <2>3. bis \in Fechas /\ fecha[bis].estado = "LIBRE" /\ bis # f
        BY <2>1 DEF FechasVivas
    <2>4. fe[f].estado = "SUSPENDIDA"
        <3>1. fecha[f].numero \in Nat
            BY <1>0 DEF RegistroFecha
        <3>2. ~(fecha[f].numero > fecha[f].numero)
            BY <3>1
        <3>3. fe[f] = ConFechaSuspendida(f)[f]
            BY <3>2
        <3>4. QED
            BY <2>1, <3>3, ConFechaSuspendidaBien
    <2>5. DOMAIN fe = Fechas
        OBVIOUS
    <2>  HIDE DEF fe
    <2>6. fecha'[f].estado = "SUSPENDIDA"
        BY <2>2, <2>3, <2>4, <2>5
    <2>7. CASE \E p \in AClonar(pa, f) : copia[p] = q
        <3>1. q \in Partidos \ PartidosVivos
            BY <2>2, <2>7
        <3>2. partido[q].estado = "LIBRE"
            BY <3>1 DEF PartidosVivos
        <3>3. ~partido[q].acta /\ partido[q].fecha = Nada
            BY <1>0, <3>2 DEF PartidoBien
        <3>4. partido'[q].fecha = bis /\ ~partido'[q].acta
            BY <2>2, <2>7 DEF Clonados, PartidoNuevo
        <3>5. QED
            BY <2>3, <2>6, <3>3, <3>4
    <2>8. CASE ~\E p \in AClonar(pa, f) : copia[p] = q
        <3>1. partido'[q] = pa[q]
            BY <2>2, <2>8 DEF Clonados
        <3>2. QED
            BY <1>s, <2>6, <3>1
    <2>9. QED
        BY <2>7, <2>8
<1>3. ASSUME NEW g \in Fechas, SuspenderFechaReusando(f, g)
      PROVE  /\ ~partido[q].acta /\ ~partido'[q].acta
             /\ partido[q].fecha \in {f, Nada}
             /\ partido'[q].fecha \in Fechas /\ fecha[partido'[q].fecha].estado # "FINALIZADA"
             /\ fecha'[f].estado = "SUSPENDIDA"
    <2> DEFINE cf == ConFechaSuspendida(f)
               fe == [cf EXCEPT ![g].tipo = "REPROGRAMADA",
                                ![g].reemplaza = IF @ = Nada THEN f ELSE @]
    <2>1. /\ fecha[f].estado # "FINALIZADA" /\ g # f /\ fecha[g].estado # "FINALIZADA"
          /\ fecha' = fe
        BY <1>3 DEF SuspenderFechaReusando, PuedeSuspender
    <2>2. cf \in [Fechas -> RegistroFecha] /\ cf[f].estado = "SUSPENDIDA"
        BY <2>1, ConFechaSuspendidaBien
    <2>  HIDE DEF cf
    <2>3. fe[f].estado = "SUSPENDIDA"
        BY <2>1, <2>2
    <2>4. /\ partido[q].fecha = f /\ ~partido[q].acta
          /\ partido'[q] = [ConEstado(q, "PROGRAMADO") EXCEPT !.fecha = g]
        BY <1>3 DEF SuspenderFechaReusando
    <2>5. partido'[q].fecha = g /\ ~partido'[q].acta
        BY <1>0, <2>4 DEF ConEstado, RegistroPartido
    <2>6. QED
        BY <2>1, <2>3, <2>4, <2>5
<1>4. CASE ReactivarFecha(f)
    <2>1. /\ fecha[f].estado = "SUSPENDIDA"
          /\ partido[q].fecha = f /\ ~partido[q].acta
          /\ partido'[q] = ConEstado(q, "PROGRAMADO")
        BY <1>4 DEF ReactivarFecha, AClonar
    <2>2. partido'[q].fecha = f /\ ~partido'[q].acta
        BY <1>0, <2>1 DEF ConEstado, RegistroPartido
    <2>3. QED
        BY <2>1, <2>2
<1>5. QED
    BY <1>1, <1>2, <1>3, <1>4 DEF OperarFecha

\* A bulk suspension leaves resolved each match it rewrites, in its matchday.
LEMMA FilasDeEquipo ==
    ASSUME IInv, OperarEquipo, NEW q \in Partidos, partido'[q] # partido[q]
    PROVE  /\ ~partido[q].acta
           /\ partido'[q].fecha = partido[q].fecha
           /\ partido'[q].estado \in EstadosResueltos \ {"FINALIZADO"}
<1>0. /\ partido \in [Partidos -> RegistroPartido]
      /\ partido[q] \in RegistroPartido /\ PartidoBien(partido[q])
    BY FilaBien DEF IInv, PartidosBien
<1>1. ASSUME NEW p \in Partidos, LoteWalkover(p)
      PROVE  p = q /\ ~partido[q].acta /\ partido'[q] = Walkover(q)
    BY <1>0, <1>1 DEF LoteWalkover, GuardarYEvaluar
<1>2. ASSUME NEW p \in Partidos, LoteCancela(p)
      PROVE  p = q /\ ~partido[q].acta /\ partido'[q] = ConEstado(q, "SUSPENDIDO_FUERZA_MAYOR")
    BY <1>0, <1>2 DEF LoteCancela, Pendientes, PartidoBien
<1>3. (\E p \in Partidos : LoteWalkover(p)) \/ (\E p \in Partidos : LoteCancela(p))
    BY DEF OperarEquipo, SuspenderEquipo, ReactivarEquipo, LoteEvalua, LoteTermina
<1>4. QED
    BY <1>0, <1>1, <1>2, <1>3 DEF Walkover, ConEstado, RegistroPartido, EstadosResueltos

\* A closed acta is reopened where it was, or not touched.
LEMMA ActaDePartido ==
    ASSUME IInv, NEW p \in Partidos, OperarPartido(p), partido[p].acta
    PROVE  ~partido'[p].acta /\ partido'[p].fecha = partido[p].fecha
<1>0. /\ partido \in [Partidos -> RegistroPartido]
      /\ partido[p] \in RegistroPartido /\ PartidoBien(partido[p])
    BY FilaBien DEF IInv, PartidosBien
<1>1. ReabrirActa(p) \/ AnularWalkover(p)
    BY <1>0 DEF OperarPartido, CambiarEstado, MoverPartido, CerrarActa, SuspenderPartido,
       MarcarNoJugado, ReprogramarPartido, DeclararWalkover, ReactivarPartido, CertificarPresentes,
       Abierto, PartidoBien
<1>2. PICK e \in {"EN_CURSO", "PROGRAMADO"} :
            partido' = [partido EXCEPT ![p] = [partido[p] EXCEPT !.estado = e, !.acta = FALSE]]
    BY <1>1 DEF ReabrirActa, AnularWalkover, GuardarYRevertir
<1>3. QED
    BY <1>0, <1>2 DEF RegistroPartido

\* What was played stays where it was played, whatever is asked: a closed acta is only
\* touched to be reopened, and no suspension, move or renumbering of its matchday changes it.
THEOREM ActaCerradaIntacta == Spec => ActaCerradaNoSeToca
<1> DEFINE Regla == \A p \in Partidos : partido[p].acta =>
                        \/ partido'[p] = partido[p]
                        \/ ~partido'[p].acta /\ partido'[p].fecha = partido[p].fecha
<1>1. IInv /\ [Next]_vars => [Regla]_vars
    <2>1. ASSUME IInv, [Next]_vars, NEW p \in Partidos, partido[p].acta, partido'[p] # partido[p]
          PROVE  ~partido'[p].acta /\ partido'[p].fecha = partido[p].fecha
        <3>1. CASE \E q \in Partidos : OperarPartido(q)
            BY <2>1, <3>1, OtraFila, ActaDePartido
        <3>2. CASE \E f \in Fechas : OperarFecha(f)
            BY <2>1, <3>2, FilasDeFecha
        <3>3. CASE OperarEquipo
            BY <2>1, <3>3, FilasDeEquipo
        <3>4. CASE CargarActa \/ Tribunal \/ UNCHANGED vars
            BY <2>1, <3>4
               DEF CargarActa, AddIncidencia, RemoveIncidencia, AtribuirJugadorIncidencia, Tribunal,
                   TribunalCreate, TribunalAjustar, TribunalRevoke, vars
        <3>5. QED
            BY <2>1, <3>1, <3>2, <3>3, <3>4 DEF Next
    <2>2. QED
        BY <2>1
<1>2. ActaCerradaNoSeToca <=> [][Regla]_vars
    BY DEF ActaCerradaNoSeToca
<1>  HIDE DEF Regla
<1>3. QED
    BY <1>1, <1>2, Invariante, PTL DEF Spec

\* From the matchdays t to u only f changes, and no number; if it is complete and in play
\* with the matches pa, it ends up closed.
TrasEvaluar(pa, t, u, f) ==
    /\ u \in [Fechas -> RegistroFecha]
    /\ \A g \in Fechas : u[g].numero = t[g].numero /\ (g # f => u[g] = t[g])
    /\ t[f].estado = "FINALIZADA" => u[f].estado = "FINALIZADA"
    /\ Completa(pa, f) /\ t[f].estado # "SUSPENDIDA" => u[f].estado = "FINALIZADA"

\* If it was closed, it ends up open, unless a later one is closed.
TrasRevertir(t, u, f) ==
    /\ u \in [Fechas -> RegistroFecha]
    /\ \A g \in Fechas : u[g].numero = t[g].numero /\ (g # f => u[g] = t[g])
    /\ t[f].estado = "FINALIZADA" => u[f].estado = "EN_CURSO" \/ PosteriorCerrada(u, f)

\* evaluarCierreDeFecha
LEMMA EvaluarCierra ==
    ASSUME NEW pa, NEW t, t.fecha \in [Fechas -> RegistroFecha], NEW f \in Fechas
    PROVE  TrasEvaluar(pa, t.fecha, Evaluar(pa, t, f).fecha, f)
<1> DEFINE u == Evaluar(pa, t, f).fecha
<1>1. CASE PuedeFinalizar(pa, t, f)
    <2>1. u = [t.fecha EXCEPT ![f].estado = "FINALIZADA"]
        BY <1>1 DEF Evaluar, Finalizar
    <2>  HIDE DEF u
    <2>2. TrasEvaluar(pa, t.fecha, u, f)
        BY <2>1 DEF RegistroFecha, EstadosFecha, TrasEvaluar
    <2>3. QED
        BY <2>2 DEF u
<1>2. CASE ~PuedeFinalizar(pa, t, f)
    <2>1. u = t.fecha
        BY <1>2 DEF Evaluar
    <2>2. Completa(pa, f) => t.fecha[f].estado \in {"FINALIZADA", "SUSPENDIDA"}
        BY <1>2 DEF PuedeFinalizar, Completa
    <2>3. QED
        BY <2>1, <2>2 DEF TrasEvaluar
<1>3. QED
    BY <1>1, <1>2

\* revertirCierreDeFecha
LEMMA RevertirReabre ==
    ASSUME NEW t, t.fecha \in [Fechas -> RegistroFecha], NEW f \in Fechas
    PROVE  TrasRevertir(t.fecha, Revertir(t, f).fecha, f)
<1> DEFINE u == Revertir(t, f).fecha
<1>1. CASE t.fecha[f].estado = "FINALIZADA" /\ ~PosteriorCerrada(t.fecha, f)
    <2>1. u = [t.fecha EXCEPT ![f].estado = "EN_CURSO"]
        BY <1>1 DEF Revertir, Reabrir
    <2>  HIDE DEF u
    <2>2. TrasRevertir(t.fecha, u, f)
        BY <2>1 DEF RegistroFecha, EstadosFecha, TrasRevertir
    <2>3. QED
        BY <2>2 DEF u
<1>2. CASE ~(t.fecha[f].estado = "FINALIZADA" /\ ~PosteriorCerrada(t.fecha, f))
    BY <1>2 DEF Revertir, TrasRevertir
<1>3. QED
    BY <1>1, <1>2

\* What a move does to the two matchdays, in either order
LEMMA FechasDelTraslado ==
    ASSUME IInv, NEW p \in Partidos, NEW g, MoverPartido(p, g)
    PROVE  LET f == partido[p].fecha
           IN  /\ f \in Fechas /\ g \in Fechas /\ f # g
               /\ partido'[p].fecha = g
               /\ Completa(partido', f) /\ fecha[f].estado # "SUSPENDIDA" => fecha'[f].estado = "FINALIZADA"
               /\ fecha[g].estado = "FINALIZADA" /\ partido'[p].estado \notin EstadosResueltos =>
                        fecha'[g].estado = "EN_CURSO" \/ PosteriorCerrada(fecha', g)
<1> DEFINE f == partido[p].fecha
           D == Disciplina
<1>1. /\ f \in Fechas /\ g \in Fechas /\ f # g
      /\ D.fecha = fecha /\ fecha \in [Fechas -> RegistroFecha]
      /\ partido \in [Partidos -> RegistroPartido]
    BY FilaBien DEF MoverPartido, Abierto, PartidosVivos, FechasVivas, IInv, PartidosBien,
                    Contable, TipoDisciplina, Disciplina
<1>2. PICK r : /\ r = [partido[p] EXCEPT !.fecha = g,
                        !.estado = IF @ = "SUSPENDIDO_FUERZA_MAYOR" /\ fecha[g].estado # "SUSPENDIDA"
                                   THEN "PROGRAMADO" ELSE @]
               /\ partido' = [partido EXCEPT ![p] = r]
               /\ \/ Guardar(IF r.estado \in EstadosResueltos THEN Evaluar(partido', D, f)
                             ELSE Revertir(Evaluar(partido', D, f), g))
                  \/ Guardar(Evaluar(partido', IF r.estado \in EstadosResueltos THEN D
                                               ELSE Revertir(D, g), f))
    BY DEF MoverPartido
<1>3. partido'[p] = r /\ r.fecha = g
    BY <1>1, <1>2 DEF RegistroPartido
<1>  HIDE DEF D
<1>4. CASE Guardar(Evaluar(partido', D, f)) /\ r.estado \in EstadosResueltos
    <2>1. TrasEvaluar(partido', D.fecha, Evaluar(partido', D, f).fecha, f)
        BY <1>1, EvaluarCierra
    <2>2. TrasEvaluar(partido', fecha, fecha', f)
        BY <1>1, <1>4, <2>1 DEF Guardar
    <2>3. QED
        BY <1>1, <1>3, <1>4, <2>2 DEF TrasEvaluar
<1>5. CASE Guardar(Revertir(Evaluar(partido', D, f), g))
    <2> DEFINE u == Evaluar(partido', D, f)
               v == Revertir(u, g)
    <2>1. TrasEvaluar(partido', D.fecha, u.fecha, f)
        BY <1>1, EvaluarCierra
    <2>2. fecha' = v.fecha
        BY <1>5 DEF Guardar
    <2>  HIDE DEF u
    <2>3. /\ u.fecha \in [Fechas -> RegistroFecha] /\ u.fecha[g] = fecha[g]
          /\ Completa(partido', f) /\ fecha[f].estado # "SUSPENDIDA" => u.fecha[f].estado = "FINALIZADA"
        BY <1>1, <2>1 DEF TrasEvaluar
    <2>4. TrasRevertir(u.fecha, v.fecha, g)
        BY <1>1, <2>3, RevertirReabre
    <2>  HIDE DEF v
    <2>5. QED
        BY <1>1, <1>3, <2>2, <2>3, <2>4 DEF TrasRevertir
<1>6. CASE Guardar(Evaluar(partido', Revertir(D, g), f))
    <2> DEFINE u == Revertir(D, g)
               v == Evaluar(partido', u, f)
    <2>1. TrasRevertir(D.fecha, u.fecha, g)
        BY <1>1, RevertirReabre
    <2>2. fecha' = v.fecha
        BY <1>6 DEF Guardar
    <2>  HIDE DEF u
    <2>3. /\ u.fecha \in [Fechas -> RegistroFecha] /\ u.fecha[f] = fecha[f]
          /\ fecha[g].estado = "FINALIZADA" => u.fecha[g].estado = "EN_CURSO" \/ PosteriorCerrada(u.fecha, g)
        BY <1>1, <2>1 DEF TrasRevertir
    <2>4. TrasEvaluar(partido', u.fecha, v.fecha, f)
        BY <1>1, <2>3, EvaluarCierra
    <2>  HIDE DEF v
    <2>5. /\ Completa(partido', f) /\ fecha[f].estado # "SUSPENDIDA" => v.fecha[f].estado = "FINALIZADA"
          /\ v.fecha[g] = u.fecha[g]
        BY <1>1, <2>3, <2>4 DEF TrasEvaluar
    <2>6. PosteriorCerrada(u.fecha, g) => PosteriorCerrada(v.fecha, g)
        BY <1>1, <2>4 DEF PosteriorCerrada, TrasEvaluar
    <2>7. QED
        BY <1>1, <1>3, <2>2, <2>3, <2>5, <2>6
<1>7. QED
    BY <1>2, <1>4, <1>5, <1>6

\* The handlers that leave a match resolved and evaluate its matchday: suspending it, marking
\* it not played, a walkover, the closing of its acta
LEMMA ResolverPartido ==
    ASSUME IInv, NEW p \in Partidos,
           SuspenderPartido(p) \/ MarcarNoJugado(p) \/ DeclararWalkover(p) \/ CerrarActa(p) \/ LoteWalkover(p)
    PROVE  LET f == partido[p].fecha
           IN  /\ f \in Fechas /\ partido'[p].fecha = f /\ partido'[p].estado \in EstadosResueltos
               /\ TrasEvaluar(partido', fecha, fecha', f)
<1> DEFINE f == partido[p].fecha
<1>0. /\ partido \in [Partidos -> RegistroPartido] /\ partido[p] \in RegistroPartido
      /\ Contable(Disciplina) /\ Disciplina.fecha = fecha /\ fecha \in [Fechas -> RegistroFecha]
    BY FilaBien DEF IInv, PartidosBien, Contable, TipoDisciplina, Disciplina
<1>1. f \in Fechas
    BY FilaBien DEF SuspenderPartido, MarcarNoJugado, DeclararWalkover, CerrarActa, LoteWalkover,
                    Abierto, PartidosVivos, Pendientes
<1>2. CASE CerrarActa(p)
    <2> DEFINE t == AplicarSanciones(Disciplina, p)
               v == Evaluar(partido', t, f)
    <2>1. t.fecha = fecha
        BY <1>0 DEF AplicarSanciones, Contable, TipoDisciplina
    <2>2. fecha' = v.fecha
        BY <1>2 DEF CerrarActa, Guardar
    <2>3. partido'[p].estado = "FINALIZADO" /\ partido'[p].fecha = f
        BY <1>0, <1>2 DEF CerrarActa, RegistroPartido
    <2>  HIDE DEF t
    <2>4. TrasEvaluar(partido', t.fecha, v.fecha, f)
        BY <1>0, <1>1, <2>1, EvaluarCierra
    <2>5. QED
        BY <1>1, <2>1, <2>2, <2>3, <2>4 DEF EstadosResueltos
<1>3. CASE SuspenderPartido(p) \/ MarcarNoJugado(p) \/ DeclararWalkover(p) \/ LoteWalkover(p)
    <2>1. PICK r : /\ GuardarYEvaluar(p, r) /\ r.fecha = f
                   /\ r.estado \in {"SUSPENDIDO_FUERZA_MAYOR", "NO_JUGADO", "WALKOVER"}
        <3>1. \A e : ConEstado(p, e).fecha = f /\ ConEstado(p, e).estado = e
            BY <1>0 DEF ConEstado, RegistroPartido
        <3>2. Walkover(p).fecha = f /\ Walkover(p).estado = "WALKOVER"
            BY <1>0 DEF Walkover, RegistroPartido
        <3>3. QED
            BY <1>3, <3>1, <3>2 DEF SuspenderPartido, MarcarNoJugado, DeclararWalkover, LoteWalkover
    <2>  HIDE DEF f
    <2>2. partido'[p] = r
        BY <1>0, <2>1 DEF GuardarYEvaluar
    <2>3. fecha' = Evaluar(partido', Disciplina, f).fecha
        BY <2>1 DEF GuardarYEvaluar, Guardar
    <2>4. TrasEvaluar(partido', Disciplina.fecha, Evaluar(partido', Disciplina, f).fecha, f)
        BY <1>0, <1>1, EvaluarCierra
    <2>5. QED
        BY <1>0, <1>1, <2>1, <2>2, <2>3, <2>4 DEF EstadosResueltos, f
<1>4. QED
    BY <1>2, <1>3

\* The handlers that leave a match pending and reopen its matchday: reopening its acta,
\* rescheduling or reactivating it, annulling a walkover
LEMMA PendientePartido ==
    ASSUME IInv, NEW p \in Partidos,
           ReabrirActa(p) \/ ReprogramarPartido(p) \/ AnularWalkover(p) \/ ReactivarPartido(p)
    PROVE  LET f == partido[p].fecha
           IN  /\ f \in Fechas /\ partido'[p].fecha = f /\ partido'[p].estado \notin EstadosResueltos
               /\ TrasRevertir(fecha, fecha', f)
<1> DEFINE f == partido[p].fecha
<1>0. /\ partido \in [Partidos -> RegistroPartido] /\ partido[p] \in RegistroPartido
      /\ Disciplina.fecha = fecha /\ fecha \in [Fechas -> RegistroFecha]
    BY FilaBien DEF IInv, PartidosBien, Contable, TipoDisciplina, Disciplina
<1>1. f \in Fechas
    BY FilaBien
       DEF ReabrirActa, ReprogramarPartido, AnularWalkover, ReactivarPartido, Abierto, PartidosVivos
<1>2. PICK r : GuardarYRevertir(p, r) /\ r.fecha = f /\ r.estado \in {"EN_CURSO", "PROGRAMADO"}
    <2>1. \A e : ConEstado(p, e).fecha = f /\ ConEstado(p, e).estado = e
        BY <1>0 DEF ConEstado, RegistroPartido
    <2>2. \A e : /\ [partido[p] EXCEPT !.estado = e, !.acta = FALSE].fecha = f
                 /\ [partido[p] EXCEPT !.estado = e, !.acta = FALSE].estado = e
        BY <1>0 DEF RegistroPartido
    <2>3. CASE ReabrirActa(p)
        <3>1. GuardarYRevertir(p, [partido[p] EXCEPT !.estado = "EN_CURSO", !.acta = FALSE])
            BY <2>3 DEF ReabrirActa
        <3>2. QED
            BY <2>2, <3>1
    <2>4. CASE AnularWalkover(p)
        <3>1. GuardarYRevertir(p, [partido[p] EXCEPT !.estado = "PROGRAMADO", !.acta = FALSE])
            BY <2>4 DEF AnularWalkover
        <3>2. QED
            BY <2>2, <3>1
    <2>5. CASE ReprogramarPartido(p) \/ ReactivarPartido(p)
        BY <2>1, <2>5 DEF ReprogramarPartido, ReactivarPartido
    <2>6. QED
        BY <2>3, <2>4, <2>5
<1>  HIDE DEF f
<1>3. partido'[p] = r
    BY <1>0, <1>2 DEF GuardarYRevertir
<1>4. fecha' = Revertir(Disciplina, f).fecha
    BY <1>2 DEF GuardarYRevertir, Guardar
<1>5. TrasRevertir(Disciplina.fecha, Revertir(Disciplina, f).fecha, f)
    BY <1>0, <1>1, RevertirReabre
<1>6. QED
    BY <1>0, <1>1, <1>2, <1>3, <1>4, <1>5 DEF EstadosResueltos, f

\* The rest of the handlers of a match leave it as pending or resolved as it was.
LEMMA RetocarPartido ==
    ASSUME IInv, NEW p \in Partidos,
           CambiarEstado(p) \/ \E js \in Listas : CertificarPresentes(p, js)
    PROVE  /\ partido'[p].fecha = partido[p].fecha
           /\ partido'[p].estado \in EstadosResueltos <=> partido[p].estado \in EstadosResueltos
<1>0. partido \in [Partidos -> RegistroPartido] /\ partido[p] \in RegistroPartido
    BY FilaBien DEF IInv, PartidosBien
<1>1. CASE CambiarEstado(p)
    <2>1. PICK e \in {"EN_CURSO", "PROGRAMADO"} : partido' = [partido EXCEPT ![p].estado = e]
        BY <1>1 DEF CambiarEstado
    <2>2. partido'[p].fecha = partido[p].fecha /\ partido'[p].estado = e
        BY <1>0, <2>1 DEF RegistroPartido
    <2>3. partido[p].estado \in {"PROGRAMADO", "EN_CURSO"}
        BY <1>1 DEF CambiarEstado
    <2>4. QED
        BY <2>2, <2>3 DEF EstadosResueltos
<1>2. ASSUME NEW js, CertificarPresentes(p, js)
      PROVE  partido'[p].fecha = partido[p].fecha /\ partido'[p].estado = partido[p].estado
    BY <1>0, <1>2 DEF CertificarPresentes, RegistroPartido
<1>3. QED
    BY <1>1, <1>2

\* A request that leaves a match pending in a matchday that was closed and complete reopens
\* it, or finds a later one closed.
LEMMA PendienteReabre ==
    ASSUME IInv, [Next]_vars, NEW f \in Fechas, fecha[f].estado = "FINALIZADA", Completa(partido, f),
           ~Completa(partido', f), EstadosEn(partido', f) # {}
    PROVE  fecha'[f].estado = "EN_CURSO" \/ PosteriorCerrada(fecha', f)
<1>1. PICK q \in Partidos : partido'[q].fecha = f /\ partido'[q].estado \notin EstadosResueltos
    <2>1. \E p \in Partidos : partido'[p].fecha = f
        BY DEF EstadosEn
    <2>2. QED
        BY <2>1, CompletaSii
<1>2. ~(partido[q].fecha = f /\ partido[q].estado \notin EstadosResueltos)
    BY CompletaSii
<1>3. partido'[q] # partido[q]
    BY <1>1, <1>2
<1>4. ASSUME NEW p \in Partidos, OperarPartido(p)
      PROVE  fecha'[f].estado = "EN_CURSO" \/ PosteriorCerrada(fecha', f)
    <2>1. p = q
        BY <1>3, <1>4, OtraFila
    <2>2. CASE \E g \in Destinos : MoverPartido(p, g)
        BY <1>1, <2>1, <2>2, FechasDelTraslado
    <2>3. CASE SuspenderPartido(p) \/ MarcarNoJugado(p) \/ DeclararWalkover(p) \/ CerrarActa(p)
        BY <1>1, <2>1, <2>3, ResolverPartido
    <2>4. CASE ReabrirActa(p) \/ ReprogramarPartido(p) \/ AnularWalkover(p) \/ ReactivarPartido(p)
        <3>1. partido'[p].fecha = partido[p].fecha /\ TrasRevertir(fecha, fecha', partido[p].fecha)
            BY <2>4, PendientePartido
        <3>2. TrasRevertir(fecha, fecha', f)
            BY <1>1, <2>1, <3>1
        <3>3. QED
            BY <3>2 DEF TrasRevertir
    <2>5. CASE CambiarEstado(p) \/ \E js \in Listas : CertificarPresentes(p, js)
        BY <1>1, <1>2, <2>1, <2>5, RetocarPartido
    <2>6. QED
        BY <1>4, <2>2, <2>3, <2>4, <2>5 DEF OperarPartido
<1>5. CASE \E h \in Fechas : OperarFecha(h)
    BY <1>1, <1>3, <1>5, FilasDeFecha
<1>6. CASE OperarEquipo
    BY <1>1, <1>3, <1>6, FilasDeEquipo
<1>7. CASE CargarActa \/ Tribunal \/ UNCHANGED vars
    BY <1>3, <1>7
       DEF CargarActa, AddIncidencia, RemoveIncidencia, AtribuirJugadorIncidencia, Tribunal,
           TribunalCreate, TribunalAjustar, TribunalRevoke, vars
<1>8. QED
    BY <1>4, <1>5, <1>6, <1>7 DEF Next

\* T16, for every fixture and every history: a step that leaves a match pending in a closed
\* matchday reopens it, unless a later matchday is already closed.
THEOREM LoPendienteReabre == Spec => PendienteReabreLaFecha
<1> DEFINE Regla == \A f \in Fechas :
                        /\ fecha[f].estado = "FINALIZADA"
                        /\ Completa(partido, f)
                        /\ ~Completa(partido', f)
                        /\ EstadosEn(partido', f) # {}
                        => fecha'[f].estado = "EN_CURSO" \/ PosteriorCerrada(fecha', f)
<1>1. IInv /\ [Next]_vars => [Regla]_vars
    BY PendienteReabre
<1>2. PendienteReabreLaFecha <=> [][Regla]_vars
    BY DEF PendienteReabreLaFecha
<1>  HIDE DEF Regla
<1>3. QED
    BY <1>1, <1>2, Invariante, PTL DEF Spec

\* The step that resolves the last pending match of a matchday in play closes it, or leaves
\* it for the end of the bulk suspension.
LEMMA ResolverElUltimo ==
    ASSUME IInv, [Next]_vars, NEW f \in Fechas, fecha[f].estado # "SUSPENDIDA", Completa(partido', f),
           ~Completa(partido, f), EstadosEn(partido, f) # {}
    PROVE  fecha'[f].estado \in {"FINALIZADA", "SUSPENDIDA"} \/ f \in lote'.porEvaluar
<1>1. PICK q \in Partidos : partido[q].fecha = f /\ partido[q].estado \notin EstadosResueltos
    <2>1. \E p \in Partidos : partido[p].fecha = f
        BY DEF EstadosEn
    <2>2. QED
        BY <2>1, CompletaSii
<1>2. ~(partido'[q].fecha = f /\ partido'[q].estado \notin EstadosResueltos)
    BY CompletaSii
<1>3. partido'[q] # partido[q]
    BY <1>1, <1>2
<1>4. ASSUME TrasEvaluar(partido', fecha, fecha', f)
      PROVE  fecha'[f].estado = "FINALIZADA"
    BY <1>4 DEF TrasEvaluar
<1>5. ASSUME NEW p \in Partidos, OperarPartido(p)
      PROVE  fecha'[f].estado = "FINALIZADA"
    <2>1. p = q
        BY <1>3, <1>5, OtraFila
    <2>2. CASE \E g \in Destinos : MoverPartido(p, g)
        BY <1>1, <2>1, <2>2, FechasDelTraslado
    <2>3. CASE SuspenderPartido(p) \/ MarcarNoJugado(p) \/ DeclararWalkover(p) \/ CerrarActa(p)
        <3>1. TrasEvaluar(partido', fecha, fecha', partido[p].fecha)
            BY <2>3, ResolverPartido
        <3>2. QED
            BY <1>1, <1>4, <2>1, <3>1
    <2>4. CASE ReabrirActa(p) \/ ReprogramarPartido(p) \/ AnularWalkover(p) \/ ReactivarPartido(p)
        BY <1>1, <1>2, <2>1, <2>4, PendientePartido
    <2>5. CASE CambiarEstado(p) \/ \E js \in Listas : CertificarPresentes(p, js)
        BY <1>1, <1>2, <2>1, <2>5, RetocarPartido
    <2>6. QED
        BY <1>5, <2>2, <2>3, <2>4, <2>5 DEF OperarPartido
<1>6. CASE \E h \in Fechas : OperarFecha(h)
    <2>1. f # Nada
        BY ParametrosAssumption
    <2>2. QED
        BY <1>1, <1>3, <1>6, <2>1, FilasDeFecha
<1>7. CASE OperarEquipo
    <2>1. CASE \E p \in Partidos : LoteWalkover(p)
        <3>1. PICK p \in Partidos : LoteWalkover(p)
            BY <2>1
        <3>2. p = q
            BY <1>3, <3>1 DEF LoteWalkover, GuardarYEvaluar, IInv, PartidosBien
        <3>3. TrasEvaluar(partido', fecha, fecha', partido[p].fecha)
            BY <3>1, ResolverPartido
        <3>4. QED
            BY <1>1, <1>4, <3>2, <3>3
    <2>2. CASE \E p \in Partidos : LoteCancela(p)
        <3>1. PICK p \in Partidos : LoteCancela(p)
            BY <2>2
        <3>2. p = q
            BY <1>3, <3>1 DEF LoteCancela, IInv, PartidosBien
        <3>3. QED
            BY <1>1, <3>1, <3>2 DEF LoteCancela, IInv, Resto
    <2>3. CASE ~(\E p \in Partidos : LoteWalkover(p)) /\ ~(\E p \in Partidos : LoteCancela(p))
        BY <1>3, <1>7, <2>3
           DEF OperarEquipo, SuspenderEquipo, ReactivarEquipo, LoteEvalua, LoteTermina
    <2>4. QED
        BY <2>1, <2>2, <2>3
<1>8. CASE CargarActa \/ Tribunal \/ UNCHANGED vars
    BY <1>3, <1>8
       DEF CargarActa, AddIncidencia, RemoveIncidencia, AtribuirJugadorIncidencia, Tribunal,
           TribunalCreate, TribunalAjustar, TribunalRevoke, vars
<1>9. QED
    BY <1>5, <1>6, <1>7, <1>8 DEF Next

\* A bulk suspension evaluates every matchday it left for its end before it ends.
LEMMA EvaluarLoPostergado ==
    ASSUME IInv, [Next]_vars, NEW f \in Fechas, fecha[f].estado # "SUSPENDIDA", Completa(partido', f),
           f \in lote.porEvaluar
    PROVE  fecha'[f].estado = "FINALIZADA" \/ f \in lote'.porEvaluar
<1>0. /\ Disciplina.fecha = fecha /\ fecha \in [Fechas -> RegistroFecha]
      /\ lote \in [equipo : Equipos \cup {Nada}, porEvaluar : SUBSET Fechas]
    BY DEF IInv, Contable, TipoDisciplina, Disciplina, Resto
<1>1. ~Atiende
    BY DEF Atiende, SinLote
<1>2. UNCHANGED vars \/ OperarEquipo
    BY <1>1 DEF Next, OperarPartido, CargarActa, OperarFecha, Tribunal,
        CambiarEstado, MoverPartido, CerrarActa, ReabrirActa, SuspenderPartido, MarcarNoJugado,
        ReprogramarPartido, DeclararWalkover, AnularWalkover, ReactivarPartido, CertificarPresentes,
        AddIncidencia, RemoveIncidencia, AtribuirJugadorIncidencia, SuspenderFechaManual,
        SuspenderFechaConBis, SuspenderFechaReusando, PuedeSuspender, ReactivarFecha,
        TribunalCreate, TribunalAjustar, TribunalRevoke
<1>3. CASE UNCHANGED vars
    BY <1>3 DEF vars
<1>4. CASE \E h \in Fechas : LoteEvalua(h)
    <2>1. PICK h \in Fechas : LoteEvalua(h)
        BY <1>4
    <2>2. CASE h = f
        <3>1. partido' = partido /\ fecha' = Evaluar(partido, Disciplina, f).fecha
            BY <2>1, <2>2 DEF LoteEvalua, Guardar
        <3>2. TrasEvaluar(partido, Disciplina.fecha, Evaluar(partido, Disciplina, f).fecha, f)
            BY <1>0, EvaluarCierra
        <3>3. QED
            BY <1>0, <3>1, <3>2 DEF TrasEvaluar
    <2>3. CASE h # f
        BY <1>0, <2>1, <2>3 DEF LoteEvalua
    <2>4. QED
        BY <2>2, <2>3
<1>5. CASE OperarEquipo /\ ~\E h \in Fechas : LoteEvalua(h)
    BY <1>0, <1>1, <1>5 DEF OperarEquipo, SuspenderEquipo, ReactivarEquipo, LoteWalkover, LoteCancela,
                            LoteTermina, GuardarYEvaluar, SinTocarTarjetas
<1>6. QED
    BY <1>2, <1>3, <1>4, <1>5

\* T16, the other way: no request that resolves the last pending match of a matchday leaves it
\* open, so that no suspension escapes its discount.
THEOREM LoCompletoSeCierra == Spec => CompletarCierra
<1> DEFINE Regla == \A f \in FechasVivas :
                        /\ fecha[f].estado # "SUSPENDIDA"
                        /\ Completa(partido', f)
                        /\ \/ ~Completa(partido, f) /\ EstadosEn(partido, f) # {}
                           \/ f \in lote.porEvaluar
                        => fecha'[f].estado \in {"FINALIZADA", "SUSPENDIDA"} \/ f \in lote'.porEvaluar
<1>1. IInv /\ [Next]_vars => [Regla]_vars
    BY ResolverElUltimo, EvaluarLoPostergado DEF FechasVivas
<1>2. CompletarCierra <=> [][Regla]_vars
    BY DEF CompletarCierra
<1>  HIDE DEF Regla
<1>3. QED
    BY <1>1, <1>2, Invariante, PTL DEF Spec

-----------------------------------------------------------------------------
(* What each step does to the discipline state: the book of accounts, and  *)
(* what the requests never do to a suspension (give one for served without *)
(* playing, or bring back one that was revoked).                           *)

(* What closing or reopening a matchday does.                              *)

Cerrada(t, f) == t.fecha[f].estado = "FINALIZADA"

\* A row that keeps what was imposed; a revoked one does not change at all.
MismaSancion(r, v) ==
    /\ v.existe = r.existe /\ v.ajustada = r.ajustada /\ v.revocada = r.revocada
    /\ v.totales = r.totales /\ v.desde = r.desde
    /\ r.revocada => v = r

\* From t to u nothing happens outside matchday f, with the matches pa; if f closes, it
\* discounts suspensions in force of clubs that played it.
Paso(pa, t, u, f) ==
    /\ \A g \in Fechas : u.fecha[g].numero = t.fecha[g].numero /\ (g # f => u.fecha[g] = t.fecha[g])
    /\ \A s \in SancionId : MismaSancion(t.sancion[s], u.sancion[s])
    /\ \A s \in SancionId, g \in Fechas : g # f => (<<s, g>> \in u.libro <=> <<s, g>> \in t.libro)
    /\ \A s \in SancionId : <<s, f>> \in u.libro /\ <<s, f>> \notin t.libro =>
           /\ t.sancion[s].existe /\ t.sancion[s].desde <= t.fecha[f].numero
           /\ ClubDelJugador[Jugador(s)] \in ClubesQueJugaron(pa, f)
    /\ Cerrada(t, f) /\ Cerrada(u, f) =>
           \A s \in SancionId : <<s, f>> \in u.libro <=> <<s, f>> \in t.libro

\* A row that closing a matchday discounts keeps what was imposed.
LEMMA DescontadaMisma ==
    ASSUME NEW r \in RegistroSancion, SancionVigente(r, r.desde)
    PROVE  MismaSancion(r, Descontada(r))
<1> DEFINE pend == IF r.pendientes > 0 THEN r.pendientes - 1 ELSE 0
<1>1. PICK c \in BOOLEAN : Descontada(r) = [r EXCEPT !.pendientes = pend, !.cumplida = c]
    BY DEF Descontada
<1>  HIDE DEF pend
<1>2. ~r.revocada
    BY DEF SancionVigente
<1>3. QED
    BY <1>1, <1>2 DEF MismaSancion, RegistroSancion

\* So does one that reopening gives back, and a revoked one is not given anything back.
LEMMA DevueltaMisma ==
    ASSUME NEW r \in RegistroSancion
    PROVE  MismaSancion(r, Devuelta(r))
<1>1. CASE r.revocada
    BY <1>1 DEF Devuelta, MismaSancion
<1>2. CASE ~r.revocada
    <2> DEFINE pend == IF r.pendientes + 1 <= r.totales THEN r.pendientes + 1 ELSE r.totales
               c == IF pend > 0 THEN FALSE ELSE r.cumplida
    <2>1. Devuelta(r) = [r EXCEPT !.pendientes = pend, !.cumplida = c]
        BY <1>2 DEF Devuelta
    <2>  HIDE DEF pend, c
    <2>2. QED
        BY <1>2, <2>1 DEF MismaSancion, RegistroSancion
<1>3. QED
    BY <1>1, <1>2

\* evaluarCierreDeFecha with decrementarSancionesPendientes
LEMMA EvaluarPaso ==
    ASSUME NEW pa, NEW t, Contable(t), NEW f \in Fechas
    PROVE  Paso(pa, t, Evaluar(pa, t, f), f)
<1>0. /\ t.fecha \in [Fechas -> RegistroFecha]
      /\ t.sancion \in [SancionId -> RegistroSancion]
      /\ \A s \in SancionId : SaldoBien(t.sancion[s])
    BY DEF Contable, TipoDisciplina
<1>1. CASE ~PuedeFinalizar(pa, t, f)
    BY <1>1 DEF Evaluar, Paso, MismaSancion
<1>2. CASE PuedeFinalizar(pa, t, f)
    <2> DEFINE desc == Descontables(pa, t, f)
               u == Finalizar(pa, t, f)
    <2>1. /\ u.fecha = [t.fecha EXCEPT ![f].estado = "FINALIZADA"]
          /\ u.sancion = [s \in SancionId |->
                            IF s \in desc THEN Descontada(t.sancion[s])
                            ELSE IF t.sancion[s].existe /\ t.sancion[s].pendientes <= 0
                            THEN [t.sancion[s] EXCEPT !.cumplida = TRUE]
                            ELSE t.sancion[s]]
          /\ u.libro = t.libro \cup (desc \X {f})
        BY DEF Finalizar
    <2>2. ASSUME NEW s \in desc
          PROVE  /\ s \in SancionId /\ t.sancion[s].existe
                 /\ SancionVigente(t.sancion[s], t.fecha[f].numero)
                 /\ ClubDelJugador[Jugador(s)] \in ClubesQueJugaron(pa, f)
        BY DEF Descontables
    <2>  HIDE DEF desc, u
    <2>3. \A g \in Fechas : u.fecha[g].numero = t.fecha[g].numero /\ (g # f => u.fecha[g] = t.fecha[g])
        BY <1>0, <2>1 DEF RegistroFecha
    <2>4. ASSUME NEW s \in SancionId
          PROVE  MismaSancion(t.sancion[s], u.sancion[s])
        <3>1. CASE s \in desc
            <4>1. t.sancion[s].desde <= t.sancion[s].desde
                BY <1>0 DEF RegistroSancion
            <4>2. SancionVigente(t.sancion[s], t.sancion[s].desde)
                BY <2>2, <3>1, <4>1 DEF SancionVigente
            <4>3. u.sancion[s] = Descontada(t.sancion[s]) /\ t.sancion[s] \in RegistroSancion
                BY <1>0, <2>1, <3>1
            <4>4. QED
                BY <4>2, <4>3, DescontadaMisma
        <3>2. CASE u.sancion[s] = [t.sancion[s] EXCEPT !.cumplida = TRUE]
            <4>1. t.sancion[s] \in RegistroSancion /\ SaldoBien(t.sancion[s])
                BY <1>0
            <4>2. t.sancion[s].revocada => u.sancion[s] = t.sancion[s]
                BY <3>2, <4>1 DEF RegistroSancion, SaldoBien
            <4>3. QED
                BY <3>2, <4>1, <4>2 DEF MismaSancion, RegistroSancion
        <3>3. CASE u.sancion[s] = t.sancion[s]
            BY <3>3 DEF MismaSancion
        <3>4. QED
            BY <2>1, <3>1, <3>2, <3>3
    <2>5. \A s \in SancionId, g \in Fechas : g # f => (<<s, g>> \in u.libro <=> <<s, g>> \in t.libro)
        BY <2>1
    <2>6. ASSUME NEW s \in SancionId, <<s, f>> \in u.libro, <<s, f>> \notin t.libro
          PROVE  /\ t.sancion[s].existe /\ t.sancion[s].desde <= t.fecha[f].numero
                 /\ ClubDelJugador[Jugador(s)] \in ClubesQueJugaron(pa, f)
        BY <2>1, <2>2, <2>6 DEF SancionVigente
    <2>7. ~Cerrada(t, f)
        BY <1>2 DEF PuedeFinalizar, Cerrada
    <2>8. Paso(pa, t, u, f)
        BY <2>3, <2>4, <2>5, <2>6, <2>7 DEF Paso
    <2>9. Evaluar(pa, t, f) = u
        BY <1>2 DEF Evaluar, u
    <2>10. QED
        BY <2>8, <2>9
<1>3. QED
    BY <1>1, <1>2

\* revertirCierreDeFecha with revertirDecrementoSanciones
LEMMA RevertirPaso ==
    ASSUME NEW pa, NEW t, Contable(t), NEW f \in Fechas
    PROVE  Paso(pa, t, Revertir(t, f), f)
<1>0. t.fecha \in [Fechas -> RegistroFecha] /\ t.sancion \in [SancionId -> RegistroSancion]
    BY DEF Contable, TipoDisciplina
<1>1. CASE Revertir(t, f) = t
    BY <1>1 DEF Paso, MismaSancion
<1>2. CASE Revertir(t, f) = Reabrir(t, f)
    <2> DEFINE u == Reabrir(t, f)
    <2>1. /\ u.fecha = [t.fecha EXCEPT ![f].estado = "EN_CURSO"]
          /\ u.sancion = [s \in SancionId |->
                            IF <<s, f>> \in t.libro THEN Devuelta(t.sancion[s]) ELSE t.sancion[s]]
          /\ u.libro = {r \in t.libro : r[2] # f}
        BY DEF Reabrir
    <2>  HIDE DEF u
    <2>2. \A g \in Fechas : u.fecha[g].numero = t.fecha[g].numero /\ (g # f => u.fecha[g] = t.fecha[g])
        BY <1>0, <2>1 DEF RegistroFecha
    <2>3. \A s \in SancionId : MismaSancion(t.sancion[s], u.sancion[s])
        BY <1>0, <2>1, DevueltaMisma DEF MismaSancion
    <2>4. \A s \in SancionId, g \in Fechas : g # f => (<<s, g>> \in u.libro <=> <<s, g>> \in t.libro)
        BY <2>1
    <2>5. \A s \in SancionId : <<s, f>> \notin u.libro
        BY <2>1
    <2>6. ~Cerrada(u, f)
        BY <1>0, <2>1 DEF Cerrada, RegistroFecha
    <2>7. Paso(pa, t, u, f)
        BY <2>2, <2>3, <2>4, <2>5, <2>6 DEF Paso
    <2>8. QED
        BY <1>2, <2>7 DEF u
<1>3. QED
    BY <1>1, <1>2 DEF Revertir

-----------------------------------------------------------------------------
(* What a transaction does.                                                *)

EnCuentaEn(t, s) == t.sancion[s].existe /\ ~t.sancion[s].ajustada /\ ~t.sancion[s].revocada

\* The account of s goes on from t to v, or is born in v.
Lleva(t, v, s) ==
    /\ EnCuentaEn(t, s) /\ v.sancion[s].totales = t.sancion[s].totales
    /\ \A f \in Fechas : Cerrada(t, f) /\ Cerrada(v, f) =>
           (<<s, f>> \in v.libro <=> <<s, f>> \in t.libro)
Nace(t, v, s) ==
    /\ ~t.sancion[s].existe /\ v.sancion[s].totales # 0
    /\ \A f \in Fechas : <<s, f>> \notin v.libro

Asienta(t, v) == \A s \in SancionId : EnCuentaEn(v, s) => Lleva(t, v, s) \/ Nace(t, v, s)

\* New rows of the ledger are of suspensions in force, of players whose club played.
Justa(pa, t, v) ==
    \A s \in SancionId, f \in Fechas : <<s, f>> \in v.libro /\ <<s, f>> \notin t.libro =>
        /\ v.sancion[s].desde <= t.fecha[f].numero
        /\ ClubDelJugador[Jugador(s)] \in ClubesQueJugaron(pa, f)

Firme(t, v) == \A s \in SancionId : t.sancion[s].revocada => v.sancion[s] = t.sancion[s]

Transaccion(pa, t, v) == Asienta(t, v) /\ Justa(pa, t, v) /\ Firme(t, v)

\* Nothing is imposed, deleted or taken over.
Mantiene(t, v) == \A s \in SancionId : MismaSancion(t.sancion[s], v.sancion[s])

\* One matchday closed or reopened
LEMMA UnPaso ==
    ASSUME NEW pa, NEW t, NEW v, NEW f \in Fechas, Paso(pa, t, v, f)
    PROVE  Transaccion(pa, t, v) /\ Mantiene(t, v)
<1>1. Asienta(t, v)
    <2>1. ASSUME NEW s \in SancionId, EnCuentaEn(v, s)
          PROVE  Lleva(t, v, s)
        <3>1. EnCuentaEn(t, s) /\ v.sancion[s].totales = t.sancion[s].totales
            BY <2>1 DEF Paso, MismaSancion, EnCuentaEn
        <3>2. ASSUME NEW g \in Fechas, Cerrada(t, g), Cerrada(v, g)
              PROVE  <<s, g>> \in v.libro <=> <<s, g>> \in t.libro
            BY <3>2 DEF Paso
        <3>3. QED
            BY <3>1, <3>2 DEF Lleva
    <2>2. QED
        BY <2>1 DEF Asienta
<1>2. Justa(pa, t, v)
    BY DEF Justa, Paso, MismaSancion
<1>3. Firme(t, v)
    BY DEF Firme, Paso, MismaSancion
<1>4. QED
    BY <1>1, <1>2, <1>3 DEF Transaccion, Paso, Mantiene

\* Two different matchdays, one after the other: the move of a match
LEMMA DosPasos ==
    ASSUME NEW pa, NEW t, NEW u, NEW v, NEW f \in Fechas, NEW g \in Fechas, f # g,
           Paso(pa, t, u, f), Paso(pa, u, v, g)
    PROVE  Transaccion(pa, t, v) /\ Mantiene(t, v)
<1>1. ASSUME NEW s \in SancionId
      PROVE  MismaSancion(t.sancion[s], u.sancion[s]) /\ MismaSancion(u.sancion[s], v.sancion[s])
    BY DEF Paso
<1>2. Asienta(t, v)
    <2>1. ASSUME NEW s \in SancionId, EnCuentaEn(v, s)
          PROVE  Lleva(t, v, s)
        <3>1. EnCuentaEn(t, s) /\ v.sancion[s].totales = t.sancion[s].totales
            BY <1>1, <2>1 DEF MismaSancion, EnCuentaEn
        <3>2. ASSUME NEW h \in Fechas, Cerrada(t, h), Cerrada(v, h)
              PROVE  <<s, h>> \in v.libro <=> <<s, h>> \in t.libro
            <4>1. Cerrada(u, h)
                BY <3>2 DEF Paso, Cerrada
            <4>2. <<s, h>> \in u.libro <=> <<s, h>> \in t.libro
                BY <3>2, <4>1 DEF Paso
            <4>3. <<s, h>> \in v.libro <=> <<s, h>> \in u.libro
                BY <3>2, <4>1 DEF Paso
            <4>4. QED
                BY <4>2, <4>3
        <3>3. QED
            BY <3>1, <3>2 DEF Lleva
    <2>2. QED
        BY <2>1 DEF Asienta
<1>3. Justa(pa, t, v)
    <2>1. ASSUME NEW s \in SancionId, NEW h \in Fechas, <<s, h>> \in v.libro, <<s, h>> \notin t.libro
          PROVE  /\ v.sancion[s].desde <= t.fecha[h].numero
                 /\ ClubDelJugador[Jugador(s)] \in ClubesQueJugaron(pa, h)
        <3>1. v.sancion[s].desde = u.sancion[s].desde /\ u.sancion[s].desde = t.sancion[s].desde
            BY <1>1 DEF MismaSancion
        <3>2. u.fecha[h].numero = t.fecha[h].numero
            BY DEF Paso
        <3>3. CASE <<s, h>> \in u.libro
            BY <2>1, <3>1, <3>3 DEF Paso
        <3>4. CASE <<s, h>> \notin u.libro
            BY <2>1, <3>1, <3>2, <3>4 DEF Paso
        <3>5. QED
            BY <3>3, <3>4
    <2>2. QED
        BY <2>1 DEF Justa
<1>4. Firme(t, v)
    BY <1>1 DEF Firme, MismaSancion
<1>5. Mantiene(t, v)
    BY <1>1 DEF Mantiene, MismaSancion
<1>6. QED
    BY <1>2, <1>3, <1>4, <1>5 DEF Transaccion

\* The reconciliation of an acta and the closing of its matchday: a suspension it creates
\* starts after that matchday.
LEMMA AplicarYEvaluar ==
    ASSUME NEW pa, NEW t, Contable(t), NEW p \in Partidos, NEW f \in Fechas, f = partido[p].fecha,
           NEW v, v = Evaluar(pa, AplicarSanciones(t, p), f)
    PROVE  Transaccion(pa, t, v)
<1> DEFINE nuevas == {s \in Propuestas(p) : ~t.sancion[s].existe}
           fuera  == Huerfanas(t, p)
           u == AplicarSanciones(t, p)
<1>1. /\ t.fecha \in [Fechas -> RegistroFecha]
      /\ t.sancion \in [SancionId -> RegistroSancion]
      /\ t.libro \subseteq SancionId \X Fechas
      /\ t = [fecha |-> t.fecha, sancion |-> t.sancion, libro |-> t.libro]
      /\ \A s \in SancionId : SaldoBien(t.sancion[s])
      /\ \A s \in SancionId, g \in Fechas : <<s, g>> \in t.libro => t.sancion[s].existe
    BY DEF Contable, TipoDisciplina
<1>2. Contable(u) /\ Paso(pa, u, v, f)
    BY AplicarContable, EvaluarPaso
<1>3. /\ u.fecha = t.fecha
      /\ u.sancion = [s \in SancionId |-> IF s \in nuevas THEN SancionNueva(1, t.fecha[f].numero + 1)
                                          ELSE IF s \in fuera THEN SinSancion ELSE t.sancion[s]]
      /\ u.libro = {r \in t.libro : r[1] \notin fuera}
    BY <1>1 DEF AplicarSanciones
<1>4. /\ \A s \in nuevas : ~t.sancion[s].existe
      /\ \A s \in fuera : s \in SancionId /\ ~t.sancion[s].revocada
    BY DEF Huerfanas, SancionId
<1>  HIDE DEF nuevas, fuera, u
<1>5. \A s \in SancionId : MismaSancion(u.sancion[s], v.sancion[s])
    BY <1>2 DEF Paso
<1>6. Asienta(t, v)
    <2>1. ASSUME NEW s \in SancionId, EnCuentaEn(v, s), s \in nuevas
          PROVE  Nace(t, v, s)
        <3>1. /\ u.sancion[s].totales = 1 /\ u.sancion[s].desde = t.fecha[f].numero + 1
              /\ ~t.sancion[s].existe
            BY <1>3, <1>4, <2>1 DEF SancionNueva
        <3>2. \A g \in Fechas : <<s, g>> \notin u.libro
            BY <1>1, <1>3, <3>1
        <3>3. ASSUME <<s, f>> \in v.libro
              PROVE  FALSE
            <4>1. u.sancion[s].desde <= u.fecha[f].numero
                BY <1>2, <3>2, <3>3 DEF Paso
            <4>2. t.fecha[f].numero \in Nat
                BY <1>1 DEF RegistroFecha
            <4>3. QED
                BY <1>3, <3>1, <4>1, <4>2
        <3>4. \A g \in Fechas : <<s, g>> \notin v.libro
            BY <1>2, <3>2, <3>3 DEF Paso
        <3>5. v.sancion[s].totales = 1
            BY <1>5, <3>1 DEF MismaSancion
        <3>6. QED
            BY <3>1, <3>4, <3>5 DEF Nace
    <2>2. ASSUME NEW s \in SancionId, EnCuentaEn(v, s), s \notin nuevas
          PROVE  Lleva(t, v, s)
        <3>1. u.sancion[s].existe
            BY <1>5, <2>2 DEF EnCuentaEn, MismaSancion
        <3>2. s \notin fuera
            BY <1>3, <2>2, <3>1 DEF SinSancion
        <3>3. u.sancion[s] = t.sancion[s]
            BY <1>3, <2>2, <3>2
        <3>4. EnCuentaEn(t, s) /\ v.sancion[s].totales = t.sancion[s].totales
            BY <1>5, <2>2, <3>3 DEF EnCuentaEn, MismaSancion
        <3>5. ASSUME NEW g \in Fechas, Cerrada(t, g), Cerrada(v, g)
              PROVE  <<s, g>> \in v.libro <=> <<s, g>> \in t.libro
            <4>1. Cerrada(u, g)
                BY <1>3, <3>5 DEF Cerrada
            <4>2. <<s, g>> \in u.libro <=> <<s, g>> \in t.libro
                BY <1>3, <3>2
            <4>3. <<s, g>> \in v.libro <=> <<s, g>> \in u.libro
                BY <1>2, <3>5, <4>1 DEF Paso
            <4>4. QED
                BY <4>2, <4>3
        <3>6. QED
            BY <3>4, <3>5 DEF Lleva
    <2>3. QED
        BY <2>1, <2>2 DEF Asienta
<1>7. Justa(pa, t, v)
    <2>1. ASSUME NEW s \in SancionId, NEW g \in Fechas, <<s, g>> \in v.libro, <<s, g>> \notin t.libro
          PROVE  /\ v.sancion[s].desde <= t.fecha[g].numero
                 /\ ClubDelJugador[Jugador(s)] \in ClubesQueJugaron(pa, g)
        <3>1. <<s, g>> \notin u.libro
            BY <1>3, <2>1
        <3>2. v.sancion[s].desde = u.sancion[s].desde
            BY <1>5 DEF MismaSancion
        <3>3. QED
            BY <1>2, <1>3, <2>1, <3>1, <3>2 DEF Paso
    <2>2. QED
        BY <2>1 DEF Justa
<1>8. Firme(t, v)
    <2>1. ASSUME NEW s \in SancionId, t.sancion[s].revocada
          PROVE  v.sancion[s] = t.sancion[s]
        <3>1. t.sancion[s].existe
            BY <1>1, <2>1 DEF SaldoBien
        <3>2. u.sancion[s] = t.sancion[s]
            BY <1>3, <1>4, <2>1, <3>1
        <3>3. QED
            BY <1>5, <2>1, <3>2 DEF MismaSancion
    <2>2. QED
        BY <2>1 DEF Firme
<1>9. QED
    BY <1>6, <1>7, <1>8 DEF Transaccion

\* A request that writes neither suspensions nor ledger
LEMMA Quieta ==
    ASSUME NEW pa, NEW t, NEW v, v.sancion = t.sancion, v.libro = t.libro
    PROVE  Transaccion(pa, t, v) /\ Mantiene(t, v)
BY DEF Mantiene, MismaSancion, Transaccion, Asienta, Lleva, EnCuentaEn, Justa, Firme

-----------------------------------------------------------------------------
(* Every request but the tribunal's is one of those transactions.          *)

\* A handler that saves a well typed state leaves exactly that state.
LEMMA GuardarDeja ==
    ASSUME NEW t, Contable(t), Guardar(t)
    PROVE  Disciplina' = t
BY DEF Guardar, Disciplina, Contable, TipoDisciplina

\* The request writes neither suspensions nor ledger
LEMMA SinEscribirSanciones ==
    ASSUME UNCHANGED <<sancion, libro>>
    PROVE  Transaccion(partido', Disciplina, Disciplina') /\ Mantiene(Disciplina, Disciplina')
<1>1. Disciplina'.sancion = Disciplina.sancion /\ Disciplina'.libro = Disciplina.libro
    BY DEF Disciplina
<1>2. QED
    BY <1>1, Quieta

\* It rewrites a match and evaluates its matchday
LEMMA EvaluaTransaccion ==
    ASSUME IInv, NEW p \in Partidos, NEW r, r.fecha \in Fechas, GuardarYEvaluar(p, r)
    PROVE  Transaccion(partido', Disciplina, Disciplina') /\ Mantiene(Disciplina, Disciplina')
<1> DEFINE v == Evaluar(partido', Disciplina, r.fecha)
<1>1. Contable(Disciplina)
    BY DEF IInv
<1>2. Guardar(v)
    BY DEF GuardarYEvaluar
<1>3. Contable(v) /\ Paso(partido', Disciplina, v, r.fecha)
    BY <1>1, EvaluarContable, EvaluarPaso
<1>  HIDE DEF v
<1>4. Disciplina' = v
    BY <1>2, <1>3, GuardarDeja
<1>5. QED
    BY <1>3, <1>4, UnPaso

\* It rewrites a match and reopens its matchday
LEMMA RevierteTransaccion ==
    ASSUME IInv, NEW p \in Partidos, NEW r, r.fecha \in Fechas, GuardarYRevertir(p, r)
    PROVE  Transaccion(partido', Disciplina, Disciplina') /\ Mantiene(Disciplina, Disciplina')
<1> DEFINE v == Revertir(Disciplina, r.fecha)
<1>1. Contable(Disciplina)
    BY DEF IInv
<1>2. Guardar(v)
    BY DEF GuardarYRevertir
<1>3. Contable(v) /\ Paso(partido', Disciplina, v, r.fecha)
    BY <1>1, RevertirContable, RevertirPaso
<1>  HIDE DEF v
<1>4. Disciplina' = v
    BY <1>2, <1>3, GuardarDeja
<1>5. QED
    BY <1>3, <1>4, UnPaso

\* It moves a match from one matchday to another, evaluates the origin and reopens the
\* destination, in either order
LEMMA MoverTransaccion ==
    ASSUME IInv, NEW p \in Partidos, NEW g, MoverPartido(p, g)
    PROVE  Transaccion(partido', Disciplina, Disciplina') /\ Mantiene(Disciplina, Disciplina')
<1> DEFINE f == partido[p].fecha
<1>1. /\ f \in Fechas /\ g \in Fechas /\ f # g
      /\ Contable(Disciplina)
    BY FilaBien DEF MoverPartido, Abierto, PartidosVivos, FechasVivas, IInv
<1>2. \/ Guardar(Evaluar(partido', Disciplina, f))
      \/ Guardar(Revertir(Evaluar(partido', Disciplina, f), g))
      \/ Guardar(Evaluar(partido', Revertir(Disciplina, g), f))
    BY DEF MoverPartido
<1>  HIDE DEF f
<1>3. CASE Guardar(Evaluar(partido', Disciplina, f))
    <2> DEFINE v == Evaluar(partido', Disciplina, f)
    <2>1. Contable(v) /\ Paso(partido', Disciplina, v, f)
        BY <1>1, EvaluarContable, EvaluarPaso
    <2>2. Guardar(v)
        BY <1>3
    <2>  HIDE DEF v
    <2>3. Disciplina' = v
        BY <2>1, <2>2, GuardarDeja
    <2>4. QED
        BY <1>1, <2>1, <2>3, UnPaso
<1>4. CASE Guardar(Revertir(Evaluar(partido', Disciplina, f), g))
    <2> DEFINE u == Evaluar(partido', Disciplina, f)
               v == Revertir(u, g)
    <2>1. Contable(u) /\ Paso(partido', Disciplina, u, f)
        BY <1>1, EvaluarContable, EvaluarPaso
    <2>2. Guardar(v)
        BY <1>4
    <2>  HIDE DEF u
    <2>3. Contable(v) /\ Paso(partido', u, v, g)
        BY <1>1, <2>1, RevertirContable, RevertirPaso
    <2>  HIDE DEF v
    <2>4. Disciplina' = v
        BY <2>2, <2>3, GuardarDeja
    <2>5. QED
        BY <1>1, <2>1, <2>3, <2>4, DosPasos
<1>5. CASE Guardar(Evaluar(partido', Revertir(Disciplina, g), f))
    <2> DEFINE u == Revertir(Disciplina, g)
               v == Evaluar(partido', u, f)
    <2>1. Contable(u) /\ Paso(partido', Disciplina, u, g)
        BY <1>1, RevertirContable, RevertirPaso
    <2>2. Guardar(v)
        BY <1>5
    <2>  HIDE DEF u
    <2>3. Contable(v) /\ Paso(partido', u, v, f)
        BY <1>1, <2>1, EvaluarContable, EvaluarPaso
    <2>  HIDE DEF v
    <2>4. Disciplina' = v
        BY <2>2, <2>3, GuardarDeja
    <2>5. QED
        BY <1>1, <2>1, <2>3, <2>4, DosPasos
<1>6. QED
    BY <1>2, <1>3, <1>4, <1>5

\* It closes an acta, reconciles the suspensions of the match and evaluates its matchday
LEMMA CerrarTransaccion ==
    ASSUME IInv, NEW p \in Partidos, CerrarActa(p)
    PROVE  Transaccion(partido', Disciplina, Disciplina')
<1> DEFINE f == partido[p].fecha
           u == AplicarSanciones(Disciplina, p)
           v == Evaluar(partido', u, f)
<1>1. f \in Fechas /\ Contable(Disciplina)
    BY FilaBien DEF CerrarActa, Abierto, PartidosVivos, IInv
<1>2. Guardar(v)
    BY DEF CerrarActa
<1>3. Contable(u)
    BY <1>1, AplicarContable
<1>4. Contable(v)
    BY <1>1, <1>3, EvaluarContable
<1>5. Transaccion(partido', Disciplina, v)
    BY <1>1, AplicarYEvaluar
<1>  HIDE DEF v
<1>6. Disciplina' = v
    BY <1>2, <1>4, GuardarDeja
<1>7. QED
    BY <1>5, <1>6

\* The handlers of a single match
LEMMA OperarPartidoTransaccion ==
    ASSUME IInv, NEW p \in Partidos, OperarPartido(p)
    PROVE  /\ Transaccion(partido', Disciplina, Disciplina')
           /\ CerrarActa(p) \/ Mantiene(Disciplina, Disciplina')
<1>1. CASE CambiarEstado(p) \/ \E js \in Listas : CertificarPresentes(p, js)
    BY <1>1, SinEscribirSanciones DEF CambiarEstado, CertificarPresentes
<1>2. CASE \E g \in Destinos : MoverPartido(p, g)
    BY <1>2, MoverTransaccion
<1>3. CASE CerrarActa(p)
    BY <1>3, CerrarTransaccion
<1>4. CASE SuspenderPartido(p) \/ MarcarNoJugado(p) \/ DeclararWalkover(p)
    <2>1. partido[p] \in RegistroPartido /\ partido[p].fecha \in Fechas
        BY <1>4, FilaBien
           DEF SuspenderPartido, MarcarNoJugado, DeclararWalkover, Abierto, PartidosVivos
    <2>2. PICK r : GuardarYEvaluar(p, r) /\ r.fecha = partido[p].fecha
        <3>1. \A e : ConEstado(p, e).fecha = partido[p].fecha
            BY <2>1 DEF ConEstado, RegistroPartido
        <3>2. Walkover(p).fecha = partido[p].fecha
            BY <2>1 DEF Walkover, RegistroPartido
        <3>3. QED
            BY <1>4, <3>1, <3>2 DEF SuspenderPartido, MarcarNoJugado, DeclararWalkover
    <2>3. QED
        BY <2>1, <2>2, EvaluaTransaccion
<1>5. CASE ReabrirActa(p) \/ ReprogramarPartido(p) \/ AnularWalkover(p) \/ ReactivarPartido(p)
    <2>1. partido[p] \in RegistroPartido /\ partido[p].fecha \in Fechas
        BY <1>5, FilaBien
           DEF ReabrirActa, ReprogramarPartido, AnularWalkover, ReactivarPartido, Abierto, PartidosVivos
    <2>2. PICK r : GuardarYRevertir(p, r) /\ r.fecha = partido[p].fecha
        <3>1. \A e : ConEstado(p, e).fecha = partido[p].fecha
            BY <2>1 DEF ConEstado, RegistroPartido
        <3>2. \A e : [partido[p] EXCEPT !.estado = e, !.acta = FALSE].fecha = partido[p].fecha
            BY <2>1 DEF RegistroPartido
        <3>3. QED
            BY <1>5, <3>1, <3>2 DEF ReabrirActa, ReprogramarPartido, AnularWalkover, ReactivarPartido
    <2>3. QED
        BY <2>1, <2>2, RevierteTransaccion
<1>6. QED
    BY <1>1, <1>2, <1>3, <1>4, <1>5 DEF OperarPartido

\* The steps of a bulk suspension, and the reactivation of a team
LEMMA OperarEquipoTransaccion ==
    ASSUME IInv, OperarEquipo
    PROVE  Transaccion(partido', Disciplina, Disciplina') /\ Mantiene(Disciplina, Disciplina')
<1>1. CASE (\E e \in Suspendibles : SuspenderEquipo(e) \/ ReactivarEquipo(e)) \/ LoteTermina
    BY <1>1, SinEscribirSanciones DEF SuspenderEquipo, ReactivarEquipo, LoteTermina
<1>2. CASE \E p \in Partidos : LoteCancela(p)
    BY <1>2, SinEscribirSanciones DEF LoteCancela
<1>3. ASSUME NEW p \in Partidos, LoteWalkover(p)
      PROVE  Transaccion(partido', Disciplina, Disciplina') /\ Mantiene(Disciplina, Disciplina')
    <2>1. partido[p] \in RegistroPartido /\ partido[p].fecha \in Fechas
        BY <1>3, FilaBien DEF LoteWalkover, Pendientes
    <2>2. Walkover(p).fecha \in Fechas /\ GuardarYEvaluar(p, Walkover(p))
        BY <1>3, <2>1 DEF LoteWalkover, Walkover, RegistroPartido
    <2>3. QED
        BY <2>2, EvaluaTransaccion
<1>4. ASSUME NEW f \in Fechas, LoteEvalua(f)
      PROVE  Transaccion(partido', Disciplina, Disciplina') /\ Mantiene(Disciplina, Disciplina')
    <2> DEFINE v == Evaluar(partido, Disciplina, f)
    <2>1. Guardar(v) /\ partido' = partido
        BY <1>4 DEF LoteEvalua
    <2>2. Contable(v) /\ Paso(partido, Disciplina, v, f)
        BY EvaluarContable, EvaluarPaso DEF IInv
    <2>  HIDE DEF v
    <2>3. Disciplina' = v
        BY <2>1, <2>2, GuardarDeja
    <2>4. Transaccion(partido, Disciplina, v) /\ Mantiene(Disciplina, v)
        BY <2>2, UnPaso
    <2>5. QED
        BY <2>1, <2>3, <2>4
<1>5. QED
    BY <1>1, <1>2, <1>3, <1>4 DEF OperarEquipo

\* Every step that is not the tribunal's
LEMMA TodaTransaccion ==
    ASSUME IInv, [Next]_vars
    PROVE  \/ Tribunal
           \/ /\ Transaccion(partido', Disciplina, Disciplina')
              /\ Mantiene(Disciplina, Disciplina') \/ \E p \in Partidos : CerrarActa(p)
<1>1. CASE \E p \in Partidos : OperarPartido(p)
    BY <1>1, OperarPartidoTransaccion
<1>2. CASE CargarActa
    BY <1>2, SinEscribirSanciones
       DEF CargarActa, AddIncidencia, RemoveIncidencia, AtribuirJugadorIncidencia
<1>3. CASE \E f \in Fechas : OperarFecha(f)
    BY <1>3, SinEscribirSanciones
       DEF OperarFecha, SuspenderFechaManual, SuspenderFechaConBis, SuspenderFechaReusando,
           ReactivarFecha
<1>4. CASE OperarEquipo
    BY <1>4, OperarEquipoTransaccion
<1>5. CASE UNCHANGED vars
    BY <1>5, SinEscribirSanciones DEF vars
<1>6. QED
    BY <1>1, <1>2, <1>3, <1>4, <1>5 DEF Next

\* The tribunal writes one row: a new one, one it takes over, or one it revokes.
LEMMA TribunalEscribe ==
    ASSUME IInv, Tribunal
    PROVE  /\ UNCHANGED <<partido, fecha, libro>>
           /\ \E x \in SancionId :
                /\ \A s \in SancionId : s # x => sancion'[s] = sancion[s]
                /\ sancion'[x].existe
                /\ \/ x \notin IdAuto /\ ~sancion[x].existe /\ sancion'[x].totales # 0
                   \/ \E k \in Cantidades, d \in Desdes \cup {Nada} :
                        TribunalAjustar(x, k, d) /\ sancion'[x].ajustada
                   \/ sancion'[x].revocada /\ sancion'[x].pendientes = 0
<1>0. sancion \in [SancionId -> RegistroSancion]
    BY DEF IInv, Contable, TipoDisciplina, Disciplina
<1>1. UNCHANGED <<partido, fecha, libro>>
    BY DEF Tribunal, TribunalCreate, TribunalAjustar, TribunalRevoke
<1>2. ASSUME NEW j \in Jugadores, NEW r \in Resoluciones, NEW k \in Cantidades,
             NEW d \in Desdes \cup {Nada}, NEW veto \in Vetos, TribunalCreate(j, r, k, d, veto)
      PROVE  \E x \in SancionId : /\ \A s \in SancionId : s # x => sancion'[s] = sancion[s]
                                  /\ x \notin IdAuto /\ ~sancion[x].existe
                                  /\ sancion'[x].existe /\ sancion'[x].totales # 0
    <2> DEFINE x == <<j, "TRIBUNAL", r>>
               n == SancionNueva(k, IF d = Nada THEN ProximaFechaNumero ELSE d)
    <2>1. x \in SancionId /\ x \notin IdAuto
        BY DEF SancionId, IdTribunal, IdAuto, MotivosAuto
    <2>2. k > 0 /\ k \in Nat /\ ~sancion[x].existe
        BY <1>2, ParametrosAssumption DEF TribunalCreate
    <2>3. sancion' = [sancion EXCEPT ![x] = n] /\ n.totales = k /\ n.existe
        BY <1>2 DEF TribunalCreate, SancionNueva
    <2>  HIDE DEF x, n
    <2>4. QED
        BY <1>0, <2>1, <2>2, <2>3
<1>3. ASSUME NEW x \in SancionId, NEW k \in Cantidades, NEW d \in Desdes \cup {Nada},
             TribunalAjustar(x, k, d)
      PROVE  /\ \A s \in SancionId : s # x => sancion'[s] = sancion[s]
             /\ sancion'[x].existe /\ sancion'[x].ajustada
    <2> DEFINE r == sancion[x]
               desde == IF d = Nada THEN r.desde ELSE d
               totales == IF k > r.totales THEN k ELSE r.totales
               cero == (k = 0)
               n == [r EXCEPT !.pendientes = k, !.desde = desde, !.cumplida = cero,
                              !.totales = totales, !.revocada = cero, !.ajustada = TRUE]
    <2>1. sancion' = [sancion EXCEPT ![x] = n]
        BY <1>3 DEF TribunalAjustar
    <2>2. r \in RegistroSancion /\ r.existe
        BY <1>0, <1>3 DEF TribunalAjustar
    <2>  HIDE DEF r, desde, totales, cero
    <2>3. n.existe /\ n.ajustada
        BY <2>2 DEF RegistroSancion
    <2>  HIDE DEF n
    <2>4. QED
        BY <1>0, <2>1, <2>3
<1>4. ASSUME NEW x \in SancionId, TribunalRevoke(x)
      PROVE  /\ \A s \in SancionId : s # x => sancion'[s] = sancion[s]
             /\ sancion'[x].existe /\ sancion'[x].revocada /\ sancion'[x].pendientes = 0
    BY <1>0, <1>4 DEF TribunalRevoke, RegistroSancion
<1>5. QED
    BY <1>1, <1>2, <1>3, <1>4 DEF Tribunal

-----------------------------------------------------------------------------
(* The book of accounts.                                                   *)

\* No step moves an account but by the matchdays it closes or reopens.
LEMMA TodoAsienta ==
    ASSUME IInv, [Next]_vars
    PROVE  Asienta(Disciplina, Disciplina')
<1>1. CASE Tribunal
    <2>1. UNCHANGED libro
        BY <1>1, TribunalEscribe
    <2>2. PICK x \in SancionId :
                /\ \A s \in SancionId : s # x => sancion'[s] = sancion[s]
                /\ \/ ~sancion[x].existe /\ sancion'[x].totales # 0
                   \/ sancion'[x].ajustada
                   \/ sancion'[x].revocada
        BY <1>1, TribunalEscribe
    <2>3. ASSUME NEW s \in SancionId, EnCuentaEn(Disciplina', s), s # x
          PROVE  Lleva(Disciplina, Disciplina', s)
        BY <2>1, <2>2, <2>3 DEF Lleva, EnCuentaEn, Disciplina
    <2>4. ASSUME EnCuentaEn(Disciplina', x)
          PROVE  Nace(Disciplina, Disciplina', x)
        BY <2>1, <2>2, <2>4 DEF Nace, EnCuentaEn, Disciplina, IInv, Contable
    <2>5. QED
        BY <2>3, <2>4 DEF Asienta
<1>2. CASE Transaccion(partido', Disciplina, Disciplina')
    BY <1>2 DEF Transaccion
<1>3. QED
    BY <1>1, <1>2, TodaTransaccion

\* What was imposed is never nothing, while the account is the book's.
Impuestas == \A s \in SancionId : EnCuentaEn(Disciplina, s) => sancion[s].totales # 0

\* Nor does any step make it so.
LEMMA ImpuestasSiguen ==
    ASSUME Impuestas, Asienta(Disciplina, Disciplina')
    PROVE  Impuestas'
BY DEF Impuestas, Asienta, Lleva, Nace, Disciplina, EnCuentaEn

CuentaEn(t, s) ==
    [impuesta |-> t.sancion[s].totales, saldo |-> t.sancion[s].pendientes,
     asientos |-> DescontaronEn(t, s)]

\* The accounts, as those of a discipline state
LEMMA CuentasEn ==
    ASSUME NEW s \in SancionId
    PROVE  /\ Cuentas[s] = IF EnCuentaEn(Disciplina, s) THEN CuentaEn(Disciplina, s) ELSE Nada
           /\ Cuentas'[s] = IF EnCuentaEn(Disciplina', s) THEN CuentaEn(Disciplina', s) ELSE Nada
BY DEF Cuentas, EnCuenta, CuentaDe, FechasQueDescontaron, EnCuentaEn, CuentaEn, DescontaronEn, Disciplina

\* An account of a sound state is an account, and not NULL.
LEMMA CuentaBien ==
    ASSUME NEW t, Contable(t), NEW s \in SancionId, t.sancion[s].totales # 0
    PROVE  CuentaEn(t, s) \in Mayor!Cuenta /\ CuentaEn(t, s) # Nada
<1>1. t.sancion[s] \in RegistroSancion /\ DescontaronEn(t, s) \in SUBSET Fechas
    BY DEF Contable, TipoDisciplina, DescontaronEn
<1>2. t.sancion[s].totales \in Nat \ {0} /\ t.sancion[s].pendientes \in Nat
    BY <1>1 DEF RegistroSancion
<1>3. CuentaEn(t, s) \in Mayor!Cuenta
    BY <1>1, <1>2 DEF CuentaEn, Mayor!Cuenta
<1>4. QED
    BY <1>3, MayorAssumption

\* Counting: a balance that both states explain differs by the entries gained and lost.
LEMMA Cuadrar ==
    ASSUME NEW A, IsFiniteSet(A), NEW B, IsFiniteSet(B), NEW n \in Nat, NEW a \in Nat, NEW b \in Nat,
           a + Cardinality(A) = n, b + Cardinality(B) = n
    PROVE  b = (a - Cardinality(B \ A)) + Cardinality(A \ B)
<1>1. Cardinality(B \ A) = Cardinality(B) - Cardinality(B \cap A)
    BY FS_Difference
<1>2. Cardinality(A \ B) = Cardinality(A) - Cardinality(A \cap B)
    BY FS_Difference
<1>3. A \cap B = B \cap A
    OBVIOUS
<1>4. Cardinality(A \ B) = Cardinality(A) - Cardinality(B \cap A)
    BY <1>2, <1>3
<1>5. IsFiniteSet(B \cap A)
    BY FS_Intersection
<1>6. Cardinality(A) \in Nat /\ Cardinality(B) \in Nat /\ Cardinality(B \cap A) \in Nat
    BY <1>5, FS_CardinalityType
<1> DEFINE ca == Cardinality(A)
           cb == Cardinality(B)
           ci == Cardinality(B \cap A)
<1>7. b = (a - (cb - ci)) + (ca - ci)
    <2>1. ca \in Nat /\ cb \in Nat /\ ci \in Nat /\ a + ca = n /\ b + cb = n
        BY <1>6
    <2>  HIDE DEF ca, cb, ci
    <2>2. QED
        BY <2>1
<1>8. QED
    BY <1>1, <1>4, <1>7

\* The book and Torneo count with the same operator.
LEMMA MismoCardinal ==
    ASSUME NEW S
    PROVE  Mayor!Cardinality(S) = Cardinality(S)
BY DEF Mayor!Cardinality, Cardinality

\* A step that moves no account but by matchdays is a movement of the book.
LEMMA MovimientoBien ==
    ASSUME IInv, IInv', Impuestas, Impuestas', Asienta(Disciplina, Disciplina')
    PROVE  Mayor!Movimiento
<1> DEFINE t == Disciplina
           v == Disciplina'
<1>1. Contable(t) /\ Contable(v)
    BY DEF IInv
<1>2. ASSUME NEW f \in Fechas
      PROVE  (f \in Cerradas <=> Cerrada(t, f)) /\ (f \in Cerradas' <=> Cerrada(v, f))
    BY DEF Cerradas, Cerrada, Disciplina
<1>3. \A s \in SancionId : /\ EnCuentaEn(t, s) => t.sancion[s].totales # 0
                           /\ EnCuentaEn(v, s) => v.sancion[s].totales # 0
    BY DEF Impuestas, Disciplina
<1>4. ASSUME NEW s \in SancionId
      PROVE  /\ Cuentas[s] = IF EnCuentaEn(t, s) THEN CuentaEn(t, s) ELSE Nada
             /\ Cuentas'[s] = IF EnCuentaEn(v, s) THEN CuentaEn(v, s) ELSE Nada
    BY CuentasEn
<1>5. Asienta(t, v)
    OBVIOUS
<1>  HIDE DEF t, v
<1>6. ASSUME NEW s \in SancionId, EnCuentaEn(v, s), Lleva(t, v, s)
      PROVE  Mayor!Sigue(CuentaEn(t, s), CuentaEn(v, s))
    <2> DEFINE A == DescontaronEn(t, s)
               B == DescontaronEn(v, s)
               c == CuentaEn(t, s)
               d == CuentaEn(v, s)
    <2>1. EnCuentaEn(t, s) /\ v.sancion[s].totales = t.sancion[s].totales
        BY <1>6 DEF Lleva
    <2>2. c # Nada /\ d \in Mayor!Cuenta
        BY <1>1, <1>3, <1>6, <2>1, CuentaBien
    <2>3. /\ c.asientos = A /\ c.saldo = t.sancion[s].pendientes /\ c.impuesta = t.sancion[s].totales
          /\ d.asientos = B /\ d.saldo = v.sancion[s].pendientes /\ d.impuesta = v.sancion[s].totales
        BY DEF CuentaEn
    <2>4. /\ \A f \in A : f \in Fechas /\ Cerrada(t, f) /\ <<s, f>> \in t.libro
          /\ \A f \in B : f \in Fechas /\ Cerrada(v, f) /\ <<s, f>> \in v.libro
        BY <1>1 DEF DescontaronEn, Contable, Cerrada
    <2>5. \A f \in Fechas : Cerrada(t, f) /\ Cerrada(v, f) => (f \in B <=> f \in A)
        BY <1>6 DEF Lleva, DescontaronEn
    <2>6. B \ A \subseteq Cerradas' \ Cerradas
        BY <1>2, <2>4, <2>5
    <2>7. A \ B = A \ Cerradas'
        BY <1>2, <2>4, <2>5
    <2>8. d.saldo = (c.saldo - Cardinality(B \ A)) + Cardinality(A \ B)
        <3>1. Exacta(t, s) /\ Exacta(v, s)
            BY <1>1 DEF Contable
        <3>2. /\ t.sancion[s].pendientes + Cardinality(A) = t.sancion[s].totales
              /\ v.sancion[s].pendientes + Cardinality(B) = t.sancion[s].totales
            BY <1>6, <2>1, <3>1 DEF Exacta, EnCuentaEn
        <3>3. t.sancion[s] \in RegistroSancion /\ v.sancion[s] \in RegistroSancion
            BY <1>1 DEF Contable, TipoDisciplina
        <3>4. /\ t.sancion[s].totales \in Nat
              /\ t.sancion[s].pendientes \in Nat /\ v.sancion[s].pendientes \in Nat
            BY <3>3 DEF RegistroSancion
        <3>5. IsFiniteSet(A) /\ IsFiniteSet(B)
            BY DescontaronFinito
        <3>  HIDE DEF A, B
        <3>6. v.sancion[s].pendientes = (t.sancion[s].pendientes - Cardinality(B \ A)) + Cardinality(A \ B)
            BY <3>2, <3>4, <3>5, Cuadrar
        <3>7. QED
            BY <2>3, <3>6
    <2>9. c.impuesta = d.impuesta
        BY <2>1, <2>3
    <2>  HIDE DEF A, B, c, d
    <2>10. Mayor!Sigue(c, d)
        BY <2>2, <2>3, <2>6, <2>7, <2>8, <2>9, MismoCardinal DEF Mayor!Sigue
    <2>11. QED
        BY <2>10 DEF c, d
<1>7. ASSUME NEW s \in SancionId, EnCuentaEn(v, s), Nace(t, v, s)
      PROVE  Cuentas[s] = Nada /\ Mayor!Abre(Nada, CuentaEn(v, s))
    <2> DEFINE k == v.sancion[s].totales
    <2>1. Cuentas[s] = Nada
        BY <1>4, <1>7 DEF Nace, EnCuentaEn
    <2>2. DescontaronEn(v, s) = {}
        BY <1>7 DEF Nace, DescontaronEn
    <2>3. Cardinality(DescontaronEn(v, s)) = 0
        BY <2>2, FS_EmptySet
    <2>4. k \in Nat \ {0} /\ v.sancion[s].pendientes \in Nat
        <3>1. v.sancion[s] \in RegistroSancion
            BY <1>1 DEF Contable, TipoDisciplina
        <3>2. QED
            BY <1>7, <3>1 DEF Nace, RegistroSancion
    <2>5. v.sancion[s].pendientes = k
        <3>1. v.sancion[s].pendientes + Cardinality(DescontaronEn(v, s)) = k
            BY <1>1, <1>7 DEF Contable, Exacta, EnCuentaEn
        <3>2. QED
            BY <2>3, <2>4, <3>1
    <2>6. CuentaEn(v, s) = [impuesta |-> k, saldo |-> k, asientos |-> {}]
        BY <2>2, <2>5 DEF CuentaEn
    <2>  HIDE DEF k
    <2>7. QED
        BY <2>1, <2>4, <2>6 DEF Mayor!Abre, Mayor!CuentaNueva
<1>8. ASSUME NEW s \in SancionId
      PROVE  Cuentas'[s] = Nada \/ Mayor!Abre(Cuentas[s], Cuentas'[s])
                                \/ Mayor!Sigue(Cuentas[s], Cuentas'[s])
    <2>1. CASE ~EnCuentaEn(v, s)
        BY <1>4, <2>1
    <2>2. CASE EnCuentaEn(v, s) /\ Lleva(t, v, s)
        <3>1. Cuentas[s] = CuentaEn(t, s) /\ Cuentas'[s] = CuentaEn(v, s)
            BY <1>4, <2>2 DEF Lleva
        <3>2. QED
            BY <1>6, <2>2, <3>1
    <2>3. CASE EnCuentaEn(v, s) /\ Nace(t, v, s)
        <3>1. Cuentas'[s] = CuentaEn(v, s)
            BY <1>4, <2>3
        <3>2. QED
            BY <1>7, <2>3, <3>1
    <2>4. QED
        BY <1>5, <2>1, <2>2, <2>3 DEF Asienta
<1>9. QED
    BY <1>8 DEF Mayor!Movimiento

-----------------------------------------------------------------------------
(* The theorems.                                                           *)

\* A freshly generated fixture has an empty book.
LEMMA LibroVacio == Init => Mayor!Init /\ Impuestas
<1> SUFFICES ASSUME Init
             PROVE  Mayor!Init /\ Impuestas
    OBVIOUS
<1>1. \A s \in SancionId : ~sancion[s].existe
    BY DEF Init, SinSancion
<1>2. Cuentas = [s \in SancionId |-> Nada]
    BY <1>1 DEF Cuentas, EnCuenta
<1>3. Cerradas = {}
    BY DEF Init, Cerradas, FechaNueva, FechaLibre
<1>4. Impuestas
    BY <1>1 DEF Impuestas, EnCuentaEn, Disciplina
<1>5. QED
    BY <1>2, <1>3, <1>4 DEF Mayor!Init

\* ADR-0015 for every fixture and every history: Torneo implements the book of accounts.
\* Whatever order actas, reopenings, walkovers, moves and resolutions come in, a balance
\* moves only with the matchdays that close over it and reopen, one for one.
THEOREM ImplementaElLibro == Spec => ImplementaLibroMayor
<1>1. Init => IInv /\ Impuestas /\ Mayor!Init
    BY InicioBien, LibroVacio
<1>2. IInv /\ Impuestas /\ [Next]_vars => IInv' /\ Impuestas' /\ Mayor!Movimiento
    <2>1. ASSUME IInv, Impuestas, [Next]_vars
          PROVE  IInv' /\ Impuestas' /\ Mayor!Movimiento
        <3>1. IInv'
            BY <2>1, PasoBien
        <3>2. Asienta(Disciplina, Disciplina')
            BY <2>1, TodoAsienta
        <3>3. Impuestas'
            BY <2>1, <3>2, ImpuestasSiguen
        <3>4. QED
            BY <2>1, <3>1, <3>2, <3>3, MovimientoBien
    <2>2. QED
        BY <2>1
<1>3. QED
    BY <1>1, <1>2, PTL DEF Spec, ImplementaLibroMayor, Mayor!Spec

-----------------------------------------------------------------------------
(* What the book promises, from the book alone                             *)

\* Entries written less entries struck out is the change of what an account holds.
LEMMA Asentar ==
    ASSUME NEW A, IsFiniteSet(A), NEW B, IsFiniteSet(B)
    PROVE  /\ Cardinality(A) \in Nat /\ Cardinality(B) \in Nat
           /\ Cardinality(B \ A) \in Nat /\ Cardinality(A \ B) \in Nat
           /\ Cardinality(B) + Cardinality(A \ B) = Cardinality(A) + Cardinality(B \ A)
<1>1. /\ IsFiniteSet(A \ B) /\ IsFiniteSet(B \ A) /\ IsFiniteSet(A \cap B)
    BY FS_Difference, FS_Intersection
<1>2. /\ Cardinality(A) \in Nat /\ Cardinality(B) \in Nat /\ Cardinality(A \cap B) \in Nat
      /\ Cardinality(B \ A) \in Nat /\ Cardinality(A \ B) \in Nat
    BY <1>1, FS_CardinalityType
<1>3. Cardinality(A \ B) = Cardinality(A) - Cardinality(A \cap B)
    BY FS_Difference
<1>4. Cardinality(B \ A) = Cardinality(B) - Cardinality(A \cap B)
    <2>1. B \cap A = A \cap B
        OBVIOUS
    <2>2. QED
        BY <2>1, FS_Difference
<1>5. QED
    BY <1>2, <1>3, <1>4

\* A movement leaves every account balanced: what closes is written, what reopens is struck
\* out, and the balance goes with both.
LEMMA MovimientoCuadra ==
    ASSUME Mayor!TypeOK, Mayor!Cuadra, [Mayor!Movimiento]_<<Cuentas, Cerradas>>
    PROVE  Mayor!TypeOK' /\ Mayor!Cuadra'
<1>1. CASE UNCHANGED <<Cuentas, Cerradas>>
    BY <1>1 DEF Mayor!TypeOK, Mayor!Cuadra
<1>2. CASE Mayor!Movimiento
    <2>1. SUFFICES ASSUME NEW s \in SancionId
                   PROVE  /\ Cuentas'[s] \in Mayor!Cuenta \cup {Nada}
                          /\ Cuentas'[s] # Nada =>
                              /\ Cuentas'[s].saldo + Cardinality(Cuentas'[s].asientos)
                                     = Cuentas'[s].impuesta
                              /\ Cuentas'[s].asientos \subseteq Cerradas'
        BY MismoCardinal DEF Mayor!TypeOK, Mayor!Cuadra
    <2> DEFINE c == Cuentas[s]
               d == Cuentas'[s]
    <2>2. CASE d = Nada
        BY <2>2
    <2>3. CASE Mayor!Abre(c, d)
        <3>1. d = [impuesta |-> d.impuesta, saldo |-> d.impuesta, asientos |-> {}]
            BY <2>3 DEF Mayor!Abre, Mayor!CuentaNueva
        <3>2. d.impuesta \in Nat \ {0}
            BY <2>3 DEF Mayor!Abre
        <3> HIDE DEF d
        <3>3. d.saldo = d.impuesta /\ d.asientos = {} /\ d \in Mayor!Cuenta
            BY <3>1, <3>2 DEF Mayor!Cuenta
        <3>4. d.saldo + Cardinality(d.asientos) = d.impuesta
            BY <3>2, <3>3, FS_EmptySet
        <3>5. QED
            BY <3>3, <3>4 DEF d
    <2>4. CASE Mayor!Sigue(c, d)
        <3>1. /\ c \in Mayor!Cuenta /\ d \in Mayor!Cuenta
              /\ c.saldo + Cardinality(c.asientos) = c.impuesta
              /\ c.asientos \subseteq Cerradas
            BY <2>4, MismoCardinal DEF Mayor!Sigue, Mayor!TypeOK, Mayor!Cuadra
        <3>2. /\ d.impuesta = c.impuesta
              /\ d.asientos \ c.asientos \subseteq Cerradas'
              /\ c.asientos \ d.asientos = c.asientos \ Cerradas'
              /\ d.saldo = (c.saldo - Cardinality(d.asientos \ c.asientos))
                               + Cardinality(c.asientos \ d.asientos)
            BY <2>4, MismoCardinal DEF Mayor!Sigue
        <3> HIDE DEF c, d
        <3>3. IsFiniteSet(c.asientos) /\ IsFiniteSet(d.asientos)
            BY <3>1, ParametrosAssumption, FS_Subset DEF Mayor!Cuenta
        <3>4. d.asientos \subseteq Cerradas'
            BY <3>2
        <3>5. c.saldo \in Nat /\ c.impuesta \in Nat
            BY <3>1 DEF Mayor!Cuenta
        <3>6. d.saldo + Cardinality(d.asientos) = d.impuesta
            <4>1. /\ Cardinality(c.asientos) \in Nat /\ Cardinality(d.asientos) \in Nat
                  /\ Cardinality(d.asientos \ c.asientos) \in Nat
                  /\ Cardinality(c.asientos \ d.asientos) \in Nat
                  /\ Cardinality(d.asientos) + Cardinality(c.asientos \ d.asientos)
                         = Cardinality(c.asientos) + Cardinality(d.asientos \ c.asientos)
                BY <3>3, Asentar
            <4>2. QED
                BY <3>1, <3>2, <3>5, <4>1
        <3>7. QED
            BY <3>1, <3>4, <3>6 DEF d
    <2>5. QED
        BY <1>2, <2>2, <2>3, <2>4 DEF Mayor!Movimiento
<1>3. QED
    BY <1>1, <1>2

\* ADR-0015 as the reader of the ledger needs it, from the rules of the book alone: while
\* the book keeps an account, what is pending plus the closed matchdays that discounted it
\* is what was imposed.  So it holds of whatever implements the book, Torneo among them.
THEOREM ElLibroCuadra == ImplementaLibroMayor => []Mayor!Cuadra
<1>1. Mayor!Init => Mayor!TypeOK /\ Mayor!Cuadra
    BY DEF Mayor!Init, Mayor!TypeOK, Mayor!Cuadra
<1>2. Mayor!TypeOK /\ Mayor!Cuadra /\ [Mayor!Movimiento]_<<Cuentas, Cerradas>>
          => (Mayor!TypeOK /\ Mayor!Cuadra)'
    BY MovimientoCuadra
<1>3. QED
    BY <1>1, <1>2, PTL DEF ImplementaLibroMayor, Mayor!Spec

\* Product rule of 2026-10-07: whatever the history, a suspension is served only by a
\* matchday its player's club played, never before the number it starts at.
THEOREM CumpleQuienJugo == Spec => SoloCumpleQuienJugo
<1> DEFINE Sirve(s, f) == /\ fecha[f].numero >= sancion'[s].desde
                          /\ \E p \in Partidos : /\ partido'[p].fecha = f
                                                 /\ partido'[p].acta
                                                 /\ \E e \in partido'[p].equipos :
                                                        ClubDe[e] = ClubDelJugador[Jugador(s)]
           Regla == \A r \in libro' \ libro : Sirve(r[1], r[2])
<1>1. IInv /\ [Next]_vars => [Regla]_vars
    <2>1. ASSUME IInv, [Next]_vars
          PROVE  Regla
        <3>1. /\ libro' \subseteq SancionId \X Fechas
              /\ sancion' \in [SancionId -> RegistroSancion]
              /\ fecha \in [Fechas -> RegistroFecha]
              /\ PartidosBien(partido')
            BY <2>1, PasoBien DEF IInv, Contable, TipoDisciplina, Disciplina
        <3>2. ASSUME NEW s \in SancionId, NEW f \in Fechas, <<s, f>> \in libro', <<s, f>> \notin libro
              PROVE  Sirve(s, f)
            <4>1. ~Tribunal
                BY <3>2, TribunalEscribe, <2>1
            <4>2. Justa(partido', Disciplina, Disciplina')
                BY <2>1, <4>1, TodaTransaccion DEF Transaccion
            <4>3. /\ sancion'[s].desde <= fecha[f].numero
                  /\ ClubDelJugador[Jugador(s)] \in ClubesQueJugaron(partido', f)
                BY <3>2, <4>2 DEF Justa, Disciplina
            <4>4. fecha[f].numero >= sancion'[s].desde
                BY <3>1, <4>3 DEF RegistroFecha, RegistroSancion
            <4>5. PICK p \in Partidos :
                        /\ partido'[p].fecha = f /\ partido'[p].estado \in EstadosCuentanTabla
                        /\ \E e \in partido'[p].equipos : ClubDe[e] = ClubDelJugador[Jugador(s)]
                BY <4>3 DEF ClubesQueJugaron
            <4>6. partido'[p].acta
                BY <3>1, <4>5 DEF PartidosBien, PartidoBien, EstadosCuentanTabla
            <4>7. QED
                BY <4>4, <4>5, <4>6
        <3>3. QED
            BY <3>1, <3>2
    <2>2. QED
        BY <2>1
<1>2. SoloCumpleQuienJugo <=> [][Regla]_vars
    BY DEF SoloCumpleQuienJugo
<1>  HIDE DEF Regla
<1>3. QED
    BY <1>1, <1>2, Invariante, PTL DEF Spec

\* T21, whatever the history: a revoked suspension stays revoked and with nothing pending
\* until the tribunal itself adjusts it.
THEOREM LoRevocadoNoRevive == Spec => RevocadaNoRevive
<1> DEFINE Regla == \A s \in SancionId : sancion[s].revocada =>
                        \/ sancion'[s] = sancion[s]
                        \/ sancion'[s].revocada /\ sancion'[s].pendientes = 0
                        \/ \E k \in Cantidades, d \in Desdes \cup {Nada} : TribunalAjustar(s, k, d)
<1>1. IInv /\ [Next]_vars => [Regla]_vars
    <2>1. ASSUME IInv, [Next]_vars
          PROVE  Regla
        <3>1. \A s \in SancionId : sancion[s].revocada => sancion[s].existe
            BY <2>1 DEF IInv, Contable, SaldoBien, Disciplina
        <3>2. CASE Tribunal
            BY <2>1, <3>1, <3>2, TribunalEscribe
        <3>3. CASE Transaccion(partido', Disciplina, Disciplina')
            BY <3>3 DEF Transaccion, Firme, Disciplina
        <3>4. QED
            BY <2>1, <3>2, <3>3, TodaTransaccion
    <2>2. QED
        BY <2>1
<1>2. RevocadaNoRevive <=> [][Regla]_vars
    BY DEF RevocadaNoRevive
<1>  HIDE DEF Regla
<1>3. QED
    BY <1>1, <1>2, Invariante, PTL DEF Spec

-----------------------------------------------------------------------------
(* The cards that back the suspensions of a match.                         *)

\* Motives that one card earns by itself, and that card.
TarjetaDe == [m \in {"ROJA_DIRECTA", "DOBLE_AMARILLA"} |->
                IF m = "ROJA_DIRECTA" THEN "ROJA" ELSE "AMARILLA_ROJA"]

\* The row r of a motive backed by a card, when the card is there or not.
Respaldada(r, hay) ==
    /\ hay => r.existe
    /\ r.existe /\ ~r.revocada /\ ~r.ajustada => hay

\* What TarjetasRespaldanSanciones says of one suspension.
LEMMA RespaldoSii ==
    TarjetasRespaldanSanciones <=>
        \A p \in Partidos, j \in Jugadores, m \in DOMAIN TarjetaDe :
            partido[p].estado = "FINALIZADO" =>
                Respaldada(sancion[<<j, m, p>>], TarjetaDe[m] \in TiposEn(j, p))
<1> DEFINE Regla(p, j, m, c) == Respaldada(sancion[<<j, m, p>>], c \in TiposEn(j, p))
           Dos(p) == \A j \in Jugadores : /\ Regla(p, j, "ROJA_DIRECTA", "ROJA")
                                          /\ Regla(p, j, "DOBLE_AMARILLA", "AMARILLA_ROJA")
<1>1. TarjetasRespaldanSanciones <=>
            \A p \in Partidos : partido[p].estado = "FINALIZADO" =>
                \A j \in Jugadores,
                   par \in {<<"ROJA", "ROJA_DIRECTA">>, <<"AMARILLA_ROJA", "DOBLE_AMARILLA">>} :
                        Regla(p, j, par[2], par[1])
    BY DEF TarjetasRespaldanSanciones, Respaldada
<1>  HIDE DEF Regla
<1>2. TarjetasRespaldanSanciones <=> \A p \in Partidos : partido[p].estado = "FINALIZADO" => Dos(p)
    BY <1>1
<1>3. \A p \in Partidos, j \in Jugadores, m \in DOMAIN TarjetaDe :
            Respaldada(sancion[<<j, m, p>>], TarjetaDe[m] \in TiposEn(j, p)) <=>
                Regla(p, j, m, TarjetaDe[m])
    BY DEF Regla
<1>4. /\ DOMAIN TarjetaDe = {"ROJA_DIRECTA", "DOBLE_AMARILLA"}
      /\ TarjetaDe["ROJA_DIRECTA"] = "ROJA" /\ TarjetaDe["DOBLE_AMARILLA"] = "AMARILLA_ROJA"
    BY DEF TarjetaDe
<1>5. QED
    BY <1>2, <1>3, <1>4

\* The row of a player, one of those motives and a match is a row of the table.
LEMMA FilaAutomatica ==
    ASSUME NEW p \in Partidos, NEW j \in Jugadores, NEW m \in DOMAIN TarjetaDe
    PROVE  LET s == <<j, m, p>>
           IN  /\ s \in IdAuto /\ s \in SancionId
               /\ Jugador(s) = j /\ Motivo(s) = m /\ Origen(s) = p
               /\ \A q \in Jugadores, r \in Resoluciones : s # <<q, "TRIBUNAL", r>>
BY DEF TarjetaDe, IdAuto, SancionId, MotivosAuto, Jugador, Motivo, Origen

\* calcularSancionesPostPartido proposes it exactly when the player has the card.
LEMMA PropuestaSii ==
    ASSUME NEW p \in Partidos, NEW j \in Jugadores, NEW m \in DOMAIN TarjetaDe
    PROVE  <<j, m, p>> \in Propuestas(p) <=> TarjetaDe[m] \in TiposEn(j, p)
<1> DEFINE s == <<j, m, p>>
           previas == Cardinality(AmarillasPrevias(j, p))
           actuales == Cardinality(AmarillasEn(j, p))
           tipos == TiposEn(j, p)
<1>1. s \in Propuestas(p) <=> m \in MotivosGanados(previas, actuales, tipos, Umbral)
    BY FilaAutomatica DEF Propuestas
<1>2. m \in MotivosGanados(previas, actuales, tipos, Umbral) <=> TarjetaDe[m] \in tipos
    <2>  HIDE DEF previas, actuales, tipos
    <2>1. m \in {"ROJA_DIRECTA", "DOBLE_AMARILLA"}
        BY DEF TarjetaDe
    <2>2. QED
        BY <2>1 DEF MotivosGanados, TarjetaDe
<1>3. QED
    BY <1>1, <1>2

\* Closing the acta leaves every such suspension backed by its card.
LEMMA CerrarRespalda ==
    ASSUME IInv, NEW p \in Partidos, CerrarActa(p), NEW j \in Jugadores, NEW m \in DOMAIN TarjetaDe
    PROVE  Respaldada(sancion'[<<j, m, p>>], TarjetaDe[m] \in TiposEn(j, p))
<1> DEFINE s == <<j, m, p>>
           f == partido[p].fecha
           u == AplicarSanciones(Disciplina, p)
           v == Evaluar(partido', u, f)
<1>1. f \in Fechas /\ Contable(Disciplina)
    BY FilaBien DEF CerrarActa, Abierto, PartidosVivos, IInv
<1>2. Contable(u)
    BY <1>1, AplicarContable
<1>3. Guardar(v)
    BY DEF CerrarActa
<1>4. s \in SancionId /\ s \in IdAuto /\ Origen(s) = p
    BY FilaAutomatica
<1>5. u.sancion[s] = IF s \in Propuestas(p) /\ ~sancion[s].existe
                     THEN SancionNueva(1, Disciplina.fecha[f].numero + 1)
                     ELSE IF s \in Huerfanas(Disciplina, p) THEN SinSancion ELSE sancion[s]
    BY <1>1, <1>4 DEF AplicarSanciones, Disciplina
<1>6. s \in Huerfanas(Disciplina, p) <=>
            sancion[s].existe /\ ~sancion[s].revocada /\ s \notin Propuestas(p)
    BY <1>4 DEF Huerfanas, Disciplina
<1>7. Respaldada(u.sancion[s], s \in Propuestas(p))
    <2>  HIDE DEF s, u, f
    <2>1. QED
        BY <1>5, <1>6 DEF Respaldada, SancionNueva, SinSancion
<1>8. MismaSancion(u.sancion[s], v.sancion[s])
    <2>1. Paso(partido', u, v, f)
        BY <1>1, <1>2, EvaluarPaso
    <2>  HIDE DEF s, u, v, f
    <2>2. QED
        BY <1>4, <2>1 DEF Paso
<1>9. sancion' = v.sancion
    BY <1>3 DEF Guardar
<1>  HIDE DEF u, v
<1>10. Respaldada(sancion'[s], s \in Propuestas(p))
    BY <1>7, <1>8, <1>9 DEF Respaldada, MismaSancion
<1>11. QED
    BY <1>10, PropuestaSii

\* Only closing its acta makes a match FINALIZADO.
LEMMA SoloCerrarFinaliza ==
    ASSUME IInv, [Next]_vars, NEW p \in Partidos, partido'[p].estado = "FINALIZADO", ~CerrarActa(p)
    PROVE  partido[p].estado = "FINALIZADO"
<1>0. /\ partido \in [Partidos -> RegistroPartido] /\ partido[p] \in RegistroPartido
      /\ partido'[p].acta
    BY FilaBien, PasoBien DEF IInv, PartidosBien, PartidoBien
<1>1. CASE partido'[p] = partido[p]
    BY <1>1
<1>2. CASE \E q \in Partidos : OperarPartido(q)
    <2>1. PICK q \in Partidos : OperarPartido(q)
        BY <1>2
    <2>2. CASE q # p
        BY <2>1, <2>2, OtraFila
    <2>3. CASE q = p
        <3>1. CASE \E g \in Destinos : MoverPartido(p, g)
            BY <1>0, <3>1 DEF MoverPartido, Abierto, RegistroPartido
        <3>2. CASE SuspenderPartido(p) \/ MarcarNoJugado(p)
            BY <1>0, <3>2
               DEF SuspenderPartido, MarcarNoJugado, GuardarYEvaluar, ConEstado, Abierto, RegistroPartido
        <3>3. CASE DeclararWalkover(p)
            BY <1>0, <3>3 DEF DeclararWalkover, GuardarYEvaluar, Walkover, RegistroPartido
        <3>4. CASE ReabrirActa(p) \/ ReprogramarPartido(p) \/ AnularWalkover(p) \/ ReactivarPartido(p)
            BY <3>4, PendientePartido DEF EstadosResueltos
        <3>5. CASE CambiarEstado(p)
            <4>1. ~partido[p].acta
                BY <3>5 DEF CambiarEstado, Abierto
            <4>2. PICK e \in {"EN_CURSO", "PROGRAMADO"} : partido' = [partido EXCEPT ![p].estado = e]
                BY <3>5 DEF CambiarEstado
            <4>3. partido'[p].acta = partido[p].acta
                BY <1>0, <4>2 DEF RegistroPartido
            <4>4. QED
                BY <1>0, <4>1, <4>3
        <3>6. CASE \E js \in Listas : CertificarPresentes(p, js)
            <4>1. PICK js \in Listas : CertificarPresentes(p, js)
                BY <3>6
            <4>2. ~partido[p].acta
                BY <4>1 DEF CertificarPresentes, Abierto
            <4>3. partido'[p].acta = partido[p].acta
                BY <1>0, <4>1 DEF CertificarPresentes, RegistroPartido
            <4>4. QED
                BY <1>0, <4>2, <4>3
        <3>7. QED
            BY <2>1, <2>3, <3>1, <3>2, <3>3, <3>4, <3>5, <3>6 DEF OperarPartido
    <2>4. QED
        BY <2>2, <2>3
<1>3. CASE \E f \in Fechas : OperarFecha(f)
    BY <1>0, <1>1, <1>3, FilasDeFecha
<1>4. CASE OperarEquipo
    BY <1>1, <1>4, FilasDeEquipo
<1>5. CASE CargarActa \/ Tribunal \/ UNCHANGED vars
    BY <1>1, <1>5
       DEF CargarActa, AddIncidencia, RemoveIncidencia, AtribuirJugadorIncidencia, Tribunal,
           TribunalCreate, TribunalAjustar, TribunalRevoke, vars
<1>6. QED
    BY <1>2, <1>3, <1>4, <1>5 DEF Next

\* The cards of a match whose acta is closed do not change.
LEMMA TarjetasQuedan ==
    ASSUME IInv, [Next]_vars, NEW p \in Partidos, partido[p].acta
    PROVE  {c \in tarjetas' : c.partido = p} = {c \in tarjetas : c.partido = p}
<1>1. CASE CargarActa
    <2>1. ASSUME NEW q \in Partidos, NEW j \in Jugadores, NEW ti \in TiposTarjeta, NEW m \in Minutos,
                 AddIncidencia(q, j, ti, m)
          PROVE  {c \in tarjetas' : c.partido = p} = {c \in tarjetas : c.partido = p}
        <3>1. q # p
            BY <2>1 DEF AddIncidencia, Abierto
        <3>2. QED
            BY <2>1, <3>1 DEF AddIncidencia
    <2>2. ASSUME NEW c \in tarjetas, RemoveIncidencia(c)
          PROVE  {d \in tarjetas' : d.partido = p} = {d \in tarjetas : d.partido = p}
        <3>1. c.partido # p
            BY <2>2 DEF RemoveIncidencia
        <3>2. QED
            BY <2>2, <3>1 DEF RemoveIncidencia
    <2>3. ASSUME NEW c \in tarjetas, NEW j \in Jugadores, AtribuirJugadorIncidencia(c, j)
          PROVE  {d \in tarjetas' : d.partido = p} = {d \in tarjetas : d.partido = p}
        <3>1. c.partido # p /\ tarjetas' = (tarjetas \ {c}) \cup {[c EXCEPT !.jugador = j]}
            BY <2>3 DEF AtribuirJugadorIncidencia
        <3>2. c \in RegistroTarjeta
            BY DEF IInv, Resto
        <3>3. [c EXCEPT !.jugador = j].partido # p
            BY <3>1, <3>2 DEF RegistroTarjeta
        <3>4. QED
            BY <3>1, <3>3
    <2>4. QED
        BY <1>1, <2>1, <2>2, <2>3 DEF CargarActa
<1>2. CASE ~CargarActa
    <2>1. tarjetas' = tarjetas
        BY <1>2 DEF Next, OperarPartido, OperarFecha, Tribunal, OperarEquipo, vars,
           CambiarEstado, MoverPartido, CerrarActa, ReabrirActa, SuspenderPartido, MarcarNoJugado,
           ReprogramarPartido, DeclararWalkover, AnularWalkover, ReactivarPartido, CertificarPresentes,
           SuspenderFechaManual, SuspenderFechaConBis, SuspenderFechaReusando, ReactivarFecha,
           TribunalCreate, TribunalAjustar, TribunalRevoke, SuspenderEquipo, ReactivarEquipo,
           LoteWalkover, LoteCancela, LoteEvalua, LoteTermina, GuardarYEvaluar, GuardarYRevertir,
           SinTocarTarjetas
    <2>2. QED
        BY <2>1
<1>3. QED
    BY <1>1, <1>2

\* Closing the acta of another match does not touch them.
LEMMA CerrarOtra ==
    ASSUME IInv, NEW p \in Partidos, CerrarActa(p), NEW s \in SancionId, Origen(s) # p
    PROVE  MismaSancion(sancion[s], sancion'[s])
<1> DEFINE f == partido[p].fecha
           u == AplicarSanciones(Disciplina, p)
           v == Evaluar(partido', u, f)
<1>1. f \in Fechas /\ Contable(Disciplina)
    BY FilaBien DEF CerrarActa, Abierto, PartidosVivos, IInv
<1>2. Contable(u)
    BY <1>1, AplicarContable
<1>3. sancion' = v.sancion
    BY DEF CerrarActa, Guardar
<1>4. s \notin Propuestas(p) /\ s \notin Huerfanas(Disciplina, p)
    BY DEF Propuestas, Huerfanas
<1>5. u.sancion[s] = sancion[s]
    BY <1>1, <1>4 DEF AplicarSanciones, Disciplina, Contable, TipoDisciplina
<1>  HIDE DEF u, f
<1>6. Paso(partido', u, v, f)
    BY <1>1, <1>2, EvaluarPaso
<1>  HIDE DEF v
<1>7. QED
    BY <1>3, <1>5, <1>6 DEF Paso

\* Any other step leaves them backed as they were.
LEMMA SigueRespaldada ==
    ASSUME IInv, [Next]_vars, NEW p \in Partidos, ~CerrarActa(p),
           NEW j \in Jugadores, NEW m \in DOMAIN TarjetaDe, NEW hay \in BOOLEAN,
           Respaldada(sancion[<<j, m, p>>], hay)
    PROVE  Respaldada(sancion'[<<j, m, p>>], hay)
<1> DEFINE s == <<j, m, p>>
<1>1. s \in SancionId /\ s \in IdAuto /\ Origen(s) = p
    BY FilaAutomatica
<1>  HIDE DEF s
<1>2. ASSUME MismaSancion(sancion[s], sancion'[s])
      PROVE  Respaldada(sancion'[s], hay)
    BY <1>2 DEF Respaldada, MismaSancion, s
<1>3. CASE Tribunal
    <2>1. PICK x \in SancionId :
                /\ \A r \in SancionId : r # x => sancion'[r] = sancion[r]
                /\ sancion'[x].existe
                /\ x \notin IdAuto \/ sancion'[x].ajustada \/ sancion'[x].revocada
        BY <1>3, TribunalEscribe
    <2>2. CASE s = x
        BY <1>1, <2>1, <2>2 DEF Respaldada, s
    <2>3. CASE s # x
        BY <1>1, <2>1, <2>3 DEF s
    <2>4. QED
        BY <2>2, <2>3 DEF s
<1>4. CASE Mantiene(Disciplina, Disciplina')
    BY <1>1, <1>2, <1>4 DEF Mantiene, Disciplina, s
<1>5. CASE \E q \in Partidos : CerrarActa(q)
    <2>1. PICK q \in Partidos : CerrarActa(q) /\ q # p
        BY <1>5
    <2>2. QED
        BY <1>1, <1>2, <2>1, CerrarOtra DEF s
<1>6. QED
    BY <1>3, <1>4, <1>5, TodaTransaccion

\* A closed acta and the automatic suspensions of its match agree, for every fixture and
\* every history: no reconciliation, reopening, resolution or reassigned card parts them.
THEOREM ActaRespaldaSanciones == Spec => []TarjetasRespaldanSanciones
<1> DEFINE Regla == \A p \in Partidos, j \in Jugadores, m \in DOMAIN TarjetaDe :
                        partido[p].estado = "FINALIZADO" =>
                            Respaldada(sancion[<<j, m, p>>], TarjetaDe[m] \in TiposEn(j, p))
<1>1. Init => Regla
    <2>1. Init => \A p \in Partidos : partido[p].estado # "FINALIZADO"
        BY DEF Init, PartidoNuevo, PartidoLibre
    <2>2. QED
        BY <2>1
<1>2. IInv /\ Regla /\ [Next]_vars => Regla'
    <2>1. ASSUME IInv, Regla, [Next]_vars, NEW p \in Partidos, NEW j \in Jugadores,
                 NEW m \in DOMAIN TarjetaDe, partido'[p].estado = "FINALIZADO"
          PROVE  Respaldada(sancion'[<<j, m, p>>], TarjetaDe[m] \in TiposEn(j, p)')
        <3>1. CASE CerrarActa(p)
            <4>1. TiposEn(j, p)' = TiposEn(j, p)
                BY <3>1 DEF TiposEn, TarjetasDe, CerrarActa, SinTocarTarjetas
            <4>2. QED
                BY <2>1, <3>1, <4>1, CerrarRespalda
        <3>2. CASE ~CerrarActa(p)
            <4>1. partido[p].estado = "FINALIZADO"
                BY <2>1, <3>2, SoloCerrarFinaliza
            <4>2. partido[p].acta
                BY <2>1, <4>1, FilaBien DEF PartidoBien
            <4>3. TiposEn(j, p)' = TiposEn(j, p)
                BY <2>1, <4>2, TarjetasQuedan DEF TiposEn, TarjetasDe
            <4> DEFINE hay == TarjetaDe[m] \in TiposEn(j, p)
            <4>4. hay \in BOOLEAN /\ Respaldada(sancion[<<j, m, p>>], hay)
                BY <2>1, <4>1
            <4>  HIDE DEF hay
            <4>5. Respaldada(sancion'[<<j, m, p>>], hay)
                BY <2>1, <3>2, <4>4, SigueRespaldada
            <4>6. QED
                BY <4>3, <4>5 DEF hay
        <3>3. QED
            BY <3>1, <3>2
    <2>2. QED
        BY <2>1
<1>3. TarjetasRespaldanSanciones <=> Regla
    BY RespaldoSii
<1>  HIDE DEF Regla
<1>4. QED
    BY <1>1, <1>2, <1>3, Invariante, PTL DEF Spec
=============================================================================
