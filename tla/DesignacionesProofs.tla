-------------------------- MODULE DesignacionesProofs --------------------------
(***************************************************************************)
(* Theorems of Designaciones about what is paid and about what the         *)
(* automatic assignment proposes, for any number of matches, people,       *)
(* roles, designations, payments, payrolls and requests.                   *)
(***************************************************************************)
EXTENDS Designaciones, FiniteSetTheorems, WellFoundedInduction, TLAPS

-----------------------------------------------------------------------------
(* The inductive invariant                                                 *)

\* A row has its fields, and one that does not exist is not paid.
FilaBien(fila) ==
    /\ DOMAIN fila = {"estado", "puesto", "liq"}
    /\ fila.liq \in Liqs \cup {Nada}
    /\ fila.estado = "no" => fila.liq = Nada

Filas == DOMAIN desig = Desigs /\ \A d \in Desigs : FilaBien(desig[d])

Pagos ==
    /\ DOMAIN liq = Liqs
    /\ \A l \in Liqs : /\ DOMAIN liq[l] = {"estado", "cubre", "nomina"}
                       /\ liq[l].cubre \subseteq Desigs

\* An edit brings the row as it was read: its link is to a payment that covers it, living
\* or not.  A payment has its rows in groups, one for each person.
PeticionBien(q) ==
    /\ peticion[q].op = "guardar" =>
           /\ peticion[q].d \in Desigs
           /\ FilaBien(peticion[q].fila) /\ peticion[q].fila.estado # "no"
           /\ peticion[q].fila.liq # Nada =>
                  /\ liq[peticion[q].fila.liq].estado # "no"
                  /\ peticion[q].d \in liq[peticion[q].fila.liq].cubre
    /\ peticion[q].op = "quitar" => peticion[q].d \in Desigs
    /\ peticion[q].op = "pagar" =>
           /\ \A S \in peticion[q].grupos : S \subseteq Desigs
           /\ \A S, T \in peticion[q].grupos : S # T => S \cap T = {}

Pedidas == DOMAIN peticion = Peticiones /\ \A q \in Peticiones : PeticionBien(q)

\* A row that a living payment covers shows it, unless its link was erased.
Cubiertas ==
    \A l \in Liqs : liq[l].estado = "viva" =>
        \A d \in liq[l].cubre : d \in pisada \/ desig[d].liq = l

IInv == Filas /\ Pagos /\ Pedidas /\ Cubiertas /\ EnlaceVivo

-----------------------------------------------------------------------------
(* Lemmas                                                                  *)

\* What a request counts on holds as long as no payment changes what it covers.
LEMMA PedidasSiguen ==
    ASSUME IInv, NEW q \in Peticiones, NEW que, peticion' = [peticion EXCEPT ![q] = que],
           \A l \in Liqs : liq[l].estado # "no" =>
               liq'[l].estado # "no" /\ liq'[l].cubre = liq[l].cubre,
           PeticionBien(q)'
    PROVE  Pedidas'
<1>1. DOMAIN peticion = Peticiones
    BY DEF IInv, Pedidas
<1>2. ASSUME NEW r \in Peticiones, r # q
      PROVE  PeticionBien(r)'
    <2>1. PeticionBien(r) /\ peticion'[r] = peticion[r]
        BY <1>1, <1>2 DEF IInv, Pedidas
    <2>2. QED
        BY <2>1 DEF PeticionBien, FilaBien
<1>3. QED
    BY <1>1, <1>2 DEF Pedidas

\* The same when the request ends.
LEMMA AcabaBien ==
    ASSUME IInv, NEW q \in Peticiones, Acaba(q),
           \A l \in Liqs : liq[l].estado # "no" =>
               liq'[l].estado # "no" /\ liq'[l].cubre = liq[l].cubre
    PROVE  Pedidas'
<1>1. peticion' = [peticion EXCEPT ![q] = Libre] /\ DOMAIN peticion = Peticiones
    BY DEF Acaba, IInv, Pedidas
<1>2. PeticionBien(q)'
    BY <1>1 DEF PeticionBien, Libre
<1>3. QED
    BY <1>1, <1>2, PedidasSiguen

\* And when nobody asks for anything.
LEMMA NadieBien ==
    ASSUME IInv, peticion' = peticion,
           \A l \in Liqs : liq[l].estado # "no" =>
               liq'[l].estado # "no" /\ liq'[l].cubre = liq[l].cubre
    PROVE  Pedidas'
<1>1. ASSUME NEW r \in Peticiones
      PROVE  PeticionBien(r)'
    <2>1. PeticionBien(r)
        BY DEF IInv, Pedidas
    <2>2. QED
        BY <2>1 DEF PeticionBien, FilaBien
<1>2. QED
    BY <1>1 DEF IInv, Pedidas

-----------------------------------------------------------------------------
(* The steps                                                               *)

\* A request comes with what it read.
LEMMA PedirBien ==
    ASSUME IInv, NEW q \in Peticiones, Pedir(q)
    PROVE  IInv'
<1> DEFINE Vale(que) ==
               \/ que.op = "asignar"
               \/ que.op = "quitar" /\ que.d \in Desigs
               \/ /\ que.op = "guardar" /\ que.d \in Desigs
                  /\ \E e \in EstadosAMano : que.fila = [desig[que.d] EXCEPT !.estado = e]
               \/ /\ que.op = "pagar" /\ \A S \in que.grupos : S \subseteq Desigs
                  /\ \A S, T \in que.grupos : S # T => S \cap T = {}
           Viene == \E que : Pide(q, que) /\ Vale(que)
<1>1. Viene
    <2>1. ASSUME NEW x \in Puesto, Asignar(q, x)
          PROVE  Viene
        <3>1. PICK que : Pide(q, que) /\ que = [op |-> "asignar", nuevas |-> {x}, borra |-> {}]
            BY <2>1 DEF Asignar
        <3>2. QED
            BY <3>1
    <2>2. ASSUME NEW d \in Desigs, Editar(q, d)
          PROVE  Viene
        <3>1. ASSUME NEW e \in EstadosAMano,
                     Pide(q, [op |-> "guardar", d |-> d, fila |-> [desig[d] EXCEPT !.estado = e]])
              PROVE  Viene
            <4>1. PICK que : /\ Pide(q, que)
                             /\ que = [op |-> "guardar", d |-> d,
                                       fila |-> [desig[d] EXCEPT !.estado = e]]
                BY <3>1
            <4>2. que.op = "guardar" /\ que.d = d /\ que.fila = [desig[que.d] EXCEPT !.estado = e]
                BY <4>1
            <4>3. QED
                BY <4>1, <4>2
        <3>2. ASSUME Pide(q, [op |-> "quitar", d |-> d])
              PROVE  Viene
            <4>1. PICK que : Pide(q, que) /\ que = [op |-> "quitar", d |-> d]
                BY <3>2
            <4>2. QED
                BY <4>1
        <3>3. QED
            BY <2>2, <3>1, <3>2 DEF Editar
    <2>3. ASSUME NEW s \in BOOLEAN, AutoAsignar(q, TodosLosRoles, s)
          PROVE  Viene
        <3>1. PICK que, xs, ds : /\ Pide(q, que)
                                 /\ que = [op |-> "asignar", nuevas |-> xs, borra |-> ds]
            BY <2>3 DEF AutoAsignar
        <3>2. QED
            BY <3>1
    <2>4. ASSUME NEW S \in SUBSET Desigs, Liquidar(q, S)
          PROVE  Viene
        <3>1. PICK que : Pide(q, que) /\ que = [op |-> "pagar", grupos |-> {S}, nomina |-> Nada]
            BY <2>4 DEF Liquidar
        <3>2. QED
            BY <3>1
    <2>5. ASSUME NEW A \in SUBSET Personas, NEW n \in Nominas, EmitirNomina(q, A, n)
          PROVE  Viene
        <3> DEFINE debe(a) == {d \in Desigs : Pagable(d) /\ desig[d].puesto.quien = a}
        <3>1. PICK que : /\ Pide(q, que)
                         /\ que = [op |-> "pagar", grupos |-> {debe(a) : a \in A} \ {{}}, nomina |-> n]
            BY <2>5 DEF EmitirNomina
        <3>2. que.op = "pagar" /\ que.grupos = {debe(a) : a \in A} \ {{}}
            BY <3>1
        <3>3. ASSUME NEW S \in que.grupos
              PROVE  \E a \in A : S = debe(a)
            BY <3>2
        <3>4. \A S \in que.grupos : S \subseteq Desigs
            BY <3>3
        <3>5. \A a, b, d : d \in debe(a) /\ d \in debe(b) => a = b
            OBVIOUS
        <3> HIDE DEF debe
        <3>6. \A S, T \in que.grupos : S # T => S \cap T = {}
            BY <3>3, <3>5
        <3>7. Vale(que)
            BY <3>2, <3>4, <3>6
        <3> HIDE DEF Vale
        <3>8. QED
            BY <3>1, <3>7
    <2> HIDE DEF Viene
    <2>6. QED
        BY <2>1, <2>2, <2>3, <2>4, <2>5 DEF Pedir
<1>2. PICK que : Pide(q, que) /\ Vale(que)
    BY <1>1
<1>3. /\ UNCHANGED <<acta, desig, liq, nomina, pisada>>
      /\ peticion' = [peticion EXCEPT ![q] = que]
      /\ DOMAIN peticion = Peticiones
    BY <1>2 DEF Pide, bd, IInv, Pedidas
<1>4. PeticionBien(q)'
    <2>1. peticion'[q] = que
        BY <1>3
    <2>2. ASSUME que.op = "guardar", que.d \in Desigs, NEW e \in EstadosAMano,
                 que.fila = [desig[que.d] EXCEPT !.estado = e]
          PROVE  PeticionBien(q)'
        <3>1. FilaBien(desig[que.d])
            BY <2>2 DEF IInv, Filas
        <3>2. FilaBien(que.fila) /\ que.fila.estado # "no" /\ que.fila.liq = desig[que.d].liq
            BY <2>2, <3>1, DesignacionesAssumption DEF FilaBien
        <3>3. que.fila.liq # Nada => /\ liq[que.fila.liq].estado # "no"
                                     /\ que.d \in liq[que.fila.liq].cubre
            BY <2>2, <3>2 DEF IInv, EnlaceVivo
        <3>4. QED
            BY <1>3, <2>1, <2>2, <3>2, <3>3 DEF PeticionBien, FilaBien
    <2>3. CASE que.op # "guardar"
        BY <1>2, <2>1, <2>3 DEF PeticionBien
    <2>4. QED
        BY <1>2, <2>2, <2>3
<1>5. Pedidas'
    BY <1>3, <1>4, PedidasSiguen
<1>6. Filas' /\ Pagos' /\ Cubiertas' /\ EnlaceVivo'
    BY <1>3 DEF IInv, Filas, FilaBien, Pagos, Cubiertas, EnlaceVivo
<1>7. QED
    BY <1>5, <1>6 DEF IInv

\* An edit written late erases the link only of a row it leaves marked, and the foreign key
\* keeps it from bringing back a payment that was reverted.
LEMMA GuardarBien ==
    ASSUME IInv, NEW q \in Peticiones, Guardar(q)
    PROVE  IInv'
<1> DEFINE d == peticion[q].d
           fila == peticion[q].fila
           cabe == /\ Existe(d) \/ fila.puesto \notin Tomados
                   /\ fila.liq # Nada => liq[fila.liq].estado = "viva"
<1>1. /\ cabe => (fila.liq # Nada => liq[fila.liq].estado = "viva")
      /\ desig' = IF cabe THEN [desig EXCEPT ![d] = fila] ELSE desig
      /\ pisada' = IF cabe /\ desig[d].liq # fila.liq THEN pisada \cup {d} ELSE pisada
    BY DEF Guardar
<1>2. /\ d \in Desigs /\ FilaBien(fila)
      /\ fila.liq # Nada => d \in liq[fila.liq].cubre
    BY DEF IInv, Pedidas, PeticionBien, Guardar
<1> HIDE DEF d, fila, cabe
<1>3. liq' = liq /\ Acaba(q)
    BY DEF Guardar
<1>4. /\ DOMAIN desig' = Desigs
      /\ \A e \in Desigs : desig'[e] = IF cabe /\ e = d THEN fila ELSE desig[e]
    BY <1>1, <1>2 DEF IInv, Filas
<1>5. \A e \in Desigs : (desig'[e].liq = desig[e].liq) \/ (e \in pisada')
    BY <1>1, <1>4
<1>6. pisada \subseteq pisada'
    BY <1>1
<1>7. Filas'
    BY <1>2, <1>4 DEF IInv, Filas, FilaBien
<1>8. Pagos'
    BY <1>3 DEF IInv, Pagos
<1>9. Pedidas'
    BY <1>3, AcabaBien
<1>10. Cubiertas'
    BY <1>3, <1>5, <1>6 DEF IInv, Pagos, Cubiertas
<1>11. EnlaceVivo'
    BY <1>1, <1>2, <1>3, <1>4 DEF IInv, EnlaceVivo
<1>12. QED
    BY <1>7, <1>8, <1>9, <1>10, <1>11 DEF IInv

\* A row that is removed leaves nothing paid behind that is not marked.
LEMMA QuitarBien ==
    ASSUME IInv, NEW q \in Peticiones, Quitar(q)
    PROVE  IInv'
<1>1. PICK d \in Desigs : d = peticion[q].d
    BY DEF Quitar, IInv, Pedidas, PeticionBien
<1>2. /\ desig' = [desig EXCEPT ![d] = SinFila]
      /\ pisada' = pisada \cup ({d} \cap Pagadas)
      /\ liq' = liq /\ Acaba(q)
    BY <1>1 DEF Quitar
<1>3. /\ DOMAIN desig' = Desigs
      /\ \A e \in Desigs : desig'[e] = IF e = d THEN SinFila ELSE desig[e]
    BY <1>1, <1>2 DEF IInv, Filas
<1>4. Filas'
    BY <1>3 DEF IInv, Filas, FilaBien, SinFila
<1>5. Pagos'
    BY <1>2 DEF IInv, Pagos
<1>6. Pedidas'
    BY <1>2, AcabaBien
<1>7. Cubiertas'
    <2>1. ASSUME NEW l \in Liqs, liq[l].estado = "viva", NEW e \in liq[l].cubre
          PROVE  e \in pisada' \/ desig'[e].liq = l
        <3>1. e \in Desigs /\ l # Nada
            BY <2>1, DesignacionesAssumption DEF IInv, Pagos
        <3>2. e \in pisada \/ desig[e].liq = l
            BY <2>1 DEF IInv, Cubiertas
        <3>3. QED
            BY <1>1, <1>2, <1>3, <3>1, <3>2 DEF Pagadas
    <2>2. QED
        BY <1>2, <2>1 DEF Cubiertas
<1>8. EnlaceVivo'
    BY <1>2, <1>3 DEF IInv, EnlaceVivo, SinFila
<1>9. QED
    BY <1>4, <1>5, <1>6, <1>7, <1>8 DEF IInv

\* New posts take rows that nobody remembers, and those that are replaced are marked.
LEMMA InsertarBien ==
    ASSUME IInv, NEW q \in Peticiones, Insertar(q)
    PROVE  IInv'
<1> DEFINE borra == peticion[q].borra
           repetida == peticion[q].nuevas \cap Puestos({d \in Desigs : Existe(d)} \ borra) # {}
<1>  DEFINE lugar(donde) == CHOOSE f \in Bijection(donde, peticion[q].nuevas) : TRUE
<1>0. PICK donde \in Libres(Cardinality(peticion[q].nuevas)) :
          desig' = IF repetida THEN desig
                   ELSE [d \in Desigs |->
                            IF d \in donde
                            THEN [estado |-> "PROPUESTA", puesto |-> lugar(donde)[d], liq |-> Nada]
                            ELSE IF d \in borra THEN SinFila ELSE desig[d]]
    BY DEF Insertar
<1>1. /\ donde \subseteq SinUsar
      /\ pisada' = IF repetida THEN pisada ELSE pisada \cup (borra \cap Pagadas)
    BY DEF Insertar, Libres
<1>  HIDE DEF borra, repetida, lugar
<1>2. liq' = liq /\ Acaba(q)
    BY DEF Insertar
<1>3. DOMAIN desig' = Desigs
    BY <1>0 DEF IInv, Filas
<1>4. ASSUME NEW d \in Desigs
      PROVE  \/ desig'[d] = desig[d]
             \/ desig'[d] = SinFila /\ (d \in pisada' \/ desig[d].liq = Nada)
             \/ /\ d \in SinUsar /\ DOMAIN desig'[d] = {"estado", "puesto", "liq"}
                /\ desig'[d].estado = "PROPUESTA" /\ desig'[d].liq = Nada
    BY <1>0, <1>1 DEF Pagadas
<1>5. pisada \subseteq pisada'
    BY <1>1
<1>6. Filas'
    BY <1>3, <1>4 DEF IInv, Filas, FilaBien, SinFila
<1>7. Pagos'
    BY <1>2 DEF IInv, Pagos
<1>8. Pedidas'
    BY <1>2, AcabaBien
<1>9. Cubiertas'
    <2>1. ASSUME NEW l \in Liqs, liq[l].estado = "viva", NEW e \in liq[l].cubre
          PROVE  e \in pisada' \/ desig'[e].liq = l
        <3>1. e \in Desigs /\ l # Nada
            BY <2>1, DesignacionesAssumption DEF IInv, Pagos
        <3>2. e \in pisada \/ desig[e].liq = l
            BY <2>1 DEF IInv, Cubiertas
        <3>3. e \notin SinUsar
            BY <2>1 DEF SinUsar, Recordada
        <3>4. QED
            BY <1>4, <1>5, <3>1, <3>2, <3>3
    <2>2. QED
        BY <1>2, <2>1 DEF Cubiertas
<1>10. EnlaceVivo'
    <2>1. ASSUME NEW e \in Desigs
          PROVE  desig'[e].liq = desig[e].liq \/ desig'[e].liq = Nada
        <3>1. SinFila.liq = Nada
            BY DEF SinFila
        <3>2. QED
            BY <1>4, <3>1
    <2>2. QED
        BY <1>2, <2>1 DEF IInv, EnlaceVivo
<1>11. QED
    BY <1>6, <1>7, <1>8, <1>9, <1>10 DEF IInv

\* A payment takes rows that nothing paid, each for one of the payments it makes.
LEMMA PagarBien ==
    ASSUME IInv, NEW q \in Peticiones, Pagar(q)
    PROVE  IInv'
<1> DEFINE grupos == peticion[q].grupos
           toca(d, D, f) == CHOOSE l \in D : d \in f[l]
<1>0. PICK donde \in LiqsLibres(Cardinality(grupos)) : \E de \in Bijection(donde, grupos) :
          IF \A S \in grupos : Toma(S)
          THEN /\ liq' = [l \in Liqs |-> IF l \in donde
                             THEN [estado |-> "viva", cubre |-> de[l], nomina |-> peticion[q].nomina]
                             ELSE liq[l]]
               /\ desig' = [d \in Desigs |-> IF d \in UNION grupos
                             THEN [desig[d] EXCEPT !.liq = toca(d, donde, de)] ELSE desig[d]]
          ELSE liq' = liq /\ desig' = desig
    BY DEF Pagar
<1>1. PICK de \in Bijection(donde, grupos) :
          IF \A S \in grupos : Toma(S)
          THEN /\ liq' = [l \in Liqs |-> IF l \in donde
                             THEN [estado |-> "viva", cubre |-> de[l], nomina |-> peticion[q].nomina]
                             ELSE liq[l]]
               /\ desig' = [d \in Desigs |-> IF d \in UNION grupos
                             THEN [desig[d] EXCEPT !.liq = toca(d, donde, de)] ELSE desig[d]]
          ELSE liq' = liq /\ desig' = desig
    BY <1>0
<1>2. /\ \A S \in grupos : S \subseteq Desigs
      /\ \A S, T \in grupos : S # T => S \cap T = {}
    BY DEF Pagar, IInv, Pedidas, PeticionBien
<1>3. /\ donde \subseteq Liqs /\ \A l \in donde : liq[l].estado = "no"
      /\ \A l \in donde : de[l] \in grupos
      /\ \A l, k \in donde : de[l] = de[k] => l = k
      /\ \A S \in grupos : \E l \in donde : de[l] = S
    BY DEF LiqsLibres, Bijection, Injection, Surjection, IsInjective
<1>4. Acaba(q) /\ pisada' = pisada
    BY DEF Pagar
<1>  HIDE DEF grupos, toca
<1>5. ASSUME liq' = liq /\ desig' = desig
      PROVE  IInv'
    <2>1. Pedidas'
        BY <1>4, <1>5, AcabaBien
    <2>2. QED
        BY <1>4, <1>5, <2>1 DEF IInv, Filas, FilaBien, Pagos, Cubiertas, EnlaceVivo
<1>6. ASSUME \A S \in grupos : Toma(S),
             liq' = [l \in Liqs |-> IF l \in donde
                        THEN [estado |-> "viva", cubre |-> de[l], nomina |-> peticion[q].nomina]
                        ELSE liq[l]],
             desig' = [d \in Desigs |-> IF d \in UNION grupos
                        THEN [desig[d] EXCEPT !.liq = toca(d, donde, de)] ELSE desig[d]]
      PROVE  IInv'
    <2>1. ASSUME NEW l \in donde
          PROVE  /\ liq'[l].estado = "viva" /\ liq'[l].cubre = de[l]
                 /\ DOMAIN liq'[l] = {"estado", "cubre", "nomina"}
                 /\ l # Nada
        BY <1>3, <1>6, DesignacionesAssumption
    <2>2. \A l \in Liqs \ donde : liq'[l] = liq[l]
        BY <1>6
    <2>3. ASSUME NEW d \in UNION grupos
          PROVE  d \in Desigs /\ Pagable(d) /\ \E l \in donde : d \in de[l]
        <3>1. PICK S \in grupos : d \in S
            OBVIOUS
        <3>2. QED
            BY <1>2, <1>3, <1>6, <3>1 DEF Toma
    <2>4. ASSUME NEW d \in UNION grupos
          PROVE  toca(d, donde, de) \in donde /\ d \in de[toca(d, donde, de)]
        BY <2>3 DEF toca
    <2>5. ASSUME NEW l \in donde, NEW d \in de[l]
          PROVE  d \in UNION grupos /\ toca(d, donde, de) = l
        <3>1. d \in UNION grupos
            BY <1>3
        <3>2. de[l] = de[toca(d, donde, de)]
            BY <1>2, <1>3, <2>4, <3>1
        <3>3. QED
            BY <1>3, <2>4, <3>1, <3>2
    <2>6. ASSUME NEW d \in UNION grupos
          PROVE  /\ desig'[d].liq = toca(d, donde, de) /\ desig'[d].estado = "ASISTIO"
                 /\ DOMAIN desig'[d] = {"estado", "puesto", "liq"}
                 /\ desig[d].liq = Nada
        BY <1>6, <2>3 DEF Pagable, IInv, Filas, FilaBien
    <2>7. \A d \in Desigs : d \notin UNION grupos => desig'[d] = desig[d]
        BY <1>6
    <2>8. Filas'
        <3>1. DOMAIN desig' = Desigs
            BY <1>6
        <3>2. ASSUME NEW d \in Desigs
              PROVE  FilaBien(desig[d])'
            BY <1>3, <2>4, <2>6, <2>7 DEF IInv, Filas, FilaBien
        <3>3. QED
            BY <3>1, <3>2 DEF Filas
    <2>9. Pagos'
        <3>1. DOMAIN liq' = Liqs
            BY <1>6
        <3>2. ASSUME NEW l \in Liqs
              PROVE  DOMAIN liq'[l] = {"estado", "cubre", "nomina"} /\ liq'[l].cubre \subseteq Desigs
            BY <1>2, <1>3, <2>1, <2>2 DEF IInv, Pagos
        <3>3. QED
            BY <3>1, <3>2 DEF Pagos
    <2>10. Pedidas'
        <3>1. \A l \in Liqs : liq[l].estado # "no" =>
                  liq'[l].estado # "no" /\ liq'[l].cubre = liq[l].cubre
            BY <1>3, <2>2
        <3>2. QED
            BY <1>4, <3>1, AcabaBien
    <2>11. Cubiertas'
        <3>1. ASSUME NEW l \in Liqs, liq'[l].estado = "viva", NEW d \in liq'[l].cubre
              PROVE  d \in pisada' \/ desig'[d].liq = l
            <4>1. CASE l \in donde
                BY <2>1, <2>5, <2>6, <4>1
            <4>2. CASE l \notin donde
                <5>1. d \in Desigs /\ (d \in pisada \/ desig[d].liq = l) /\ l # Nada
                    BY <2>2, <3>1, <4>2, DesignacionesAssumption DEF IInv, Pagos, Cubiertas
                <5>2. QED
                    BY <1>4, <2>6, <2>7, <5>1
            <4>3. QED
                BY <4>1, <4>2
        <3>2. QED
            BY <3>1 DEF Cubiertas
    <2>12. EnlaceVivo'
        <3>1. ASSUME NEW d \in Desigs, desig'[d].liq # Nada
              PROVE  liq'[desig'[d].liq].estado = "viva" /\ d \in liq'[desig'[d].liq].cubre
            <4>1. CASE d \in UNION grupos
                BY <2>1, <2>4, <2>6, <4>1
            <4>2. CASE d \notin UNION grupos
                <5>1. /\ desig'[d] = desig[d] /\ desig[d].liq \in Liqs
                      /\ liq[desig[d].liq].estado = "viva" /\ d \in liq[desig[d].liq].cubre
                    BY <2>7, <3>1, <4>2 DEF IInv, Filas, FilaBien, EnlaceVivo
                <5>2. QED
                    BY <1>3, <2>2, <5>1
            <4>3. QED
                BY <4>1, <4>2
        <3>2. QED
            BY <3>1 DEF EnlaceVivo
    <2>13. QED
        BY <2>8, <2>9, <2>10, <2>11, <2>12 DEF IInv
<1>7. QED
    BY <1>1, <1>5, <1>6

\* The acta changes only the state of rows that exist.
LEMMA ActaBien ==
    ASSUME IInv, NEW p \in Partidos, CerrarActa(p) \/ ReabrirActa(p)
    PROVE  IInv'
<1>1. liq' = liq /\ peticion' = peticion /\ pisada' = pisada
    BY DEF CerrarActa, ReabrirActa
<1>2. \/ desig' = desig
      \/ desig' = [d \in Desigs |->
              IF desig[d].estado \in {"PROPUESTA", "CONFIRMADA"} /\ desig[d].puesto.partido = p
              THEN [desig[d] EXCEPT !.estado = "ASISTIO"] ELSE desig[d]]
    BY DEF CerrarActa, ReabrirActa
<1>3. DOMAIN desig' = Desigs
    BY <1>2 DEF IInv, Filas
<1>4. ASSUME NEW d \in Desigs
      PROVE  /\ DOMAIN desig'[d] = DOMAIN desig[d] /\ desig'[d].liq = desig[d].liq
             /\ desig'[d].estado = "no" => desig[d].estado = "no"
    BY <1>2 DEF IInv, Filas, FilaBien
<1>5. Filas'
    BY <1>3, <1>4 DEF IInv, Filas, FilaBien
<1>6. Pagos' /\ Cubiertas' /\ EnlaceVivo'
    BY <1>1, <1>4 DEF IInv, Pagos, Cubiertas, EnlaceVivo
<1>7. Pedidas'
    BY <1>1, NadieBien
<1>8. QED
    BY <1>5, <1>6, <1>7 DEF IInv

\* A reversal frees every row that shows the payments it reverts.
LEMMA EliminarBien ==
    ASSUME IInv, NEW L \in SUBSET Liqs, \A l \in L : liq[l].estado = "viva",
           desig' = Soltar(L), liq' = Borradas(L), peticion' = peticion, pisada' = pisada
    PROVE  IInv'
<1>1. /\ DOMAIN desig' = Desigs /\ DOMAIN liq' = Liqs
      /\ Nada \notin L
    BY DesignacionesAssumption DEF Soltar, Borradas
<1>2. ASSUME NEW d \in Desigs
      PROVE  /\ DOMAIN desig'[d] = DOMAIN desig[d] /\ desig'[d].estado = desig[d].estado
             /\ desig[d].liq \in L => desig'[d].liq = Nada
             /\ desig[d].liq \notin L => desig'[d].liq = desig[d].liq
    BY DEF Soltar, IInv, Filas, FilaBien
<1>3. ASSUME NEW l \in Liqs
      PROVE  /\ DOMAIN liq'[l] = DOMAIN liq[l] /\ liq'[l].cubre = liq[l].cubre
             /\ l \in L => liq'[l].estado = "borrada"
             /\ l \notin L => liq'[l].estado = liq[l].estado
    BY DEF Borradas, IInv, Pagos
<1>4. Filas'
    BY <1>1, <1>2 DEF IInv, Filas, FilaBien
<1>5. Pagos'
    BY <1>1, <1>3 DEF IInv, Pagos
<1>6. Pedidas'
    <2>1. \A l \in Liqs : liq[l].estado # "no" =>
              liq'[l].estado # "no" /\ liq'[l].cubre = liq[l].cubre
        BY <1>3
    <2>2. QED
        BY <2>1, NadieBien
<1>7. Cubiertas'
    <2>1. ASSUME NEW l \in Liqs, liq'[l].estado = "viva", NEW d \in liq'[l].cubre
          PROVE  d \in pisada' \/ desig'[d].liq = l
        <3>1. l \notin L /\ liq[l].estado = "viva" /\ d \in liq[l].cubre /\ d \in Desigs
            BY <1>3, <2>1 DEF IInv, Pagos
        <3>2. QED
            BY <1>2, <3>1 DEF IInv, Cubiertas
    <2>2. QED
        BY <2>1 DEF Cubiertas
<1>8. EnlaceVivo'
    <2>1. ASSUME NEW d \in Desigs, desig'[d].liq # Nada
          PROVE  liq'[desig'[d].liq].estado = "viva" /\ d \in liq'[desig'[d].liq].cubre
        <3>1. /\ desig'[d].liq = desig[d].liq /\ desig[d].liq \in Liqs \ L
              /\ liq[desig[d].liq].estado = "viva" /\ d \in liq[desig[d].liq].cubre
            BY <1>2, <2>1 DEF IInv, Filas, FilaBien, EnlaceVivo
        <3>2. QED
            BY <1>3, <3>1
    <2>2. QED
        BY <2>1 DEF EnlaceVivo
<1>9. QED
    BY <1>4, <1>5, <1>6, <1>7, <1>8 DEF IInv

-----------------------------------------------------------------------------
(* The theorems                                                            *)

\* Designations, payments, requests and links always fit together.
THEOREM Invariante == Spec => []IInv
<1>1. Init => IInv
    <2>1. ASSUME NEW xs, desig = Propuestas(xs)
          PROVE  Filas /\ \A d \in Desigs : desig[d].liq = Nada
        <3>1. DOMAIN desig = Desigs
            BY <2>1 DEF Propuestas
        <3>2. ASSUME NEW d \in Desigs
              PROVE  FilaBien(desig[d]) /\ desig[d].liq = Nada
            BY <2>1 DEF Propuestas, FilaBien, SinFila
        <3>3. QED
            BY <3>1, <3>2 DEF Filas
    <2>2. ASSUME Init
          PROVE  IInv
        <3>1. Filas /\ \A d \in Desigs : desig[d].liq = Nada
            BY <2>1, <2>2 DEF Init
        <3>2. Pagos /\ Cubiertas
            BY <2>2 DEF Init, Pagos, Cubiertas
        <3>3. Pedidas
            BY <2>2 DEF Init, Pedidas, PeticionBien, Libre
        <3>4. EnlaceVivo
            BY <3>1 DEF EnlaceVivo
        <3>5. QED
            BY <3>1, <3>2, <3>3, <3>4 DEF IInv
    <2>3. QED
        BY <2>2
<1>2. IInv /\ [Next]_vars => IInv'
    <2>1. ASSUME IInv, NEW l \in Liqs, EliminarLiquidacion(l)
          PROVE  IInv'
        <3>1. PICK L \in SUBSET Liqs : L = {l}
            OBVIOUS
        <3>2. /\ \A k \in L : liq[k].estado = "viva"
              /\ desig' = Soltar(L) /\ liq' = Borradas(L)
              /\ peticion' = peticion /\ pisada' = pisada
            BY <2>1, <3>1 DEF EliminarLiquidacion
        <3>3. QED
            BY <2>1, <3>2, EliminarBien
    <2>2. ASSUME IInv, NEW n \in Nominas, EliminarNomina(n)
          PROVE  IInv'
        <3>1. PICK L \in SUBSET Liqs : L = {l \in Liqs : liq[l].estado = "viva" /\ liq[l].nomina = n}
            OBVIOUS
        <3>2. /\ \A k \in L : liq[k].estado = "viva"
              /\ desig' = Soltar(L) /\ liq' = Borradas(L)
              /\ peticion' = peticion /\ pisada' = pisada
            BY <2>2, <3>1 DEF EliminarNomina
        <3>3. QED
            BY <2>2, <3>2, EliminarBien
    <2>3. ASSUME IInv, UNCHANGED vars
          PROVE  IInv'
        BY <2>3 DEF vars, bd, IInv, Filas, FilaBien, Pagos, Pedidas, PeticionBien, Cubiertas,
                    EnlaceVivo
    <2>4. QED
        BY <2>1, <2>2, <2>3, PedirBien, GuardarBien, QuitarBien, InsertarBien, PagarBien, ActaBien
        DEF Next
<1>3. QED
    BY <1>1, <1>2, PTL DEF Spec

\* Two payments of one attendance both stand only where a save or a removal erased the
\* link of the first (crearLiquidacionInterna).
THEOREM UnPagoPorAsistencia == Spec => []UnSoloPagoPorFila
<1>1. IInv => UnSoloPagoPorFila
    <2>1. ASSUME IInv, NEW l \in Vivas, NEW k \in Vivas, l # k,
                 NEW d \in liq[l].cubre \cap liq[k].cubre
          PROVE  d \in pisada
        BY <2>1 DEF Vivas, IInv, Cubiertas
    <2>2. QED
        BY <2>1 DEF UnSoloPagoPorFila
<1>2. QED
    BY <1>1, Invariante, PTL

\* A designation that shows as paid is covered by a payment that stands: no edit brings
\* back the link of one that was reverted (updateEstado, eliminarLiquidacion).
THEOREM EnlaceDePago == Spec => []EnlaceVivo
<1>1. IInv => EnlaceVivo
    BY DEF IInv
<1>2. QED
    BY <1>1, Invariante, PTL

-----------------------------------------------------------------------------
(* Numbers, and what a fold comes to                                       *)

\* A set of numbers that has any has a first one.
LEMMA HayPrimero ==
    ASSUME NEW S, S \subseteq Nat, S # {}
    PROVE  \E m \in S : \A n \in S : m <= n
<1> DEFINE R == OpToRel(<, Nat)
<1>1. IsWellFoundedOn(R, Nat)
    BY NatLessThanWellFounded
<1> HIDE DEF R
<1>2. PICK m \in S : \A n \in S : ~(<<n, m>> \in R)
    BY ONLY <1>1, S \subseteq Nat, S # {}, WFMin, Zenon
<1>3. \A i, j \in Nat : i < j => <<i, j>> \in R
    BY DEF R, OpToRel
<1>4. \A n \in S : m \in Nat /\ n \in Nat /\ ~(n < m)
    BY <1>2, <1>3
<1>5. QED
    BY <1>4

\* Induction, over a set of numbers.
LEMMA Induccion ==
    ASSUME NEW P, 0 \in P, \A n \in Nat : n \in P => n + 1 \in P
    PROVE  Nat \subseteq P
<1>1. SUFFICES ASSUME Nat \ P # {}
               PROVE  FALSE
    OBVIOUS
<1>2. PICK m \in Nat \ P : \A n \in Nat \ P : m <= n
    BY <1>1, HayPrimero
<1>3. m # 0 /\ m - 1 \in Nat /\ m - 1 + 1 = m
    BY <1>2
<1>4. QED
    BY <1>2, <1>3

\* The last of a set of the first numbers.
LEMMA HayUltimo ==
    ASSUME NEW n \in Nat, NEW S, S \subseteq 1..n, S # {}
    PROVE  Max(S) \in S /\ \A i \in S : i <= Max(S)
<1> DEFINE T == {n - i : i \in S}
<1>1. T \subseteq Nat /\ T # {}
    <2>1. \A i \in S : n - i \in Nat
        OBVIOUS
    <2>2. QED
        BY <2>1
<1>2. PICK m \in T : \A k \in T : m <= k
    BY <1>1, HayPrimero
<1>3. PICK x \in S : m = n - x
    BY <1>2
<1>4. \A y \in S : n - x <= n - y /\ y \in Nat
    BY <1>2, <1>3
<1>5. \A y \in S : x >= y
    BY <1>3, <1>4
<1>6. Max(S) \in S /\ \A y \in S : Max(S) >= y
    BY <1>5 DEF Max
<1>7. QED
    BY <1>6

\* What folding a sequence comes to, one subset of its places after another.
Fija(h, n, base, st, seq) ==
    h = [S \in SUBSET (1..n) |-> IF S = {} THEN base ELSE st[<<h[S \ {Max(S)}], seq[Max(S)]>>]]

\* And what is computed that way as long as it stays in a set.
Sigue(h, I, n, base, st, seq) ==
    /\ h[{}] = base
    /\ \A S \in SUBSET (1..n) : S # {} /\ h[S \ {Max(S)}] \in I =>
           h[S] = st[<<h[S \ {Max(S)}], seq[Max(S)]>>]

\* A step that stays in a set has its fold there.
LEMMA PliegueExiste ==
    ASSUME NEW I, NEW X, NEW n \in Nat, NEW seq \in [1..n -> X], NEW base \in I,
           NEW st \in [I \X X -> I]
    PROVE  \E h \in [SUBSET (1..n) -> I] : Fija(h, n, base, st, seq)
<1> DEFINE De(k) == [SUBSET (1..k) -> I]
           Hay(k) == k <= n => \E h \in De(k) : Fija(h, k, base, st, seq)
           P == {k \in Nat : Hay(k)}
<1>1. 0 \in P
    <2> DEFINE h == [S \in SUBSET (1..0) |-> base]
    <2>1. \A S \in SUBSET (1..0) : S = {}
        OBVIOUS
    <2>2. h \in [SUBSET (1..0) -> I]
        OBVIOUS
    <2>3. Fija(h, 0, base, st, seq)
        BY <2>1 DEF Fija
    <2>4. QED
        BY <2>2, <2>3
<1>2. ASSUME NEW k \in Nat, k \in P
      PROVE  k + 1 \in P
    <2>1. SUFFICES ASSUME k + 1 <= n
                   PROVE  \E h \in [SUBSET (1..(k+1)) -> I] : Fija(h, k + 1, base, st, seq)
        <3>1. Hay(k + 1) => k + 1 \in P
            <4> HIDE DEF Hay
            <4>1. QED
                OBVIOUS
        <3>2. QED
            BY <3>1
    <2>2. PICK f \in De(k) : Fija(f, k, base, st, seq)
        <3>1. Hay(k)
            <4> HIDE DEF Hay
            <4>1. QED
                BY <1>2
        <3> HIDE DEF De
        <3>2. QED
            BY <2>1, <3>1
    <2> DEFINE h == [S \in SUBSET (1..(k+1)) |->
                        IF k + 1 \in S THEN st[<<f[S \ {k + 1}], seq[k + 1]>>] ELSE f[S]]
    <2>3. ASSUME NEW S \in SUBSET (1..(k+1))
          PROVE  /\ k + 1 \in S => S \ {k + 1} \in SUBSET (1..k) /\ Max(S) = k + 1
                 /\ k + 1 \notin S => S \in SUBSET (1..k)
        <3>1. k + 1 \in S => Max(S) = k + 1
            <4>1. ASSUME k + 1 \in S
                  PROVE  Max(S) = k + 1
                <5>1. S \subseteq 1..(k+1) /\ S # {} /\ k + 1 \in Nat
                    BY <4>1
                <5>2. Max(S) \in S /\ \A i \in S : i <= Max(S)
                    BY ONLY <5>1, HayUltimo
                <5>3. Max(S) \in 1..(k+1) /\ k + 1 <= Max(S)
                    BY <4>1, <5>2
                <5>4. QED
                    BY <5>3
            <4>2. QED
                BY <4>1
        <3>2. QED
            BY <3>1
    <2>4. ASSUME NEW S \in SUBSET (1..(k+1))
          PROVE  h[S] \in I
        BY <2>1, <2>3
    <2>5. h \in [SUBSET (1..(k+1)) -> I]
        BY <2>4
    <2>6. ASSUME NEW S \in SUBSET (1..(k+1))
          PROVE  h[S] = IF S = {} THEN base ELSE st[<<h[S \ {Max(S)}], seq[Max(S)]>>]
        <3>1. CASE k + 1 \in S
            <4>1. /\ h[S] = st[<<f[S \ {k + 1}], seq[k + 1]>>] /\ Max(S) = k + 1
                  /\ S \ {k + 1} \in SUBSET (1..(k+1)) /\ k + 1 \notin S \ {k + 1}
                BY <2>3, <3>1
            <4>2. h[S \ {k + 1}] = f[S \ {k + 1}]
                BY <4>1
            <4>3. QED
                BY <3>1, <4>1, <4>2
        <3>2. CASE k + 1 \notin S /\ S # {}
            <4>1. S \in SUBSET (1..k)
                BY <2>3, <3>2
            <4>2. h[S] = f[S] /\ h[S \ {Max(S)}] = f[S \ {Max(S)}]
                BY <3>2, <4>1
            <4>3. f[S] = st[<<f[S \ {Max(S)}], seq[Max(S)]>>]
                BY <2>2, <3>2, <4>1 DEF Fija
            <4>4. QED
                BY <3>2, <4>2, <4>3
        <3>3. CASE S = {}
            <4>1. h[S] = f[{}] /\ {} \in SUBSET (1..k)
                BY <3>3
            <4>2. f[{}] = base
                BY <2>2, <4>1 DEF Fija
            <4>3. QED
                BY <3>3, <4>1, <4>2
        <3>4. QED
            BY <3>1, <3>2, <3>3
    <2>7. Fija(h, k + 1, base, st, seq)
        BY <2>6 DEF Fija
    <2>8. QED
        BY <2>5, <2>7
<1>3. n \in P
    <2> HIDE DEF P
    <2>1. QED
        BY <1>1, <1>2, Induccion
<1>4. Hay(n)
    <2> HIDE DEF Hay
    <2>1. QED
        BY <1>3
<1>5. \E h \in De(n) : Fija(h, n, base, st, seq)
    <2> HIDE DEF De
    <2>1. QED
        BY <1>4
<1>6. QED
    BY <1>5, Zenon

Plegado(v, I, n, base, st, seq) ==
    /\ \E f \in [SUBSET (1..n) -> I] : Fija(f, n, base, st, seq)
    /\ \A h : Sigue(h, I, n, base, st, seq) => h[1..n] = v

\* The value of the fold is in that set, and whatever is computed like it comes to it.
LEMMA Pliega ==
    ASSUME NEW I, NEW X, NEW n \in Nat, NEW seq \in [1..n -> X], NEW base \in I,
           NEW st \in [I \X X -> I]
    PROVE  \E v \in I : Plegado(v, I, n, base, st, seq)
<1>1. PICK f \in [SUBSET (1..n) -> I] : Fija(f, n, base, st, seq)
    BY PliegueExiste, Zenon
<1>2. f[1..n] \in I
    OBVIOUS
<1>3. ASSUME NEW h, Sigue(h, I, n, base, st, seq)
      PROVE  h[1..n] = f[1..n]
    <2> DEFINE Igual(k) == k <= n => \A S \in SUBSET (1..k) : h[S] = f[S]
               P == {k \in Nat : Igual(k)}
    <2>0. /\ f[{}] = base
          /\ \A S \in SUBSET (1..n) : S # {} => f[S] = st[<<f[S \ {Max(S)}], seq[Max(S)]>>]
          /\ h[{}] = base
          /\ \A S \in SUBSET (1..n) : S # {} /\ h[S \ {Max(S)}] \in I =>
                 h[S] = st[<<h[S \ {Max(S)}], seq[Max(S)]>>]
        BY <1>1, <1>3 DEF Fija, Sigue
    <2>1. 0 \in P
        <3>1. \A S \in SUBSET (1..0) : S = {}
            OBVIOUS
        <3>2. QED
            BY <2>0, <3>1
    <2>2. ASSUME NEW k \in Nat, k \in P
          PROVE  k + 1 \in P
        <3>1. SUFFICES ASSUME k + 1 <= n, NEW S \in SUBSET (1..(k+1)), S # {}
                       PROVE  h[S] = f[S]
            <4>1. Igual(k + 1) => k + 1 \in P
                <5> HIDE DEF Igual
                <5>1. QED
                    OBVIOUS
            <4>2. QED
                BY <2>0, <4>1
        <3>2. S \subseteq 1..n /\ S \subseteq 1..(k+1) /\ k + 1 \in Nat
            BY <3>1
        <3>3. Max(S) \in S /\ \A i \in S : i <= Max(S)
            BY ONLY <3>1, <3>2, HayUltimo
        <3>4. S \ {Max(S)} \in SUBSET (1..k) /\ S \ {Max(S)} \in SUBSET (1..n)
            <4>1. ASSUME NEW i \in S \ {Max(S)}
                  PROVE  i \in 1..k
                <5>1. i \in 1..(k+1) /\ Max(S) \in 1..(k+1) /\ i <= Max(S) /\ i # Max(S)
                    BY <3>2, <3>3
                <5>2. QED
                    BY <5>1
            <4>2. QED
                BY <3>2, <4>1
        <3>5. Igual(k)
            <4> HIDE DEF Igual
            <4>1. QED
                BY <2>2
        <3>6. h[S \ {Max(S)}] = f[S \ {Max(S)}] /\ f[S \ {Max(S)}] \in I
            BY <3>1, <3>4, <3>5
        <3>7. QED
            BY <2>0, <3>1, <3>2, <3>6
    <2>3. n \in P
        <3> HIDE DEF P
        <3>1. QED
            BY <2>1, <2>2, Induccion
    <2>4. Igual(n)
        <3> HIDE DEF Igual
        <3>1. QED
            BY <2>3
    <2>5. QED
        BY <2>4
<1>4. Plegado(f[1..n], I, n, base, st, seq)
    BY <1>1, <1>3 DEF Plegado
<1>5. QED
    BY <1>2, <1>4

-----------------------------------------------------------------------------
(* The automatic assignment and its simulation                             *)

\* What the loop carries: the hours of every post are taken, and whoever has been chosen
\* has no other post in the match or within the margin, nor does the role too many people.
Partidas == [hay : SUBSET Puesto, horas : SUBSET (Personas \X Nat), carga : [Personas -> Nat],
             nuevas : SUBSET Puesto]

SinChoque(x, hay) ==
    \A y \in hay : y.quien = x.quien /\ y # x =>
        y.partido # x.partido /\ Distan(Hora[x.partido], Hora[y.partido]) >= Margen

Buena(g) ==
    /\ IsFiniteSet(g.hay) /\ IsFiniteSet(g.nuevas)
    /\ \A x \in g.hay \cup g.nuevas : <<x.quien, Hora[x.partido]>> \in g.horas
    /\ \A x \in g.nuevas : /\ SinChoque(x, g.hay)
                           /\ Cardinality(Cubren(g, x.rol, x.partido)) <= Slots[x.rol]

Buenas == {g \in Partidas : Buena(g)}

\* The least loaded, the first of them by surname, is one of those who can.
LEMMA HayMenosCargada ==
    ASSUME NEW S, S \subseteq Personas, S # {}, NEW carga \in [Personas -> Nat]
    PROVE  MenosCargada(S, carga) \in S
<1> DEFINE L == {carga[a] : a \in S}
<1>1. L \subseteq Nat /\ L # {} /\ S \subseteq Nat
    <2>1. \A a \in S : carga[a] \in Nat
        OBVIOUS
    <2>2. L \subseteq Nat
        BY <2>1
    <2>3. L # {}
        OBVIOUS
    <2>4. QED
        BY <2>2, <2>3, DesignacionesAssumption
<1>2. PICK m \in L : \A k \in L : m <= k
    BY <1>1, HayPrimero
<1> DEFINE T == {a \in S : carga[a] = m}
<1>3. T \subseteq Nat /\ T # {}
    BY <1>1, <1>2
<1>4. PICK a \in T : \A b \in T : a <= b
    BY <1>3, HayPrimero
<1>5. ASSUME NEW b \in S \ {a}
      PROVE  carga[a] < carga[b] \/ (carga[a] = carga[b] /\ a < b)
    <2>1. m <= carga[b] /\ m \in Nat /\ carga[b] \in Nat /\ carga[a] = m /\ a \in Nat /\ b \in Nat
        BY <1>1, <1>2, <1>4
    <2>2. carga[b] = m => a <= b
        BY <1>4
    <2>3. QED
        BY <2>1, <2>2
<1>6. QED
    BY <1>4, <1>5 DEF MenosCargada

\* Distances are numbers, and a match is at none from itself.
LEMMA DistanBien ==
    ASSUME NEW i \in Nat, NEW j \in Nat
    PROVE  Distan(i, j) \in Nat /\ Distan(i, j) = Distan(j, i) /\ ~(Distan(i, i) >= Margen)
BY DEF Distan, Margen

\* Choosing somebody who has no hour near.
LEMMA ElegirBien ==
    ASSUME NEW g \in Buenas, NEW rol \in Roles, NEW p \in Partidos, NEW a \in Personas,
           \A h \in g.horas : h[1] = a => Distan(h[2], Hora[p]) >= Margen,
           Cardinality(Cubren(g, rol, p)) < Slots[rol]
    PROVE  Elegir(g, rol, p, a) \in Buenas
<1> DEFINE x == [partido |-> p, quien |-> a, rol |-> rol]
           e == Elegir(g, rol, p, a)
<1>1. g \in Partidas /\ Buena(g)
    BY DEF Buenas
<1>2. x \in Puesto /\ Hora[p] \in Nat /\ <<a, Hora[p]>> \in Personas \X Nat
    BY DesignacionesAssumption DEF Puesto
<1>3. /\ e.hay = g.hay \cup {x} /\ e.nuevas = g.nuevas \cup {x}
      /\ e.horas = g.horas \cup {<<a, Hora[p]>>}
      /\ e \in Partidas
    <2>1. /\ g.hay \subseteq Puesto /\ g.nuevas \subseteq Puesto /\ g.horas \subseteq Personas \X Nat
          /\ g.carga \in [Personas -> Nat] /\ DOMAIN g = {"hay", "horas", "carga", "nuevas"}
        BY <1>1 DEF Partidas
    <2>2. /\ e.hay = g.hay \cup {x} /\ e.nuevas = g.nuevas \cup {x}
          /\ e.horas = g.horas \cup {<<a, Hora[p]>>}
        BY <2>1 DEF Elegir
    <2>3. e.carga = [g.carga EXCEPT ![a] = @ + 1]
        BY <2>1 DEF Elegir
    <2>4. /\ e = [i \in {"hay", "horas", "carga", "nuevas"} |-> e[i]]
        BY <2>1 DEF Elegir
    <2>5. e.carga \in [Personas -> Nat]
        BY <2>1, <2>3
    <2> HIDE DEF x, e
    <2>6. e \in Partidas
        BY <1>2, <2>1, <2>2, <2>4, <2>5 DEF Partidas
    <2>7. QED
        BY <2>2, <2>6
<1> HIDE DEF e
<1>4. x.quien = a /\ x.partido = p /\ x.rol = rol
    OBVIOUS
<1> HIDE DEF x
<1>5. ASSUME NEW y \in g.hay \cup g.nuevas, y.quien = a
      PROVE  /\ y.partido # p /\ Distan(Hora[y.partido], Hora[p]) >= Margen
             /\ Distan(Hora[p], Hora[y.partido]) >= Margen
    <2>1. /\ <<y.quien, Hora[y.partido]>> \in g.horas
          /\ Hora[y.partido] \in Nat
        BY <1>1, DesignacionesAssumption DEF Buena, Partidas, Puesto
    <2>2. Distan(Hora[y.partido], Hora[p]) >= Margen
        BY <1>5, <2>1
    <2>3. QED
        BY <1>2, <2>1, <2>2, DistanBien
<1>6. IsFiniteSet(e.hay) /\ IsFiniteSet(e.nuevas)
    <2>1. IsFiniteSet(g.hay) /\ IsFiniteSet(g.nuevas)
        BY <1>1 DEF Buena
    <2>2. IsFiniteSet(g.hay \cup {x}) /\ IsFiniteSet(g.nuevas \cup {x})
        BY ONLY <2>1, FS_AddElement
    <2>3. QED
        BY <1>3, <2>2
<1>7. \A y \in e.hay \cup e.nuevas : <<y.quien, Hora[y.partido]>> \in e.horas
    BY <1>1, <1>3, <1>4 DEF Buena
<1>8. ASSUME NEW z \in e.nuevas
      PROVE  SinChoque(z, e.hay)
    <2>1. ASSUME NEW y \in e.hay, y.quien = z.quien, y # z
          PROVE  y.partido # z.partido /\ Distan(Hora[z.partido], Hora[y.partido]) >= Margen
        <3>1. CASE z = x
            BY <1>3, <1>4, <1>5, <2>1, <3>1
        <3>2. CASE z \in g.nuevas /\ y = x
            BY <1>4, <1>5, <2>1, <3>2
        <3>3. CASE z \in g.nuevas /\ y \in g.hay
            BY <1>1, <2>1, <3>3 DEF Buena, SinChoque
        <3>4. QED
            BY <1>3, <3>1, <3>2, <3>3
    <2>2. QED
        BY <2>1 DEF SinChoque
<1>9. ASSUME NEW z \in e.nuevas
      PROVE  Cardinality(Cubren(e, z.rol, z.partido)) <= Slots[z.rol]
    <2>1. /\ Cubren(g, rol, p) \subseteq g.hay
          /\ Cubren(e, rol, p) = Cubren(g, rol, p) \cup {x}
        BY <1>3, <1>4 DEF Cubren
    <2>2. IsFiniteSet(Cubren(g, rol, p)) /\ Slots[rol] \in Nat
        BY <1>1, <2>1, FS_Subset, DesignacionesAssumption DEF Buena
    <2>3. Cardinality(Cubren(e, rol, p)) <= Slots[rol]
        <3>1. /\ Cardinality(Cubren(g, rol, p)) \in Nat
              /\ Cardinality(Cubren(e, rol, p)) =
                     IF x \in Cubren(g, rol, p) THEN Cardinality(Cubren(g, rol, p))
                                               ELSE Cardinality(Cubren(g, rol, p)) + 1
            BY ONLY <2>1, <2>2, FS_AddElement, FS_CardinalityType
        <3>2. QED
            BY <2>2, <3>1
    <2>4. CASE z.rol = rol /\ z.partido = p
        BY <2>3, <2>4
    <2>5. CASE ~(z.rol = rol /\ z.partido = p)
        <3>1. Cubren(e, z.rol, z.partido) = Cubren(g, z.rol, z.partido)
            BY <1>3, <1>4, <2>5 DEF Cubren
        <3>2. z \in g.nuevas
            BY <1>3, <1>4, <2>5
        <3>3. QED
            BY <1>1, <3>1, <3>2 DEF Buena
    <2>6. QED
        BY <2>4, <2>5
<1>10. QED
    BY <1>3, <1>6, <1>7, <1>8, <1>9 DEF Buenas, Buena, e

\* A slot: the loop keeps what it carries, and the simulation, that does not look at who has
\* another role in the match, finds the same people, for their hour is taken.
LEMMA UnSlotBien ==
    ASSUME NEW g \in Buenas, NEW rol \in Roles, NEW p \in Partidos
    PROVE  UnSlot(g, rol, p) \in Buenas /\ SimulaSlot(g, rol, p) = UnSlot(g, rol, p)
<1> DEFINE libres == {a \in Personas :
               /\ rol \in Ejerce[a] /\ p \notin Ausente[a]
               /\ ~\E x \in Cubren(g, rol, p) : x.quien = a
               /\ \A h \in g.horas : h[1] = a => Distan(h[2], Hora[p]) >= Margen}
           D == Disponibles(g, rol, p)
<1>1. g \in Partidas /\ Buena(g) /\ Hora[p] \in Nat
    BY DesignacionesAssumption DEF Buenas
<1>2. ASSUME NEW a \in Personas, \A h \in g.horas : h[1] = a => Distan(h[2], Hora[p]) >= Margen,
             NEW x \in g.hay, x.quien = a
      PROVE  x.partido # p
    <2>1. <<x.quien, Hora[x.partido]>> \in g.horas
        BY <1>1 DEF Buena
    <2>2. QED
        BY <1>1, <1>2, <2>1, DistanBien
<1>3. libres = D
    BY <1>2 DEF Disponibles, Cubren
<1>4. SimulaSlot(g, rol, p) = UnSlot(g, rol, p)
    BY <1>3 DEF SimulaSlot, UnSlot
<1>5. UnSlot(g, rol, p) \in Buenas
    <2>1. CASE Cardinality(Cubren(g, rol, p)) >= Slots[rol] \/ D = {}
        BY <2>1 DEF UnSlot
    <2>2. CASE ~(Cardinality(Cubren(g, rol, p)) >= Slots[rol]) /\ D # {}
        <3> DEFINE a == MenosCargada(D, g.carga)
        <3>1. D \subseteq Personas /\ g.carga \in [Personas -> Nat]
            BY <1>1 DEF Disponibles, Partidas
        <3>2. a \in D
            BY <2>2, <3>1, HayMenosCargada
        <3>3. UnSlot(g, rol, p) = Elegir(g, rol, p, a)
            BY <2>2 DEF UnSlot
        <3> HIDE DEF a
        <3>4. /\ a \in Personas
              /\ \A h \in g.horas : h[1] = a => Distan(h[2], Hora[p]) >= Margen
            BY <3>2 DEF Disponibles
        <3>5. Cardinality(Cubren(g, rol, p)) < Slots[rol]
            <4>1. Cubren(g, rol, p) \subseteq g.hay /\ IsFiniteSet(g.hay)
                BY <1>1 DEF Cubren, Buena
            <4>2. Cardinality(Cubren(g, rol, p)) \in Nat /\ Slots[rol] \in Nat
                BY <4>1, FS_Subset, FS_CardinalityType, DesignacionesAssumption
            <4>3. QED
                BY <2>2, <4>2
        <3>6. QED
            BY <3>3, <3>4, <3>5, ElegirBien
    <2>3. QED
        BY <2>1, <2>2
<1>6. QED
    BY <1>4, <1>5

\* The slots of a role in a match, by the loop and by the simulation.
LEMMA SlotsBien ==
    ASSUME NEW g \in Buenas, NEW rol \in Roles, NEW p \in Partidos
    PROVE  /\ SimulaRol(g, rol, p) \in Buenas
           /\ FoldLeft(LAMBDA h, i : UnSlot(h, rol, p), g, [i \in 1..Slots[rol] |-> i])
                = SimulaRol(g, rol, p)
<1> DEFINE n == Slots[rol]
           seq == [i \in 1..n |-> i]
           st == [x \in Buenas \X Nat |-> UnSlot(x[1], rol, p)]
           U(h) == h = [S \in SUBSET DOMAIN seq |->
                           IF S = {} THEN g ELSE UnSlot(h[S \ {Max(S)}], rol, p)]
           V(h) == h = [S \in SUBSET DOMAIN seq |->
                           IF S = {} THEN g ELSE SimulaSlot(h[S \ {Max(S)}], rol, p)]
           u == CHOOSE h : U(h)
           v == CHOOSE h : V(h)
<1>1. n \in Nat /\ seq \in [1..n -> Nat] /\ DOMAIN seq = 1..n
    BY DesignacionesAssumption
<1>2. /\ st \in [Buenas \X Nat -> Buenas]
      /\ \A h \in Buenas, i \in Nat : /\ st[<<h, i>>] = UnSlot(h, rol, p)
                                      /\ st[<<h, i>>] = SimulaSlot(h, rol, p)
    BY UnSlotBien
<1>3. \A S \in SUBSET (1..n) : S # {} => Max(S) \in 1..n /\ seq[Max(S)] \in Nat
    BY <1>1, HayUltimo
<1>4. /\ FoldLeft(LAMBDA h, i : UnSlot(h, rol, p), g, seq) = u[DOMAIN seq]
      /\ SimulaRol(g, rol, p) = v[DOMAIN seq]
    BY DEF SimulaRol, FoldLeft, MapThenFoldSet
<1> HIDE DEF n, seq, st, u, v
<1>5. PICK w \in Buenas : Plegado(w, Buenas, n, g, st, seq)
    BY <1>1, <1>2, Pliega
<1>6. PICK f \in [SUBSET (1..n) -> Buenas] : Fija(f, n, g, st, seq)
    BY <1>5 DEF Plegado
<1>7. U(f) /\ V(f)
    <2>1. \A S \in SUBSET (1..n) : f[S] \in Buenas
        OBVIOUS
    <2>2. \A S \in SUBSET (1..n) : S \ {Max(S)} \in SUBSET (1..n)
        OBVIOUS
    <2>3. QED
        BY <1>1, <1>2, <1>3, <1>6, <2>1, <2>2 DEF Fija
<1>8. U(u) /\ V(v)
    <2> HIDE DEF U, V
    <2>1. QED
        BY <1>7 DEF u, v
<1>9. Sigue(u, Buenas, n, g, st, seq) /\ Sigue(v, Buenas, n, g, st, seq)
    BY <1>1, <1>2, <1>3, <1>8 DEF Sigue
<1>10. u[1..n] = w /\ v[1..n] = w
    BY <1>5, <1>9 DEF Plegado
<1>11. QED
    BY <1>1, <1>4, <1>10 DEF n, seq

\* Emptying the posts of a role in a match only helps, for the hours stay taken.
LEMMA LimpiaBien ==
    ASSUME NEW g \in Buenas, NEW S
    PROVE  [g EXCEPT !.hay = @ \ S] \in Buenas
<1> DEFINE e == [g EXCEPT !.hay = @ \ S]
<1>1. g \in Partidas /\ Buena(g)
    BY DEF Buenas
<1>2. /\ e \in Partidas /\ e.hay = g.hay \ S /\ e.nuevas = g.nuevas /\ e.horas = g.horas
    BY <1>1 DEF Partidas
<1> HIDE DEF e
<1>3. IsFiniteSet(e.hay) /\ IsFiniteSet(e.nuevas)
    BY <1>1, <1>2, FS_Subset DEF Buena
<1>4. ASSUME NEW x \in e.nuevas
      PROVE  Cardinality(Cubren(e, x.rol, x.partido)) <= Slots[x.rol]
    <2>1. /\ Cubren(e, x.rol, x.partido) \subseteq Cubren(g, x.rol, x.partido)
          /\ Cubren(g, x.rol, x.partido) \subseteq g.hay
        BY <1>2 DEF Cubren
    <2>2. IsFiniteSet(Cubren(g, x.rol, x.partido))
        BY <1>1, <2>1, FS_Subset DEF Buena
    <2>3. /\ Cardinality(Cubren(e, x.rol, x.partido)) <= Cardinality(Cubren(g, x.rol, x.partido))
          /\ Cardinality(Cubren(e, x.rol, x.partido)) \in Nat
          /\ Cardinality(Cubren(g, x.rol, x.partido)) \in Nat
        BY <2>1, <2>2, FS_Subset, FS_CardinalityType
    <2>4. Cardinality(Cubren(g, x.rol, x.partido)) <= Slots[x.rol] /\ Slots[x.rol] \in Nat
        BY <1>1, <1>2, DesignacionesAssumption DEF Buena, Partidas, Puesto
    <2>5. QED
        BY <2>3, <2>4
<1>5. QED
    BY <1>1, <1>2, <1>3, <1>4 DEF Buenas, Buena, SinChoque, e

LEMMA UnRolBien ==
    ASSUME NEW g \in Buenas, NEW rol \in Roles, NEW p \in Partidos
    PROVE  /\ \A s \in BOOLEAN : UnRol(g, rol, p, s) \in Buenas
           /\ UnRol(g, rol, p, FALSE) = SimulaRol(g, rol, p)
<1>1. UnRol(g, rol, p, FALSE) = SimulaRol(g, rol, p) /\ UnRol(g, rol, p, FALSE) \in Buenas
    BY SlotsBien DEF UnRol
<1>2. UnRol(g, rol, p, TRUE) \in Buenas
    <2>1. PICK l \in Buenas : l = [g EXCEPT !.hay = @ \ Cubren(g, rol, p)]
        BY LimpiaBien
    <2>2. SimulaRol(l, rol, p) \in Buenas
        BY SlotsBien
    <2>3. UnRol(g, rol, p, TRUE) = SimulaRol(l, rol, p)
        BY <2>1, SlotsBien DEF UnRol
    <2>4. QED
        BY <2>2, <2>3
<1>3. QED
    BY <1>1, <1>2

\* Numbers that are finitely many can be put in order.
LEMMA HayOrden ==
    ASSUME NEW S, S \subseteq Nat, IsFiniteSet(S)
    PROVE  \E s \in [1..Cardinality(S) -> S] : \A i, j \in DOMAIN s : i < j => s[i] < s[j]
<1> DEFINE Ordena(s, T) == s \in [1..Cardinality(T) -> T] /\ \A i, j \in DOMAIN s : i < j => s[i] < s[j]
           Hay(k) == \A T : /\ T \subseteq Nat /\ IsFiniteSet(T) /\ Cardinality(T) = k
                            => \E s : Ordena(s, T)
           P == {k \in Nat : Hay(k)}
<1>1. Hay(0)
    <2>1. ASSUME NEW T, IsFiniteSet(T), Cardinality(T) = 0
          PROVE  \E s : Ordena(s, T)
        <3>1. Ordena([i \in 1..0 |-> i], T)
            BY <2>1
        <3>2. QED
            BY <3>1
    <2>2. QED
        BY <2>1
<1>2. ASSUME NEW k \in Nat, Hay(k)
      PROVE  Hay(k + 1)
    <2>1. ASSUME NEW T, T \subseteq Nat, IsFiniteSet(T), Cardinality(T) = k + 1
          PROVE  \E s : Ordena(s, T)
        <3>1. T # {}
            BY <2>1, FS_EmptySet
        <3>2. PICK m \in T : \A x \in T : m <= x
            BY <2>1, <3>1, HayPrimero
        <3>3. IsFiniteSet(T \ {m}) /\ Cardinality(T \ {m}) = k /\ T \ {m} \subseteq Nat
            <4>1. /\ IsFiniteSet(T \ {m})
                  /\ Cardinality(T \ {m}) = IF m \in T THEN Cardinality(T) - 1 ELSE Cardinality(T)
                BY <2>1, FS_RemoveElement
            <4>2. QED
                BY <2>1, <4>1
        <3>4. PICK t : Ordena(t, T \ {m})
            BY <1>2, <3>3
        <3> DEFINE s == [i \in 1..(k+1) |-> IF i = 1 THEN m ELSE t[i - 1]]
        <3>5. /\ t \in [1..k -> T \ {m}]
              /\ \A i, j \in 1..k : i < j => t[i] < t[j]
            BY <3>3, <3>4
        <3>6. ASSUME NEW i \in 1..(k+1), i # 1
              PROVE  i - 1 \in 1..k /\ s[i] = t[i - 1] /\ s[i] \in T \ {m}
            BY <3>5, <3>6
        <3>7. s[1] = m
            OBVIOUS
        <3>8. s \in [1..(k+1) -> T]
            BY <3>6
        <3>9. ASSUME NEW i \in 1..(k+1), NEW j \in 1..(k+1), i < j
              PROVE  s[i] < s[j]
            <4>1. j # 1 /\ j - 1 \in 1..k /\ s[j] = t[j - 1] /\ s[j] \in T \ {m}
                BY <3>6, <3>9
            <4>2. CASE i = 1
                <5>1. m <= s[j] /\ m # s[j] /\ m \in Nat /\ s[j] \in Nat
                    BY <2>1, <3>2, <4>1
                <5>2. QED
                    BY <3>7, <4>2, <5>1
            <4>3. CASE i # 1
                <5>1. i - 1 \in 1..k /\ s[i] = t[i - 1] /\ i - 1 < j - 1
                    BY <3>6, <3>9, <4>3
                <5>2. QED
                    BY <3>5, <4>1, <5>1
            <4>4. QED
                BY <4>2, <4>3
        <3> HIDE DEF s
        <3>10. Ordena(s, T)
            BY <2>1, <3>8, <3>9
        <3>11. QED
            BY <3>10
    <2>2. QED
        BY <2>1
<1> HIDE DEF Hay
<1>3. 0 \in P /\ \A k \in Nat : k \in P => k + 1 \in P
    BY <1>1, <1>2
<1>4. Nat \subseteq P
    <2> HIDE DEF P
    <2>1. QED
        BY <1>3, Induccion
<1>5. Hay(Cardinality(S))
    BY <1>4, FS_CardinalityType
<1>6. \E s : Ordena(s, S)
    BY <1>5 DEF Hay
<1>7. QED
    BY <1>6

LEMMA PorHoraBien ==
    \E n \in Nat : PorHora \in [1..n -> Partidos]
<1> DEFINE S == {p \in Partidos : ~acta[p]}
<1>1. IsFiniteSet(S) /\ S \subseteq Nat /\ S \subseteq Partidos
    BY DesignacionesAssumption, FS_Subset
<1>2. Cardinality(S) \in Nat
    BY <1>1, FS_CardinalityType
<1>3. PorHora \in [1..Cardinality(S) -> S]
    BY <1>1, HayOrden DEF PorHora
<1>4. PorHora \in [1..Cardinality(S) -> Partidos]
    BY <1>3
<1>5. QED
    BY <1>2, <1>4

\* All the matches, for one role.
PorPartidos(g, rol, s) == FoldLeft(LAMBDA h, p : UnRol(h, rol, p, s), g, PorHora)

LEMMA PartidosBien ==
    ASSUME NEW g \in Buenas, NEW rol \in Roles, NEW s \in BOOLEAN
    PROVE  /\ PorPartidos(g, rol, s) \in Buenas
           /\ ~s => FoldLeft(LAMBDA h, p : SimulaRol(h, rol, p), g, PorHora) = PorPartidos(g, rol, s)
<1>1. PICK seq : seq = PorHora
    OBVIOUS
<1>2. PICK n \in Nat : seq \in [1..n -> Partidos]
    BY <1>1, PorHoraBien
<1> DEFINE st == [x \in Buenas \X Partidos |-> UnRol(x[1], rol, x[2], s)]
           U(h) == h = [S \in SUBSET DOMAIN seq |->
                           IF S = {} THEN g ELSE UnRol(h[S \ {Max(S)}], rol, seq[Max(S)], s)]
           V(h) == h = [S \in SUBSET DOMAIN seq |->
                           IF S = {} THEN g ELSE SimulaRol(h[S \ {Max(S)}], rol, seq[Max(S)])]
           u == CHOOSE h : U(h)
           v == CHOOSE h : V(h)
<1>3. /\ st \in [Buenas \X Partidos -> Buenas]
      /\ \A h \in Buenas, p \in Partidos : /\ st[<<h, p>>] = UnRol(h, rol, p, s)
                                           /\ ~s => st[<<h, p>>] = SimulaRol(h, rol, p)
    BY UnRolBien
<1>4. \A S \in SUBSET (1..n) : S # {} => Max(S) \in 1..n /\ seq[Max(S)] \in Partidos
    BY <1>2, HayUltimo
<1>5. /\ PorPartidos(g, rol, s) = u[DOMAIN seq]
      /\ FoldLeft(LAMBDA h, p : SimulaRol(h, rol, p), g, PorHora) = v[DOMAIN seq]
    BY <1>1 DEF PorPartidos, FoldLeft, MapThenFoldSet
<1> HIDE DEF st, u, v
<1>6. PICK w \in Buenas : Plegado(w, Buenas, n, g, st, seq)
    BY <1>2, <1>3, Pliega
<1>7. PICK f \in [SUBSET (1..n) -> Buenas] : Fija(f, n, g, st, seq)
    BY <1>6 DEF Plegado
<1>8. U(f) /\ (~s => V(f))
    <2>1. \A S \in SUBSET (1..n) : f[S] \in Buenas
        OBVIOUS
    <2>2. \A S \in SUBSET (1..n) : S \ {Max(S)} \in SUBSET (1..n)
        OBVIOUS
    <2>3. ASSUME NEW S \in SUBSET (1..n), S # {}
          PROVE  /\ f[S] = UnRol(f[S \ {Max(S)}], rol, seq[Max(S)], s)
                 /\ ~s => f[S] = SimulaRol(f[S \ {Max(S)}], rol, seq[Max(S)])
        <3>1. f[S] = st[<<f[S \ {Max(S)}], seq[Max(S)]>>]
            BY <1>7, <2>3 DEF Fija
        <3>2. f[S \ {Max(S)}] \in Buenas /\ seq[Max(S)] \in Partidos
            BY <1>4, <2>1, <2>2, <2>3
        <3>3. QED
            BY <1>3, <3>1, <3>2
    <2>4. f[{}] = g /\ f = [S \in SUBSET (1..n) |-> f[S]]
        BY <1>7 DEF Fija
    <2>5. QED
        BY <1>2, <2>3, <2>4
<1>9. U(u) /\ (~s => V(v))
    <2> HIDE DEF U, V
    <2>1. QED
        BY <1>8 DEF u, v
<1>10. Sigue(u, Buenas, n, g, st, seq) /\ (~s => Sigue(v, Buenas, n, g, st, seq))
    <2>1. Sigue(u, Buenas, n, g, st, seq)
        BY <1>2, <1>3, <1>4, <1>9 DEF Sigue
    <2>2. ASSUME ~s
          PROVE  Sigue(v, Buenas, n, g, st, seq)
        <3>1. V(v) /\ \A h \in Buenas, p \in Partidos : st[<<h, p>>] = SimulaRol(h, rol, p)
            BY <1>3, <1>9, <2>2
        <3>2. QED
            BY <1>2, <1>4, <3>1 DEF Sigue
    <2>3. QED
        BY <2>1, <2>2
<1>11. u[1..n] = w /\ (~s => v[1..n] = w)
    BY <1>6, <1>10 DEF Plegado
<1>12. QED
    BY <1>2, <1>5, <1>11

\* All the roles: the plan, from what there is.
LEMMA RolesBien ==
    ASSUME NEW s \in BOOLEAN, Partida \in Buenas, NEW n \in Nat, NEW roles \in [1..n -> Roles]
    PROVE  Plan(roles, s) \in Buenas
<1>1. PICK g \in Buenas : g = Partida
    OBVIOUS
<1> DEFINE st == [x \in Buenas \X Roles |-> PorPartidos(x[1], x[2], s)]
           U(h) == h = [S \in SUBSET DOMAIN roles |->
                           IF S = {} THEN g ELSE PorPartidos(h[S \ {Max(S)}], roles[Max(S)], s)]
           u == CHOOSE h : U(h)
<1>2. /\ st \in [Buenas \X Roles -> Buenas]
      /\ \A h \in Buenas, rol \in Roles : st[<<h, rol>>] = PorPartidos(h, rol, s)
    BY PartidosBien
<1>3. \A S \in SUBSET (1..n) : S # {} => Max(S) \in 1..n /\ roles[Max(S)] \in Roles
    BY HayUltimo
<1>4. Plan(roles, s) = u[DOMAIN roles]
    BY <1>1 DEF Plan, PorPartidos, FoldLeft, MapThenFoldSet
<1> HIDE DEF st, u
<1>5. PICK w \in Buenas : Plegado(w, Buenas, n, g, st, roles)
    BY <1>2, Pliega
<1>6. PICK f \in [SUBSET (1..n) -> Buenas] : Fija(f, n, g, st, roles)
    BY <1>5 DEF Plegado
<1>7. U(f)
    <2>1. \A S \in SUBSET (1..n) : f[S] \in Buenas
        OBVIOUS
    <2>2. \A S \in SUBSET (1..n) : S \ {Max(S)} \in SUBSET (1..n)
        OBVIOUS
    <2>3. QED
        BY <1>2, <1>3, <1>6, <2>1, <2>2 DEF Fija
<1>8. U(u)
    <2> HIDE DEF U
    <2>1. QED
        BY <1>7 DEF u
<1>9. Sigue(u, Buenas, n, g, st, roles)
    BY <1>2, <1>3, <1>8 DEF Sigue
<1>10. u[1..n] = w
    BY <1>5, <1>9 DEF Plegado
<1>11. QED
    BY <1>4, <1>10

\* A single role: the plan without overwriting is what the simulation comes to.
LEMMA UnSoloRol ==
    ASSUME Partida \in Buenas, NEW rol \in Roles
    PROVE  Plan(<<rol>>, FALSE) = FoldLeft(LAMBDA g, p : SimulaRol(g, rol, p), Partida, PorHora)
<1>1. PICK g \in Buenas : g = Partida
    OBVIOUS
<1>2. PICK v : v = PorPartidos(g, rol, FALSE)
    OBVIOUS
<1> DEFINE roles == <<rol>>
           U(h) == h = [S \in SUBSET DOMAIN roles |->
                           IF S = {} THEN g ELSE PorPartidos(h[S \ {Max(S)}], roles[Max(S)], FALSE)]
           u == CHOOSE h : U(h)
           f == [S \in SUBSET {1} |-> IF S = {} THEN g ELSE v]
<1>3. DOMAIN roles = {1} /\ roles[1] = rol
    OBVIOUS
<1>4. Plan(roles, FALSE) = u[DOMAIN roles]
    BY <1>1 DEF Plan, PorPartidos, FoldLeft, MapThenFoldSet
<1> HIDE DEF roles, u
<1>5. \A S \in SUBSET {1} : S # {} => S = {1} /\ Max(S) = 1 /\ S \ {Max(S)} = {}
    <2>1. \A S \in SUBSET {1} : S # {} => S = {1}
        OBVIOUS
    <2>2. Max({1}) = 1
        BY DEF Max
    <2>3. QED
        BY <2>1, <2>2
<1>6. U(f)
    <2>1. f[{}] = g /\ {} \in SUBSET {1}
        OBVIOUS
    <2>2. f = [S \in SUBSET {1} |->
                  IF S = {} THEN g ELSE PorPartidos(f[S \ {Max(S)}], roles[Max(S)], FALSE)]
        BY <1>2, <1>3, <1>5, <2>1
    <2>3. QED
        BY <1>3, <2>2
<1>7. U(u)
    <2> HIDE DEF U
    <2>1. QED
        BY <1>6 DEF u
<1>8. u[{1}] = v
    <2>1. u[{}] = g
        BY <1>3, <1>7
    <2>2. u[{1}] = PorPartidos(u[{}], rol, FALSE)
        <3>1. {1} \in SUBSET DOMAIN roles /\ {1} # {} /\ Max({1}) = 1 /\ {1} \ {Max({1})} = {}
            BY <1>3, <1>5
        <3>2. u[{1}] = PorPartidos(u[{1} \ {Max({1})}], roles[Max({1})], FALSE)
            BY <1>7, <3>1
        <3>3. QED
            BY <1>3, <3>1, <3>2
    <2>3. QED
        BY <1>2, <2>1, <2>2
<1>9. QED
    BY <1>1, <1>2, <1>3, <1>4, <1>8, PartidosBien DEF roles

\* What there is to begin with.
LEMMA PartidaBuena ==
    ASSUME desig \in [Desigs -> Fila]
    PROVE  Partida \in Buenas
<1>1. /\ Vigentes \subseteq Desigs /\ IsFiniteSet(Vigentes)
      /\ \A d \in Vigentes : desig[d].puesto \in Puesto
    <2>1. Vigentes \subseteq Desigs
        BY DEF Vigentes, Activas
    <2>2. IsFiniteSet(Vigentes)
        BY <2>1, FS_Subset, DesignacionesAssumption
    <2>3. ASSUME NEW d \in Vigentes
          PROVE  desig[d].puesto \in Puesto
        <3>1. desig[d] \in Fila /\ desig[d].estado # "no"
            BY DEF Vigentes, Activas, Ocupa
        <3>2. QED
            BY <3>1 DEF Fila, SinFila
    <2>4. QED
        BY <2>1, <2>2, <2>3
<1>2. Puestos(Vigentes) \subseteq Puesto /\ IsFiniteSet(Puestos(Vigentes))
    <2>1. Puestos(Vigentes) \subseteq Puesto
        BY <1>1 DEF Puestos
    <2> DEFINE f == [d \in Vigentes |-> desig[d].puesto]
    <2>2. f \in Surjection(Vigentes, Puestos(Vigentes))
        BY DEF Surjection, Puestos
    <2> HIDE DEF f
    <2>3. QED
        BY <1>1, <2>1, <2>2, FS_Surjection
<1>3. \A x \in Puesto : x.quien \in Personas /\ Hora[x.partido] \in Nat
    BY DesignacionesAssumption DEF Puesto
<1> DEFINE horas == {<<x.quien, Hora[x.partido]>> : x \in Puestos(Vigentes)}
           carga == [a \in Personas |-> Cardinality({d \in Activas : desig[d].puesto.quien = a})]
<1>4. horas \subseteq Personas \X Nat
    BY <1>2, <1>3
<1>5. carga \in [Personas -> Nat]
    <2>1. ASSUME NEW a \in Personas
          PROVE  Cardinality({d \in Activas : desig[d].puesto.quien = a}) \in Nat
        <3>1. {d \in Activas : desig[d].puesto.quien = a} \subseteq Desigs
            BY DEF Activas
        <3>2. QED
            BY <3>1, FS_Subset, FS_CardinalityType, DesignacionesAssumption
    <2>2. QED
        BY <2>1
<1>6. Partida = [hay |-> Puestos(Vigentes), horas |-> horas, carga |-> carga, nuevas |-> {}]
    BY DEF Partida
<1>7. \A x \in Puestos(Vigentes) : <<x.quien, Hora[x.partido]>> \in horas
    OBVIOUS
<1> HIDE DEF horas, carga
<1>8. Partida \in Partidas
    BY <1>2, <1>4, <1>5, <1>6 DEF Partidas
<1>9. QED
    BY <1>2, <1>6, <1>7, <1>8, FS_EmptySet DEF Buenas, Buena

-----------------------------------------------------------------------------
(* The types, which the plan counts on, and what it promises                *)

\* The roles, one after another.
LEMMA RolesEnOrden ==
    \E n \in Nat : TodosLosRoles \in [1..n -> Roles]
<1>1. Cardinality(Roles) \in Nat /\ ExistsBijection(1..Cardinality(Roles), Roles)
    BY FS_CardinalityType, DesignacionesAssumption
<1>2. \E f \in [1..Cardinality(Roles) -> Roles] : IsInjective(f)
    BY <1>1 DEF ExistsBijection, Bijection, Injection
<1>3. TodosLosRoles \in [1..Cardinality(Roles) -> Roles]
    BY <1>2 DEF TodosLosRoles, SetToSeq
<1>4. QED
    BY <1>1, <1>3

LEMMA PlanBueno ==
    ASSUME desig \in [Desigs -> Fila], NEW s \in BOOLEAN
    PROVE  Plan(TodosLosRoles, s) \in Buenas
BY PartidaBuena, RolesEnOrden, RolesBien

\* A request asks for posts and rows that can be.
PeticionTipada(q) ==
    /\ peticion[q].op = "asignar" =>
           peticion[q].nuevas \subseteq Puesto /\ IsFiniteSet(peticion[q].nuevas)
    /\ peticion[q].op = "guardar" => peticion[q].d \in Desigs /\ peticion[q].fila \in Fila
    /\ peticion[q].op = "pagar" => /\ peticion[q].grupos \subseteq SUBSET Desigs
                                   /\ peticion[q].nomina \in Nominas \cup {Nada}

Tipos == /\ TypeOK
         /\ DOMAIN peticion = Peticiones /\ \A q \in Peticiones : PeticionTipada(q)

\* The other requests keep what they asked for.
LEMMA TiposSiguen ==
    ASSUME Tipos, TypeOK', NEW q \in Peticiones, NEW que, peticion' = [peticion EXCEPT ![q] = que],
           PeticionTipada(q)'
    PROVE  Tipos'
<1>1. ASSUME NEW r \in Peticiones, r # q
      PROVE  PeticionTipada(r)'
    <2>1. PeticionTipada(r) /\ peticion'[r] = peticion[r]
        BY <1>1 DEF Tipos
    <2>2. QED
        BY <2>1 DEF PeticionTipada
<1>2. QED
    BY <1>1 DEF Tipos

LEMMA TiposAlAcabar ==
    ASSUME Tipos, TypeOK', NEW q \in Peticiones, Acaba(q)
    PROVE  Tipos'
<1>1. peticion' = [peticion EXCEPT ![q] = Libre] /\ DOMAIN peticion = Peticiones
    BY DEF Acaba, Tipos
<1>2. PeticionTipada(q)'
    BY <1>1 DEF PeticionTipada, Libre
<1>3. QED
    BY <1>1, <1>2, TiposSiguen

LEMMA TiposAlPedir ==
    ASSUME Tipos, NEW q \in Peticiones, Pedir(q)
    PROVE  Tipos'
<1> DEFINE Vale(que) ==
               \/ que.op = "asignar" /\ que.nuevas \subseteq Puesto /\ IsFiniteSet(que.nuevas)
               \/ que.op = "quitar"
               \/ que.op = "guardar" /\ que.d \in Desigs /\ que.fila \in Fila
               \/ /\ que.op = "pagar" /\ que.grupos \subseteq SUBSET Desigs
                  /\ que.nomina \in Nominas \cup {Nada}
           Viene == \E que : Pide(q, que) /\ Vale(que)
<1>1. TypeOK
    BY DEF Tipos
<1>2. Viene
    <2>1. ASSUME NEW x \in Puesto, Asignar(q, x)
          PROVE  Viene
        <3>1. PICK que : Pide(q, que) /\ que = [op |-> "asignar", nuevas |-> {x}, borra |-> {}]
            BY <2>1 DEF Asignar
        <3>2. IsFiniteSet({x})
            BY FS_Singleton
        <3>3. Vale(que)
            BY <3>1, <3>2
        <3> HIDE DEF Vale
        <3>4. QED
            BY <3>1, <3>3
    <2>2. ASSUME NEW d \in Desigs, Editar(q, d)
          PROVE  Viene
        <3>1. ASSUME NEW e \in EstadosAMano,
                     Pide(q, [op |-> "guardar", d |-> d, fila |-> [desig[d] EXCEPT !.estado = e]])
              PROVE  Viene
            <4>1. PICK que : /\ Pide(q, que)
                             /\ que = [op |-> "guardar", d |-> d,
                                       fila |-> [desig[d] EXCEPT !.estado = e]]
                BY <3>1
            <4>2. desig[d] \in Fila \ {SinFila}
                BY <1>1, <2>2 DEF TypeOK, Editar, Existe, SinFila
            <4>3. [desig[d] EXCEPT !.estado = e] \in Fila
                BY <4>2, DesignacionesAssumption DEF Fila
            <4>4. QED
                BY <4>1, <4>3
        <3>2. ASSUME Pide(q, [op |-> "quitar", d |-> d])
              PROVE  Viene
            <4>1. PICK que : Pide(q, que) /\ que = [op |-> "quitar", d |-> d]
                BY <3>2
            <4>2. QED
                BY <4>1
        <3>3. QED
            BY <2>2, <3>1, <3>2 DEF Editar
    <2>3. ASSUME NEW s \in BOOLEAN, AutoAsignar(q, TodosLosRoles, s)
          PROVE  Viene
        <3>1. Plan(TodosLosRoles, s) \in Buenas
            BY <1>1, PlanBueno DEF TypeOK
        <3>2. PICK xs : xs = Plan(TodosLosRoles, s).nuevas
            OBVIOUS
        <3>3. xs \subseteq Puesto /\ IsFiniteSet(xs)
            BY <3>1, <3>2 DEF Buenas, Buena, Partidas
        <3>4. PICK que, ds : /\ Pide(q, que)
                             /\ que = [op |-> "asignar", nuevas |-> xs, borra |-> ds]
            BY <2>3, <3>2 DEF AutoAsignar
        <3>5. QED
            BY <3>3, <3>4
    <2>4. ASSUME NEW S \in SUBSET Desigs, Liquidar(q, S)
          PROVE  Viene
        <3>1. PICK que : Pide(q, que) /\ que = [op |-> "pagar", grupos |-> {S}, nomina |-> Nada]
            BY <2>4 DEF Liquidar
        <3>2. QED
            BY <3>1
    <2>5. ASSUME NEW A \in SUBSET Personas, NEW n \in Nominas, EmitirNomina(q, A, n)
          PROVE  Viene
        <3> DEFINE debe(a) == {d \in Desigs : Pagable(d) /\ desig[d].puesto.quien = a}
        <3>1. PICK que : /\ Pide(q, que)
                         /\ que = [op |-> "pagar", grupos |-> {debe(a) : a \in A} \ {{}}, nomina |-> n]
            BY <2>5 DEF EmitirNomina
        <3>2. \A a \in A : debe(a) \subseteq Desigs
            OBVIOUS
        <3> HIDE DEF debe
        <3>3. que.op = "pagar" /\ que.grupos = {debe(a) : a \in A} \ {{}} /\ que.nomina = n
            BY <3>1
        <3>4. que.grupos \subseteq SUBSET Desigs
            BY <3>2, <3>3
        <3>5. Vale(que)
            BY <3>3, <3>4
        <3> HIDE DEF Vale
        <3>6. QED
            BY <3>1, <3>5
    <2> HIDE DEF Viene
    <2>6. QED
        BY <2>1, <2>2, <2>3, <2>4, <2>5 DEF Pedir
<1>3. PICK que : Pide(q, que) /\ Vale(que)
    BY <1>2
<1>4. TypeOK'
    <2>1. UNCHANGED <<acta, desig, liq, nomina, pisada>> /\ eventos < MaxEventos /\ eventos' = eventos + 1
        BY <1>3 DEF Pide, Anota, bd
    <2>2. eventos' \in 0..MaxEventos
        BY <1>1, <2>1, DesignacionesAssumption DEF TypeOK
    <2>3. QED
        BY <1>1, <2>1, <2>2 DEF TypeOK
<1>5. peticion' = [peticion EXCEPT ![q] = que] /\ peticion'[q] = que
    BY <1>3 DEF Pide, Tipos
<1>6. PeticionTipada(q)'
    <2>1. Vale(que) => PeticionTipada(q)'
        BY <1>5 DEF PeticionTipada
    <2>2. QED
        BY <1>3, <2>1
<1>7. QED
    BY <1>4, <1>5, <1>6, TiposSiguen

LEMMA TiposAlEscribir ==
    ASSUME Tipos, NEW q \in Peticiones, Guardar(q) \/ Quitar(q)
    PROVE  Tipos'
<1>1. TypeOK /\ PeticionTipada(q) /\ Acaba(q)
    BY DEF Tipos, Guardar, Quitar
<1>2. UNCHANGED <<acta, liq, nomina, eventos>>
    BY DEF Guardar, Quitar, Acaba
<1>3. desig' \in [Desigs -> Fila] /\ pisada' \subseteq Desigs
    <2>1. CASE Guardar(q)
        <3>1. peticion[q].d \in Desigs /\ peticion[q].fila \in Fila
            BY <1>1, <2>1 DEF PeticionTipada, Guardar
        <3>2. PICK c \in BOOLEAN :
                  /\ desig' = IF c THEN [desig EXCEPT ![peticion[q].d] = peticion[q].fila] ELSE desig
                  /\ pisada' \subseteq pisada \cup {peticion[q].d}
            BY <2>1 DEF Guardar
        <3>3. QED
            BY <1>1, <3>1, <3>2 DEF TypeOK
    <2>2. CASE Quitar(q)
        <3>1. desig' = [desig EXCEPT ![peticion[q].d] = SinFila] /\ pisada' \subseteq pisada \cup Pagadas
            BY <2>2 DEF Quitar
        <3>2. QED
            BY <1>1, <3>1 DEF TypeOK, Pagadas, Fila
    <2>3. QED
        BY <2>1, <2>2
<1>4. TypeOK'
    BY <1>1, <1>2, <1>3 DEF TypeOK
<1>5. QED
    BY <1>1, <1>4, TiposAlAcabar

\* Each new post has its row, for there are as many rows as posts.
LEMMA TiposAlInsertar ==
    ASSUME Tipos, NEW q \in Peticiones, Insertar(q)
    PROVE  Tipos'
<1> DEFINE nuevas == peticion[q].nuevas
           borra == peticion[q].borra
           repetida == nuevas \cap Puestos({d \in Desigs : Existe(d)} \ borra) # {}
           lugar(donde) == CHOOSE f \in Bijection(donde, nuevas) : TRUE
<1>1. /\ TypeOK /\ Acaba(q) /\ UNCHANGED <<acta, liq, nomina, eventos>>
      /\ nuevas \subseteq Puesto /\ IsFiniteSet(nuevas)
    BY DEF Tipos, PeticionTipada, Insertar, Acaba
<1>2. pisada' \subseteq Desigs
    BY <1>1 DEF Insertar, TypeOK, Pagadas
<1>3. PICK donde \in Libres(Cardinality(nuevas)) :
          desig' = IF repetida THEN desig
                   ELSE [d \in Desigs |->
                            IF d \in donde
                            THEN [estado |-> "PROPUESTA", puesto |-> lugar(donde)[d], liq |-> Nada]
                            ELSE IF d \in borra THEN SinFila ELSE desig[d]]
    BY DEF Insertar
<1>4. donde \subseteq Desigs /\ Cardinality(donde) = Cardinality(nuevas)
    BY DEF Libres, SinUsar
<1>5. lugar(donde) \in Bijection(donde, nuevas)
    <2>1. IsFiniteSet(donde)
        BY <1>4, FS_Subset, DesignacionesAssumption
    <2>2. Bijection(donde, nuevas) # {}
        BY <1>1, <1>4, <2>1, FS_SameCardinalityBij DEF ExistsBijection
    <2> HIDE DEF nuevas
    <2>3. QED
        BY <2>2
<1>6. \A d \in donde : lugar(donde)[d] \in nuevas
    BY <1>5 DEF Bijection, Injection
<1> HIDE DEF nuevas, borra, repetida, lugar
<1>7. desig' \in [Desigs -> Fila]
    <2>1. ASSUME NEW d \in donde
          PROVE  [estado |-> "PROPUESTA", puesto |-> lugar(donde)[d], liq |-> Nada] \in Fila
        BY <1>1, <1>6 DEF Fila
    <2>2. SinFila \in Fila /\ desig \in [Desigs -> Fila]
        BY <1>1 DEF Fila, TypeOK
    <2>3. QED
        BY <1>3, <2>1, <2>2
<1>8. TypeOK'
    BY <1>1, <1>2, <1>7 DEF TypeOK
<1>9. QED
    BY <1>1, <1>8, TiposAlAcabar

LEMMA TiposAlPagar ==
    ASSUME Tipos, NEW q \in Peticiones, Pagar(q)
    PROVE  Tipos'
<1> DEFINE grupos == peticion[q].grupos
           n == peticion[q].nomina
           toca(d, D, f) == CHOOSE l \in D : d \in f[l]
<1>1. /\ TypeOK /\ Acaba(q) /\ UNCHANGED <<acta, pisada, eventos>>
      /\ grupos \subseteq SUBSET Desigs /\ n \in Nominas \cup {Nada}
    BY DEF Tipos, PeticionTipada, Pagar, Acaba
<1>2. PICK donde \in LiqsLibres(Cardinality(grupos)) : \E de \in Bijection(donde, grupos) :
          IF \A S \in grupos : Toma(S)
          THEN /\ liq' = [l \in Liqs |-> IF l \in donde
                             THEN [estado |-> "viva", cubre |-> de[l], nomina |-> n] ELSE liq[l]]
               /\ desig' = [d \in Desigs |-> IF d \in UNION grupos
                             THEN [desig[d] EXCEPT !.liq = toca(d, donde, de)] ELSE desig[d]]
               /\ nomina' = IF n = Nada THEN nomina
                            ELSE [nomina EXCEPT ![n] = [estado |-> "viva",
                                                        total |-> Cardinality(UNION grupos)]]
          ELSE UNCHANGED <<liq, desig, nomina>>
    BY DEF Pagar
<1>3. PICK de \in Bijection(donde, grupos) :
          IF \A S \in grupos : Toma(S)
          THEN /\ liq' = [l \in Liqs |-> IF l \in donde
                             THEN [estado |-> "viva", cubre |-> de[l], nomina |-> n] ELSE liq[l]]
               /\ desig' = [d \in Desigs |-> IF d \in UNION grupos
                             THEN [desig[d] EXCEPT !.liq = toca(d, donde, de)] ELSE desig[d]]
               /\ nomina' = IF n = Nada THEN nomina
                            ELSE [nomina EXCEPT ![n] = [estado |-> "viva",
                                                        total |-> Cardinality(UNION grupos)]]
          ELSE UNCHANGED <<liq, desig, nomina>>
    BY <1>2
<1>4. /\ donde \subseteq Liqs /\ \A l \in donde : de[l] \in grupos
      /\ \A S \in grupos : \E l \in donde : de[l] = S
    BY DEF LiqsLibres, Bijection, Injection, Surjection
<1> HIDE DEF grupos, n
<1>5. ASSUME NEW d \in UNION grupos
      PROVE  toca(d, donde, de) \in donde
    <2>1. \E l \in donde : d \in de[l]
        BY <1>4
    <2>2. QED
        BY <2>1
<1> HIDE DEF toca
<1>6. Cardinality(UNION grupos) \in Nat
    <2>1. UNION grupos \subseteq Desigs
        BY <1>1
    <2>2. QED
        BY <2>1, FS_Subset, FS_CardinalityType, DesignacionesAssumption
<1>7. liq' \in [Liqs -> [estado : {"no", "viva", "borrada"}, cubre : SUBSET Desigs,
                         nomina : Nominas \cup {Nada}]]
    <2>1. ASSUME NEW l \in donde
          PROVE  [estado |-> "viva", cubre |-> de[l], nomina |-> n] \in
                     [estado : {"no", "viva", "borrada"}, cubre : SUBSET Desigs,
                      nomina : Nominas \cup {Nada}]
        BY <1>1, <1>4
    <2>2. QED
        BY <1>1, <1>3, <2>1 DEF TypeOK
<1>8. desig' \in [Desigs -> Fila]
    <2>1. ASSUME NEW d \in Desigs, d \in UNION grupos, \A S \in grupos : Toma(S)
          PROVE  [desig[d] EXCEPT !.liq = toca(d, donde, de)] \in Fila
        <3>1. toca(d, donde, de) \in Liqs
            BY <1>4, <1>5, <2>1
        <3>2. desig[d].estado = "ASISTIO" /\ desig[d] \in Fila
            BY <1>1, <2>1 DEF Toma, Pagable, TypeOK
        <3>3. QED
            BY <3>1, <3>2 DEF Fila, SinFila
    <2>2. desig \in [Desigs -> Fila]
        BY <1>1 DEF TypeOK
    <2>3. CASE \A S \in grupos : Toma(S)
        BY <1>3, <2>1, <2>2, <2>3
    <2>4. QED
        BY <1>3, <2>2, <2>3
<1>9. nomina' \in [Nominas -> [estado : {"no", "viva", "borrada"}, total : Nat]]
    BY <1>1, <1>3, <1>6 DEF TypeOK
<1>10. TypeOK'
    BY <1>1, <1>7, <1>8, <1>9 DEF TypeOK
<1>11. QED
    BY <1>1, <1>10, TiposAlAcabar

LEMMA TiposSinPeticion ==
    ASSUME Tipos, \/ \E p \in Partidos : CerrarActa(p) \/ ReabrirActa(p)
                  \/ \E l \in Liqs : EliminarLiquidacion(l)
                  \/ \E n \in Nominas : EliminarNomina(n)
    PROVE  Tipos'
<1>1. TypeOK /\ peticion' = peticion /\ pisada' = pisada /\ Anota
    BY DEF Tipos, CerrarActa, ReabrirActa, EliminarLiquidacion, EliminarNomina
<1>2. eventos' \in 0..MaxEventos
    BY <1>1, DesignacionesAssumption DEF TypeOK, Anota
<1>3. acta' \in [Partidos -> BOOLEAN]
    BY <1>1 DEF TypeOK, CerrarActa, ReabrirActa, EliminarLiquidacion, EliminarNomina
<1>4. ASSUME NEW L, desig' = Soltar(L), liq' = Borradas(L)
      PROVE  /\ desig' \in [Desigs -> Fila]
             /\ liq' \in [Liqs -> [estado : {"no", "viva", "borrada"}, cubre : SUBSET Desigs,
                                   nomina : Nominas \cup {Nada}]]
    <2>1. \A d \in Desigs : [desig[d] EXCEPT !.liq = Nada] \in Fila
        BY <1>1 DEF TypeOK, Fila, SinFila
    <2>2. QED
        BY <1>1, <1>4, <2>1 DEF TypeOK, Soltar, Borradas
<1>5. TypeOK'
    <2>1. ASSUME NEW p \in Partidos, CerrarActa(p) \/ ReabrirActa(p)
          PROVE  TypeOK'
        <3>1. \A d \in Desigs : desig[d].estado \in {"PROPUESTA", "CONFIRMADA"} =>
                  [desig[d] EXCEPT !.estado = "ASISTIO"] \in Fila
            BY <1>1 DEF TypeOK, Fila, SinFila
        <3>2. desig' \in [Desigs -> Fila]
            BY <1>1, <2>1, <3>1 DEF TypeOK, CerrarActa, ReabrirActa
        <3>3. UNCHANGED <<liq, nomina>>
            BY <2>1 DEF CerrarActa, ReabrirActa
        <3>4. QED
            BY <1>1, <1>2, <1>3, <3>2, <3>3 DEF TypeOK
    <2>2. ASSUME NEW l \in Liqs, EliminarLiquidacion(l)
          PROVE  TypeOK'
        <3>1. desig' = Soltar({l}) /\ liq' = Borradas({l}) /\ nomina' = nomina
            BY <2>2 DEF EliminarLiquidacion
        <3>2. QED
            BY <1>1, <1>2, <1>3, <1>4, <3>1 DEF TypeOK
    <2>3. ASSUME NEW n \in Nominas, EliminarNomina(n)
          PROVE  TypeOK'
        <3>1. PICK L : desig' = Soltar(L) /\ liq' = Borradas(L)
            BY <2>3 DEF EliminarNomina
        <3>2. nomina' \in [Nominas -> [estado : {"no", "viva", "borrada"}, total : Nat]]
            BY <1>1, <2>3 DEF TypeOK, EliminarNomina
        <3>3. QED
            BY <1>1, <1>2, <1>3, <1>4, <3>1, <3>2 DEF TypeOK
    <2>4. QED
        BY <2>1, <2>2, <2>3
<1>6. QED
    BY <1>1, <1>5 DEF Tipos, PeticionTipada

\* Every post, payment, payroll and request keeps its fields.
THEOREM TiposSiempre == Spec => []Tipos
<1>1. Init => Tipos
    <2>1. ASSUME Init
          PROVE  Tipos
        <3>1. PICK xs \in Equipos : desig = Propuestas(xs)
            BY <2>1 DEF Init
        <3>2. desig \in [Desigs -> Fila]
            <4>1. ASSUME NEW d \in Desigs, d <= Len(xs)
                  PROVE  xs[d] \in Puesto
                <5>1. xs \in Seq(Puesto) /\ d \in Nat \ {0}
                    BY EquiposAssumption, DesignacionesAssumption
                <5>2. d \in 1..Len(xs)
                    BY <4>1, <5>1
                <5>3. QED
                    BY <5>1, <5>2
            <4>2. \A d \in Desigs : d <= Len(xs) =>
                      [estado |-> "PROPUESTA", puesto |-> xs[d], liq |-> Nada] \in Fila
                BY <4>1 DEF Fila
            <4>3. SinFila \in Fila
                BY DEF Fila
            <4>4. QED
                BY <3>1, <4>2, <4>3 DEF Propuestas
        <3>3. TypeOK
            BY <2>1, <3>2, DesignacionesAssumption DEF Init, TypeOK
        <3>4. DOMAIN peticion = Peticiones /\ \A q \in Peticiones : PeticionTipada(q)
            BY <2>1 DEF Init, PeticionTipada, Libre
        <3>5. QED
            BY <3>3, <3>4 DEF Tipos
    <2>2. QED
        BY <2>1
<1>2. Tipos /\ [Next]_vars => Tipos'
    <2>1. ASSUME Tipos, UNCHANGED vars
          PROVE  Tipos'
        BY <2>1 DEF vars, bd, Tipos, TypeOK, PeticionTipada
    <2>2. QED
        BY <2>1, TiposAlPedir, TiposAlEscribir, TiposAlInsertar, TiposAlPagar, TiposSinPeticion
        DEF Next
<1>3. QED
    BY <1>1, <1>2, PTL DEF Spec

\* TypeOK is part of that: designations, payments, payrolls and erased links.
THEOREM TiposDeDesignaciones == Spec => []TypeOK
<1>1. Tipos => TypeOK
    BY DEF Tipos
<1>2. QED
    BY <1>1, TiposSiempre, PTL

\* Among the matches still to be played, the automatic assignment gives nobody two posts in
\* one of them, nor two of them closer than the margin, nor a role more people than its
\* slots (autoAsignar).
THEOREM ElPlanNoChoca == Spec => []PlanSinChoques
<1>1. Tipos => PlanSinChoques
    <2>1. ASSUME Tipos, NEW s \in BOOLEAN, NEW x \in Plan(TodosLosRoles, s).nuevas
          PROVE  /\ SinChoque(x, Plan(TodosLosRoles, s).hay)
                 /\ Cardinality(Cubren(Plan(TodosLosRoles, s), x.rol, x.partido)) <= Slots[x.rol]
        <3>1. Plan(TodosLosRoles, s) \in Buenas
            BY <2>1, PlanBueno DEF Tipos, TypeOK
        <3>2. QED
            BY <2>1, <3>1 DEF Buenas, Buena
    <2>2. QED
        BY <2>1 DEF PlanSinChoques, SinChoque
<1>2. QED
    BY <1>1, TiposSiempre, PTL

\* What analizarCobertura announces is what autoAsignar would leave uncovered.
THEOREM ElDeficitEsReal == Spec => []DeficitReal
<1>1. Tipos => DeficitReal
    BY PartidaBuena, UnSoloRol DEF Tipos, TypeOK, DeficitReal, Deficit
<1>2. QED
    BY <1>1, TiposSiempre, PTL
=============================================================================
