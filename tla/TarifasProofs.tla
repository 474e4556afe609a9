----------------------------- MODULE TarifasProofs -----------------------------
(***************************************************************************)
(* Theorems of Tarifas, for any number of teams, matches, cards, requests  *)
(* in flight and half months: what a team is charged for a match and for a *)
(* month is bounded, whatever the office does to the charges meanwhile.    *)
(* The argument is about one charge k at a time: how many there are of it  *)
(* in each state, how many of the pending ones a request is deleting, and  *)
(* what that request will put in their place.                              *)
(***************************************************************************)
EXTENDS Tarifas, FiniteSetTheorems, TLAPS

-----------------------------------------------------------------------------
(* The inductive invariant                                                 *)

\* How many charges there are in a row of counts, and how many of them are settled.
Todas(c) == c["pendiente"] + c["pagado"] + c["cancelado"] + c["pagado_cancelado"]
Hechas(c) == c["pagado"] + c["cancelado"] + c["pagado_cancelado"]

DeMulta(p) == [MultasDe(p) -> Nat]
Generan == {"activar", "generar", "cron"}
SinMultas == {k \in Cobros : k.tarifa \in {"MATRICULA", "CUOTA"}}

\* What a request in flight carries.  A match it fines has been drawn.
Bien(r, pa) ==
    \/ r = Libre
    \/ r.op = "inscribir" /\ r.que \in Clubes /\ r.borra = <<>> /\ r.crea = <<>>
    \/ /\ r.op \in Generan /\ r.borra = <<>>
       /\ DOMAIN r.crea \subseteq SinMultas
    \/ /\ r.op = "regenerar" /\ r.que \in Partidos /\ pa[r.que] # "no"
       /\ r.borra \in DeMulta(r.que) /\ r.crea \in DeMulta(r.que)

Pedidas == DOMAIN peticion = Peticiones /\ \A q \in Peticiones : Bien(peticion[q], partido)

Regenera(q, p) == peticion[q].op = "regenerar" /\ peticion[q].que = p

\* The rows a request is deleting are there, and no other request deletes them.
TomadasHay == \A k \in Cobros : Tomadas(k) <= cobros[k]["pendiente"]

\* An acta is closed with no more cards of a kind than the most it was ever closed with.
ActaContada ==
    \A p \in Partidos : partido[p] = "FINALIZADO" =>
        \A k \in MultasDe(p) : k.tarifa \in DeTarjeta => Contadas(p, tarjetas[p], k) <= mayor[k]

\* A match that two requests did not fine at once is being fined by one at most.
UnoSolo ==
    \A p \in Partidos \ cruces : \A q, r \in Peticiones :
        Regenera(q, p) /\ Regenera(r, p) => q = r

Tope(k) == IF k.tarifa = "MULTA_WALKOVER" THEN 1 ELSE mayor[k]

\* What is there, less what the request deletes, plus what it makes
EnVueloAcotada ==
    \A q \in Peticiones : \A p \in Partidos \ cruces : Regenera(q, p) =>
        \A k \in MultasDe(p) :
            Todas(cobros[k]) + peticion[q].crea[k] <= Tope(k) + peticion[q].borra[k]

MultasBien == \A k \in LasMultas : k.por \notin cruces => Todas(cobros[k]) <= Tope(k)

\* Nobody cancelled a cuota that a request is about to make.
CuotaSinCancelar ==
    \A q \in Peticiones : peticion[q].op \in Generan =>
        \A k \in LasCuotas \cap DOMAIN peticion[q].crea : k \notin cruces =>
            cobros[k]["cancelado"] = 0 /\ cobros[k]["pagado_cancelado"] = 0

CuotasBien ==
    \A k \in LasCuotas : /\ cobros[k]["pendiente"] + cobros[k]["pagado"] <= 1
                         /\ k \notin cruces => Todas(cobros[k]) <= 1

IInv ==
    /\ TypeOK /\ Pedidas /\ TomadasHay
    /\ ActaContada /\ UnoSolo /\ EnVueloAcotada /\ MultasBien
    /\ CuotaSinCancelar /\ CuotasBien

-----------------------------------------------------------------------------
(* Counting charges                                                        *)

LEMMA FilasSon ==
    ASSUME cobros \in [Cobros -> [Estados -> Nat]], NEW k \in Cobros
    PROVE  /\ Filas(k, Estados) = Todas(cobros[k])
           /\ Filas(k, Saldados) = Hechas(cobros[k])
           /\ Filas(k, Vigentes) = cobros[k]["pendiente"] + cobros[k]["pagado"]
           /\ \A e \in Estados : cobros[k][e] \in Nat
<1> DEFINE c == cobros[k]
<1>1. \A e \in Estados : c[e] \in Nat
    BY Zenon
<1>2. /\ c["pendiente"] \in Nat /\ c["pagado"] \in Nat
      /\ c["cancelado"] \in Nat /\ c["pagado_cancelado"] \in Nat
    BY <1>1 DEF Estados
<1> HIDE DEF c
<1>3. Filas(k, Estados) = Todas(c)
    BY <1>2 DEF Filas, Estados, Todas, c
<1>4. Filas(k, Saldados) = Hechas(c)
    BY <1>2 DEF Filas, Estados, Saldados, Hechas, c
<1>5. Filas(k, Vigentes) = c["pendiente"] + c["pagado"]
    BY <1>2 DEF Filas, Vigentes, c
<1>6. QED
    BY <1>1, <1>3, <1>4, <1>5 DEF c

\* What is for a match is a fine, what is not is not.
LEMMA MultasAparte ==
    /\ LasMultas \subseteq Cobros /\ LasCuotas \subseteq Cobros /\ LasCuotas \subseteq SinMultas
    /\ LasMultas \cap SinMultas = {}
    /\ \A p : MultasDe(p) \subseteq LasMultas /\ \A k \in MultasDe(p) : k.por = p
    /\ \A k \in LasMultas : k.por \in Partidos /\ k \in MultasDe(k.por)
    BY DEF LasMultas, LasCuotas, Cobros, SinMultas, MultasDe, Multa, Cuota, Matricula, DeTarjeta

\* The rows a request took, counted by the request that took them
Borra(r, k) == IF k \in DOMAIN r.borra THEN r.borra[k] ELSE 0
Tomo(pet, q, k) ==
    IF k \in DOMAIN pet[q].borra THEN {q} \X (1..pet[q].borra[k]) ELSE {}
Tomas(pet, k) == UNION {Tomo(pet, q, k) : q \in Peticiones}

LEMMA TomadasSon == \A k : Tomadas(k) = Cardinality(Tomas(peticion, k))
    BY DEF Tomadas, LasQueTomo, Tomas, Tomo

Naturales(pet, k) == \A q \in Peticiones : Borra(pet[q], k) \in Nat

\* A request took as many rows as it says.
LEMMA TomoCuenta ==
    ASSUME NEW pet, NEW k, NEW q \in Peticiones, Borra(pet[q], k) \in Nat
    PROVE  IsFiniteSet(Tomo(pet, q, k)) /\ Cardinality(Tomo(pet, q, k)) = Borra(pet[q], k)
<1>1. CASE k \notin DOMAIN pet[q].borra
    BY <1>1, FS_EmptySet DEF Tomo, Borra
<1>2. CASE k \in DOMAIN pet[q].borra
    <2>1. pet[q].borra[k] \in Nat
        BY <1>2 DEF Borra
    <2>2. IsFiniteSet(1..pet[q].borra[k]) /\ Cardinality(1..pet[q].borra[k]) = pet[q].borra[k]
        <3>1. 1 \in Int /\ pet[q].borra[k] \in Int
            BY <2>1
        <3>2. /\ IsFiniteSet(1..pet[q].borra[k])
              /\ Cardinality(1..pet[q].borra[k]) =
                     IF 1 > pet[q].borra[k] THEN 0 ELSE pet[q].borra[k] - 1 + 1
            BY <3>1, FS_Interval
        <3>3. QED
            BY <2>1, <3>2
    <2>3. IsFiniteSet({q}) /\ Cardinality({q}) = 1
        BY FS_Singleton
    <2>4. /\ IsFiniteSet({q} \X (1..pet[q].borra[k]))
          /\ Cardinality({q} \X (1..pet[q].borra[k])) = 1 * pet[q].borra[k]
        BY <2>2, <2>3, FS_Product
    <2>5. QED
        BY <1>2, <2>1, <2>4 DEF Tomo, Borra
<1>3. QED
    BY <1>1, <1>2

LEMMA TomasFinitas ==
    ASSUME NEW pet, NEW k, Naturales(pet, k)
    PROVE  IsFiniteSet(Tomas(pet, k)) /\ Cardinality(Tomas(pet, k)) \in Nat
<1> DEFINE f == [q \in Peticiones |-> Tomo(pet, q, k)]
           T == {Tomo(pet, q, k) : q \in Peticiones}
<1>1. f \in Surjection(Peticiones, T)
    BY DEF Surjection
<1>2. IsFiniteSet(T)
    BY <1>1, TarifasAssumption, FS_Surjection
<1>3. \A S \in T : IsFiniteSet(S)
    BY TomoCuenta DEF Naturales
<1>4. IsFiniteSet(UNION T)
    BY <1>2, <1>3, FS_UNION
<1>5. QED
    BY <1>4, FS_CardinalityType DEF Tomas

\* Without request q, the rows it took are no longer taken.
LEMMA TomasSin ==
    ASSUME NEW pet, NEW pet2, NEW k, NEW q \in Peticiones, Naturales(pet, k),
           \A r \in Peticiones \ {q} : pet2[r] = pet[r], k \notin DOMAIN pet2[q].borra
    PROVE  Cardinality(Tomas(pet, k)) = Cardinality(Tomas(pet2, k)) + Borra(pet[q], k)
<1>1. Tomas(pet, k) = Tomas(pet2, k) \cup Tomo(pet, q, k)
    BY DEF Tomas, Tomo
<1>2. Tomas(pet2, k) \cap Tomo(pet, q, k) = {}
    <2>1. ASSUME NEW x \in Tomas(pet2, k), x \in Tomo(pet, q, k)
          PROVE  FALSE
        <3>1. PICK r \in Peticiones : x \in Tomo(pet2, r, k)
            BY <2>1 DEF Tomas
        <3>2. x[1] = r
            BY <3>1 DEF Tomo
        <3>3. x[1] = q
            BY <2>1 DEF Tomo
        <3>4. QED
            BY <3>1, <3>2, <3>3 DEF Tomo
    <2>2. QED
        BY <2>1
<1>3. Naturales(pet2, k)
    BY DEF Naturales, Borra
<1>4. IsFiniteSet(Tomas(pet2, k)) /\ Cardinality(Tomas(pet2, k)) \in Nat
    BY <1>3, TomasFinitas
<1>5. Borra(pet[q], k) \in Nat
    BY DEF Naturales
<1>6. IsFiniteSet(Tomo(pet, q, k)) /\ Cardinality(Tomo(pet, q, k)) = Borra(pet[q], k)
    BY <1>5, TomoCuenta
<1>7. Cardinality(Tomas(pet2, k) \cup Tomo(pet, q, k)) =
          Cardinality(Tomas(pet2, k)) + Cardinality(Tomo(pet, q, k))
              - Cardinality(Tomas(pet2, k) \cap Tomo(pet, q, k))
    BY <1>4, <1>6, FS_Union
<1>8. Cardinality({}) = 0
    BY FS_EmptySet
<1>9. Cardinality(Tomas(pet, k)) =
          Cardinality(Tomas(pet2, k)) + Borra(pet[q], k) - 0
    BY <1>1, <1>2, <1>6, <1>7, <1>8
<1>10. QED
    BY <1>4, <1>5, <1>9

LEMMA NadieTomo ==
    ASSUME NEW pet, NEW k, \A q \in Peticiones : k \notin DOMAIN pet[q].borra
    PROVE  Cardinality(Tomas(pet, k)) = 0
<1>1. Tomas(pet, k) = {}
    BY DEF Tomas, Tomo
<1>2. QED
    BY <1>1, FS_EmptySet

\* Cards are counted.
LEMMA ContadasNat ==
    ASSUME NEW p, NEW filas \in SUBSET Incidencias, NEW k
    PROVE  Contadas(p, filas, k) \in Nat
<1> DEFINE D == {g \in filas : Multa(Carta[g].equipo, Carta[g].tipo, p) = k}
           I == {Carta[f] : f \in D}
           f == [x \in D |-> Carta[x]]
<1>1. IsFiniteSet(D)
    BY TarifasAssumption, FS_Subset
<1>2. f \in Surjection(D, I)
    BY DEF Surjection
<1>3. IsFiniteSet(I)
    BY <1>1, <1>2, FS_Surjection
<1>4. QED
    BY <1>3, FS_CardinalityType DEF Contadas

-----------------------------------------------------------------------------
(* Fines                                                                   *)

LEMMA FilaTipos ==
    ASSUME NEW c \in [Estados -> Nat]
    PROVE  /\ c["pendiente"] \in Nat /\ c["pagado"] \in Nat
           /\ c["cancelado"] \in Nat /\ c["pagado_cancelado"] \in Nat
           /\ Todas(c) \in Nat /\ Hechas(c) \in Nat /\ Todas(c) = c["pendiente"] + Hechas(c)
<1>1. /\ c["pendiente"] \in Nat /\ c["pagado"] \in Nat
      /\ c["cancelado"] \in Nat /\ c["pagado_cancelado"] \in Nat
    BY DEF Estados
<1>2. QED
    BY <1>1 DEF Todas, Hechas

LEMMA TopeNat ==
    ASSUME mayor \in [LasMultas -> Nat], NEW k \in LasMultas
    PROVE  Tope(k) \in Nat
<1>1. mayor[k] \in Nat
    BY Zenon
<1>2. QED
    BY <1>1 DEF Tope

\* aplicarMultasDePartido makes what is missing of the cards of the acta, of each kind.
LEMMA DeTarjetasBien ==
    ASSUME TypeOK, NEW p \in Partidos
    PROVE  LET D == DeTarjetas(p, tarjetas[p])
           IN  /\ D \in DeMulta(p)
               /\ \A k \in MultasDe(p) :
                      \/ D[k] = 0
                      \/ /\ k.tarifa \in DeTarjeta
                         /\ D[k] + Hechas(cobros[k]) = Contadas(p, tarjetas[p], k)
<1> DEFINE D == DeTarjetas(p, tarjetas[p])
<1>1. ASSUME NEW k \in MultasDe(p)
      PROVE  /\ D[k] \in Nat
             /\ \/ D[k] = 0
                \/ /\ k.tarifa \in DeTarjeta
                   /\ D[k] + Hechas(cobros[k]) = Contadas(p, tarjetas[p], k)
    <2> DEFINE n == Contadas(p, tarjetas[p], k)
    <2>1. k \in Cobros
        BY MultasAparte
    <2>2. cobros \in [Cobros -> [Estados -> Nat]] /\ tarjetas[p] \in SUBSET Incidencias
        BY DEF TypeOK
    <2>3. Saldadas(k) = Hechas(cobros[k])
        BY <2>1, <2>2, FilasSon DEF Saldadas
    <2>4. n \in Nat /\ Hechas(cobros[k]) \in Nat
        BY <2>1, <2>2, ContadasNat, FilaTipos
    <2>5. D[k] = IF tarifa[k.tarifa] # "activa" \/ k.tarifa \notin DeTarjeta THEN 0
                 ELSE IF n > Saldadas(k) THEN n - Saldadas(k) ELSE 0
        BY DEF DeTarjetas
    <2> HIDE DEF n, D
    <2>6. QED
        BY <2>3, <2>4, <2>5 DEF n
<1>2. D = [k \in MultasDe(p) |-> D[k]]
    BY DEF DeTarjetas
<1> HIDE DEF D
<1>3. D \in DeMulta(p)
    BY <1>1, <1>2 DEF DeMulta
<1>4. QED
    BY <1>1, <1>3 DEF D

\* aplicarMultaWalkover makes one, unless it has been settled.
LEMMA DeWalkoverBien ==
    ASSUME TypeOK, NEW p \in Partidos, NEW i
    PROVE  LET D == DeWalkover(p, i)
           IN  /\ D \in DeMulta(p)
               /\ \A k \in MultasDe(p) :
                      D[k] = 0 \/ (/\ k.tarifa = "MULTA_WALKOVER"
                                   /\ D[k] = 1 /\ Hechas(cobros[k]) = 0)
<1> DEFINE D == DeWalkover(p, i)
<1>1. ASSUME NEW k \in MultasDe(p)
      PROVE  /\ D[k] \in Nat
             /\ D[k] = 0 \/ (/\ k.tarifa = "MULTA_WALKOVER"
                             /\ D[k] = 1 /\ Hechas(cobros[k]) = 0)
    <2>1. k \in Cobros
        BY MultasAparte
    <2>2. cobros \in [Cobros -> [Estados -> Nat]]
        BY DEF TypeOK
    <2>3. Saldadas(k) = Hechas(cobros[k])
        BY <2>1, <2>2, FilasSon DEF Saldadas
    <2>4. QED
        BY <2>3 DEF DeWalkover, Multa
<1>2. D = [k \in MultasDe(p) |-> D[k]]
    BY DEF DeWalkover
<1> HIDE DEF D
<1>3. D \in DeMulta(p)
    BY <1>1, <1>2 DEF DeMulta
<1>4. QED
    BY <1>1, <1>3 DEF D

LEMMA NingunaBien ==
    ASSUME NEW p
    PROVE  Ninguna(p) \in DeMulta(p) /\ \A k \in MultasDe(p) : Ninguna(p)[k] = 0
    BY DEF Ninguna, DeMulta

\* What stays of a fine: what is settled, what a request took, and what is made.
Rehecha(k, n) == [cobros[k] EXCEPT !["pendiente"] = Tomadas(k) + n]

LEMMA TomadasNat ==
    ASSUME Pedidas, NEW k
    PROVE  /\ Naturales(peticion, k) /\ Tomadas(k) \in Nat
           /\ \A q \in Peticiones : k \in DOMAIN peticion[q].borra =>
                  peticion[q].op = "regenerar" /\ k \in MultasDe(peticion[q].que)
<1>1. ASSUME NEW q \in Peticiones
      PROVE  /\ Borra(peticion[q], k) \in Nat
             /\ k \in DOMAIN peticion[q].borra =>
                    peticion[q].op = "regenerar" /\ k \in MultasDe(peticion[q].que)
    <2>1. Bien(peticion[q], partido)
        BY DEF Pedidas
    <2>2. CASE peticion[q].borra = <<>>
        BY <2>2 DEF Borra
    <2>3. CASE peticion[q].op = "regenerar" /\ peticion[q].borra \in DeMulta(peticion[q].que)
        <3>1. DOMAIN peticion[q].borra = MultasDe(peticion[q].que)
            BY <2>3 DEF DeMulta
        <3>2. ASSUME k \in DOMAIN peticion[q].borra
              PROVE  peticion[q].borra[k] \in Nat
            BY <2>3, <3>1, <3>2 DEF DeMulta
        <3>3. QED
            BY <2>3, <3>1, <3>2 DEF Borra
    <2>4. QED
        BY <2>1, <2>2, <2>3 DEF Bien, Libre
<1>2. Naturales(peticion, k)
    BY <1>1 DEF Naturales
<1>3. QED
    BY <1>1, <1>2, TomadasSon, TomasFinitas

LEMMA MultarDa ==
    ASSUME IInv, NEW p \in Partidos, NEW crea \in DeMulta(p), Multar(p, crea)
    PROVE  /\ cobros' \in [Cobros -> [Estados -> Nat]] /\ eventos' \in 0..MaxEventos
           /\ \A k \in Cobros :
                  \/ cobros'[k] = cobros[k]
                  \/ k \in MultasDe(p) /\ cobros'[k] = Rehecha(k, crea[k])
<1>1. TypeOK /\ Pedidas /\ TomadasHay
    BY DEF IInv
<1>2. cobros \in [Cobros -> [Estados -> Nat]] /\ eventos \in 0..MaxEventos
    BY <1>1 DEF TypeOK
<1>3. eventos' \in 0..MaxEventos
    BY <1>2, TarifasAssumption DEF Multar, Gasta
<1>4. CASE UNCHANGED cobros
    BY <1>2, <1>3, <1>4
<1>5. CASE cobros' = [k \in Cobros |-> IF k \in MultasDe(p)
           THEN [cobros[k] EXCEPT !["pendiente"] = @ - Pendientes(k) + crea[k]] ELSE cobros[k]]
    <2>1. ASSUME NEW k \in Cobros, k \in MultasDe(p)
          PROVE  cobros'[k] = Rehecha(k, crea[k]) /\ cobros'[k] \in [Estados -> Nat]
        <3>1. cobros[k] \in [Estados -> Nat]
            BY <1>2
        <3>2. cobros[k]["pendiente"] \in Nat /\ Tomadas(k) \in Nat /\ crea[k] \in Nat
            BY <1>1, <2>1, <3>1, FilaTipos, TomadasNat DEF DeMulta
        <3>3. cobros[k]["pendiente"] - Pendientes(k) + crea[k] = Tomadas(k) + crea[k]
            BY <3>2 DEF Pendientes
        <3>4. cobros'[k] =
                  [cobros[k] EXCEPT !["pendiente"] = cobros[k]["pendiente"] - Pendientes(k) + crea[k]]
            BY <1>5, <2>1, <3>1
        <3>5. cobros'[k] = Rehecha(k, crea[k])
            BY <3>3, <3>4 DEF Rehecha
        <3>6. Tomadas(k) + crea[k] \in Nat
            BY <3>2
        <3>7. QED
            BY <3>1, <3>5, <3>6 DEF Rehecha
    <2>2. \A k \in Cobros : k \notin MultasDe(p) => cobros'[k] = cobros[k]
        BY <1>5
    <2>3. \A k \in Cobros : cobros'[k] \in [Estados -> Nat]
        BY <1>2, <2>1, <2>2
    <2>4. cobros' \in [Cobros -> [Estados -> Nat]]
        BY <1>5, <2>3
    <2>5. QED
        BY <1>3, <2>1, <2>2, <2>4
<1>6. QED
    BY <1>4, <1>5 DEF Multar

-----------------------------------------------------------------------------
(* Requests that come and go                                               *)

\* A request that does not fine takes the place of another, or of none.
LEMMA PeticionCambia ==
    ASSUME Pedidas, UnoSolo, NEW q \in Peticiones, NEW n, peticion' = [peticion EXCEPT ![q] = n],
           n.op # "regenerar", n.borra = <<>>, Bien(n, partido),
           UNCHANGED <<partido, cruces>>
    PROVE  /\ Pedidas' /\ UnoSolo'
           /\ \A r \in Peticiones : \A p : Regenera(r, p)' =>
                  Regenera(r, p) /\ peticion'[r] = peticion[r] /\ r # q
           /\ \A r \in Peticiones \ {q} : peticion'[r] = peticion[r]
           /\ peticion'[q] = n
           /\ \A k : /\ Tomadas(k) = Tomadas(k)' + Borra(peticion[q], k)
                     /\ Tomadas(k) \in Nat /\ Tomadas(k)' \in Nat /\ Borra(peticion[q], k) \in Nat
<1>1. DOMAIN peticion = Peticiones /\ \A r \in Peticiones : Bien(peticion[r], partido)
    BY DEF Pedidas
<1>2. /\ DOMAIN peticion' = Peticiones /\ peticion'[q] = n
      /\ \A r \in Peticiones \ {q} : peticion'[r] = peticion[r]
    BY <1>1
<1>3. Pedidas'
    BY <1>1, <1>2 DEF Pedidas
<1>4. \A r \in Peticiones : \A p : Regenera(r, p)' =>
          Regenera(r, p) /\ peticion'[r] = peticion[r] /\ r # q
    BY <1>2 DEF Regenera
<1>5. UnoSolo'
    BY <1>4 DEF UnoSolo
<1>6. ASSUME NEW k
      PROVE  /\ Tomadas(k) = Tomadas(k)' + Borra(peticion[q], k)
             /\ Tomadas(k) \in Nat /\ Tomadas(k)' \in Nat /\ Borra(peticion[q], k) \in Nat
    <2>1. Naturales(peticion, k) /\ Tomadas(k) \in Nat
        BY TomadasNat
    <2>2. k \notin DOMAIN peticion'[q].borra
        BY <1>2
    <2>3. Cardinality(Tomas(peticion, k)) = Cardinality(Tomas(peticion', k)) + Borra(peticion[q], k)
        <3> DEFINE otras == peticion'
        <3>1. (\A r \in Peticiones \ {q} : otras[r] = peticion[r]) /\ k \notin DOMAIN otras[q].borra
            BY <1>2, <2>2
        <3> HIDE DEF otras
        <3>2. Cardinality(Tomas(peticion, k)) = Cardinality(Tomas(otras, k)) + Borra(peticion[q], k)
            BY <2>1, <3>1, TomasSin
        <3>3. QED
            BY <3>2 DEF otras
    <2>4. Naturales(peticion', k)
        BY <1>2, <2>1, <2>2 DEF Naturales, Borra
    <2>5. Tomadas(k) = Cardinality(Tomas(peticion, k)) /\ Tomadas(k)' = Cardinality(Tomas(peticion', k))
        BY DEF Tomadas, LasQueTomo, Tomas, Tomo
    <2>6. Cardinality(Tomas(peticion', k)) \in Nat
        BY <2>4, TomasFinitas
    <2>7. QED
        BY <2>1, <2>3, <2>5, <2>6 DEF Naturales
<1>7. QED
    BY <1>2, <1>3, <1>4, <1>5, <1>6

LEMMA ActaQuieta ==
    ASSUME ActaContada, UNCHANGED <<partido, tarjetas, mayor>>
    PROVE  ActaContada'
    BY DEF ActaContada, Contadas

\* It comes, or it aborts: nothing is written.
LEMMA SinEscribir ==
    ASSUME IInv, TypeOK', NEW q \in Peticiones, NEW n, peticion' = [peticion EXCEPT ![q] = n],
           n.op # "regenerar", n.borra = <<>>, Bien(n, partido),
           n.op \in Generan => \A k \in LasCuotas \cap DOMAIN n.crea : Filas(k, Estados) = 0,
           UNCHANGED <<acta, cobros, cruces>>
    PROVE  IInv'
<1>1. TypeOK /\ Pedidas /\ UnoSolo /\ UNCHANGED <<partido, tarjetas, mayor, cobros, cruces>>
    BY DEF IInv, acta
<1>2. /\ Pedidas' /\ UnoSolo'
      /\ \A r \in Peticiones : \A p : Regenera(r, p)' => Regenera(r, p) /\ peticion'[r] = peticion[r]
      /\ \A r \in Peticiones \ {q} : peticion'[r] = peticion[r]
      /\ peticion'[q] = n
      /\ \A k : /\ Tomadas(k) = Tomadas(k)' + Borra(peticion[q], k)
                /\ Tomadas(k) \in Nat /\ Tomadas(k)' \in Nat /\ Borra(peticion[q], k) \in Nat
    BY <1>1, PeticionCambia
<1>3. \A k \in Cobros : cobros[k]["pendiente"] \in Nat
    BY <1>1, FilaTipos DEF TypeOK
<1>4. TomadasHay'
    <2>1. ASSUME NEW k \in Cobros
          PROVE  Tomadas(k)' <= cobros'[k]["pendiente"]
        <3>1. Tomadas(k) <= cobros[k]["pendiente"]
            BY DEF IInv, TomadasHay
        <3>2. QED
            BY <1>1, <1>2, <1>3, <3>1
    <2>2. QED
        BY <2>1 DEF TomadasHay
<1>5. ActaContada'
    BY <1>1, ActaQuieta DEF IInv
<1>6. EnVueloAcotada'
    BY <1>1, <1>2 DEF IInv, EnVueloAcotada, Tope
<1>7. MultasBien' /\ CuotasBien'
    BY <1>1 DEF IInv, MultasBien, CuotasBien, Tope
<1>8. CuotaSinCancelar'
    <2>1. ASSUME n.op \in Generan, NEW k \in LasCuotas \cap DOMAIN n.crea
          PROVE  cobros[k]["cancelado"] = 0 /\ cobros[k]["pagado_cancelado"] = 0
        <3>1. cobros[k] \in [Estados -> Nat] /\ k \in Cobros
            BY <1>1, MultasAparte DEF TypeOK
        <3>2. Todas(cobros[k]) = 0
            BY <1>1, <2>1, <3>1, FilasSon DEF TypeOK
        <3> DEFINE c == cobros[k]
        <3>3. /\ c["pendiente"] \in Nat /\ c["pagado"] \in Nat
              /\ c["cancelado"] \in Nat /\ c["pagado_cancelado"] \in Nat
            BY <3>1, FilaTipos
        <3>4. c["pendiente"] + c["pagado"] + c["cancelado"] + c["pagado_cancelado"] = 0
            BY <3>2 DEF Todas
        <3> HIDE DEF c
        <3>5. c["cancelado"] = 0 /\ c["pagado_cancelado"] = 0
            BY <3>3, <3>4
        <3>6. QED
            BY <3>5 DEF c
    <2>2. QED
        BY <1>1, <1>2, <2>1 DEF IInv, CuotaSinCancelar
<1>9. QED
    BY <1>2, <1>4, <1>5, <1>6, <1>7, <1>8 DEF IInv

LEMMA LibreBien == /\ Libre.op = "libre" /\ Libre.borra = <<>> /\ \A pa : Bien(Libre, pa)
    BY DEF Libre, Bien

\* The fines of regenerarMultas are written: the rows it took go, those it made come.
LEMMA EscribirMultasBien ==
    ASSUME IInv, NEW q \in Peticiones, EscribirMultas(q), TypeOK'
    PROVE  IInv'
<1> DEFINE r == peticion[q]
           p == r.que
<1>1. TypeOK /\ Pedidas /\ UnoSolo /\ UNCHANGED <<partido, tarjetas, mayor, cruces>>
    BY DEF IInv, EscribirMultas, acta
<1>2. r.op = "regenerar" /\ p \in Partidos /\ r.borra \in DeMulta(p) /\ r.crea \in DeMulta(p)
    BY <1>1 DEF EscribirMultas, Pedidas, Bien, Libre, Generan
<1>3. peticion' = [peticion EXCEPT ![q] = Libre]
    BY DEF EscribirMultas, Acaba
<1>4. /\ Pedidas' /\ UnoSolo'
      /\ \A s \in Peticiones : \A o : Regenera(s, o)' =>
             Regenera(s, o) /\ peticion'[s] = peticion[s] /\ s # q
      /\ \A s \in Peticiones \ {q} : peticion'[s] = peticion[s]
      /\ peticion'[q] = Libre
      /\ \A k : /\ Tomadas(k) = Tomadas(k)' + Borra(peticion[q], k)
                /\ Tomadas(k) \in Nat /\ Tomadas(k)' \in Nat /\ Borra(peticion[q], k) \in Nat
    BY <1>1, <1>3, LibreBien, PeticionCambia
<1>5. \A k \in Cobros : cobros[k] \in [Estados -> Nat] /\ cobros'[k] \in [Estados -> Nat]
    BY <1>1 DEF TypeOK
<1>6. ASSUME NEW k \in MultasDe(p)
      PROVE  /\ k \in Cobros /\ Borra(r, k) = r.borra[k] /\ r.crea[k] \in Nat
             /\ cobros'[k] = [cobros[k] EXCEPT !["pendiente"] = @ - r.borra[k] + r.crea[k]]
    <2>1. k \in Cobros
        BY MultasAparte
    <2>2. DOMAIN r.borra = MultasDe(p) /\ DOMAIN r.crea = MultasDe(p) /\ r.crea[k] \in Nat
        BY <1>2 DEF DeMulta
    <2>3. QED
        BY <2>1, <2>2 DEF EscribirMultas, Borra
<1>7. \A k \in Cobros : k \notin MultasDe(p) => cobros'[k] = cobros[k] /\ Borra(r, k) = 0
    <2>1. DOMAIN r.borra = MultasDe(p) /\ DOMAIN r.crea = MultasDe(p)
        BY <1>2 DEF DeMulta
    <2>2. QED
        BY <2>1 DEF EscribirMultas, Borra
<1> HIDE DEF r, p
<1>8. ASSUME NEW k \in MultasDe(p)
      PROVE  /\ cobros'[k]["pendiente"] = cobros[k]["pendiente"] - r.borra[k] + r.crea[k]
             /\ Todas(cobros'[k]) = Todas(cobros[k]) - r.borra[k] + r.crea[k]
             /\ Todas(cobros[k]) \in Nat /\ r.borra[k] \in Nat
             /\ r.crea[k] \in Nat /\ cobros[k]["pendiente"] \in Nat
    <2>1. cobros[k] \in [Estados -> Nat] /\ k \in Cobros
        BY <1>5, <1>6
    <2>2. "pendiente" \in Estados
        BY DEF Estados
    <2>3. r.borra[k] \in Nat
        BY <1>2 DEF DeMulta
    <2>4. /\ cobros'[k]["pendiente"] = cobros[k]["pendiente"] - r.borra[k] + r.crea[k]
          /\ cobros'[k]["pagado"] = cobros[k]["pagado"]
          /\ cobros'[k]["cancelado"] = cobros[k]["cancelado"]
          /\ cobros'[k]["pagado_cancelado"] = cobros[k]["pagado_cancelado"]
        BY <1>6, <2>1 DEF Estados
    <2>5. /\ cobros[k]["pendiente"] \in Nat /\ cobros[k]["pagado"] \in Nat
          /\ cobros[k]["cancelado"] \in Nat /\ cobros[k]["pagado_cancelado"] \in Nat
        BY <2>1, FilaTipos
    <2>6. r.crea[k] \in Nat
        BY <1>6
    <2>7. QED
        BY <2>3, <2>4, <2>5, <2>6 DEF Todas
<1>9. TomadasHay'
    <2>1. ASSUME NEW k \in Cobros
          PROVE  Tomadas(k)' <= cobros'[k]["pendiente"]
        <3>1. Tomadas(k) <= cobros[k]["pendiente"] /\ cobros[k]["pendiente"] \in Nat
            BY <1>5, FilaTipos DEF IInv, TomadasHay
        <3>2. /\ Tomadas(k) = Tomadas(k)' + Borra(r, k)
              /\ Tomadas(k) \in Nat /\ Tomadas(k)' \in Nat /\ Borra(r, k) \in Nat
            BY <1>4 DEF r
        <3>3. CASE k \in MultasDe(p)
            <4>1. /\ cobros'[k]["pendiente"] = cobros[k]["pendiente"] - r.borra[k] + r.crea[k]
                  /\ Borra(r, k) = r.borra[k] /\ r.crea[k] \in Nat
                BY <1>6, <1>8, <3>3
            <4>2. QED
                BY <3>1, <3>2, <4>1
        <3>4. CASE k \notin MultasDe(p)
            BY <1>7, <3>1, <3>2, <3>4
        <3>5. QED
            BY <3>3, <3>4
    <2>2. QED
        BY <2>1 DEF TomadasHay
<1>10. ActaContada'
    BY <1>1, ActaQuieta DEF IInv
<1>11. MultasBien'
    <2>1. ASSUME NEW k \in LasMultas, k.por \notin cruces
          PROVE  Todas(cobros'[k]) <= Tope(k)
        <3>1. k \in Cobros /\ k.por \in Partidos /\ k \in MultasDe(k.por)
            BY MultasAparte
        <3>2. CASE k \in MultasDe(p)
            <4>1. k.por = p /\ Regenera(q, p)
                BY <1>2, <3>2, MultasAparte DEF Regenera, r, p
            <4>2. Todas(cobros[k]) + r.crea[k] <= Tope(k) + r.borra[k]
                BY <2>1, <3>1, <4>1 DEF IInv, EnVueloAcotada, r
            <4>3. Tope(k) \in Nat
                BY <1>1, TopeNat DEF TypeOK
            <4>4. QED
                BY <1>8, <3>2, <4>2, <4>3
        <3>3. CASE k \notin MultasDe(p)
            BY <1>7, <2>1, <3>1, <3>3 DEF IInv, MultasBien
        <3>4. QED
            BY <3>2, <3>3
    <2>2. QED
        BY <1>1, <2>1 DEF MultasBien, Tope
<1>12. EnVueloAcotada'
    <2>1. ASSUME NEW s \in Peticiones, NEW o \in Partidos \ cruces, Regenera(s, o)',
                 NEW k \in MultasDe(o)
          PROVE  Todas(cobros'[k]) + peticion'[s].crea[k] <= Tope(k) + peticion'[s].borra[k]
        <3>1. Regenera(s, o) /\ peticion'[s] = peticion[s] /\ s # q
            BY <1>4, <2>1
        <3>2. o # p
            BY <1>1, <1>2, <2>1, <3>1 DEF UnoSolo, Regenera, r, p
        <3>3. k \notin MultasDe(p) /\ k \in Cobros
            BY <2>1, <3>2, MultasAparte
        <3>4. QED
            BY <1>7, <2>1, <3>1, <3>3 DEF IInv, EnVueloAcotada
    <2>2. QED
        BY <1>1, <2>1 DEF EnVueloAcotada, Tope, MultasDe
<1>13. \A k \in LasCuotas : cobros'[k] = cobros[k]
    BY <1>7, MultasAparte
<1>14. CuotasBien'
    BY <1>1, <1>13 DEF IInv, CuotasBien
<1>15. CuotaSinCancelar'
    BY <1>1, <1>4, <1>13 DEF IInv, CuotaSinCancelar, Libre, Generan
<1>16. QED
    BY <1>4, <1>9, <1>10, <1>11, <1>12, <1>14, <1>15 DEF IInv

LEMMA RegeneraBien ==
    ASSUME Pedidas, NEW q \in Peticiones, NEW p \in Partidos, Regenera(q, p)
    PROVE  /\ peticion[q].borra \in DeMulta(p) /\ peticion[q].crea \in DeMulta(p)
           /\ partido[p] # "no" /\ peticion[q] # Libre
           /\ DOMAIN peticion[q].borra = MultasDe(p) /\ DOMAIN peticion[q].crea = MultasDe(p)
           /\ \A k \in MultasDe(p) : peticion[q].borra[k] \in Nat /\ peticion[q].crea[k] \in Nat
<1>1. /\ peticion[q].borra \in DeMulta(p) /\ peticion[q].crea \in DeMulta(p)
      /\ partido[p] # "no" /\ peticion[q] # Libre
    BY DEF Pedidas, Regenera, Bien, Libre, Generan
<1>2. QED
    BY <1>1 DEF DeMulta

-----------------------------------------------------------------------------
(* The office                                                              *)

\* There are no more charges of any kind than there were, and the requests in flight go on.
LEMMA NoHayMas ==
    ASSUME IInv, TypeOK', UNCHANGED <<mayor, peticion>>, cruces \subseteq cruces',
           \A p \in Partidos : partido[p] # "no" => partido'[p] # "no",
           \A k \in Cobros : Todas(cobros'[k]) <= Todas(cobros[k]),
           \A k \in LasCuotas : cobros'[k]["pendiente"] + cobros'[k]["pagado"] <= 1,
           ActaContada', TomadasHay', CuotaSinCancelar'
    PROVE  IInv'
<1>1. TypeOK /\ Pedidas /\ peticion' = peticion /\ mayor' = mayor
    BY DEF IInv
<1>2. \A k \in Cobros : Todas(cobros[k]) \in Nat /\ Todas(cobros'[k]) \in Nat
    BY <1>1, FilaTipos DEF TypeOK
<1>3. Pedidas'
    BY <1>1 DEF Pedidas, Bien
<1>4. UnoSolo'
    BY <1>1 DEF IInv, UnoSolo, Regenera
<1>5. EnVueloAcotada'
    <2>1. ASSUME NEW q \in Peticiones, NEW p \in Partidos \ cruces', Regenera(q, p),
                 NEW k \in MultasDe(p)
          PROVE  Todas(cobros'[k]) + peticion[q].crea[k] <= Tope(k) + peticion[q].borra[k]
        <3>1. k \in Cobros /\ k \in LasMultas
            BY MultasAparte
        <3>2. Tope(k) \in Nat /\ peticion[q].crea[k] \in Nat /\ peticion[q].borra[k] \in Nat
            BY <1>1, <2>1, <3>1, TopeNat, RegeneraBien DEF TypeOK
        <3>3. Todas(cobros[k]) + peticion[q].crea[k] <= Tope(k) + peticion[q].borra[k]
            BY <2>1 DEF IInv, EnVueloAcotada
        <3>4. Todas(cobros'[k]) <= Todas(cobros[k])
            BY <3>1
        <3>5. QED
            BY <1>2, <3>1, <3>2, <3>3, <3>4
    <2>2. QED
        BY <1>1, <2>1 DEF EnVueloAcotada, Regenera, Tope, MultasDe
<1>6. MultasBien'
    <2>1. ASSUME NEW k \in LasMultas, k.por \notin cruces'
          PROVE  Todas(cobros'[k]) <= Tope(k)
        <3>1. k \in Cobros /\ Tope(k) \in Nat
            BY <1>1, MultasAparte, TopeNat DEF TypeOK
        <3>2. Todas(cobros[k]) <= Tope(k) /\ Todas(cobros'[k]) <= Todas(cobros[k])
            BY <2>1, <3>1 DEF IInv, MultasBien
        <3>3. QED
            BY <1>2, <3>1, <3>2
    <2>2. QED
        BY <1>1, <2>1 DEF MultasBien, Tope
<1>7. CuotasBien'
    <2>1. ASSUME NEW k \in LasCuotas, k \notin cruces'
          PROVE  Todas(cobros'[k]) <= 1
        <3>1. k \in Cobros
            BY MultasAparte
        <3>2. Todas(cobros[k]) <= 1 /\ Todas(cobros'[k]) <= Todas(cobros[k])
            BY <2>1, <3>1 DEF IInv, CuotasBien
        <3>3. QED
            BY <1>2, <3>1, <3>2
    <2>2. QED
        BY <2>1 DEF CuotasBien
<1>8. QED
    BY <1>3, <1>4, <1>5, <1>6, <1>7 DEF IInv

\* Who took what does not change while the requests in flight do not.
LEMMA TomadasQuietas ==
    ASSUME UNCHANGED peticion
    PROVE  \A k : Tomadas(k)' = Tomadas(k)
    BY DEF Tomadas, LasQueTomo

\* Nor does anything happen to the charges.
LEMMA CobrosQuietos ==
    ASSUME IInv, TypeOK', ActaContada', UNCHANGED <<mayor, peticion, cobros, cruces>>,
           \A p \in Partidos : partido[p] # "no" => partido'[p] # "no"
    PROVE  IInv'
<1>1. TypeOK /\ TomadasHay /\ CuotaSinCancelar /\ CuotasBien
    BY DEF IInv
<1>2. \A k \in Cobros : Todas(cobros'[k]) <= Todas(cobros[k])
    BY <1>1, FilaTipos DEF TypeOK
<1>3. TomadasHay'
    BY <1>1, TomadasQuietas DEF TomadasHay
<1>4. CuotaSinCancelar'
    BY <1>1 DEF CuotaSinCancelar
<1>5. \A k \in LasCuotas : cobros'[k]["pendiente"] + cobros'[k]["pagado"] <= 1
    BY <1>1 DEF CuotasBien
<1>6. QED
    BY <1>2, <1>3, <1>4, <1>5, NoHayMas

\* marcarPagado, revertirPago and cancelado move one charge from a state to another.
LEMMA PasoDa ==
    ASSUME NEW c \in [Estados -> Nat], NEW s \in Pasos, c[s[1]] > 0
    PROVE  LET d == [c EXCEPT ![s[1]] = @ - 1, ![s[2]] = @ + 1]
           IN  /\ d \in [Estados -> Nat] /\ Todas(d) = Todas(c)
               /\ \/ d["pendiente"] = c["pendiente"] - 1 /\ s[1] = "pendiente"
                  \/ d["pendiente"] >= c["pendiente"] /\ s[1] # "pendiente"
               /\ \/ d["pendiente"] + d["pagado"] <= c["pendiente"] + c["pagado"]
                  \/ /\ s[1] \notin Vigentes /\ s[2] \in Vigentes
                     /\ d["pendiente"] + d["pagado"] = c["pendiente"] + c["pagado"] + 1
<1> DEFINE d == [c EXCEPT ![s[1]] = @ - 1, ![s[2]] = @ + 1]
           sube(a, b) == /\ s[1] = a /\ s[2] = b /\ d[a] = c[a] - 1 /\ d[b] = c[b] + 1
                         /\ \A e \in Estados \ {a, b} : d[e] = c[e]
<1>1. PICK a \in Estados, b \in Estados : a # b /\ sube(a, b) /\ <<a, b>> \in Pasos
    <2>1. s[1] \in Estados /\ s[2] \in Estados /\ s[1] # s[2] /\ s = <<s[1], s[2]>>
        BY DEF Pasos, Estados
    <2>2. QED
        BY <2>1
<1>2. /\ c["pendiente"] \in Nat /\ c["pagado"] \in Nat
      /\ c["cancelado"] \in Nat /\ c["pagado_cancelado"] \in Nat
    BY FilaTipos
<1>3. d = [e \in Estados |-> d[e]]
    OBVIOUS
<1> HIDE DEF d
<1>4. \A e \in Estados : d[e] \in Nat
    <2>1. c[a] \in Nat /\ c[b] \in Nat /\ c[a] > 0
        BY <1>1
    <2>2. QED
        BY <1>1, <2>1
<1>5. d \in [Estados -> Nat]
    BY <1>3, <1>4
<1>6. Todas(d) = Todas(c)
    BY <1>1, <1>2 DEF Todas, Estados
<1>7. \/ d["pendiente"] = c["pendiente"] - 1 /\ s[1] = "pendiente"
      \/ d["pendiente"] >= c["pendiente"] /\ s[1] # "pendiente"
    BY <1>1, <1>2 DEF Estados
<1>8. \/ d["pendiente"] + d["pagado"] <= c["pendiente"] + c["pagado"]
      \/ /\ s[1] \notin Vigentes /\ s[2] \in Vigentes
         /\ d["pendiente"] + d["pagado"] = c["pendiente"] + c["pagado"] + 1
    BY <1>1, <1>2 DEF Estados, Pasos, Vigentes
<1>9. QED
    BY <1>5, <1>6, <1>7, <1>8 DEF d

\* A charge that is there, and that no request is deleting
LEMMA HayDa ==
    ASSUME TypeOK, Pedidas, TomadasHay, NEW k \in Cobros, NEW e \in Estados, Hay(k, e)
    PROVE  /\ cobros[k][e] \in Nat /\ cobros[k][e] > 0
           /\ e = "pendiente" => Tomadas(k) <= cobros[k]["pendiente"] - 1
<1>1. cobros[k] \in [Estados -> Nat]
    BY DEF TypeOK
<1>2. cobros[k][e] \in Nat /\ cobros[k]["pendiente"] \in Nat /\ Tomadas(k) \in Nat
    BY <1>1, FilaTipos, TomadasNat
<1>3. QED
    BY <1>2 DEF Hay, Pendientes

LEMMA CambiarCobroBien ==
    ASSUME IInv, NEW k \in Cobros, NEW s \in Pasos, CambiarCobro(k, s)
    PROVE  IInv'
<1> DEFINE d == [cobros[k] EXCEPT ![s[1]] = @ - 1, ![s[2]] = @ + 1]
<1>1. /\ TypeOK /\ Pedidas /\ TomadasHay /\ ActaContada /\ CuotaSinCancelar /\ CuotasBien
      /\ UNCHANGED <<calendario, partido, tarjetas, mayor, peticion>> /\ s[1] \in Estados
    BY DEF IInv, CambiarCobro, acta, Pasos, Estados
<1>2. \A j \in Cobros : cobros[j] \in [Estados -> Nat]
    BY <1>1 DEF TypeOK
<1>3. /\ cobros[k][s[1]] > 0
      /\ s[1] = "pendiente" => Tomadas(k) <= cobros[k]["pendiente"] - 1
    BY <1>1, HayDa DEF CambiarCobro
<1>4. /\ d \in [Estados -> Nat] /\ Todas(d) = Todas(cobros[k])
      /\ \/ d["pendiente"] = cobros[k]["pendiente"] - 1 /\ s[1] = "pendiente"
         \/ d["pendiente"] >= cobros[k]["pendiente"] /\ s[1] # "pendiente"
      /\ \/ d["pendiente"] + d["pagado"] <= cobros[k]["pendiente"] + cobros[k]["pagado"]
         \/ /\ s[1] \notin Vigentes /\ s[2] \in Vigentes
            /\ d["pendiente"] + d["pagado"] = cobros[k]["pendiente"] + cobros[k]["pagado"] + 1
    BY <1>2, <1>3, PasoDa
<1>5. cobros' = [cobros EXCEPT ![k] = d]
    BY <1>1 DEF CambiarCobro, TypeOK
<1> HIDE DEF d
<1>6. cobros'[k] = d /\ \A j \in Cobros \ {k} : cobros'[j] = cobros[j]
    BY <1>1, <1>5 DEF TypeOK
<1>7. TypeOK'
    <2>1. cobros' \in [Cobros -> [Estados -> Nat]]
        BY <1>1, <1>4, <1>5 DEF TypeOK
    <2>2. cruces' \subseteq Partidos \cup LasCuotas /\ eventos' \in 0..MaxEventos
        BY <1>1, TarifasAssumption DEF CambiarCobro, Gasta, TypeOK
    <2>3. QED
        BY <1>1, <2>1, <2>2 DEF TypeOK, calendario
<1>8. ActaContada'
    BY <1>1, ActaQuieta
<1>9. TomadasHay'
    <2>1. ASSUME NEW j \in Cobros
          PROVE  Tomadas(j) <= cobros'[j]["pendiente"]
        <3>1. Tomadas(j) \in Nat /\ cobros[j]["pendiente"] \in Nat
            BY <1>1, <1>2, FilaTipos, TomadasNat
        <3>2. d["pendiente"] \in Nat
            BY <1>4, FilaTipos
        <3>3. Tomadas(j) <= cobros[j]["pendiente"]
            BY <1>1 DEF TomadasHay
        <3>4. QED
            BY <1>3, <1>4, <1>6, <3>1, <3>2, <3>3
    <2>2. QED
        BY <1>1, <2>1, TomadasQuietas DEF TomadasHay
<1>10. \A j \in Cobros : Todas(cobros'[j]) <= Todas(cobros[j])
    BY <1>2, <1>4, <1>6, FilaTipos
<1>11. \A j \in LasCuotas : cobros'[j]["pendiente"] + cobros'[j]["pagado"] <= 1
    <2>1. ASSUME k \in LasCuotas
          PROVE  d["pendiente"] + d["pagado"] <= 1
        <3>1. /\ cobros[k]["pendiente"] \in Nat /\ cobros[k]["pagado"] \in Nat
              /\ d["pendiente"] \in Nat /\ d["pagado"] \in Nat
            BY <1>2, <1>4, FilaTipos
        <3>2. cobros[k]["pendiente"] + cobros[k]["pagado"] <= 1
            BY <1>1, <2>1 DEF CuotasBien
        <3>3. CASE s[1] \notin Vigentes /\ s[2] \in Vigentes
            <4>1. ~ Filas(k, Vigentes) > 0
                BY <2>1, <3>3 DEF CambiarCobro, Repetida
            <4>2. Filas(k, Vigentes) = cobros[k]["pendiente"] + cobros[k]["pagado"]
                BY <1>1, FilasSon DEF TypeOK
            <4>3. QED
                BY <1>4, <3>1, <4>1, <4>2
        <3>4. QED
            BY <1>4, <3>1, <3>2, <3>3
    <2>2. QED
        BY <1>1, <1>6, <2>1, MultasAparte DEF CuotasBien
<1>12. CuotaSinCancelar'
    <2>1. ASSUME NEW q \in Peticiones, peticion[q].op \in Generan,
                 NEW j \in LasCuotas \cap DOMAIN peticion[q].crea, j \notin cruces'
          PROVE  j # k /\ j \notin cruces
        BY <2>1, LibreBien DEF CambiarCobro, EnVuelo, Generan
    <2>2. QED
        BY <1>1, <1>6, <2>1, MultasAparte DEF CuotaSinCancelar
<1>13. cruces \subseteq cruces'
    BY DEF CambiarCobro
<1>14. QED
    BY <1>1, <1>7, <1>8, <1>9, <1>10, <1>11, <1>12, <1>13, NoHayMas

LEMMA EliminarCobroBien ==
    ASSUME IInv, NEW k \in Cobros, NEW e \in Estados, EliminarCobro(k, e)
    PROVE  IInv'
<1> DEFINE d == [cobros[k] EXCEPT ![e] = @ - 1]
<1>1. /\ TypeOK /\ Pedidas /\ TomadasHay /\ ActaContada /\ CuotaSinCancelar /\ CuotasBien
      /\ UNCHANGED <<calendario, partido, tarjetas, mayor, peticion, cruces>>
    BY DEF IInv, EliminarCobro, acta
<1>2. \A j \in Cobros : cobros[j] \in [Estados -> Nat]
    BY <1>1 DEF TypeOK
<1>3. /\ cobros[k][e] \in Nat /\ cobros[k][e] > 0
      /\ e = "pendiente" => Tomadas(k) <= cobros[k]["pendiente"] - 1
    BY <1>1, HayDa DEF EliminarCobro
<1>4. /\ d \in [Estados -> Nat] /\ d[e] = cobros[k][e] - 1
      /\ \A f \in Estados \ {e} : d[f] = cobros[k][f]
    BY <1>2, <1>3
<1>5. cobros' = [cobros EXCEPT ![k] = d]
    BY <1>1 DEF EliminarCobro, TypeOK
<1> HIDE DEF d
<1>6. cobros'[k] = d /\ \A j \in Cobros \ {k} : cobros'[j] = cobros[j]
    BY <1>1, <1>5 DEF TypeOK
<1>7. TypeOK'
    <2>1. cobros' \in [Cobros -> [Estados -> Nat]]
        BY <1>1, <1>4, <1>5 DEF TypeOK
    <2>2. eventos' \in 0..MaxEventos
        BY <1>1, TarifasAssumption DEF EliminarCobro, Gasta, TypeOK
    <2>3. QED
        BY <1>1, <2>1, <2>2 DEF TypeOK, calendario
<1>8. ActaContada'
    BY <1>1, ActaQuieta
<1>9. \A f \in Estados : d[f] \in Nat /\ cobros[k][f] \in Nat /\ d[f] <= cobros[k][f]
    BY <1>2, <1>3, <1>4
<1>10. TomadasHay'
    <2>1. ASSUME NEW j \in Cobros
          PROVE  Tomadas(j) <= cobros'[j]["pendiente"]
        <3>1. Tomadas(j) \in Nat /\ Tomadas(j) <= cobros[j]["pendiente"]
            BY <1>1, TomadasNat DEF TomadasHay
        <3>2. QED
            BY <1>3, <1>4, <1>6, <3>1 DEF Estados
    <2>2. QED
        BY <1>1, <2>1, TomadasQuietas DEF TomadasHay
<1>11. \A j \in Cobros : Todas(cobros'[j]) <= Todas(cobros[j])
    <2>1. Todas(d) <= Todas(cobros[k])
        BY <1>9 DEF Todas, Estados
    <2>2. QED
        BY <1>2, <1>6, <2>1, FilaTipos
<1>12. \A j \in LasCuotas : cobros'[j]["pendiente"] + cobros'[j]["pagado"] <= 1
    <2>1. d["pendiente"] + d["pagado"] <= cobros[k]["pendiente"] + cobros[k]["pagado"]
        BY <1>9 DEF Estados
    <2>2. ASSUME k \in LasCuotas
          PROVE  d["pendiente"] + d["pagado"] <= 1
        <3>1. cobros[k]["pendiente"] + cobros[k]["pagado"] <= 1
            BY <1>1, <2>2 DEF CuotasBien
        <3>2. QED
            BY <1>9, <2>1, <3>1 DEF Estados
    <2>3. QED
        BY <1>1, <1>6, <2>2, MultasAparte DEF CuotasBien
<1>13. CuotaSinCancelar'
    <2>1. ASSUME NEW j \in Cobros, cobros[j]["cancelado"] = 0, cobros[j]["pagado_cancelado"] = 0
          PROVE  cobros'[j]["cancelado"] = 0 /\ cobros'[j]["pagado_cancelado"] = 0
        BY <1>6, <1>9, <2>1 DEF Estados
    <2>2. QED
        BY <1>1, <2>1, MultasAparte DEF CuotaSinCancelar
<1>14. QED
    BY <1>1, <1>7, <1>8, <1>10, <1>11, <1>12, <1>13, NoHayMas

\* An inscription is only taken out before anything is drawn: no fine is in flight.
LEMMA DesinscribirBien ==
    ASSUME IInv, NEW i \in Inscripciones, Desinscribir(i)
    PROVE  IInv'
<1> DEFINE nada == [e \in Estados |-> 0]
<1>1. /\ TypeOK /\ Pedidas /\ TomadasHay /\ ActaContada /\ CuotaSinCancelar /\ CuotasBien
      /\ UNCHANGED <<torneo, tarifa, hoy, partido, tarjetas, mayor, peticion, cruces, eventos>>
    BY DEF IInv, Desinscribir, acta
<1>2. /\ nada \in [Estados -> Nat] /\ Todas(nada) = 0
      /\ \A e \in Estados : nada[e] = 0
    BY DEF Todas, Estados
<1>3. \A k \in Cobros : cobros'[k] = nada \/ cobros'[k] = cobros[k]
    BY DEF Desinscribir
<1> HIDE DEF nada
<1>4. \A k \in Cobros : cobros[k] \in [Estados -> Nat]
    BY <1>1 DEF TypeOK
<1>5. TypeOK'
    <2>1. cobros' \in [Cobros -> [Estados -> Nat]]
        <3>1. \A k \in Cobros : cobros'[k] \in [Estados -> Nat]
            BY <1>2, <1>3, <1>4
        <3>2. cobros' = [k \in Cobros |-> cobros'[k]]
            BY DEF Desinscribir
        <3>3. QED
            BY <3>1, <3>2
    <2>2. insc' \in [Inscripciones ->
               [club : Clubes, desde : Meses, suspendida : BOOLEAN] \cup {Nada}]
        BY <1>1 DEF TypeOK, Desinscribir
    <2>3. QED
        BY <1>1, <2>1, <2>2 DEF TypeOK
<1>6. ActaContada'
    BY <1>1, ActaQuieta
<1>7. \A k \in Cobros : Todas(cobros'[k]) <= Todas(cobros[k])
    BY <1>2, <1>3, <1>4, FilaTipos
<1>8. TomadasHay'
    <2>1. ASSUME NEW k \in Cobros
          PROVE  Tomadas(k) = 0
        <3>1. ASSUME NEW q \in Peticiones, k \in DOMAIN peticion[q].borra
              PROVE  FALSE
            <4>1. Bien(peticion[q], partido)
                BY <1>1 DEF Pedidas
            <4>2. peticion[q].op = "regenerar"
                BY <1>1, <3>1, TomadasNat
            <4>3. QED
                BY <4>1, <4>2 DEF Bien, Libre, Generan, Desinscribir
        <3>2. QED
            BY <3>1, NadieTomo, TomadasSon
    <2>2. \A k \in Cobros : cobros'[k]["pendiente"] \in Nat
        BY <1>2, <1>3, <1>4, FilaTipos
    <2>3. \A k \in Cobros : 0 <= cobros'[k]["pendiente"]
        BY <2>2
    <2>4. QED
        BY <1>1, <2>1, <2>3, TomadasQuietas DEF TomadasHay
<1>9. \A k \in LasCuotas : cobros'[k]["pendiente"] + cobros'[k]["pagado"] <= 1
    <2>1. nada["pendiente"] + nada["pagado"] <= 1
        BY <1>2 DEF Estados
    <2>2. QED
        BY <1>1, <1>3, <2>1, MultasAparte DEF CuotasBien
<1>10. CuotaSinCancelar'
    BY <1>1, <1>2, <1>3, MultasAparte DEF CuotaSinCancelar, Estados
<1>11. QED
    BY <1>1, <1>5, <1>6, <1>7, <1>8, <1>9, <1>10, NoHayMas

-----------------------------------------------------------------------------
(* The acta                                                                *)

\* The fines of a match that no request is fining are all there to delete.
LEMMA NadieRegenera ==
    ASSUME Pedidas, NEW p \in Partidos, NEW k \in MultasDe(p),
           \A q \in Peticiones : ~Regenera(q, p)
    PROVE  Tomadas(k) = 0
<1>1. ASSUME NEW q \in Peticiones, k \in DOMAIN peticion[q].borra
      PROVE  FALSE
    <2>1. peticion[q].op = "regenerar" /\ k \in MultasDe(peticion[q].que)
        BY <1>1, TomadasNat
    <2>2. peticion[q].que = p
        BY <2>1, MultasAparte
    <2>3. QED
        BY <2>1, <2>2 DEF Regenera
<1>2. QED
    BY <1>1, NadieTomo, TomadasSon

LEMMA MaxDeDos ==
    ASSUME NEW a \in Nat, NEW b \in Nat
    PROVE  Max({a, b}) \in Nat /\ Max({a, b}) >= a /\ Max({a, b}) >= b
<1>1. Max({a, b}) = CHOOSE x \in {a, b} : \A y \in {a, b} : x >= y
    BY DEF Max
<1>2. \E x \in {a, b} : \A y \in {a, b} : x >= y
    OBVIOUS
<1>3. Max({a, b}) \in {a, b} /\ \A y \in {a, b} : Max({a, b}) >= y
    BY <1>1, <1>2
<1>4. QED
    BY <1>3

\* The fines of a match are made again.  They fit, and either nobody else is fining the
\* match or the request that is will be told.
LEMMA MultarBien ==
    ASSUME IInv, TypeOK', ActaContada', UNCHANGED peticion, cruces \subseteq cruces',
           NEW p \in Partidos, NEW crea \in DeMulta(p), Multar(p, crea),
           p \notin cruces' => \A q \in Peticiones : ~Regenera(q, p),
           \A o \in Partidos : partido[o] # "no" => partido'[o] # "no",
           \A k \in LasMultas : Tope(k) <= Tope(k)',
           \A k \in MultasDe(p) : crea[k] = 0 \/ crea[k] + Hechas(cobros[k]) <= Tope(k)'
    PROVE  IInv'
<1>1. TypeOK /\ Pedidas /\ TomadasHay /\ peticion' = peticion
    BY DEF IInv
<1>2. /\ cobros' \in [Cobros -> [Estados -> Nat]]
      /\ \A k \in Cobros : \/ cobros'[k] = cobros[k]
                           \/ k \in MultasDe(p) /\ cobros'[k] = Rehecha(k, crea[k])
    BY MultarDa
<1>3. \A k \in Cobros : /\ cobros[k] \in [Estados -> Nat]
                        /\ Todas(cobros[k]) \in Nat /\ Todas(cobros'[k]) \in Nat
    BY <1>1, <1>2, FilaTipos DEF TypeOK
<1>4. \A k \in LasMultas : k \in Cobros /\ Tope(k) \in Nat /\ Tope(k)' \in Nat
    <2>1. /\ mayor \in [LasMultas -> Nat] /\ mayor' \in [LasMultas -> Nat]
        BY <1>1 DEF TypeOK
    <2>2. \A k \in LasMultas : mayor[k] \in Nat /\ mayor'[k] \in Nat
        BY <2>1, Zenon
    <2>3. QED
        BY <2>2, MultasAparte DEF Tope
<1>5. ASSUME NEW k \in MultasDe(p), cobros'[k] = Rehecha(k, crea[k])
      PROVE  /\ cobros'[k]["pendiente"] = Tomadas(k) + crea[k]
             /\ Todas(cobros'[k]) = Tomadas(k) + crea[k] + Hechas(cobros[k])
             /\ Hechas(cobros[k]) \in Nat /\ crea[k] \in Nat /\ Tomadas(k) \in Nat
    <2>1. cobros[k] \in [Estados -> Nat] /\ crea[k] \in Nat /\ Tomadas(k) \in Nat
        BY <1>1, <1>3, MultasAparte, TomadasNat DEF DeMulta
    <2>2. /\ cobros'[k]["pendiente"] = Tomadas(k) + crea[k]
          /\ cobros'[k]["pagado"] = cobros[k]["pagado"]
          /\ cobros'[k]["cancelado"] = cobros[k]["cancelado"]
          /\ cobros'[k]["pagado_cancelado"] = cobros[k]["pagado_cancelado"]
        BY <1>5, <2>1 DEF Rehecha, Estados
    <2>3. /\ cobros[k]["pagado"] \in Nat /\ cobros[k]["cancelado"] \in Nat
          /\ cobros[k]["pagado_cancelado"] \in Nat /\ Hechas(cobros[k]) \in Nat
        BY <2>1, FilaTipos
    <2>4. Todas(cobros'[k]) = Tomadas(k) + crea[k] + Hechas(cobros[k])
        BY <2>1, <2>2, <2>3 DEF Todas, Hechas
    <2>5. QED
        BY <2>1, <2>2, <2>3, <2>4
<1>6. Pedidas'
    BY <1>1 DEF Pedidas, Bien
<1>7. UnoSolo'
    BY <1>1 DEF IInv, UnoSolo, Regenera
<1>8. TomadasHay'
    <2>1. ASSUME NEW k \in Cobros
          PROVE  Tomadas(k) <= cobros'[k]["pendiente"]
        <3>1. CASE cobros'[k] = cobros[k]
            BY <1>1, <3>1 DEF TomadasHay
        <3>2. CASE k \in MultasDe(p) /\ cobros'[k] = Rehecha(k, crea[k])
            BY <1>5, <3>2
        <3>3. QED
            BY <1>2, <3>1, <3>2
    <2>2. QED
        BY <2>1, TomadasQuietas DEF TomadasHay
<1>9. EnVueloAcotada'
    <2>1. ASSUME NEW q \in Peticiones, NEW o \in Partidos \ cruces', Regenera(q, o),
                 NEW k \in MultasDe(o)
          PROVE  Todas(cobros'[k]) + peticion[q].crea[k] <= Tope(k)' + peticion[q].borra[k]
        <3>1. k \in LasMultas /\ k \in Cobros /\ k \notin MultasDe(p)
            BY <2>1, MultasAparte
        <3>2. cobros'[k] = cobros[k]
            BY <1>2, <3>1
        <3>3. Todas(cobros[k]) + peticion[q].crea[k] <= Tope(k) + peticion[q].borra[k]
            BY <2>1 DEF IInv, EnVueloAcotada
        <3>4. peticion[q].crea[k] \in Nat /\ peticion[q].borra[k] \in Nat
            BY <1>1, <2>1, RegeneraBien
        <3>5. Tope(k) <= Tope(k)' /\ Tope(k) \in Nat /\ Tope(k)' \in Nat
            BY <1>4, <3>1
        <3>6. QED
            BY <1>3, <3>1, <3>2, <3>3, <3>4, <3>5
    <2>2. QED
        BY <1>1, <2>1 DEF EnVueloAcotada, Regenera, MultasDe
<1>10. MultasBien'
    <2>1. ASSUME NEW k \in LasMultas, k.por \notin cruces'
          PROVE  Todas(cobros'[k]) <= Tope(k)'
        <3>1. /\ k \in Cobros /\ Tope(k) \in Nat /\ Tope(k)' \in Nat /\ Tope(k) <= Tope(k)'
              /\ Todas(cobros[k]) \in Nat /\ Todas(cobros[k]) <= Tope(k)
            BY <1>3, <1>4, <2>1 DEF IInv, MultasBien
        <3>2. CASE cobros'[k] = cobros[k]
            BY <3>1, <3>2
        <3>3. CASE k \in MultasDe(p) /\ cobros'[k] = Rehecha(k, crea[k])
            <4>1. \A q \in Peticiones : ~Regenera(q, p)
                BY <2>1, <3>3, MultasAparte
            <4>2. Tomadas(k) = 0
                BY <1>1, <3>3, <4>1, NadieRegenera
            <4>3. Todas(cobros'[k]) = crea[k] + Hechas(cobros[k])
                BY <1>5, <3>3, <4>2
            <4>4. Hechas(cobros[k]) <= Todas(cobros[k]) /\ Hechas(cobros[k]) \in Nat
                <5>1. cobros[k] \in [Estados -> Nat]
                    BY <1>3, <3>1
                <5>2. QED
                    BY <5>1, FilaTipos
            <4>5. crea[k] \in Nat
                BY <3>3 DEF DeMulta
            <4>6. QED
                BY <3>1, <3>3, <4>3, <4>4, <4>5
        <3>4. QED
            BY <1>2, <3>1, <3>2, <3>3
    <2>2. QED
        BY <2>1 DEF MultasBien, Tope
<1>11. \A k \in LasCuotas : cobros'[k] = cobros[k]
    BY <1>2, MultasAparte
<1>12. CuotasBien' /\ CuotaSinCancelar'
    BY <1>1, <1>11 DEF IInv, CuotasBien, CuotaSinCancelar
<1>13. QED
    BY <1>6, <1>7, <1>8, <1>9, <1>10, <1>12 DEF IInv

LEMMA CerrarActaBien ==
    ASSUME IInv, NEW p \in Partidos, CerrarActa(p)
    PROVE  IInv'
<1> DEFINE n(k) == Contadas(p, tarjetas[p], k)
           D == DeTarjetas(p, tarjetas[p])
<1>1. /\ TypeOK /\ ActaContada /\ UNCHANGED <<calendario, tarjetas, peticion>>
      /\ partido' = [partido EXCEPT ![p] = "FINALIZADO"]
      /\ Multar(p, D) /\ Cruza(p)
    BY DEF IInv, CerrarActa
<1>2. /\ D \in DeMulta(p)
      /\ \A k \in MultasDe(p) :
             D[k] = 0 \/ (k.tarifa \in DeTarjeta /\ D[k] + Hechas(cobros[k]) = n(k))
    BY <1>1, DeTarjetasBien
<1>3. \A k : n(k) \in Nat
    BY <1>1, ContadasNat DEF TypeOK
<1>4. mayor' = [k \in LasMultas |-> IF k.por = p THEN Max({mayor[k], n(k)}) ELSE mayor[k]]
    BY DEF CerrarActa
<1> HIDE DEF n, D
<1>5. ASSUME NEW k \in LasMultas
      PROVE  /\ mayor[k] \in Nat /\ mayor'[k] \in Nat /\ mayor[k] <= mayor'[k]
             /\ k.por = p => n(k) <= mayor'[k]
    <2>1. mayor \in [LasMultas -> Nat]
        BY <1>1 DEF TypeOK
    <2>2. mayor[k] \in Nat /\ n(k) \in Nat
        BY <1>3, <2>1, Zenon
    <2>3. Max({mayor[k], n(k)}) \in Nat /\ Max({mayor[k], n(k)}) >= mayor[k]
          /\ Max({mayor[k], n(k)}) >= n(k)
        BY <2>2, MaxDeDos
    <2>4. QED
        BY <1>4, <2>2, <2>3
<1>6. cobros' \in [Cobros -> [Estados -> Nat]] /\ eventos' \in 0..MaxEventos
    BY <1>1, <1>2, MultarDa
<1>7. TypeOK'
    <2>1. mayor' \in [LasMultas -> Nat]
        BY <1>4, <1>5
    <2>2. cruces' \subseteq Partidos \cup LasCuotas
        BY <1>1 DEF TypeOK, Cruza
    <2>3. partido' \in [Partidos -> {"no", "abierto", "FINALIZADO", "WALKOVER"}]
        BY <1>1 DEF TypeOK
    <2>4. QED
        BY <1>1, <1>6, <2>1, <2>2, <2>3 DEF TypeOK, calendario
<1>8. ActaContada'
    <2>1. ASSUME NEW o \in Partidos, partido'[o] = "FINALIZADO",
                 NEW k \in MultasDe(o), k.tarifa \in DeTarjeta
          PROVE  Contadas(o, tarjetas[o], k) <= mayor'[k]
        <3>1. k \in LasMultas /\ k.por = o
            BY MultasAparte
        <3>2. CASE o = p
            BY <1>5, <3>1, <3>2 DEF n
        <3>3. CASE o # p
            <4>1. Contadas(o, tarjetas[o], k) <= mayor[k]
                BY <1>1, <2>1, <3>3 DEF ActaContada, TypeOK
            <4>2. mayor'[k] = mayor[k]
                BY <1>4, <3>1, <3>3
            <4>3. QED
                BY <4>1, <4>2
        <3>4. QED
            BY <3>2, <3>3
    <2>2. QED
        BY <1>1, <2>1 DEF ActaContada, Contadas, MultasDe
<1>9. cruces \subseteq cruces' /\ (p \notin cruces' => \A q \in Peticiones : ~Regenera(q, p))
    BY <1>1, LibreBien DEF Cruza, EnVuelo, Regenera
<1>10. \A o \in Partidos : partido[o] # "no" => partido'[o] # "no"
    BY <1>1 DEF TypeOK
<1>11. \A k \in LasMultas : Tope(k) <= Tope(k)'
    BY <1>5 DEF Tope
<1>12. \A k \in MultasDe(p) : D[k] = 0 \/ D[k] + Hechas(cobros[k]) <= Tope(k)'
    BY <1>2, <1>5, MultasAparte DEF Tope, DeTarjeta
<1>13. peticion' = peticion
    BY <1>1
<1>14. QED
    BY <1>1, <1>2, <1>7, <1>8, <1>9, <1>10, <1>11, <1>12, <1>13, MultarBien

LEMMA DeclararWalkoverBien ==
    ASSUME IInv, NEW p \in Partidos, NEW i \in Inscripciones, DeclararWalkover(p, i)
    PROVE  IInv'
<1> DEFINE D == DeWalkover(p, i)
<1>1. /\ TypeOK /\ ActaContada /\ UNCHANGED <<calendario, tarjetas, mayor, peticion>>
      /\ partido' = [partido EXCEPT ![p] = "WALKOVER"]
    BY DEF IInv, DeclararWalkover
<1>2. /\ D \in DeMulta(p)
      /\ \A k \in MultasDe(p) :
             D[k] = 0 \/ (k.tarifa = "MULTA_WALKOVER" /\ D[k] = 1 /\ Hechas(cobros[k]) = 0)
    BY <1>1, DeWalkoverBien
<1> HIDE DEF D
<1>3. ActaContada'
    BY <1>1 DEF ActaContada, Contadas, TypeOK
<1>4. /\ partido' \in [Partidos -> {"no", "abierto", "FINALIZADO", "WALKOVER"}]
      /\ \A o \in Partidos : partido[o] # "no" => partido'[o] # "no"
    BY <1>1 DEF TypeOK
<1>5. CASE Multar(p, D) /\ Cruza(p)
    <2>1. cobros' \in [Cobros -> [Estados -> Nat]] /\ eventos' \in 0..MaxEventos
        BY <1>2, <1>5, MultarDa
    <2>2. cruces' \subseteq Partidos \cup LasCuotas
        BY <1>1, <1>5 DEF TypeOK, Cruza
    <2>3. TypeOK'
        BY <1>1, <1>4, <2>1, <2>2 DEF TypeOK, calendario
    <2>4. cruces \subseteq cruces' /\ (p \notin cruces' => \A q \in Peticiones : ~Regenera(q, p))
        BY <1>5, LibreBien DEF Cruza, EnVuelo, Regenera
    <2>5. \A k \in LasMultas : Tope(k) \in Nat /\ Tope(k)' = Tope(k)
        BY <1>1, TopeNat DEF Tope, TypeOK
    <2>6. \A k \in LasMultas : Tope(k) <= Tope(k)'
        BY <2>5
    <2>7. \A k \in MultasDe(p) : D[k] = 0 \/ D[k] + Hechas(cobros[k]) <= Tope(k)'
        BY <1>2 DEF Tope
    <2>8. peticion' = peticion
        BY <1>1
    <2>9. QED
        BY <1>2, <1>3, <1>4, <1>5, <2>3, <2>4, <2>6, <2>7, <2>8, MultarBien
<1>6. CASE UNCHANGED <<cobros, cruces, eventos>>
    <2>1. TypeOK'
        BY <1>1, <1>4, <1>6 DEF TypeOK, calendario
    <2>2. UNCHANGED <<mayor, peticion, cobros, cruces>>
        BY <1>1, <1>6
    <2>3. QED
        BY <1>3, <1>4, <2>1, <2>2, CobrosQuietos
<1>7. QED
    BY <1>5, <1>6 DEF DeclararWalkover, D

\* reabrirActa and anularWalkover only delete.
LEMMA ReabrirOAnularBien ==
    ASSUME IInv, NEW p \in Partidos, ReabrirOAnular(p)
    PROVE  IInv'
<1> DEFINE D == Ninguna(p)
<1>1. /\ TypeOK /\ Pedidas /\ TomadasHay /\ ActaContada /\ CuotasBien /\ CuotaSinCancelar
      /\ UNCHANGED <<calendario, tarjetas, mayor, peticion, cruces>>
      /\ partido' = [partido EXCEPT ![p] = "abierto"] /\ Multar(p, D)
    BY DEF IInv, ReabrirOAnular
<1>2. D \in DeMulta(p) /\ \A k \in MultasDe(p) : D[k] = 0
    BY NingunaBien
<1> HIDE DEF D
<1>3. /\ cobros' \in [Cobros -> [Estados -> Nat]] /\ eventos' \in 0..MaxEventos
      /\ \A k \in Cobros : \/ cobros'[k] = cobros[k]
                           \/ k \in MultasDe(p) /\ cobros'[k] = Rehecha(k, D[k])
    BY <1>1, <1>2, MultarDa
<1>4. /\ partido' \in [Partidos -> {"no", "abierto", "FINALIZADO", "WALKOVER"}]
      /\ \A o \in Partidos : partido[o] # "no" => partido'[o] # "no"
    BY <1>1 DEF TypeOK
<1>5. TypeOK'
    BY <1>1, <1>3, <1>4 DEF TypeOK, calendario
<1>6. ActaContada'
    BY <1>1 DEF ActaContada, Contadas, TypeOK
<1>7. ASSUME NEW k \in Cobros
      PROVE  /\ Tomadas(k) <= cobros'[k]["pendiente"]
             /\ Todas(cobros'[k]) <= Todas(cobros[k])
    <2>1. cobros[k] \in [Estados -> Nat] /\ Tomadas(k) \in Nat
          /\ Tomadas(k) <= cobros[k]["pendiente"]
        BY <1>1, TomadasNat DEF TypeOK, TomadasHay
    <2>2. CASE cobros'[k] = cobros[k]
        BY <2>1, <2>2, FilaTipos
    <2>3. CASE k \in MultasDe(p) /\ cobros'[k] = Rehecha(k, D[k])
        <3>1. cobros'[k] = [cobros[k] EXCEPT !["pendiente"] = Tomadas(k)]
            <4>1. Tomadas(k) + D[k] = Tomadas(k)
                BY <1>2, <2>1, <2>3
            <4>2. QED
                BY <2>3, <4>1 DEF Rehecha
        <3>2. /\ cobros'[k]["pendiente"] = Tomadas(k)
              /\ cobros'[k]["pagado"] = cobros[k]["pagado"]
              /\ cobros'[k]["cancelado"] = cobros[k]["cancelado"]
              /\ cobros'[k]["pagado_cancelado"] = cobros[k]["pagado_cancelado"]
            BY <2>1, <3>1 DEF Estados
        <3>3. /\ cobros[k]["pendiente"] \in Nat /\ cobros[k]["pagado"] \in Nat
              /\ cobros[k]["cancelado"] \in Nat /\ cobros[k]["pagado_cancelado"] \in Nat
            BY <2>1, FilaTipos
        <3>4. QED
            BY <2>1, <3>2, <3>3 DEF Todas
    <2>4. QED
        BY <1>3, <2>2, <2>3
<1>8. TomadasHay'
    BY <1>1, <1>7, TomadasQuietas DEF TomadasHay
<1>9. \A k \in LasCuotas : cobros'[k] = cobros[k]
    BY <1>3, MultasAparte
<1>10. /\ \A k \in LasCuotas : cobros'[k]["pendiente"] + cobros'[k]["pagado"] <= 1
       /\ CuotaSinCancelar'
    BY <1>1, <1>9 DEF CuotasBien, CuotaSinCancelar
<1>11. UNCHANGED <<mayor, peticion>> /\ cruces \subseteq cruces'
    BY <1>1
<1>12. QED
    BY <1>4, <1>5, <1>6, <1>7, <1>8, <1>10, <1>11, NoHayMas

\* Cards are loaded while the acta is open.
LEMMA CargarTarjetaBien ==
    ASSUME IInv, NEW p \in Partidos, NEW f \in Incidencias, CargarTarjeta(p, f)
    PROVE  IInv'
<1>1. /\ TypeOK /\ ActaContada /\ partido[p] = "abierto"
      /\ UNCHANGED <<calendario, partido, mayor, cobros, peticion, cruces, eventos>>
      /\ tarjetas' = [tarjetas EXCEPT ![p] = IF f \in @ THEN @ \ {f} ELSE @ \cup {f}]
    BY DEF IInv, CargarTarjeta
<1>2. tarjetas' \in [Partidos -> SUBSET Incidencias]
    BY <1>1 DEF TypeOK
<1>3. TypeOK'
    BY <1>1, <1>2 DEF TypeOK, calendario
<1>4. ActaContada'
    <2>1. \A o \in Partidos : partido[o] = "FINALIZADO" => tarjetas'[o] = tarjetas[o]
        BY <1>1 DEF TypeOK
    <2>2. QED
        BY <1>1, <2>1 DEF ActaContada, Contadas, MultasDe
<1>5. \A o \in Partidos : partido[o] # "no" => partido'[o] # "no"
    BY <1>1
<1>6. UNCHANGED <<mayor, peticion, cobros, cruces>>
    BY <1>1
<1>7. QED
    BY <1>3, <1>4, <1>5, <1>6, CobrosQuietos

\* regenerarMultas deletes what nobody else is deleting, and counts.
LEMMA RegenerarMultasBien ==
    ASSUME IInv, NEW q \in Peticiones, NEW p \in Partidos, RegenerarMultas(q, p)
    PROVE  IInv'
<1> DEFINE D == DeTarjetas(p, tarjetas[p])
           B == [k \in MultasDe(p) |-> Pendientes(k)]
           n == [op |-> "regenerar", que |-> p, borra |-> B, crea |-> D]
           otras == peticion'
<1>1. /\ TypeOK /\ Pedidas /\ TomadasHay /\ ActaContada /\ UnoSolo
      /\ UNCHANGED <<calendario, partido, tarjetas, mayor, cobros, eventos>>
      /\ partido[p] = "FINALIZADO" /\ peticion[q] = Libre /\ Cruza(p)
      /\ peticion' = [peticion EXCEPT ![q] = n]
    BY DEF IInv, RegenerarMultas, acta, Pide
<1>2. /\ D \in DeMulta(p)
      /\ \A k \in MultasDe(p) :
             \/ D[k] = 0
             \/ k.tarifa \in DeTarjeta /\ D[k] + Hechas(cobros[k]) = Contadas(p, tarjetas[p], k)
    BY <1>1, DeTarjetasBien
<1>3. \A k \in Cobros : /\ cobros[k] \in [Estados -> Nat] /\ cobros[k]["pendiente"] \in Nat
                        /\ Tomadas(k) \in Nat /\ Tomadas(k) <= cobros[k]["pendiente"]
    BY <1>1, FilaTipos, TomadasNat DEF TypeOK, TomadasHay
<1>4. ASSUME NEW k \in MultasDe(p)
      PROVE  k \in Cobros /\ B[k] = cobros[k]["pendiente"] - Tomadas(k) /\ B[k] \in Nat
    <2>1. k \in Cobros /\ B[k] = cobros[k]["pendiente"] - Tomadas(k)
        BY MultasAparte DEF Pendientes
    <2>2. QED
        BY <1>3, <2>1
<1>5. B \in DeMulta(p) /\ DOMAIN B = MultasDe(p)
    BY <1>4 DEF DeMulta
<1> HIDE DEF D, B
<1>6. n.op = "regenerar" /\ n.que = p /\ n.borra = B /\ n.crea = D
    OBVIOUS
<1> HIDE DEF n
<1>7. /\ DOMAIN otras = Peticiones /\ otras[q] = n
      /\ \A r \in Peticiones \ {q} : otras[r] = peticion[r]
    BY <1>1 DEF Pedidas
<1>8. Bien(n, partido)
    BY <1>1, <1>2, <1>5, <1>6 DEF Bien
<1>9. Pedidas'
    BY <1>1, <1>7, <1>8 DEF Pedidas
<1>10. \A r \in Peticiones, o \in Partidos :
           Regenera(r, o)' <=> (r = q /\ o = p) \/ (r # q /\ Regenera(r, o))
    BY <1>6, <1>7 DEF Regenera
<1>11. \A o \in Partidos \ cruces' :
           o \notin cruces /\ (o = p => \A r \in Peticiones : ~Regenera(r, p))
    BY <1>1, LibreBien DEF Cruza, EnVuelo, Regenera
<1>12. TypeOK'
    BY <1>1 DEF TypeOK, calendario, Cruza
<1>13. \A k : Tomadas(k)' = Cardinality(Tomas(otras, k))
    BY DEF Tomadas, LasQueTomo, Tomas, Tomo
<1> HIDE DEF otras
<1>14. ASSUME NEW k
       PROVE  Tomadas(k)' = Tomadas(k) + (IF k \in MultasDe(p) THEN B[k] ELSE 0)
    <2>1. Naturales(peticion, k)
        BY <1>1, TomadasNat
    <2>2. Borra(otras[q], k) = IF k \in MultasDe(p) THEN B[k] ELSE 0
        BY <1>5, <1>6, <1>7 DEF Borra
    <2>3. Naturales(otras, k)
        BY <1>4, <1>7, <2>1, <2>2 DEF Naturales, Borra
    <2>4. \A r \in Peticiones \ {q} : peticion[r] = otras[r]
        BY <1>7
    <2>5. k \notin DOMAIN peticion[q].borra
        BY <1>1, LibreBien
    <2>6. Cardinality(Tomas(otras, k)) = Cardinality(Tomas(peticion, k)) + Borra(otras[q], k)
        BY <2>3, <2>4, <2>5, TomasSin
    <2>7. QED
        BY <1>13, <2>2, <2>6, TomadasSon
<1>15. TomadasHay'
    <2>1. ASSUME NEW k \in Cobros
          PROVE  Tomadas(k)' <= cobros[k]["pendiente"]
        BY <1>3, <1>4, <1>14
    <2>2. QED
        BY <1>1, <2>1 DEF TomadasHay
<1>16. ActaContada'
    BY <1>1, ActaQuieta
<1>17. UnoSolo'
    BY <1>1, <1>10, <1>11 DEF UnoSolo
<1>18. MultasBien' /\ CuotasBien'
    <2>1. cruces \subseteq cruces'
        BY <1>1 DEF Cruza
    <2>2. QED
        BY <1>1, <2>1 DEF IInv, MultasBien, CuotasBien, Tope
<1>19. CuotaSinCancelar'
    <2>1. cruces \subseteq cruces' /\ n.op \notin Generan
        BY <1>1, <1>6 DEF Cruza, Generan
    <2>2. \A r \in Peticiones : otras[r].op \in Generan => otras[r] = peticion[r]
        BY <1>7, <2>1
    <2>3. QED
        BY <1>1, <2>1, <2>2 DEF IInv, CuotaSinCancelar, otras
<1>20. EnVueloAcotada'
    <2>1. ASSUME NEW k \in MultasDe(p), p \notin cruces'
          PROVE  Todas(cobros[k]) + D[k] <= Tope(k) + B[k]
        <3>1. /\ k \in Cobros /\ k \in LasMultas /\ k.por = p
              /\ B[k] = cobros[k]["pendiente"] - Tomadas(k)
            BY <1>4, MultasAparte
        <3>2. Tomadas(k) = 0
            BY <1>1, <1>11, <2>1, NadieRegenera
        <3>3. /\ cobros[k]["pendiente"] \in Nat /\ Hechas(cobros[k]) \in Nat
              /\ Todas(cobros[k]) = cobros[k]["pendiente"] + Hechas(cobros[k])
            BY <1>3, <3>1, FilaTipos
        <3>4. Tope(k) \in Nat /\ D[k] \in Nat
            BY <1>1, <1>2, <3>1, TopeNat DEF TypeOK, DeMulta
        <3>5. Todas(cobros[k]) <= Tope(k)
            BY <1>11, <2>1, <3>1 DEF IInv, MultasBien
        <3>6. D[k] + Hechas(cobros[k]) <= Tope(k)
            <4>1. CASE D[k] = 0
                BY <3>3, <3>4, <3>5, <4>1
            <4>2. CASE /\ k.tarifa \in DeTarjeta
                       /\ D[k] + Hechas(cobros[k]) = Contadas(p, tarjetas[p], k)
                <5>1. Contadas(p, tarjetas[p], k) <= mayor[k]
                    BY <1>1, <4>2 DEF ActaContada
                <5>2. QED
                    BY <4>2, <5>1 DEF Tope, DeTarjeta
            <4>3. QED
                BY <1>2, <4>1, <4>2
        <3>7. QED
            BY <3>1, <3>2, <3>3, <3>4, <3>6
    <2>2. ASSUME NEW r \in Peticiones, NEW o \in Partidos \ cruces', Regenera(r, o)',
                 NEW k \in MultasDe(o)
          PROVE  Todas(cobros[k]) + otras[r].crea[k] <= Tope(k) + otras[r].borra[k]
        <3>1. CASE r = q /\ o = p
            BY <1>6, <1>7, <2>1, <2>2, <3>1
        <3>2. CASE r # q /\ Regenera(r, o)
            BY <1>7, <1>11, <2>2, <3>2 DEF IInv, EnVueloAcotada
        <3>3. QED
            BY <1>10, <2>2, <3>1, <3>2
    <2>3. QED
        BY <1>1, <2>2 DEF EnVueloAcotada, Tope, MultasDe, otras
<1>21. QED
    BY <1>9, <1>12, <1>15, <1>16, <1>17, <1>18, <1>19, <1>20 DEF IInv

-----------------------------------------------------------------------------
(* Matriculas and cuotas                                                   *)

\* The unique index lets a cuota in when none is owed or paid, and nobody cancelled it
\* since the request looked.
LEMMA EscribirCobrosBien ==
    ASSUME IInv, NEW q \in Peticiones, EscribirCobros(q)
    PROVE  IInv'
<1> DEFINE r == peticion[q]
           entran == {k \in DOMAIN r.crea : insc[k.insc] # Nada
                                             /\ (k.tarifa = "CUOTA" => ~Repetida(k))}
           mas(k) == [cobros[k] EXCEPT !["pendiente"] = @ + 1]
<1>1. /\ TypeOK /\ Pedidas /\ TomadasHay /\ UnoSolo /\ CuotasBien /\ CuotaSinCancelar
      /\ UNCHANGED <<insc, tarifa, hoy, partido, tarjetas, mayor, cruces>>
      /\ peticion' = [peticion EXCEPT ![q] = Libre] /\ r.op \in Generan
      /\ torneo' = (IF r.op = "activar" THEN "ACTIVO" ELSE torneo)
    BY DEF IInv, EscribirCobros, acta, Acaba, Generan
<1>2. PICK falla \in {{}} \cup {{k} : k \in entran \cap LasCuotas} :
          /\ IF falla = {} THEN UNCHANGED eventos ELSE Gasta
          /\ cobros' = [k \in Cobros |-> IF k \in entran \ falla THEN mas(k) ELSE cobros[k]]
    BY DEF EscribirCobros
<1>3. r.borra = <<>> /\ DOMAIN r.crea \subseteq SinMultas
    <2>1. Bien(r, partido)
        BY <1>1 DEF Pedidas
    <2>2. QED
        BY <1>1, <2>1 DEF Bien, Libre, Generan
<1>4. /\ Pedidas' /\ UnoSolo'
      /\ \A s \in Peticiones : \A o : Regenera(s, o)' =>
             Regenera(s, o) /\ peticion'[s] = peticion[s] /\ s # q
      /\ \A s \in Peticiones \ {q} : peticion'[s] = peticion[s]
      /\ peticion'[q] = Libre
      /\ \A k : /\ Tomadas(k) = Tomadas(k)' + Borra(peticion[q], k)
                /\ Tomadas(k) \in Nat /\ Tomadas(k)' \in Nat /\ Borra(peticion[q], k) \in Nat
    BY <1>1, LibreBien, PeticionCambia
<1>5. \A k : Tomadas(k)' = Tomadas(k)
    <2>1. \A k : Borra(peticion[q], k) = 0
        BY <1>3 DEF Borra
    <2>2. QED
        BY <1>4, <2>1
<1>6. \A k \in entran : k \in SinMultas /\ k \in DOMAIN r.crea
                        /\ (k \in LasCuotas => ~Repetida(k))
    BY <1>3 DEF LasCuotas, Cuota
<1> HIDE DEF entran
<1>7. ASSUME NEW k \in Cobros, k \in entran
      PROVE  /\ mas(k) \in [Estados -> Nat]
             /\ mas(k)["pendiente"] = cobros[k]["pendiente"] + 1
             /\ mas(k)["pagado"] = cobros[k]["pagado"]
             /\ mas(k)["cancelado"] = cobros[k]["cancelado"]
             /\ mas(k)["pagado_cancelado"] = cobros[k]["pagado_cancelado"]
             /\ Todas(mas(k)) = Todas(cobros[k]) + 1
    <2>1. cobros[k] \in [Estados -> Nat]
        BY <1>1 DEF TypeOK
    <2>2. /\ cobros[k]["pendiente"] \in Nat /\ cobros[k]["pagado"] \in Nat
          /\ cobros[k]["cancelado"] \in Nat /\ cobros[k]["pagado_cancelado"] \in Nat
        BY <2>1, FilaTipos
    <2>3. /\ mas(k) \in [Estados -> Nat]
          /\ mas(k)["pendiente"] = cobros[k]["pendiente"] + 1
          /\ mas(k)["pagado"] = cobros[k]["pagado"]
          /\ mas(k)["cancelado"] = cobros[k]["cancelado"]
          /\ mas(k)["pagado_cancelado"] = cobros[k]["pagado_cancelado"]
        BY <2>1, <2>2 DEF Estados
    <2> HIDE DEF mas
    <2>4. QED
        BY <2>2, <2>3 DEF Todas
<1> HIDE DEF mas
<1>8. \A k \in Cobros : cobros'[k] = cobros[k] \/ (k \in entran /\ cobros'[k] = mas(k))
    BY <1>2
<1>9. \A k \in Cobros : /\ cobros[k] \in [Estados -> Nat] /\ cobros'[k] \in [Estados -> Nat]
                        /\ k \in LasMultas => cobros'[k] = cobros[k]
    BY <1>1, <1>6, <1>7, <1>8, MultasAparte DEF TypeOK
<1>10. TypeOK'
    <2>1. cobros' \in [Cobros -> [Estados -> Nat]]
        <3>1. cobros' = [k \in Cobros |-> cobros'[k]]
            BY <1>2
        <3>2. QED
            BY <1>9, <3>1
    <2>2. eventos' \in 0..MaxEventos
        BY <1>1, <1>2, TarifasAssumption DEF TypeOK, Gasta
    <2>3. torneo' \in {"DRAFT", "ACTIVO", "CERRADO"}
        BY <1>1 DEF TypeOK
    <2>4. QED
        BY <1>1, <2>1, <2>2, <2>3 DEF TypeOK
<1>11. TomadasHay'
    <2>1. ASSUME NEW k \in Cobros
          PROVE  Tomadas(k) <= cobros'[k]["pendiente"]
        <3>1. /\ Tomadas(k) <= cobros[k]["pendiente"]
              /\ cobros[k]["pendiente"] \in Nat /\ Tomadas(k) \in Nat
            BY <1>1, <1>4, <1>9, FilaTipos DEF TomadasHay
        <3>2. QED
            BY <1>7, <1>8, <3>1
    <2>2. QED
        BY <1>5, <2>1 DEF TomadasHay
<1>12. ActaContada'
    BY <1>1, ActaQuieta DEF IInv
<1>13. MultasBien'
    BY <1>1, <1>9, MultasAparte DEF IInv, MultasBien, Tope
<1>14. EnVueloAcotada'
    <2>1. ASSUME NEW s \in Peticiones, NEW o \in Partidos \ cruces, Regenera(s, o)',
                 NEW k \in MultasDe(o)
          PROVE  Todas(cobros'[k]) + peticion'[s].crea[k] <= Tope(k) + peticion'[s].borra[k]
        <3>1. Regenera(s, o) /\ peticion'[s] = peticion[s]
            BY <1>4, <2>1
        <3>2. cobros'[k] = cobros[k]
            BY <1>9, MultasAparte
        <3>3. QED
            BY <2>1, <3>1, <3>2 DEF IInv, EnVueloAcotada
    <2>2. QED
        BY <1>1, <2>1 DEF EnVueloAcotada, Tope, MultasDe
<1>15. CuotasBien'
    <2>1. ASSUME NEW k \in LasCuotas
          PROVE  /\ cobros'[k]["pendiente"] + cobros'[k]["pagado"] <= 1
                 /\ k \notin cruces => Todas(cobros'[k]) <= 1
        <3>1. k \in Cobros
            BY MultasAparte
        <3>2. CASE cobros'[k] = cobros[k]
            BY <1>1, <3>2 DEF CuotasBien
        <3>3. CASE k \in entran /\ cobros'[k] = mas(k)
            <4>1. Filas(k, Vigentes) = cobros[k]["pendiente"] + cobros[k]["pagado"]
                BY <1>1, <3>1, FilasSon DEF TypeOK
            <4>2. ~ cobros[k]["pendiente"] + cobros[k]["pagado"] > 0
                BY <1>6, <3>3, <4>1 DEF Repetida
            <4>3. /\ cobros[k]["pendiente"] \in Nat /\ cobros[k]["pagado"] \in Nat
                  /\ cobros[k]["cancelado"] \in Nat /\ cobros[k]["pagado_cancelado"] \in Nat
                BY <1>9, <3>1, FilaTipos
            <4>4. k \notin cruces => cobros[k]["cancelado"] = 0 /\ cobros[k]["pagado_cancelado"] = 0
                BY <1>1, <1>6, <3>3 DEF CuotaSinCancelar
            <4>5. cobros[k]["pendiente"] = 0 /\ cobros[k]["pagado"] = 0
                BY <4>2, <4>3
            <4>6. k \notin cruces => Todas(cobros[k]) = 0
                BY <4>4, <4>5 DEF Todas
            <4>7. QED
                BY <1>7, <3>1, <3>3, <4>5, <4>6
        <3>4. QED
            BY <1>8, <3>1, <3>2, <3>3
    <2>2. QED
        BY <1>1, <2>1 DEF CuotasBien
<1>16. CuotaSinCancelar'
    <2>1. \A k \in Cobros : /\ cobros'[k]["cancelado"] = cobros[k]["cancelado"]
                            /\ cobros'[k]["pagado_cancelado"] = cobros[k]["pagado_cancelado"]
        BY <1>7, <1>8
    <2>2. QED
        BY <1>1, <1>4, <2>1, LibreBien, MultasAparte DEF CuotaSinCancelar, Generan
<1>17. QED
    BY <1>4, <1>10, <1>11, <1>12, <1>13, <1>14, <1>15, <1>16 DEF IInv

\* A request is made for charges there are none of, in any state.
LEMMA PideCobrosBien ==
    ASSUME IInv, NEW q \in Peticiones, NEW op \in Generan, NEW ks \in SUBSET SinMultas,
           PideCobros(q, op, ks)
    PROVE  IInv'
<1> DEFINE n == [op |-> op, que |-> Nada, borra |-> <<>>, crea |-> Uno(Faltan(ks))]
<1>1. /\ TypeOK /\ UNCHANGED <<calendario, acta, cobros, cruces, eventos>>
      /\ peticion' = [peticion EXCEPT ![q] = n]
    BY DEF IInv, PideCobros, Pide
<1>2. /\ n.op = op /\ n.borra = <<>> /\ DOMAIN n.crea \subseteq ks
      /\ \A k \in DOMAIN n.crea : Filas(k, Estados) = 0
    BY DEF Uno, Faltan
<1> HIDE DEF n
<1>3. n.op # "regenerar" /\ Bien(n, partido)
    BY <1>2 DEF Generan, Bien
<1>4. TypeOK'
    BY <1>1 DEF TypeOK, calendario, acta
<1>5. UNCHANGED <<acta, cobros, cruces>>
    BY <1>1
<1>6. \A k \in LasCuotas \cap DOMAIN n.crea : Filas(k, Estados) = 0
    BY <1>2
<1>7. QED
    BY <1>1, <1>2, <1>3, <1>4, <1>5, <1>6, SinEscribir

\* generarCobrosInicioTorneo and generarCuotasDelTenant ask for no fine, and for no month
\* outside the calendar.
LEMMA PedidosBien ==
    ASSUME TypeOK
    PROVE  DeInicio \subseteq SinMultas /\ DelMes \subseteq SinMultas /\ hoy \div 2 \in Meses
<1>1. /\ hoy \in Nat /\ hoy <= MaxQuincena /\ MaxQuincena \in Nat /\ Cuotas \in Nat
      /\ \A i \in Inscritas : i \in Inscripciones /\ insc[i].desde \in Meses
    BY TarifasAssumption DEF TypeOK, Inscritas
<1>2. /\ hoy \div 2 \in Nat /\ (hoy + 1) \div 2 \in Nat
      /\ hoy \div 2 <= (MaxQuincena + 1) \div 2
      /\ (hoy + 1) \div 2 <= (MaxQuincena + 1) \div 2
      /\ (MaxQuincena + 1) \div 2 \in Nat
    BY <1>1
<1>3. \A i \in Inscripciones : Matricula(i) \in SinMultas
    BY DEF SinMultas, Cobros, Matricula
<1>4. \A i \in Inscripciones : \A m \in Meses : Cuota(i, m) \in SinMultas
    BY DEF SinMultas, Cobros, LasCuotas, Cuota
<1>5. \A n \in 0..Cuotas - 1 : PrimerMes + n \in Meses
    BY <1>1, <1>2 DEF PrimerMes, Meses
<1>6. DeInicio \subseteq SinMultas
    BY <1>1, <1>3, <1>4, <1>5 DEF DeInicio, Participan
<1>7. \A i \in Inscritas : \A m \in insc[i].desde..(hoy \div 2) : m \in Meses
    BY <1>1, <1>2 DEF Meses
<1>8. DelMes \subseteq SinMultas
    BY <1>1, <1>4, <1>7 DEF DelMes, Participan
<1>9. hoy \div 2 \in Meses
    BY <1>1, <1>2 DEF Meses
<1>10. QED
    BY <1>6, <1>8, <1>9

-----------------------------------------------------------------------------
(* The invariant                                                           *)

LEMMA InitBien ==
    ASSUME Init
    PROVE  IInv
<1>1. PICK e \in Escenarios :
          /\ torneo = e.torneo /\ tarifa = e.tarifa /\ partido = e.partido
          /\ insc = [i \in Inscripciones |-> IF i \in DOMAIN e.inscritos
                THEN [club |-> e.inscritos[i], desde |-> e.hoy \div 2, suspendida |-> FALSE]
                ELSE Nada]
          /\ hoy = e.hoy
    BY DEF Init
<1>2. /\ tarjetas = [p \in Partidos |-> {}]
      /\ cobros = [k \in Cobros |-> [f \in Estados |-> 0]]
      /\ peticion = [q \in Peticiones |-> Libre]
      /\ mayor = [k \in LasMultas |-> 0] /\ cruces = {} /\ eventos = 0
    BY DEF Init
<1>3. \A k \in Cobros : /\ cobros[k] \in [Estados -> Nat] /\ Todas(cobros[k]) = 0
                        /\ \A f \in Estados : cobros[k][f] = 0
    BY <1>2 DEF Todas, Estados
<1>4. TypeOK
    <2>1. hoy \in 0..MaxQuincena
        BY <1>1, EscenariosAssumption
    <2>2. hoy \div 2 \in Meses
        <3>1. hoy \div 2 \in Nat /\ hoy \div 2 <= (MaxQuincena + 1) \div 2 + Cuotas
            BY <2>1, TarifasAssumption
        <3>2. QED
            BY <2>1, <3>1, TarifasAssumption DEF Meses
    <2>3. insc \in [Inscripciones ->
              [club : Clubes, desde : Meses, suspendida : BOOLEAN] \cup {Nada}]
        BY <1>1, <2>2, EscenariosAssumption
    <2>4. /\ torneo \in {"DRAFT", "ACTIVO", "CERRADO"}
          /\ tarifa \in [Tipos -> {"no", "activa", "inactiva", "por_mes"}]
          /\ partido \in [Partidos -> {"no", "abierto", "FINALIZADO", "WALKOVER"}]
        BY <1>1, EscenariosAssumption
    <2>5. tarjetas \in [Partidos -> SUBSET Incidencias] /\ mayor \in [LasMultas -> Nat]
        BY <1>2
    <2>6. cobros \in [Cobros -> [Estados -> Nat]]
        BY <1>2
    <2>7. cruces \subseteq Partidos \cup LasCuotas /\ eventos \in 0..MaxEventos
        BY <1>2, TarifasAssumption
    <2>8. QED
        BY <2>1, <2>3, <2>4, <2>5, <2>6, <2>7 DEF TypeOK
<1>5. Pedidas
    BY <1>2, LibreBien DEF Pedidas
<1>6. TomadasHay
    <2>1. ASSUME NEW k \in Cobros
          PROVE  Tomadas(k) = 0
        BY <1>2, LibreBien, NadieTomo, TomadasSon
    <2>2. QED
        BY <1>3, <2>1 DEF TomadasHay, Estados
<1>7. ActaContada
    <2>1. ASSUME NEW p \in Partidos, NEW k \in MultasDe(p)
          PROVE  Contadas(p, tarjetas[p], k) = 0 /\ mayor[k] = 0
        <3>1. {Carta[f] : f \in {g \in tarjetas[p] :
                  Multa(Carta[g].equipo, Carta[g].tipo, p) = k}} = {}
            BY <1>2
        <3>2. mayor[k] = 0
            BY <1>2, MultasAparte
        <3>3. QED
            BY <3>1, <3>2, FS_EmptySet DEF Contadas
    <2>2. QED
        BY <2>1 DEF ActaContada
<1>8. \A q \in Peticiones : peticion[q].op = "libre"
    BY <1>2, LibreBien
<1>9. UnoSolo /\ EnVueloAcotada /\ CuotaSinCancelar
    BY <1>8 DEF UnoSolo, EnVueloAcotada, CuotaSinCancelar, Regenera, Generan
<1>10. MultasBien
    <2>1. \A k \in LasMultas : mayor[k] = 0 /\ Todas(cobros[k]) = 0
        BY <1>2, <1>3, MultasAparte
    <2>2. QED
        BY <2>1 DEF MultasBien, Tope
<1>11. CuotasBien
    <2>1. \A k \in LasCuotas : /\ Todas(cobros[k]) = 0
                               /\ cobros[k]["pendiente"] = 0 /\ cobros[k]["pagado"] = 0
        BY <1>3, MultasAparte DEF Estados
    <2>2. QED
        BY <2>1 DEF CuotasBien
<1>12. QED
    BY <1>4, <1>5, <1>6, <1>7, <1>9, <1>10, <1>11 DEF IInv

\* The requests that only come or go
LEMMA IdasYVueltasBien ==
    ASSUME IInv, NEW q \in Peticiones,
           \/ \E club \in Clubes : PedirInscripcion(q, club)
           \/ Inscribir(q) \/ Activar(q) \/ GenerarCobros(q) \/ CuotasCron(q) \/ Abortar(q)
    PROVE  IInv'
<1>1. TypeOK /\ Pedidas
    BY DEF IInv
<1>2. ASSUME NEW club \in Clubes, PedirInscripcion(q, club)
      PROVE  IInv'
    <2> DEFINE n == [op |-> "inscribir", que |-> club, borra |-> <<>>, crea |-> <<>>]
    <2>1. /\ UNCHANGED <<calendario, acta, cobros, cruces, eventos>>
          /\ peticion' = [peticion EXCEPT ![q] = n]
        BY <1>2 DEF PedirInscripcion, Pide
    <2>2. /\ n.op = "inscribir" /\ n.borra = <<>> /\ Bien(n, partido)
        BY DEF Bien
    <2> HIDE DEF n
    <2>3. TypeOK'
        BY <1>1, <2>1 DEF TypeOK, calendario, acta
    <2>4. UNCHANGED <<acta, cobros, cruces>> /\ n.op # "regenerar" /\ n.op \notin Generan
        BY <2>1, <2>2 DEF Generan
    <2>5. QED
        BY <2>1, <2>2, <2>3, <2>4, SinEscribir
<1>3. ASSUME peticion' = [peticion EXCEPT ![q] = Libre], TypeOK',
             UNCHANGED <<acta, cobros, cruces>>
      PROVE  IInv'
    <2>1. Libre.op # "regenerar" /\ Libre.op \notin Generan
        BY LibreBien DEF Generan
    <2>2. QED
        BY <1>3, <2>1, LibreBien, SinEscribir
<1>4. CASE Inscribir(q)
    <2>1. /\ UNCHANGED <<torneo, tarifa, hoy, acta, cobros, cruces, eventos>>
          /\ peticion' = [peticion EXCEPT ![q] = Libre] /\ peticion[q].op = "inscribir"
        BY <1>4 DEF Inscribir, Acaba
    <2>2. peticion[q].que \in Clubes
        <3>1. Bien(peticion[q], partido)
            BY <1>1 DEF Pedidas
        <3>2. QED
            BY <2>1, <3>1 DEF Bien, Libre, Generan
    <2>3. PICK i \in Inscripciones : insc' = [insc EXCEPT ![i] =
                [club |-> peticion[q].que, desde |-> hoy \div 2, suspendida |-> FALSE]]
        BY <1>4 DEF Inscribir
    <2>4. TypeOK'
        <3>1. hoy \div 2 \in Meses
            BY <1>1, PedidosBien
        <3>2. insc' \in [Inscripciones ->
                  [club : Clubes, desde : Meses, suspendida : BOOLEAN] \cup {Nada}]
            BY <1>1, <2>2, <2>3, <3>1 DEF TypeOK
        <3>3. QED
            BY <1>1, <2>1, <3>2 DEF TypeOK, acta
    <2>5. UNCHANGED <<acta, cobros, cruces>>
        BY <2>1
    <2>6. QED
        BY <1>3, <2>1, <2>4, <2>5
<1>5. CASE Abortar(q)
    <2>1. /\ UNCHANGED <<calendario, acta, cobros, cruces, eventos>>
          /\ peticion' = [peticion EXCEPT ![q] = Libre]
        BY <1>5 DEF Abortar, Acaba
    <2>2. TypeOK'
        BY <1>1, <2>1 DEF TypeOK, calendario, acta
    <2>3. UNCHANGED <<acta, cobros, cruces>>
        BY <2>1
    <2>4. QED
        BY <1>3, <2>1, <2>2, <2>3
<1>6. CASE Activar(q) \/ GenerarCobros(q) \/ CuotasCron(q)
    <2>1. \E op \in Generan : \E ks \in SUBSET SinMultas : PideCobros(q, op, ks)
        BY <1>1, <1>6, PedidosBien DEF Activar, GenerarCobros, CuotasCron, Generan
    <2>2. QED
        BY <2>1, PideCobrosBien
<1>7. QED
    BY <1>2, <1>4, <1>5, <1>6

\* What the office does to the teams, the tariffs and the tournament, and time
LEMMA OficinaBien ==
    ASSUME IInv,
           \/ \E i \in Inscripciones : SuspenderOReactivar(i)
           \/ \E t \in TiposAMano : CrearTarifa(t) \/ EditarTarifa(t)
           \/ \E e \in {"DRAFT", "CERRADO"} : CambiarEstado(e)
           \/ PasaQuincena
    PROVE  IInv'
<1>1. TypeOK /\ ActaContada
    BY DEF IInv
<1>2. UNCHANGED <<partido, tarjetas, mayor, cobros, peticion, cruces>>
    BY DEF SuspenderOReactivar, CrearTarifa, EditarTarifa, CambiarEstado, PasaQuincena, acta
<1>3. eventos' \in 0..MaxEventos
    BY <1>1, TarifasAssumption
       DEF TypeOK, SuspenderOReactivar, CrearTarifa, EditarTarifa, CambiarEstado, PasaQuincena, Gasta
<1>4. insc' \in [Inscripciones ->
          [club : Clubes, desde : Meses, suspendida : BOOLEAN] \cup {Nada}]
    <2> DEFINE R == [club : Clubes, desde : Meses, suspendida : BOOLEAN]
    <2>1. insc \in [Inscripciones -> R \cup {Nada}]
        BY <1>1 DEF TypeOK
    <2>2. ASSUME NEW i \in Inscripciones, SuspenderOReactivar(i)
          PROVE  insc' \in [Inscripciones -> R \cup {Nada}]
        <3>1. insc[i] \in R
            BY <2>1, <2>2 DEF SuspenderOReactivar
        <3>2. [insc[i] EXCEPT !.suspendida = ~insc[i].suspendida] \in R
            BY <3>1
        <3>3. insc' = [insc EXCEPT ![i] = [insc[i] EXCEPT !.suspendida = ~insc[i].suspendida]]
            BY <2>1, <2>2 DEF SuspenderOReactivar
        <3> HIDE DEF R
        <3>4. QED
            BY <2>1, <3>2, <3>3
    <2>3. QED
        BY <2>1, <2>2 DEF CrearTarifa, EditarTarifa, CambiarEstado, PasaQuincena
<1>5. tarifa' \in [Tipos -> {"no", "activa", "inactiva", "por_mes"}]
    BY <1>1, EscenariosAssumption
       DEF TypeOK, SuspenderOReactivar, CrearTarifa, EditarTarifa, CambiarEstado, PasaQuincena
<1>6. torneo' \in {"DRAFT", "ACTIVO", "CERRADO"} /\ hoy' \in 0..MaxQuincena
    BY <1>1, TarifasAssumption
       DEF TypeOK, SuspenderOReactivar, CrearTarifa, EditarTarifa, CambiarEstado, PasaQuincena
<1>7. TypeOK'
    BY <1>1, <1>2, <1>3, <1>4, <1>5, <1>6 DEF TypeOK
<1>8. ActaContada'
    BY <1>1, <1>2, ActaQuieta
<1>9. UNCHANGED <<mayor, peticion, cobros, cruces>> /\ partido' = partido
    BY <1>2
<1>10. QED
    BY <1>7, <1>8, <1>9, CobrosQuietos

\* What a request took is part of what was taken.
LEMMA LoTomado ==
    ASSUME Pedidas, NEW q \in Peticiones, NEW k, k \in DOMAIN peticion[q].borra
    PROVE  peticion[q].borra[k] <= Tomadas(k)
<1> DEFINE otras == [peticion EXCEPT ![q] = Libre]
<1>1. \A r \in Peticiones \ {q} : otras[r] = peticion[r]
    BY DEF Pedidas
<1>2. k \notin DOMAIN otras[q].borra
    BY LibreBien DEF Pedidas
<1>3. Naturales(peticion, k)
    BY TomadasNat
<1> HIDE DEF otras
<1>4. Naturales(otras, k)
    BY <1>1, <1>2, <1>3 DEF Naturales, Borra
<1>5. Cardinality(Tomas(peticion, k)) = Cardinality(Tomas(otras, k)) + Borra(peticion[q], k)
    BY <1>1, <1>2, <1>3, TomasSin
<1>6. Cardinality(Tomas(otras, k)) \in Nat /\ Borra(peticion[q], k) \in Nat
    BY <1>3, <1>4, TomasFinitas DEF Naturales
<1>7. Borra(peticion[q], k) = peticion[q].borra[k]
    BY DEF Borra
<1>8. QED
    BY <1>5, <1>6, <1>7, TomadasSon

LEMMA EscribirMultasTipos ==
    ASSUME IInv, NEW q \in Peticiones, EscribirMultas(q)
    PROVE  TypeOK'
<1> DEFINE r == peticion[q]
           p == r.que
           fila(k) == [cobros[k] EXCEPT !["pendiente"] = @ - r.borra[k] + r.crea[k]]
<1>1. /\ TypeOK /\ Pedidas /\ TomadasHay /\ UNCHANGED <<calendario, acta, cruces, eventos>>
      /\ r.op = "regenerar"
      /\ cobros' = [k \in Cobros |-> IF k \in DOMAIN r.crea THEN fila(k) ELSE cobros[k]]
    BY DEF IInv, EscribirMultas
<1>2. /\ p \in Partidos /\ DOMAIN r.borra = MultasDe(p) /\ DOMAIN r.crea = MultasDe(p)
      /\ \A k \in MultasDe(p) : r.borra[k] \in Nat /\ r.crea[k] \in Nat
    <2>1. Bien(r, partido)
        BY <1>1 DEF Pedidas
    <2>2. p \in Partidos
        BY <1>1, <2>1 DEF Bien, Libre, Generan
    <2>3. Regenera(q, p)
        BY <1>1 DEF Regenera
    <2>4. QED
        BY <1>1, <2>2, <2>3, RegeneraBien
<1>3. ASSUME NEW k \in Cobros, k \in MultasDe(p)
      PROVE  fila(k) \in [Estados -> Nat]
    <2>1. cobros[k] \in [Estados -> Nat] /\ cobros[k]["pendiente"] \in Nat
        BY <1>1, FilaTipos DEF TypeOK
    <2>2. r.borra[k] <= Tomadas(k)
        BY <1>1, <1>2, <1>3, LoTomado
    <2>3. Tomadas(k) <= cobros[k]["pendiente"] /\ Tomadas(k) \in Nat
        BY <1>1, TomadasNat DEF TomadasHay
    <2>4. cobros[k]["pendiente"] - r.borra[k] + r.crea[k] \in Nat
        BY <1>2, <1>3, <2>1, <2>2, <2>3
    <2>5. QED
        BY <2>1, <2>4
<1>4. cobros' \in [Cobros -> [Estados -> Nat]]
    <2>1. cobros \in [Cobros -> [Estados -> Nat]]
        BY <1>1 DEF TypeOK
    <2> HIDE DEF fila, p, r
    <2>2. QED
        BY <1>1, <1>2, <1>3, <2>1 DEF r
<1>5. QED
    BY <1>1, <1>4 DEF TypeOK, calendario, acta

LEMMA PasoBien ==
    ASSUME IInv, [Next]_vars
    PROVE  IInv'
<1>1. CASE UNCHANGED vars
    <2>1. /\ UNCHANGED <<torneo, insc, tarifa, hoy, partido, tarjetas, mayor, eventos>>
          /\ UNCHANGED <<mayor, peticion, cobros, cruces>>
        BY <1>1 DEF vars
    <2>2. TypeOK /\ ActaContada
        BY DEF IInv
    <2>3. TypeOK'
        BY <2>1, <2>2 DEF TypeOK
    <2>4. ActaContada'
        BY <2>1, <2>2, ActaQuieta
    <2>5. QED
        BY <2>1, <2>3, <2>4, CobrosQuietos
<1>2. ASSUME NEW q \in Peticiones, EscribirMultas(q)
      PROVE  IInv'
    <2>1. TypeOK'
        BY <1>2, EscribirMultasTipos
    <2>2. QED
        BY <1>2, <2>1, EscribirMultasBien
<1>3. CASE Next
    <2>1. CASE \E q \in Peticiones :
                   \/ \E club \in Clubes : PedirInscripcion(q, club)
                   \/ Inscribir(q) \/ Activar(q) \/ GenerarCobros(q) \/ CuotasCron(q)
                   \/ Abortar(q)
        BY <2>1, IdasYVueltasBien
    <2>2. CASE \E q \in Peticiones : EscribirCobros(q)
        BY <2>2, EscribirCobrosBien
    <2>3. CASE \E q \in Peticiones : EscribirMultas(q)
        BY <1>2, <2>3
    <2>4. CASE \E q \in Peticiones, p \in Partidos : RegenerarMultas(q, p)
        BY <2>4, RegenerarMultasBien
    <2>5. CASE \E i \in Inscripciones : Desinscribir(i)
        BY <2>5, DesinscribirBien
    <2>6. CASE \/ \E i \in Inscripciones : SuspenderOReactivar(i)
               \/ \E t \in TiposAMano : CrearTarifa(t) \/ EditarTarifa(t)
               \/ \E e \in {"DRAFT", "CERRADO"} : CambiarEstado(e)
               \/ PasaQuincena
        BY <2>6, OficinaBien
    <2>7. CASE \E p \in Partidos : \/ \E f \in Incidencias : CargarTarjeta(p, f)
                                   \/ CerrarActa(p) \/ ReabrirOAnular(p)
                                   \/ \E i \in Inscripciones : DeclararWalkover(p, i)
        BY <2>7, CargarTarjetaBien, CerrarActaBien, ReabrirOAnularBien, DeclararWalkoverBien
    <2>8. CASE \E k \in Cobros : \/ \E s \in Pasos : CambiarCobro(k, s)
                                 \/ \E e \in Estados : EliminarCobro(k, e)
        BY <2>8, CambiarCobroBien, EliminarCobroBien
    <2>9. QED
        BY <1>3, <2>1, <2>2, <2>3, <2>4, <2>5, <2>6, <2>7, <2>8 DEF Next
<1>4. QED
    BY <1>1, <1>3

LEMMA Invariante == Spec => []IInv
<1>1. Init => IInv
    BY InitBien
<1>2. IInv /\ [Next]_vars => IInv'
    BY PasoBien
<1>3. QED
    BY <1>1, <1>2, PTL DEF Spec

-----------------------------------------------------------------------------
(* Theorems                                                                *)

\* No charge is ever counted below zero, in any state: what an acta, the office and
\* regenerarMultas delete is there.  The charges stay those of the tournament's teams,
\* matches and months.
THEOREM TiposDeTarifas == Spec => []TypeOK
<1>1. IInv => TypeOK
    BY DEF IInv
<1>2. QED
    BY <1>1, Invariante, PTL

\* However often an acta is reopened, corrected and closed again, and whatever the office
\* pays, cancels and reverts in between, borrarCobrosAutoDelPartido and
\* contarCobrosSaldadosDelPartido leave a team one fine of a kind for each card of it, and
\* one for a walkover, unless two requests fined the match at once.
THEOREM UnaMultaPorTarjeta == Spec => []MultasAcotadas
<1>1. IInv => MultasAcotadas
    <2>1. ASSUME IInv, NEW k \in LasMultas, k.por \notin cruces
          PROVE  Filas(k, Estados) <= IF k.tarifa = "MULTA_WALKOVER" THEN 1 ELSE mayor[k]
        <3>1. cobros \in [Cobros -> [Estados -> Nat]] /\ k \in Cobros
            BY <2>1, MultasAparte DEF IInv, TypeOK
        <3>2. Filas(k, Estados) = Todas(cobros[k])
            BY <3>1, FilasSon
        <3>3. QED
            BY <2>1, <3>2 DEF IInv, MultasBien, Tope
    <2>2. QED
        BY <2>1 DEF MultasAcotadas
<1>2. QED
    BY <1>1, Invariante, PTL

\* However many requests make cuotas at once, uq_cobro_cuota_periodo leaves a team one
\* cuota owed or paid for a month; one that was cancelled is not charged again, unless it
\* was cancelled while one of them ran.
THEOREM UnaCuotaPorMes == Spec => []UnaCuotaPorPeriodo
<1>1. IInv => UnaCuotaPorPeriodo
    <2>1. ASSUME IInv, NEW k \in LasCuotas
          PROVE  /\ Filas(k, Vigentes) <= 1
                 /\ k \notin cruces => Filas(k, Estados) <= 1
        <3>1. cobros \in [Cobros -> [Estados -> Nat]] /\ k \in Cobros
            BY <2>1, MultasAparte DEF IInv, TypeOK
        <3>2. /\ Filas(k, Estados) = Todas(cobros[k])
              /\ Filas(k, Vigentes) = cobros[k]["pendiente"] + cobros[k]["pagado"]
            BY <3>1, FilasSon
        <3>3. QED
            BY <2>1, <3>2 DEF IInv, CuotasBien
    <2>2. QED
        BY <2>1 DEF UnaCuotaPorPeriodo
<1>2. QED
    BY <1>1, Invariante, PTL

=============================================================================
