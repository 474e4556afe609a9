---------------------------- MODULE SesionesProofs ----------------------------
(***************************************************************************)
(* Theorems of Sesiones, for any number of tokens, browsers, tabs and      *)
(* requests in flight.                                                     *)
(***************************************************************************)
EXTENDS Sesiones, TLAPS, WellFoundedInduction

-----------------------------------------------------------------------------
(* The inductive invariant                                                 *)

\* What a request carries at each of its steps: the one that rotates a token has it
\* locked and alive.
PasoBien(q) ==
    /\ peticion[q].op \in {"libre", "restablecer"} <=> peticion[q].p = Nada
    /\ peticion[q].p = Nada => peticion[q].t = Nada
    /\ peticion[q].paso \in {"buscar", "rotar", "delatar"} =>
           peticion[q].op = "refrescar" /\ peticion[q].t \in Tokens
    /\ peticion[q].paso = "emitir" => peticion[q].op \in {"entrar", "refrescar", "cambiar"}
    /\ peticion[q].op = "refrescar" /\ peticion[q].paso = "emitir" =>
           peticion[q].t \in Vivos
    /\ peticion[q].paso = "cerrar" => peticion[q].op \in {"salir", "cambiar"}
    /\ peticion[q].paso = "ok" => peticion[q].p # Nada
    /\ peticion[q].paso \in {"consumir", "revocar"} => peticion[q].op = "restablecer"
    /\ peticion[q].alcance \cap Sobrantes = {}
    /\ peticion[q].salir => peticion[q].op = "refrescar"

Pasos == \A q \in Peticiones : PasoBien(q)

\* The row of a token is held by one transaction.
Tiene(q) == peticion[q].op # "entrar" /\ peticion[q].paso = "emitir" /\ peticion[q].t # Nada

UnDueno == \A q, r \in Peticiones :
    Tiene(q) /\ Tiene(r) /\ peticion[q].t = peticion[r].t => q = r

\* A token with a descendant is rotated, which is for ever.
Padres == \A u \in Tokens : token[u].padre # Nada => token[token[u].padre].estado = "ROTADO"

\* A token that was revoked does not come back.
Muertas == \A t \in revocadas : token[t].estado \notin {"no", "vivo"}

\* One form at a time has the link, and while it does the link is good.
Enlazado ==
    /\ claves = IF enlace = "usado" THEN 1 ELSE 0
    /\ \A q \in Peticiones : peticion[q].paso = "revocar" =>
           enlace = "vivo" /\ \A r \in Peticiones : peticion[r].paso = "revocar" => r = q

\* The hypothesis of SinFalsaAlarma
Tranquilo == solo /\ revocadas = {}

DelMismo(q, r) ==
    peticion[q].p # Nada /\ peticion[r].p # Nada /\ peticion[q].p[1] = peticion[r].p[1]

\* A browser does one thing at a time, and refreshes once.
Turnos == \A q, r \in Peticiones : DelMismo(q, r) =>
    /\ peticion[q].p = peticion[r].p /\ peticion[q].op = peticion[r].op
    /\ peticion[q].op = "refrescar" => q = r

\* No token is in two browsers, in the cookie or on its way.
Aparte ==
    /\ \A q, r \in Peticiones :
           peticion[q].t # Nada /\ peticion[q].t = peticion[r].t => DelMismo(q, r)
    /\ \A q \in Peticiones, n \in Navegadores :
           peticion[q].t # Nada /\ peticion[q].t = galleta[n] => peticion[q].p[1] = n
    /\ \A n, m \in Navegadores : galleta[n] # Nada /\ galleta[n] = galleta[m] => n = m

\* What goes in a request was not rotated, and to be rotated it is alive.
Frescas == \A q \in Peticiones : peticion[q].t # Nada =>
    /\ token[peticion[q].t].estado \notin {"no", "ROTADO"}
    /\ peticion[q].paso = "rotar" => token[peticion[q].t].estado = "vivo"

\* The cookie is behind only until the answer of the refresh that rotated it.
Galletas == \A n \in Navegadores : galleta[n] # Nada =>
    /\ token[galleta[n]].estado # "no"
    /\ token[galleta[n]].estado = "ROTADO" =>
           \E q \in Peticiones : /\ peticion[q].op = "refrescar" /\ peticion[q].paso = "ok"
                                 /\ peticion[q].p[1] = n

Serena == Tranquilo => ~alarma /\ Turnos /\ Aparte /\ Frescas /\ Galletas

IInv == /\ TypeOK /\ Pasos /\ UnDueno /\ Padres /\ UnDescendiente /\ Muertas
        /\ Enlazado /\ Serena

\* One record for the requests
Peticion ==
    [op : {"libre", "entrar", "refrescar", "salir", "cambiar", "restablecer"},
     p : Pestanas \cup {Nada}, t : Tokens \cup {Nada},
     paso : {"ninguno", "emitir", "buscar", "rotar", "cerrar", "delatar", "consumir",
             "revocar", "ok", "negada"},
     alcance : SUBSET Tokens, salir : BOOLEAN]

Fila == [estado : {"no", "vivo", "ROTADO", "LOGOUT", "SEGURIDAD"}, padre : Tokens \cup {Nada}]

-----------------------------------------------------------------------------
(* Lemmas                                                                  *)

\* A nonempty set of tokens has its smallest one.
LEMMA HayMinimo ==
    ASSUME NEW S, S \subseteq Tokens, S # {}
    PROVE  Min(S) \in S
<1> DEFINE R == OpToRel(<, Nat)
<1>1. IsWellFoundedOn(R, Nat)
    BY NatLessThanWellFounded
<1> HIDE DEF R
<1>2. S \subseteq Nat
    BY SesionesAssumption
<1>3. PICK x \in S : \A y \in S : ~(<<y, x>> \in R)
    BY ONLY <1>1, <1>2, S # {}, WFMin, Zenon
<1>4. \A y, z \in Nat : y < z => <<y, z>> \in R
    BY DEF R, OpToRel
<1>5. \A y \in S : x <= y
    <2>1. \A y \in S : x \in Nat /\ y \in Nat /\ ~(y < x)
        BY <1>2, <1>3, <1>4
    <2>2. QED
        BY <2>1
<1>6. QED
    BY <1>5 DEF Min

\* The turns of the browsers depend on what the requests are and carry, not on how far
\* they are.
LEMMA MismosTurnos ==
    ASSUME Turnos, Aparte, galleta' = galleta,
           \A q \in Peticiones : /\ peticion'[q].op = peticion[q].op
                                 /\ peticion'[q].p = peticion[q].p /\ peticion'[q].t = peticion[q].t
    PROVE  Turnos' /\ Aparte'
<1>1. ASSUME NEW q \in Peticiones, NEW r \in Peticiones
      PROVE  DelMismo(q, r)' = DelMismo(q, r)
    BY DEF DelMismo
<1>2. Turnos'
    <2> SUFFICES ASSUME NEW q \in Peticiones, NEW r \in Peticiones, DelMismo(q, r)'
                 PROVE  /\ peticion'[q].p = peticion'[r].p /\ peticion'[q].op = peticion'[r].op
                        /\ peticion'[q].op = "refrescar" => q = r
        BY DEF Turnos
    <2>1. /\ peticion[q].p = peticion[r].p /\ peticion[q].op = peticion[r].op
          /\ peticion[q].op = "refrescar" => q = r
        BY <1>1 DEF Turnos
    <2>2. QED
        BY <2>1
<1>3. Aparte'
    <2>1. ASSUME NEW q \in Peticiones, NEW r \in Peticiones, peticion'[q].t # Nada,
                 peticion'[q].t = peticion'[r].t
          PROVE  DelMismo(q, r)'
        BY <1>1, <2>1 DEF Aparte
    <2>2. ASSUME NEW q \in Peticiones, NEW n \in Navegadores, peticion'[q].t # Nada,
                 peticion'[q].t = galleta[n]
          PROVE  peticion'[q].p[1] = n
        BY <2>2 DEF Aparte
    <2>3. QED
        BY <2>1, <2>2 DEF Aparte
<1>4. QED
    BY <1>2, <1>3

\* What a tab asks for when it had the request k free.
Manda(k, p, op, paso, salir) ==
    /\ op \in {"entrar", "refrescar", "salir", "cambiar"} /\ salir \in BOOLEAN
    /\ (salir => op = "refrescar")
    /\ peticion[k] = Libre
    /\ peticion' = [peticion EXCEPT ![k] = Pedido(op, p, galleta[p[1]], paso, salir)]
    /\ \/ op = "entrar" /\ paso = "emitir"
       \/ /\ op = "refrescar" /\ EnVuelo(p, "refrescar") = {}
          /\ paso = IF galleta[p[1]] = Nada THEN "negada" ELSE "buscar"
       \/ op \in {"salir", "cambiar"} /\ paso = "cerrar"
    /\ solo' = (solo /\ ~Roza(p, op))
    /\ eventos' \in 0..MaxEventos

\* A tab asks for something in place of nothing (Pide), with the cookie of its browser.
LEMMA PedirBien ==
    ASSUME IInv, NEW k \in Peticiones, NEW p \in Pestanas,
           NEW op, NEW paso, NEW salir, Manda(k, p, op, paso, salir),
           acceso' \in [Pestanas -> {"no", "vigente", "vencido"}],
           UNCHANGED <<bd, galleta, revocadas, alarma>>
    PROVE  IInv'
<1>0. /\ op \in {"entrar", "refrescar", "salir", "cambiar"} /\ salir \in BOOLEAN
      /\ (salir => op = "refrescar") /\ peticion[k] = Libre
      /\ peticion' = [peticion EXCEPT ![k] =
             [op |-> op, p |-> p, t |-> galleta[p[1]], paso |-> paso, alcance |-> {},
              salir |-> salir]]
      /\ \/ op = "entrar" /\ paso = "emitir"
         \/ /\ op = "refrescar" /\ EnVuelo(p, "refrescar") = {}
            /\ paso = IF galleta[p[1]] = Nada THEN "negada" ELSE "buscar"
         \/ op \in {"salir", "cambiar"} /\ paso = "cerrar"
      /\ solo' = (solo /\ ~Roza(p, op)) /\ eventos' \in 0..MaxEventos
    BY DEF Manda, Pedido
<1> USE <1>0
<1> DEFINE n == p[1]
           nueva == [op |-> op, p |-> p, t |-> galleta[n], paso |-> paso, alcance |-> {},
                     salir |-> salir]
<1>1. n \in Navegadores /\ p # Nada
    BY SesionesAssumption DEF Navegadores
<1>2. /\ peticion \in [Peticiones -> Peticion] /\ galleta \in [Navegadores -> Tokens \cup {Nada}]
      /\ token \in [Tokens -> Fila] /\ solo \in BOOLEAN
      /\ galleta[n] \in Tokens \cup {Nada}
    BY <1>1 DEF IInv, TypeOK, Peticion, Fila
<1>3. /\ peticion' \in [Peticiones -> Peticion]
      /\ peticion'[k] = nueva
      /\ \A q \in Peticiones : q # k => peticion'[q] = peticion[q]
    BY <1>2 DEF Peticion
<1>4. /\ UNCHANGED <<token, enlace, claves, galleta, revocadas, alarma>>
      /\ Vivos' = Vivos /\ Sobrantes' = Sobrantes
    BY DEF bd, Vivos, Sobrantes
<1>5. TypeOK'
    BY <1>2, <1>3, <1>4 DEF IInv, TypeOK, Peticion
<1> HIDE DEF n
<1>6. Pasos'
    <2>1. PasoBien(k)'
        BY <1>1, <1>2, <1>3 DEF PasoBien
    <2>2. ASSUME NEW q \in Peticiones, q # k
          PROVE  PasoBien(q)'
        BY <1>3, <1>4, <2>2 DEF IInv, Pasos, PasoBien
    <2>3. QED
        BY <2>1, <2>2 DEF Pasos
<1>7. UnDueno'
    <2>1. \A q \in Peticiones : Tiene(q)' => q # k /\ Tiene(q)
        BY <1>3 DEF Tiene
    <2>2. QED
        BY <1>3, <2>1 DEF IInv, UnDueno
<1>8. Padres' /\ UnDescendiente' /\ Muertas'
    BY <1>4 DEF IInv, Padres, UnDescendiente, Muertas
<1>9. Enlazado'
    <2>1. \A q \in Peticiones : peticion'[q].paso = "revocar" => peticion[q].paso = "revocar"
        BY <1>3
    <2>2. QED
        BY <1>4, <2>1 DEF IInv, Enlazado
<1>10. Serena'
    <2> SUFFICES ASSUME Tranquilo'
                 PROVE  ~alarma' /\ Turnos' /\ Aparte' /\ Frescas' /\ Galletas'
        BY DEF Serena
    <2>1. ~alarma /\ Turnos /\ Aparte /\ Frescas /\ Galletas /\ ~Roza(p, op)
        BY <1>2, <1>4 DEF IInv, Serena, Tranquilo
    <2>2. \A q \in Peticiones : q # k /\ peticion[q].p # Nada /\ peticion[q].p[1] = n =>
              peticion[q].p = p /\ peticion[q].op = op /\ op # "refrescar"
        BY <2>1 DEF Roza, EnVuelo, n
    <2>3. Turnos'
        BY <1>3, <2>1, <2>2 DEF Turnos, DelMismo, n
    <2>4. Aparte'
        <3>1. ASSUME NEW q \in Peticiones, NEW r \in Peticiones, peticion'[q].t # Nada,
                     peticion'[q].t = peticion'[r].t
              PROVE  DelMismo(q, r)'
            BY <1>1, <1>2, <1>3, <2>1, <3>1 DEF IInv, Pasos, PasoBien, Aparte, DelMismo, n
        <3>2. QED
            BY <1>1, <1>3, <1>4, <2>1, <3>1 DEF Aparte, n
    <2>5. Frescas'
        <3>1. galleta[n] # Nada => token[galleta[n]].estado \notin {"no", "ROTADO"}
            <4>1. ASSUME NEW q \in Peticiones, peticion[q].op = "refrescar", peticion[q].p[1] = n
                  PROVE  FALSE
                <5>1. q # k /\ peticion[q].p # Nada
                    BY <4>1 DEF IInv, Pasos, PasoBien, Libre, Pedido
                <5>2. QED
                    BY <2>2, <4>1, <5>1
            <4>2. QED
                BY <1>1, <2>1, <4>1 DEF Galletas
        <3>2. paso # "rotar"
            OBVIOUS
        <3>3. QED
            BY <1>3, <1>4, <2>1, <3>1, <3>2 DEF Frescas
    <2>6. Galletas'
        <3>1. \A q \in Peticiones : peticion[q].op = "refrescar" => peticion'[q] = peticion[q]
            BY <1>3 DEF Libre, Pedido
        <3>2. QED
            BY <1>4, <2>1, <3>1 DEF Galletas
    <2>7. QED
        BY <1>4, <2>1, <2>3, <2>4, <2>5, <2>6
<1>11. QED
    BY <1>5, <1>6, <1>7, <1>8, <1>9, <1>10 DEF IInv

\* The steps of the server that only take a request further keep the rest.
LEMMA PasaBien ==
    ASSUME IInv, NEW k \in Peticiones, NEW paso, NEW alcance \in SUBSET Tokens,
           alcance \cap Sobrantes = {},
           peticion' = [peticion EXCEPT ![k].paso = paso, ![k].alcance = alcance],
           paso \in {"rotar", "emitir", "delatar", "negada", "revocar"},
           UNCHANGED <<bd, navegador, revocadas, solo, eventos>>, alarma' \in BOOLEAN,
           PasoBien(k)',
           paso = "emitir" /\ peticion[k].t # Nada => ~Bloqueada(peticion[k].t),
           paso = "revocar" => enlace = "vivo" /\ \A q \in Peticiones : peticion[q].paso # "revocar",
           peticion[k].paso # "ok",
           Tranquilo /\ peticion[k].t # Nada /\ paso = "rotar" => peticion[k].t \in Vivos,
           Tranquilo => alarma' = alarma
    PROVE  IInv'
<1>1. /\ peticion \in [Peticiones -> Peticion] /\ solo \in BOOLEAN
    BY DEF IInv, TypeOK, Peticion
<1>2. /\ peticion' \in [Peticiones -> Peticion]
      /\ peticion'[k].paso = paso
      /\ peticion'[k].op = peticion[k].op /\ peticion'[k].p = peticion[k].p
      /\ peticion'[k].t = peticion[k].t
      /\ \A q \in Peticiones : q # k => peticion'[q] = peticion[q]
    <2> DEFINE nueva == [peticion[k] EXCEPT !.paso = paso, !.alcance = alcance]
    <2>1. /\ nueva \in Peticion /\ nueva.paso = paso /\ nueva.op = peticion[k].op
          /\ nueva.p = peticion[k].p /\ nueva.t = peticion[k].t
        BY <1>1 DEF Peticion
    <2>2. peticion' = [peticion EXCEPT ![k] = nueva]
        BY <1>1
    <2> HIDE DEF nueva
    <2>3. QED
        BY <1>1, <2>1, <2>2
<1>3. /\ UNCHANGED <<token, enlace, claves, galleta, revocadas, acceso, solo, eventos>>
      /\ Vivos' = Vivos /\ Sobrantes' = Sobrantes
    BY DEF bd, Vivos, Sobrantes, navegador
<1>4. TypeOK'
    BY <1>2, <1>3 DEF IInv, TypeOK, Peticion
<1>5. Pasos'
    <2>1. ASSUME NEW q \in Peticiones, q # k
          PROVE  PasoBien(q)'
        BY <1>2, <1>3, <2>1 DEF IInv, Pasos, PasoBien
    <2>2. QED
        BY <2>1 DEF Pasos
<1>6. UnDueno'
    <2>1. \A q \in Peticiones : q # k => (Tiene(q)' <=> Tiene(q))
        BY <1>2 DEF Tiene
    <2>2. \A q \in Peticiones : Tiene(q) /\ Tiene(k)' => peticion[q].t # peticion[k].t
        BY <1>2 DEF Tiene, Bloqueada
    <2>3. QED
        BY <1>2, <2>1, <2>2 DEF IInv, UnDueno
<1>7. Padres' /\ UnDescendiente' /\ Muertas'
    BY <1>3 DEF IInv, Padres, UnDescendiente, Muertas
<1>8. Enlazado'
    BY <1>2, <1>3 DEF IInv, Enlazado
<1>9. Serena'
    <2> SUFFICES ASSUME Tranquilo'
                 PROVE  ~alarma' /\ Turnos' /\ Aparte' /\ Frescas' /\ Galletas'
        BY DEF Serena
    <2>1. ~alarma' /\ Turnos /\ Aparte /\ Frescas /\ Galletas /\ Tranquilo
        BY <1>1, <1>3 DEF IInv, Serena, Tranquilo
    <2>2. \A q \in Peticiones : /\ peticion'[q].op = peticion[q].op
                                /\ peticion'[q].p = peticion[q].p /\ peticion'[q].t = peticion[q].t
        BY <1>2
    <2>3. Turnos' /\ Aparte'
        BY <1>3, <2>1, <2>2, MismosTurnos
    <2>4. Frescas'
        BY <1>2, <1>3, <2>1 DEF Frescas, Vivos
    <2>5. Galletas'
        BY <1>2, <1>3, <2>1 DEF Galletas
    <2>6. QED
        BY <2>1, <2>3, <2>4, <2>5
<1>10. QED
    BY <1>4, <1>5, <1>6, <1>7, <1>8, <1>9 DEF IInv

\* refresh looks its row up.
LEMMA BuscarBien ==
    ASSUME IInv, NEW k \in Peticiones, Buscar(k)
    PROVE  IInv'
<1> DEFINE t == peticion[k].t
<1>1. /\ peticion[k].op = "refrescar" /\ peticion[k].paso = "buscar" /\ t \in Tokens
      /\ peticion[k].p # Nada /\ peticion[k].alcance \cap Sobrantes = {}
      /\ peticion \in [Peticiones -> Peticion] /\ alarma \in BOOLEAN
    BY DEF IInv, Pasos, PasoBien, Buscar, TypeOK, Peticion
<1>2. UNCHANGED <<bd, navegador, revocadas, solo, eventos>> /\ Sobrantes' = Sobrantes
    BY DEF Buscar, bd, Sobrantes
<1>3. Tranquilo => token[t].estado # "ROTADO"
    BY <1>1, SesionesAssumption DEF IInv, Serena, Frescas
<1>4. PICK paso \in {"delatar", "negada", "rotar"}, alcance \in {Vivos, peticion[k].alcance} :
          /\ peticion' = [peticion EXCEPT ![k].paso = paso, ![k].alcance = alcance]
          /\ alarma' \in BOOLEAN
          /\ Tranquilo => alarma' = alarma
          /\ paso = "rotar" => t \in Vivos
    <2>1. CASE token[t].estado = "ROTADO"
        BY <1>1, <1>3, <2>1 DEF Buscar, Alcanza
    <2>2. ASSUME NEW x, Pasa(k, x)
          PROVE  peticion' = [peticion EXCEPT ![k].paso = x, ![k].alcance = peticion[k].alcance]
        BY <1>1, <2>2 DEF Pasa, Peticion
    <2>3. CASE token[t].estado \in {"LOGOUT", "SEGURIDAD"}
        BY <1>1, <2>2, <2>3 DEF Buscar
    <2>4. CASE token[t].estado = "vivo"
        BY <1>1, <2>2, <2>4 DEF Buscar, Vivos
    <2>5. QED
        BY <2>1, <2>3, <2>4 DEF Buscar
<1>5. alcance \in SUBSET Tokens /\ alcance \cap Sobrantes = {}
    BY <1>1, <1>4 DEF Vivos, Sobrantes, Peticion
<1>6. /\ peticion'[k].paso = paso /\ peticion'[k].alcance = alcance
      /\ peticion'[k].op = "refrescar" /\ peticion'[k].t = t /\ peticion'[k].p = peticion[k].p
    BY <1>1, <1>4 DEF Peticion
<1>7. PasoBien(k)' /\ ~Tiene(k)'
    BY <1>1, <1>2, <1>5, <1>6 DEF PasoBien, Tiene
<1>8. QED
    BY <1>1, <1>2, <1>4, <1>5, <1>7, PasaBien

\* The UPDATE that rotates: with the row free, it is alive or somebody is a thief.
LEMMA RotarBien ==
    ASSUME IInv, NEW k \in Peticiones, Rotar(k)
    PROVE  IInv'
<1> DEFINE t == peticion[k].t
<1>1. /\ peticion[k].op = "refrescar" /\ peticion[k].paso = "rotar" /\ t \in Tokens
      /\ peticion[k].p # Nada /\ peticion[k].alcance \cap Sobrantes = {}
      /\ peticion[k].alcance \subseteq Tokens
      /\ ~Bloqueada(t)
      /\ peticion \in [Peticiones -> Peticion] /\ alarma \in BOOLEAN
    BY DEF IInv, Pasos, PasoBien, Rotar, TypeOK, Peticion
<1>2. /\ UNCHANGED <<bd, navegador, revocadas, solo, eventos>>
      /\ Sobrantes' = Sobrantes /\ Vivos' = Vivos
    BY DEF Rotar, bd, Sobrantes, Vivos
<1>3. Tranquilo => token[t].estado = "vivo"
    BY <1>1, SesionesAssumption DEF IInv, Serena, Frescas
<1>4. PICK paso \in {"delatar", "emitir"}, alcance \in {Vivos, peticion[k].alcance} :
          /\ peticion' = [peticion EXCEPT ![k].paso = paso, ![k].alcance = alcance]
          /\ alarma' \in BOOLEAN
          /\ Tranquilo => alarma' = alarma
          /\ paso = "emitir" => t \in Vivos
    <2>1. CASE token[t].estado = "vivo"
        <3>1. peticion' = [peticion EXCEPT ![k].paso = "emitir", ![k].alcance = peticion[k].alcance]
            BY <1>1, <2>1 DEF Rotar, Pasa, Peticion
        <3>2. QED
            BY <1>1, <2>1, <3>1 DEF Rotar, Vivos
    <2>2. CASE token[t].estado # "vivo"
        BY <1>1, <1>3, <2>2 DEF Rotar, Alcanza
    <2>3. QED
        BY <2>1, <2>2
<1>5. alcance \in SUBSET Tokens /\ alcance \cap Sobrantes = {}
    BY <1>1, <1>4 DEF Vivos, Sobrantes
<1>6. /\ peticion'[k].paso = paso /\ peticion'[k].alcance = alcance
      /\ peticion'[k].op = "refrescar" /\ peticion'[k].t = t /\ peticion'[k].p = peticion[k].p
      /\ peticion'[k].salir = peticion[k].salir
    BY <1>1, <1>4 DEF Peticion
<1>7. PasoBien(k)'
    BY <1>1, <1>2, <1>4, <1>5, <1>6 DEF PasoBien
<1>8. QED
    BY <1>1, <1>2, <1>4, <1>5, <1>7, PasaBien

\* consumir: the link is marked by one form only.
LEMMA ConsumirBien ==
    ASSUME IInv, NEW k \in Peticiones, Consumir(k)
    PROVE  IInv'
<1>1. /\ peticion[k].op = "restablecer" /\ peticion[k].paso = "consumir"
      /\ peticion[k].p = Nada /\ peticion[k].t = Nada
      /\ peticion[k].alcance \cap Sobrantes = {} /\ peticion[k].alcance \subseteq Tokens
      /\ peticion \in [Peticiones -> Peticion] /\ alarma \in BOOLEAN
    BY DEF IInv, Pasos, PasoBien, Consumir, TypeOK, Peticion
<1>2. /\ UNCHANGED <<bd, navegador, revocadas, alarma, solo, eventos>>
      /\ Sobrantes' = Sobrantes /\ Vivos' = Vivos
    BY DEF Consumir, bd, Sobrantes, Vivos, historia
<1>3. PICK paso \in {"revocar", "negada"}, alcance \in {Vivos, peticion[k].alcance} :
          /\ peticion' = [peticion EXCEPT ![k].paso = paso, ![k].alcance = alcance]
          /\ paso = "revocar" => enlace = "vivo"
    <2>1. CASE enlace = "vivo"
        BY <2>1 DEF Consumir, Alcanza
    <2>2. CASE enlace # "vivo"
        <3>1. peticion' = [peticion EXCEPT ![k].paso = "negada", ![k].alcance = peticion[k].alcance]
            BY <1>1, <2>2 DEF Consumir, Pasa, Peticion
        <3>2. QED
            BY <3>1
    <2>3. QED
        BY <2>1, <2>2
<1>4. \A q \in Peticiones : peticion[q].paso # "revocar"
    BY DEF Consumir, EnlaceTomado, IInv, Pasos, PasoBien
<1>5. alcance \in SUBSET Tokens /\ alcance \cap Sobrantes = {}
    BY <1>1, <1>3 DEF Vivos, Sobrantes
<1>6. /\ peticion'[k].paso = paso /\ peticion'[k].alcance = alcance
      /\ peticion'[k].op = "restablecer" /\ peticion'[k].t = Nada /\ peticion'[k].p = Nada
      /\ peticion'[k].salir = peticion[k].salir
    BY <1>1, <1>3 DEF Peticion
<1>7. PasoBien(k)'
    BY <1>1, <1>2, <1>5, <1>6 DEF PasoBien, IInv, Pasos
<1>8. QED
    BY <1>1, <1>2, <1>3, <1>4, <1>5, <1>7, PasaBien

\* A request that ends, without its answer changing the cookie, leaves the rest.
LEMMA AcabaBien ==
    ASSUME IInv, NEW k \in Peticiones, Acaba(k),
           UNCHANGED <<bd, galleta, revocadas, alarma>>,
           acceso' \in [Pestanas -> {"no", "vigente", "vencido"}], eventos' \in 0..MaxEventos,
           solo' \in BOOLEAN, solo' => solo /\ peticion[k].paso # "ok"
    PROVE  IInv'
<1>1. /\ peticion' \in [Peticiones -> Peticion]
      /\ peticion'[k] = Libre
      /\ \A q \in Peticiones : q # k => peticion'[q] = peticion[q]
    BY DEF Acaba, IInv, TypeOK, Peticion, Libre, Pedido
<1>2. /\ UNCHANGED <<token, enlace, claves>>
      /\ Vivos' = Vivos /\ Sobrantes' = Sobrantes
    BY DEF bd, Vivos, Sobrantes
<1>3. TypeOK'
    BY <1>1, <1>2 DEF IInv, TypeOK, Peticion
<1>4. Pasos'
    <2>1. PasoBien(k)'
        BY <1>1 DEF PasoBien, Libre, Pedido
    <2>2. ASSUME NEW q \in Peticiones, q # k
          PROVE  PasoBien(q)'
        BY <1>1, <1>2, <2>2 DEF IInv, Pasos, PasoBien
    <2>3. QED
        BY <2>1, <2>2 DEF Pasos
<1>5. UnDueno'
    BY <1>1 DEF IInv, UnDueno, Tiene, Libre, Pedido
<1>6. Padres' /\ UnDescendiente' /\ Muertas'
    BY <1>2 DEF IInv, Padres, UnDescendiente, Muertas
<1>7. Enlazado'
    BY <1>1, <1>2 DEF IInv, Enlazado, Libre, Pedido
<1>8. Serena'
    <2> SUFFICES ASSUME Tranquilo'
                 PROVE  ~alarma' /\ Turnos' /\ Aparte' /\ Frescas' /\ Galletas'
        BY DEF Serena
    <2>1. ~alarma' /\ Turnos /\ Aparte /\ Frescas /\ Galletas
        BY DEF IInv, Serena, Tranquilo
    <2>2. Turnos'
        BY <1>1, <2>1 DEF Turnos, DelMismo, Libre, Pedido
    <2>3. Aparte'
        BY <1>1, <2>1 DEF Aparte, DelMismo, Libre, Pedido
    <2>4. Frescas'
        BY <1>1, <1>2, <2>1 DEF Frescas, Libre, Pedido
    <2>5. Galletas'
        BY <1>1, <1>2, <2>1 DEF Galletas, Libre, Pedido, Tranquilo
    <2>6. QED
        BY <2>1, <2>2, <2>3, <2>4, <2>5
<1>9. QED
    BY <1>3, <1>4, <1>5, <1>6, <1>7, <1>8 DEF IInv

\* An UPDATE that revokes touches what it names and is alive.
LEMMA RevocaTokens ==
    ASSUME token \in [Tokens -> Fila], NEW ts, NEW motivo \in {"LOGOUT", "SEGURIDAD"},
           token' = Revoca(ts, motivo)
    PROVE  /\ token' \in [Tokens -> Fila]
           /\ Sobrantes' = Sobrantes
           /\ \A t \in Tokens : /\ token'[t].padre = token[t].padre
                                /\ t \notin ts => token'[t] = token[t]
                                /\ token[t].estado # "vivo" => token'[t].estado = token[t].estado
                                /\ token[t].estado = "vivo" /\ t \in ts => token'[t].estado = motivo
<1>1. \A t \in Tokens : token'[t] = IF t \in ts /\ token[t].estado = "vivo"
                                    THEN [token[t] EXCEPT !.estado = motivo] ELSE token[t]
    BY DEF Revoca
<1>2. \A t \in Tokens :
          /\ [token[t] EXCEPT !.estado = motivo] \in Fila
          /\ [token[t] EXCEPT !.estado = motivo].estado = motivo
          /\ [token[t] EXCEPT !.estado = motivo].padre = token[t].padre
    BY DEF Fila
<1>3. token' \in [Tokens -> Fila]
    BY <1>2 DEF Revoca
<1>4. \A t \in Tokens : /\ token'[t].padre = token[t].padre
                        /\ t \notin ts => token'[t] = token[t]
                        /\ token[t].estado # "vivo" => token'[t].estado = token[t].estado
                        /\ token[t].estado = "vivo" /\ t \in ts => token'[t].estado = motivo
    BY <1>1, <1>2
<1>5. Sobrantes' = Sobrantes
    BY <1>4 DEF Sobrantes
<1>6. QED
    BY <1>3, <1>4, <1>5

\* The parts of the invariant that speak of the rows, after a revocation of rows that
\* nobody has locked.
LEMMA RevocaBien ==
    ASSUME IInv, NEW ts, NEW motivo \in {"LOGOUT", "SEGURIDAD"}, token' = Revoca(ts, motivo),
           \A t \in ts : t # Nada => ~Bloqueada(t)
    PROVE  /\ token' \in [Tokens -> Fila] /\ Sobrantes' = Sobrantes
           /\ Padres' /\ UnDescendiente'
           /\ \A t \in revocadas : token'[t].estado \notin {"no", "vivo"}
           /\ \A q \in Peticiones : peticion[q].op = "refrescar" /\ peticion[q].paso = "emitir" =>
                  peticion[q].t \in Vivos'
<1>1. token \in [Tokens -> Fila] /\ peticion \in [Peticiones -> Peticion] /\ revocadas \subseteq Tokens
    BY DEF IInv, TypeOK, Fila, Peticion
<1>2. /\ token' \in [Tokens -> Fila]
      /\ Sobrantes' = Sobrantes
      /\ \A t \in Tokens : /\ token'[t].padre = token[t].padre
                           /\ t \notin ts => token'[t] = token[t]
                           /\ token[t].estado # "vivo" => token'[t].estado = token[t].estado
    BY <1>1, RevocaTokens
<1>3. Padres' /\ UnDescendiente'
    BY <1>1, <1>2 DEF IInv, Padres, UnDescendiente, Fila
<1>4. \A t \in revocadas : token'[t].estado \notin {"no", "vivo"}
    BY <1>1, <1>2 DEF IInv, Muertas
<1>5. ASSUME NEW q \in Peticiones, peticion[q].op = "refrescar", peticion[q].paso = "emitir"
      PROVE  peticion[q].t \in Vivos'
    <2>1. peticion[q].t \in Vivos /\ peticion[q].t \in Tokens /\ Bloqueada(peticion[q].t)
        BY <1>5 DEF IInv, Pasos, PasoBien, Vivos, Bloqueada
    <2>2. peticion[q].t \notin ts
        BY <2>1, SesionesAssumption
    <2>3. QED
        BY <1>2, <2>1, <2>2 DEF Vivos
<1>6. QED
    BY <1>2, <1>3, <1>4, <1>5

\* The revocation of a theft, which commits on its own.
LEMMA DelatarBien ==
    ASSUME IInv, NEW k \in Peticiones, Delatar(k)
    PROVE  IInv'
<1> DEFINE ts == peticion[k].alcance
<1>1. /\ peticion \in [Peticiones -> Peticion] /\ token \in [Tokens -> Fila]
      /\ peticion[k].op = "refrescar" /\ peticion[k].paso = "delatar"
      /\ ts \subseteq Tokens /\ ts \cap Sobrantes = {} /\ PasoBien(k)
    BY DEF IInv, Pasos, PasoBien, Delatar, TypeOK, Peticion, Fila
<1>2. /\ \A t \in ts : ~Bloqueada(t)
      /\ token' = Revoca(ts, "SEGURIDAD") /\ revocadas' = revocadas \cup ts
      /\ UNCHANGED <<enlace, claves, galleta, acceso, alarma, solo, eventos>>
    BY DEF Delatar, navegador
<1>3. /\ token' \in [Tokens -> Fila] /\ Sobrantes' = Sobrantes
      /\ Padres' /\ UnDescendiente'
      /\ \A t \in revocadas : token'[t].estado \notin {"no", "vivo"}
      /\ \A q \in Peticiones : peticion[q].op = "refrescar" /\ peticion[q].paso = "emitir" =>
             peticion[q].t \in Vivos'
    BY <1>2, RevocaBien
<1>4. /\ \A t \in Tokens : /\ t \notin ts => token'[t] = token[t]
                           /\ token[t].estado # "vivo" => token'[t].estado = token[t].estado
                           /\ token[t].estado = "vivo" /\ t \in ts => token'[t].estado = "SEGURIDAD"
    BY <1>1, <1>2, RevocaTokens
<1>5. /\ peticion' \in [Peticiones -> Peticion]
      /\ peticion'[k].paso = "negada" /\ peticion'[k].alcance = ts
      /\ peticion'[k].op = peticion[k].op /\ peticion'[k].p = peticion[k].p
      /\ peticion'[k].t = peticion[k].t /\ peticion'[k].salir = peticion[k].salir
      /\ \A q \in Peticiones : q # k => peticion'[q] = peticion[q]
    BY <1>1 DEF Delatar, Pasa, Peticion
<1> HIDE DEF ts
<1>6. TypeOK'
    BY <1>1, <1>2, <1>3, <1>5 DEF IInv, TypeOK, Peticion, Fila
<1>7. Pasos'
    <2>1. PasoBien(k)'
        BY <1>1, <1>3, <1>5 DEF PasoBien
    <2>2. ASSUME NEW q \in Peticiones, q # k
          PROVE  PasoBien(q)'
        BY <1>3, <1>5, <2>2 DEF IInv, Pasos, PasoBien
    <2>3. QED
        BY <2>1, <2>2 DEF Pasos
<1>8. UnDueno'
    BY <1>5 DEF IInv, UnDueno, Tiene
<1>9. Muertas'
    BY <1>1, <1>2, <1>3, <1>4 DEF Muertas, Sobrantes, Fila
<1>10. Enlazado'
    BY <1>2, <1>5 DEF IInv, Enlazado
<1>11. Serena'
    <2> SUFFICES ASSUME Tranquilo'
                 PROVE  ~alarma' /\ Turnos' /\ Aparte' /\ Frescas' /\ Galletas'
        BY DEF Serena
    <2>1. ~alarma' /\ Turnos /\ Aparte /\ Frescas /\ Galletas
        BY <1>2 DEF IInv, Serena, Tranquilo
    <2>2. \A t \in Tokens : token'[t] = token[t]
        BY <1>2, <1>4 DEF Tranquilo
    <2>3. \A q \in Peticiones : /\ peticion'[q].op = peticion[q].op
                                /\ peticion'[q].p = peticion[q].p /\ peticion'[q].t = peticion[q].t
                                /\ peticion'[q].paso \in {peticion[q].paso, "negada"}
                                /\ peticion[q].paso = "ok" => peticion'[q].paso = "ok"
        BY <1>1, <1>5
    <2>4. Turnos' /\ Aparte'
        BY <1>2, <2>1, <2>3, MismosTurnos
    <2>5. Frescas'
        BY <1>1, <2>1, <2>2, <2>3 DEF Frescas, Peticion
    <2>6. Galletas'
        BY <1>1, <1>2, <2>1, <2>2, <2>3 DEF Galletas, IInv, TypeOK
    <2>7. QED
        BY <2>1, <2>4, <2>5, <2>6
<1>12. QED
    BY <1>3, <1>6, <1>7, <1>8, <1>9, <1>10, <1>11 DEF IInv

\* Setting the password ends the request and revokes what it saw.
LEMMA RestablecerBien ==
    ASSUME IInv, NEW k \in Peticiones, Restablecer(k)
    PROVE  IInv'
<1> DEFINE ts == peticion[k].alcance
<1>1. /\ peticion \in [Peticiones -> Peticion] /\ token \in [Tokens -> Fila]
      /\ peticion[k].paso = "revocar" /\ ts \subseteq Tokens /\ ts \cap Sobrantes = {}
      /\ peticion[k].op = "restablecer"
    BY DEF IInv, Pasos, PasoBien, Restablecer, TypeOK, Peticion, Fila
<1>2. /\ \A t \in ts : ~Bloqueada(t)
      /\ token' = Revoca(ts, "SEGURIDAD") /\ revocadas' = revocadas \cup ts
      /\ enlace' = "usado" /\ claves' = claves + 1
      /\ UNCHANGED <<galleta, acceso, alarma, solo, eventos>>
    BY DEF Restablecer, navegador
<1>3. /\ token' \in [Tokens -> Fila] /\ Sobrantes' = Sobrantes
      /\ Padres' /\ UnDescendiente'
      /\ \A t \in revocadas : token'[t].estado \notin {"no", "vivo"}
      /\ \A q \in Peticiones : peticion[q].op = "refrescar" /\ peticion[q].paso = "emitir" =>
             peticion[q].t \in Vivos'
    BY <1>2, RevocaBien
<1>4. /\ \A t \in Tokens : /\ t \notin ts => token'[t] = token[t]
                           /\ token[t].estado # "vivo" => token'[t].estado = token[t].estado
                           /\ token[t].estado = "vivo" /\ t \in ts => token'[t].estado = "SEGURIDAD"
    BY <1>1, <1>2, RevocaTokens
<1>5. /\ peticion' \in [Peticiones -> Peticion]
      /\ peticion'[k] = Libre
      /\ \A q \in Peticiones : q # k => peticion'[q] = peticion[q]
    BY <1>1 DEF Restablecer, Peticion, Libre, Pedido
<1> HIDE DEF ts
<1>6. TypeOK'
    BY <1>1, <1>2, <1>3, <1>5 DEF IInv, TypeOK, Peticion, Fila
<1>7. Pasos'
    <2>1. PasoBien(k)'
        BY <1>5 DEF PasoBien, Libre, Pedido
    <2>2. ASSUME NEW q \in Peticiones, q # k
          PROVE  PasoBien(q)'
        BY <1>3, <1>5, <2>2 DEF IInv, Pasos, PasoBien
    <2>3. QED
        BY <2>1, <2>2 DEF Pasos
<1>8. UnDueno'
    BY <1>5 DEF IInv, UnDueno, Tiene, Libre, Pedido
<1>9. Muertas'
    BY <1>1, <1>2, <1>3, <1>4 DEF Muertas, Sobrantes, Fila
<1>10. Enlazado'
    BY <1>1, <1>2, <1>5 DEF IInv, Enlazado, Libre, Pedido
<1>11. Serena'
    <2> SUFFICES ASSUME Tranquilo'
                 PROVE  ~alarma' /\ Turnos' /\ Aparte' /\ Frescas' /\ Galletas'
        BY DEF Serena
    <2>1. ~alarma' /\ Turnos /\ Aparte /\ Frescas /\ Galletas
        BY <1>2 DEF IInv, Serena, Tranquilo
    <2>2. \A t \in Tokens : token'[t] = token[t]
        BY <1>2, <1>4 DEF Tranquilo
    <2>3. Turnos'
        BY <1>5, <2>1 DEF Turnos, DelMismo, Libre, Pedido
    <2>4. Aparte'
        BY <1>2, <1>5, <2>1 DEF Aparte, DelMismo, Libre, Pedido
    <2>5. Frescas'
        BY <1>1, <1>5, <2>1, <2>2 DEF Frescas, Libre, Pedido, Peticion
    <2>6. Galletas'
        BY <1>1, <1>2, <1>5, <2>1, <2>2 DEF Galletas, Libre, Pedido, IInv, TypeOK
    <2>7. QED
        BY <2>1, <2>3, <2>4, <2>5, <2>6
<1>12. QED
    BY <1>3, <1>6, <1>7, <1>8, <1>9, <1>10, <1>11 DEF IInv

\* logout closes its own row; switchTenant goes on to issue.
LEMMA CerrarBien ==
    ASSUME IInv, NEW k \in Peticiones, Cerrar(k)
    PROVE  IInv'
<1> DEFINE t == peticion[k].t
<1>1. /\ peticion \in [Peticiones -> Peticion] /\ token \in [Tokens -> Fila]
      /\ peticion[k].paso = "cerrar" /\ peticion[k].op \in {"salir", "cambiar"}
      /\ peticion[k].p # Nada /\ PasoBien(k) /\ ~peticion[k].salir /\ peticion[k] \in Peticion
      /\ peticion[k].alcance \subseteq Tokens /\ peticion[k].alcance \cap Sobrantes = {}
      /\ alarma \in BOOLEAN
    BY DEF IInv, Pasos, PasoBien, Cerrar, TypeOK, Peticion, Fila
<1>2. /\ t # Nada => ~Bloqueada(t)
      /\ UNCHANGED <<enlace, claves, galleta, acceso, revocadas, alarma, solo, eventos>>
    BY DEF Cerrar, navegador, historia
<1>3. CASE peticion[k].op = "cambiar"
    <2>1. /\ UNCHANGED <<bd, navegador, revocadas, solo, eventos>>
          /\ alarma' = alarma /\ Sobrantes' = Sobrantes
        BY <1>2, <1>3 DEF Cerrar, bd, navegador, Sobrantes
    <2>2. peticion' = [peticion EXCEPT ![k].paso = "emitir", ![k].alcance = peticion[k].alcance]
        BY <1>1, <1>3 DEF Cerrar, Pasa, Peticion
    <2>3. /\ peticion'[k].op = "cambiar" /\ peticion'[k].paso = "emitir"
          /\ peticion'[k].p = peticion[k].p /\ peticion'[k].alcance = peticion[k].alcance
          /\ ~peticion'[k].salir
        BY <1>1, <1>3, <2>2 DEF Peticion
    <2>4. PasoBien(k)'
        BY <1>1, <2>1, <2>3 DEF PasoBien
    <2>5. PICK paso \in {"emitir"}, alcance \in {peticion[k].alcance} :
              peticion' = [peticion EXCEPT ![k].paso = paso, ![k].alcance = alcance]
        BY <2>2
    <2>6. QED
        BY <1>1, <1>2, <2>1, <2>4, <2>5, PasaBien
<1>4. CASE peticion[k].op = "salir"
    <2>1. PICK ts : ts = {t} /\ token' = Revoca(ts, "LOGOUT")
        BY <1>4 DEF Cerrar
    <2>2. /\ token' \in [Tokens -> Fila] /\ Sobrantes' = Sobrantes
          /\ Padres' /\ UnDescendiente'
          /\ \A u \in revocadas : token'[u].estado \notin {"no", "vivo"}
          /\ \A q \in Peticiones : peticion[q].op = "refrescar" /\ peticion[q].paso = "emitir" =>
                 peticion[q].t \in Vivos'
        <3>1. \A u \in ts : u # Nada => ~Bloqueada(u)
            BY <1>2, <2>1
        <3>2. QED
            BY <2>1, <3>1, RevocaBien
    <2>3. \A u \in Tokens : /\ u # t => token'[u] = token[u]
                            /\ token[u].estado # "vivo" => token'[u].estado = token[u].estado
                            /\ token[u].estado = "vivo" /\ u = t => token'[u].estado = "LOGOUT"
        <3> DEFINE motivo == "LOGOUT"
        <3>1. token' = Revoca(ts, motivo) /\ motivo \in {"LOGOUT", "SEGURIDAD"}
            BY <2>1
        <3> HIDE DEF motivo
        <3>2. \A u \in Tokens :
                  /\ u \notin ts => token'[u] = token[u]
                  /\ token[u].estado # "vivo" => token'[u].estado = token[u].estado
                  /\ token[u].estado = "vivo" /\ u \in ts => token'[u].estado = motivo
            BY <1>1, <3>1, RevocaTokens
        <3>3. QED
            BY <2>1, <3>2 DEF motivo
    <2>4. /\ peticion' \in [Peticiones -> Peticion]
          /\ peticion'[k].paso = "ok" /\ peticion'[k].alcance = peticion[k].alcance
          /\ peticion'[k].op = "salir" /\ peticion'[k].p = peticion[k].p
          /\ peticion'[k].t = t /\ ~peticion'[k].salir
          /\ \A q \in Peticiones : q # k => peticion'[q] = peticion[q]
        BY <1>1, <1>4 DEF Cerrar, Pasa, Peticion
    <2> HIDE DEF t
    <2>5. TypeOK'
        BY <1>2, <2>2, <2>4 DEF IInv, TypeOK, Peticion, Fila
    <2>6. Pasos'
        <3>1. PasoBien(k)'
            BY <1>1, <2>2, <2>4 DEF PasoBien
        <3>2. ASSUME NEW q \in Peticiones, q # k
              PROVE  PasoBien(q)'
            BY <2>2, <2>4, <3>2 DEF IInv, Pasos, PasoBien
        <3>3. QED
            BY <3>1, <3>2 DEF Pasos
    <2>7. UnDueno' /\ Enlazado'
        BY <1>2, <2>4 DEF IInv, UnDueno, Tiene, Enlazado
    <2>8. Muertas'
        BY <1>2, <2>2 DEF Muertas
    <2>9. Serena'
        <3> SUFFICES ASSUME Tranquilo'
                     PROVE  ~alarma' /\ Turnos' /\ Aparte' /\ Frescas' /\ Galletas'
            BY DEF Serena
        <3>1. ~alarma' /\ Turnos /\ Aparte /\ Frescas /\ Galletas
            BY <1>2 DEF IInv, Serena, Tranquilo
        <3>2. \A q \in Peticiones : /\ peticion'[q].op = peticion[q].op
                                    /\ peticion'[q].p = peticion[q].p
                                    /\ peticion'[q].t = peticion[q].t
            BY <1>1, <1>4, <2>4 DEF t
        <3>3. Turnos' /\ Aparte'
            BY <1>2, <3>1, <3>2, MismosTurnos
        <3>5. Frescas'
            <4> SUFFICES ASSUME NEW q \in Peticiones, peticion'[q].t # Nada
                         PROVE  /\ token'[peticion'[q].t].estado \notin {"no", "ROTADO"}
                                /\ peticion'[q].paso = "rotar" =>
                                       token'[peticion'[q].t].estado = "vivo"
                BY DEF Frescas
            <4>1. /\ peticion[q].t \in Tokens
                  /\ token[peticion[q].t].estado \notin {"no", "ROTADO"}
                  /\ peticion[q].paso = "rotar" => token[peticion[q].t].estado = "vivo"
                BY <1>1, <3>1, <3>2 DEF Frescas, Peticion
            <4>2. peticion'[q].paso = "rotar" => peticion[q].paso = "rotar" /\ peticion[q].t # t
                <5>1. SUFFICES ASSUME peticion'[q].paso = "rotar"
                               PROVE  peticion[q].paso = "rotar" /\ peticion[q].t # t
                    OBVIOUS
                <5>2. q # k /\ peticion[q].paso = "rotar" /\ peticion[q].op = "refrescar"
                    BY <2>4, <5>1 DEF IInv, Pasos, PasoBien
                <5>3. peticion[q].t = t => DelMismo(q, k)
                    BY <3>1, <3>2 DEF Aparte, t
                <5>4. QED
                    BY <1>4, <3>1, <5>2, <5>3 DEF Turnos
            <4>3. QED
                BY <2>2, <2>3, <3>2, <4>1, <4>2 DEF Fila
        <3>6. Galletas'
            BY <1>1, <1>2, <1>4, <2>2, <2>3, <2>4, <3>1 DEF Galletas, Fila, IInv, TypeOK
        <3>7. QED
            BY <3>1, <3>3, <3>5, <3>6
    <2>10. QED
        BY <2>2, <2>5, <2>6, <2>7, <2>8, <2>9 DEF IInv
<1>5. QED
    BY <1>1, <1>3, <1>4

\* What the three that issue have in common: the row of the answer is one that nobody
\* had, and the token of the request is rotated by a refresh, closed by a change of
\* league, and left by a login.
Emite(k, padre, nuevo) ==
    /\ peticion[k].paso = "emitir" /\ Sobrantes # {} /\ nuevo = Min(Sobrantes)
    /\ peticion' = [peticion EXCEPT ![k].paso = "ok", ![k].t = nuevo]
    /\ token' \in [Tokens -> Fila]
    /\ token'[nuevo] = [estado |-> "vivo", padre |-> padre]
    /\ \A u \in Tokens \ {nuevo} : /\ token'[u].padre = token[u].padre
                                   /\ u # peticion[k].t => token'[u] = token[u]
    /\ peticion[k].op = "refrescar" =>
           padre = peticion[k].t /\ token'[peticion[k].t].estado = "ROTADO"
    /\ peticion[k].op # "refrescar" => padre = Nada
    /\ peticion[k].op = "cambiar" => \A u \in Tokens \ {nuevo} :
           \/ token'[u] = token[u]
           \/ token[u].estado = "vivo" /\ token'[u].estado = "LOGOUT"
    /\ peticion[k].op = "entrar" => \A u \in Tokens \ {nuevo} : token'[u] = token[u]
    /\ UNCHANGED <<enlace, claves, navegador, historia, eventos>>

\* A new session keeps the invariant.
LEMMA EmitirBien ==
    ASSUME IInv, NEW k \in Peticiones, NEW padre \in Tokens \cup {Nada}, NEW nuevo,
           Emite(k, padre, nuevo)
    PROVE  IInv'
<1> DEFINE t == peticion[k].t
<1>1. /\ peticion \in [Peticiones -> Peticion] /\ token \in [Tokens -> Fila]
      /\ galleta \in [Navegadores -> Tokens \cup {Nada}] /\ revocadas \subseteq Tokens
      /\ PasoBien(k) /\ peticion[k].op \in {"entrar", "refrescar", "cambiar"}
      /\ peticion[k] \in Peticion /\ peticion[k].paso = "emitir"
      /\ t \in Tokens \cup {Nada}
      /\ peticion[k].p # Nada /\ peticion[k].p \in Pestanas
    BY DEF Emite, IInv, Pasos, PasoBien, TypeOK, Peticion, Fila
<1>2. /\ nuevo \in Tokens /\ token[nuevo].estado = "no" /\ nuevo # Nada
    <2>1. nuevo \in Sobrantes
        BY HayMinimo DEF Emite, Sobrantes
    <2>2. QED
        BY <2>1, SesionesAssumption DEF Sobrantes
<1>3. /\ peticion' \in [Peticiones -> Peticion]
      /\ peticion'[k].paso = "ok" /\ peticion'[k].t = nuevo
      /\ peticion'[k].op = peticion[k].op /\ peticion'[k].p = peticion[k].p
      /\ peticion'[k].alcance = peticion[k].alcance /\ peticion'[k].salir = peticion[k].salir
      /\ \A q \in Peticiones : q # k => peticion'[q] = peticion[q]
    <2>1. PICK vieja \in Peticion : vieja = peticion[k]
        BY <1>1
    <2>2. PICK nueva : nueva = [vieja EXCEPT !.paso = "ok", !.t = nuevo]
        OBVIOUS
    <2>3. /\ nueva \in Peticion /\ nueva.paso = "ok" /\ nueva.t = nuevo
          /\ nueva.op = vieja.op /\ nueva.p = vieja.p
          /\ nueva.alcance = vieja.alcance /\ nueva.salir = vieja.salir
        BY <1>2, <2>1, <2>2 DEF Peticion
    <2>4. peticion' = [peticion EXCEPT ![k] = nueva]
        BY <1>1, <2>1, <2>2 DEF Emite
    <2>5. QED
        BY <1>1, <2>1, <2>3, <2>4
<1>4. UNCHANGED <<enlace, claves, galleta, acceso, revocadas, alarma, solo, eventos>>
    BY DEF Emite, navegador, historia
<1>5. peticion[k].op = "refrescar" => t \in Tokens /\ token[t].estado = "vivo" /\ t # nuevo
    BY <1>1, <1>2 DEF PasoBien, Vivos
\* What becomes of the other rows
<1>6. ASSUME NEW u \in Tokens, u # nuevo
      PROVE  /\ token'[u].padre = token[u].padre
             /\ \/ token'[u].estado = token[u].estado
                \/ /\ u = t /\ peticion[k].op = "refrescar" /\ token[u].estado = "vivo"
                   /\ token'[u].estado = "ROTADO"
                \/ /\ u = t /\ peticion[k].op = "cambiar" /\ token[u].estado = "vivo"
                   /\ token'[u].estado = "LOGOUT"
    <2>1. /\ token'[u].padre = token[u].padre
          /\ u # t => token'[u] = token[u]
        BY <1>6 DEF Emite
    <2>2. CASE peticion[k].op = "entrar"
        BY <1>6, <2>1, <2>2 DEF Emite
    <2>3. CASE peticion[k].op = "refrescar"
        BY <1>5, <1>6, <2>1, <2>3 DEF Emite
    <2>4. CASE peticion[k].op = "cambiar"
        BY <1>6, <2>1, <2>4 DEF Emite
    <2>5. QED
        BY <1>1, <2>2, <2>3, <2>4
<1> HIDE DEF t
<1>7. TypeOK'
    BY <1>3, <1>4 DEF Emite, IInv, TypeOK, Peticion, Fila
<1>8. Sobrantes' \subseteq Sobrantes
    BY <1>6, <1>2 DEF Emite, Sobrantes
<1>9. Pasos'
    <2>1. PasoBien(k)'
        BY <1>1, <1>3, <1>8 DEF PasoBien
    <2>2. ASSUME NEW q \in Peticiones, q # k
          PROVE  PasoBien(q)'
        <3>1. peticion'[q] = peticion[q] /\ PasoBien(q)
            BY <1>3, <2>2 DEF IInv, Pasos
        <3>2. ASSUME peticion[q].op = "refrescar", peticion[q].paso = "emitir"
              PROVE  peticion[q].t \in Vivos'
            <4>1. /\ peticion[q].t \in Tokens /\ token[peticion[q].t].estado = "vivo"
                  /\ Tiene(q)
                BY <3>1, <3>2, SesionesAssumption DEF PasoBien, Vivos, Tiene
            <4>2. peticion[k].op # "entrar" => peticion[q].t # t
                BY <1>1, <2>2, <4>1 DEF IInv, UnDueno, Tiene, t
            <4>3. QED
                BY <1>1, <1>2, <1>6, <4>1, <4>2 DEF Vivos
        <3>3. QED
            BY <1>8, <3>1, <3>2 DEF PasoBien
    <2>3. QED
        BY <2>1, <2>2 DEF Pasos
<1>10. UnDueno' /\ Enlazado'
    BY <1>3, <1>4 DEF IInv, UnDueno, Tiene, Enlazado
<1>11. Padres'
    <2> SUFFICES ASSUME NEW u \in Tokens, token'[u].padre # Nada
                 PROVE  token'[token'[u].padre].estado = "ROTADO"
        BY DEF Padres
    <2>1. CASE u = nuevo
        BY <1>1, <2>1 DEF Emite
    <2>2. CASE u # nuevo
        <3>1. /\ token'[u].padre = token[u].padre /\ token[u].padre \in Tokens
              /\ token[token[u].padre].estado = "ROTADO"
            BY <1>1, <1>6, <2>2 DEF IInv, Padres, Fila
        <3>2. QED
            BY <1>2, <1>6, <3>1
    <2>3. QED
        BY <2>1, <2>2
<1>12. UnDescendiente'
    <2>1. ASSUME NEW u \in Tokens, u # nuevo, token'[u].padre # Nada
          PROVE  token'[u].padre # token'[nuevo].padre
        <3>1. /\ token'[u].padre = token[u].padre /\ token[token[u].padre].estado = "ROTADO"
            BY <1>6, <2>1 DEF IInv, Padres
        <3>2. /\ token'[nuevo].padre \in {t, Nada}
              /\ token'[nuevo].padre = t => t = Nada \/ token[t].estado = "vivo"
            BY <1>1, <1>5 DEF Emite, t
        <3>3. QED
            BY <2>1, <3>1, <3>2
    <2>2. ASSUME NEW u \in Tokens, NEW v \in Tokens, u # nuevo, v # nuevo,
                 token'[u].padre # Nada, token'[u].padre = token'[v].padre
          PROVE  u = v
        BY <1>6, <2>2 DEF IInv, UnDescendiente
    <2>3. QED
        BY <2>1, <2>2 DEF UnDescendiente
<1>13. Muertas'
    BY <1>1, <1>2, <1>4, <1>6 DEF IInv, Muertas
<1>14. Serena'
    <2> SUFFICES ASSUME Tranquilo'
                 PROVE  ~alarma' /\ Turnos' /\ Aparte' /\ Frescas' /\ Galletas'
        BY DEF Serena
    <2>1. ~alarma' /\ Turnos /\ Aparte /\ Frescas /\ Galletas
        BY <1>4 DEF IInv, Serena, Tranquilo
    <2>2. /\ \A q \in Peticiones : peticion[q].t # nuevo
          /\ \A n \in Navegadores : galleta[n] # nuevo
        BY <1>2, <2>1 DEF Frescas, Galletas
    <2>3. Turnos'
        <3> SUFFICES ASSUME NEW q \in Peticiones, NEW r \in Peticiones, DelMismo(q, r)'
                     PROVE  /\ peticion'[q].p = peticion'[r].p /\ peticion'[q].op = peticion'[r].op
                            /\ peticion'[q].op = "refrescar" => q = r
            BY DEF Turnos
        <3>1. /\ peticion'[q].p = peticion[q].p /\ peticion'[q].op = peticion[q].op
              /\ peticion'[r].p = peticion[r].p /\ peticion'[r].op = peticion[r].op
            BY <1>3
        <3>2. DelMismo(q, r)
            BY <3>1 DEF DelMismo
        <3>3. QED
            BY <2>1, <3>1, <3>2 DEF Turnos
    <2>4. Aparte'
        <3>1. ASSUME NEW q \in Peticiones, NEW r \in Peticiones, peticion'[q].t # Nada,
                     peticion'[q].t = peticion'[r].t
              PROVE  DelMismo(q, r)'
            <4>1. CASE q = k \/ r = k
                BY <1>1, <1>3, <2>2, <3>1, <4>1 DEF DelMismo
            <4>2. CASE q # k /\ r # k
                <5>1. DelMismo(q, r)
                    BY <1>3, <2>1, <3>1, <4>2 DEF Aparte
                <5>2. QED
                    BY <1>3, <4>2, <5>1 DEF DelMismo
            <4>3. QED
                BY <4>1, <4>2
        <3>2. ASSUME NEW q \in Peticiones, NEW n \in Navegadores, peticion'[q].t # Nada,
                     peticion'[q].t = galleta[n]
              PROVE  peticion'[q].p[1] = n
            BY <1>3, <2>1, <2>2, <3>2 DEF Aparte
        <3>3. \A n, m \in Navegadores : galleta'[n] # Nada /\ galleta'[n] = galleta'[m] => n = m
            BY <1>4, <2>1 DEF Aparte
        <3>4. galleta' = galleta
            BY <1>4
        <3>5. QED
            BY <3>1, <3>2, <3>3, <3>4 DEF Aparte
    <2>5. Frescas'
        <3> SUFFICES ASSUME NEW q \in Peticiones, peticion'[q].t # Nada
                     PROVE  /\ token'[peticion'[q].t].estado \notin {"no", "ROTADO"}
                            /\ peticion'[q].paso = "rotar" => token'[peticion'[q].t].estado = "vivo"
            BY DEF Frescas
        <3>1. CASE q = k
            BY <1>3, <3>1 DEF Emite
        <3>2. CASE q # k
            <4>1. /\ peticion'[q] = peticion[q] /\ peticion[q].t \in Tokens
                  /\ token[peticion[q].t].estado \notin {"no", "ROTADO"}
                  /\ peticion[q].paso = "rotar" =>
                         token[peticion[q].t].estado = "vivo" /\ peticion[q].op = "refrescar"
                BY <1>1, <1>3, <2>1, <3>2 DEF Frescas, Peticion, IInv, Pasos, PasoBien
            <4>2. peticion[q].t = t => DelMismo(q, k)
                BY <2>1, <4>1 DEF Aparte, t
            <4>3. peticion[q].t = t => peticion[q].op = peticion[k].op /\ peticion[k].op # "refrescar"
                BY <2>1, <3>2, <4>2 DEF Turnos
            <4>4. QED
                BY <1>2, <1>6, <4>1, <4>3
        <3>3. QED
            BY <3>1, <3>2
    <2>6. Galletas'
        <3> SUFFICES ASSUME NEW n \in Navegadores, galleta[n] # Nada
                     PROVE  /\ token'[galleta[n]].estado # "no"
                            /\ token'[galleta[n]].estado = "ROTADO" =>
                                   \E q \in Peticiones :
                                       /\ peticion'[q].op = "refrescar" /\ peticion'[q].paso = "ok"
                                       /\ peticion'[q].p[1] = n
            BY <1>4 DEF Galletas
        <3>1. galleta[n] \in Tokens /\ galleta[n] # nuevo /\ token[galleta[n]].estado # "no"
            BY <1>1, <2>1, <2>2 DEF Galletas
        <3>2. CASE token[galleta[n]].estado = "ROTADO"
            <4>1. PICK q \in Peticiones : /\ peticion[q].op = "refrescar"
                                          /\ peticion[q].paso = "ok" /\ peticion[q].p[1] = n
                BY <2>1, <3>2 DEF Galletas
            <4>2. peticion'[q] = peticion[q]
                <5>1. q # k
                    BY <1>1, <4>1
                <5>2. QED
                    BY <1>3, <5>1
            <4>3. QED
                BY <1>6, <3>1, <3>2, <4>1, <4>2
        <3>3. CASE token[galleta[n]].estado # "ROTADO" /\ token'[galleta[n]].estado = "ROTADO"
            <4>1. galleta[n] = t /\ peticion[k].op = "refrescar"
                BY <1>6, <3>1, <3>3
            <4>2. peticion[k].p[1] = n
                BY <2>1, <4>1 DEF Aparte, t
            <4>3. QED
                BY <1>3, <3>3, <4>1, <4>2
        <3>4. QED
            BY <1>6, <3>1, <3>2, <3>3
    <2>7. QED
        BY <2>1, <2>3, <2>4, <2>5, <2>6
<1>15. QED
    BY <1>7, <1>9, <1>10, <1>11, <1>12, <1>13, <1>14 DEF IInv

\* What the three that issue write in the table
LEMMA EmiteTabla ==
    ASSUME token \in [Tokens -> Fila], NEW tabla \in [Tokens -> Fila],
           NEW padre \in Tokens \cup {Nada}, NEW nuevo \in Tokens, nuevo = Min(Sobrantes),
           token' = Emitida(tabla, padre)
    PROVE  /\ token' \in [Tokens -> Fila]
           /\ token'[nuevo] = [estado |-> "vivo", padre |-> padre]
           /\ \A u \in Tokens \ {nuevo} : token'[u] = tabla[u]
<1>1. [Vivo EXCEPT !.padre = padre] = [estado |-> "vivo", padre |-> padre]
    BY DEF Vivo
<1>2. token' = [tabla EXCEPT ![nuevo] = [estado |-> "vivo", padre |-> padre]]
    BY <1>1 DEF Emitida
<1>3. [estado |-> "vivo", padre |-> padre] \in Fila
    BY DEF Fila
<1>4. QED
    BY <1>2, <1>3

\* The three that issue
LEMMA EmisionesBien ==
    ASSUME IInv, NEW k \in Peticiones, EmitirEntrada(k) \/ EmitirPar(k) \/ EmitirCambio(k)
    PROVE  IInv'
<1>1. PICK nuevo : nuevo = Min(Sobrantes)
    OBVIOUS
<1>2. /\ peticion[k].paso = "emitir" /\ Sobrantes # {}
      /\ peticion' = [peticion EXCEPT ![k].paso = "ok", ![k].t = nuevo]
      /\ UNCHANGED <<enlace, claves, navegador, historia, eventos>>
    BY <1>1 DEF EmitirEntrada, EmitirPar, EmitirCambio, Responde
<1>3. /\ token \in [Tokens -> Fila] /\ peticion \in [Peticiones -> Peticion]
      /\ PasoBien(k) /\ nuevo \in Tokens /\ nuevo \in Sobrantes
    BY <1>1, <1>2, HayMinimo DEF IInv, TypeOK, Fila, Peticion, Sobrantes, Pasos
<1>4. CASE EmitirEntrada(k)
    <2>1. PICK padre \in {Nada} : token' = Emitida(token, padre)
        BY <1>4 DEF EmitirEntrada
    <2>2. /\ token' \in [Tokens -> Fila]
          /\ token'[nuevo] = [estado |-> "vivo", padre |-> padre]
          /\ \A u \in Tokens \ {nuevo} : token'[u] = token[u]
        BY <1>1, <1>3, <2>1, EmiteTabla
    <2>3. peticion[k].op = "entrar"
        BY <1>4 DEF EmitirEntrada
    <2>4. Emite(k, padre, nuevo)
        BY <1>1, <1>2, <2>1, <2>2, <2>3 DEF Emite
    <2>5. QED
        BY <2>1, <2>4, EmitirBien
<1>5. CASE EmitirPar(k)
    <2>1. /\ peticion[k].op = "refrescar" /\ peticion[k].t \in Tokens /\ peticion[k].t # nuevo
        BY <1>2, <1>3, <1>5 DEF EmitirPar, PasoBien, Vivos, Sobrantes
    <2>2. PICK padre \in Tokens : padre = peticion[k].t
        BY <2>1
    <2>3. PICK tabla : tabla = [token EXCEPT ![padre].estado = "ROTADO"]
        OBVIOUS
    <2>4. token' = Emitida(tabla, padre)
        BY <1>5, <2>2, <2>3 DEF EmitirPar
    <2>5. /\ tabla \in [Tokens -> Fila] /\ tabla[padre].estado = "ROTADO"
          /\ \A u \in Tokens : /\ tabla[u].padre = token[u].padre
                               /\ u # padre => tabla[u] = token[u]
        BY <1>3, <2>3 DEF Fila
    <2>6. /\ token' \in [Tokens -> Fila]
          /\ token'[nuevo] = [estado |-> "vivo", padre |-> padre]
          /\ \A u \in Tokens \ {nuevo} : token'[u] = tabla[u]
        BY <1>1, <1>3, <2>4, <2>5, EmiteTabla
    <2>7. Emite(k, padre, nuevo)
        BY <1>1, <1>2, <2>1, <2>2, <2>5, <2>6 DEF Emite
    <2>8. QED
        BY <2>2, <2>7, EmitirBien
<1>6. CASE EmitirCambio(k)
    <2>1. PICK tabla : tabla = Revoca({peticion[k].t}, "LOGOUT")
        OBVIOUS
    <2>2. PICK padre \in {Nada} : token' = Emitida(tabla, padre)
        BY <1>6, <2>1 DEF EmitirCambio
    <2>3. peticion[k].op = "cambiar"
        BY <1>6 DEF EmitirCambio
    <2>4. /\ tabla \in [Tokens -> Fila]
          /\ \A u \in Tokens :
                 /\ tabla[u].padre = token[u].padre
                 /\ u # peticion[k].t => tabla[u] = token[u]
                 /\ \/ tabla[u] = token[u]
                    \/ token[u].estado = "vivo" /\ tabla[u].estado = "LOGOUT"
        BY <1>3, <2>1 DEF Revoca, Fila
    <2>5. /\ token' \in [Tokens -> Fila]
          /\ token'[nuevo] = [estado |-> "vivo", padre |-> padre]
          /\ \A u \in Tokens \ {nuevo} : token'[u] = tabla[u]
        BY <1>1, <1>3, <2>2, <2>4, EmiteTabla
    <2>6. Emite(k, padre, nuevo)
        BY <1>1, <1>2, <2>2, <2>3, <2>4, <2>5 DEF Emite
    <2>7. QED
        BY <2>2, <2>6, EmitirBien
<1>7. QED
    BY <1>4, <1>5, <1>6

\* An answer with a new pair, or that of a logout, changes the cookie.
LEMMA RecibirBien ==
    ASSUME IInv, NEW k \in Peticiones, Recibir(k)
    PROVE  IInv'
<1> DEFINE p == peticion[k].p
           n == p[1]
           t == peticion[k].t
           nueva == [op |-> "salir", p |-> p, t |-> t, paso |-> "cerrar", alcance |-> {},
                     salir |-> FALSE]
<1>1. /\ peticion \in [Peticiones -> Peticion] /\ peticion[k].paso = "ok"
      /\ galleta \in [Navegadores -> Tokens \cup {Nada}]
      /\ p # Nada /\ p \in Pestanas /\ t \in Tokens \cup {Nada}
      /\ peticion[k].op \notin {"libre", "restablecer"}
      /\ peticion[k].salir => peticion[k].op = "refrescar"
    BY DEF Recibir, IInv, Pasos, PasoBien, TypeOK, Peticion
<1>2. n \in Navegadores
    BY <1>1 DEF Navegadores
<1>3. UNCHANGED <<token, enlace, claves, revocadas, alarma, solo, eventos>>
    BY DEF Recibir, bd, historia
<1>4. Vivos' = Vivos /\ Sobrantes' = Sobrantes
    BY <1>3 DEF Vivos, Sobrantes
<1>5. /\ galleta' \in [Navegadores -> Tokens \cup {Nada}]
      /\ galleta'[n] \in {t, Nada}
      /\ \A m \in Navegadores : m # n => galleta'[m] = galleta[m]
    BY <1>1, <1>2 DEF Recibir
<1>6. acceso' \in [Pestanas -> {"no", "vigente", "vencido"}]
    BY <1>1 DEF Recibir, IInv, TypeOK
<1>7. PICK r \in {Libre, nueva} : /\ peticion' = [peticion EXCEPT ![k] = r]
                                  /\ r # Libre => r = nueva /\ peticion[k].op = "refrescar"
    <2>1. Pedido("salir", p, t, "cerrar", FALSE) = nueva
        BY DEF Pedido
    <2>2. CASE peticion[k].op = "salir"
        BY <2>2 DEF Recibir, Acaba
    <2>3. CASE peticion[k].op # "salir" /\ ~peticion[k].salir
        BY <2>3 DEF Recibir, Acaba
    <2>4. CASE peticion[k].op # "salir" /\ peticion[k].salir
        BY <1>1, <2>1, <2>4 DEF Recibir
    <2>5. QED
        BY <2>2, <2>3, <2>4
<1>8. /\ r \in Peticion /\ r.alcance = {} /\ ~r.salir /\ r.op \in {"libre", "salir"}
      /\ r = Libre \/ (r.p = p /\ r.t = t /\ r.op = "salir" /\ r.paso = "cerrar")
      /\ r.paso \in {"ninguno", "cerrar"}
    <2>1. CASE r = Libre
        BY <2>1 DEF Libre, Pedido, Peticion
    <2>2. CASE r = nueva
        BY <1>1, <2>2 DEF Peticion
    <2>3. QED
        BY <1>7, <2>1, <2>2
<1>9. /\ peticion' \in [Peticiones -> Peticion] /\ peticion'[k] = r
      /\ \A q \in Peticiones : q # k => peticion'[q] = peticion[q]
    BY <1>1, <1>7, <1>8
<1> HIDE DEF nueva, n, t, p
<1>10. TypeOK'
    BY <1>3, <1>5, <1>6, <1>9 DEF IInv, TypeOK, Peticion
<1>11. Pasos'
    <2>1. PasoBien(k)'
        <3>1. CASE r = Libre
            BY <1>9, <3>1 DEF PasoBien, Libre, Pedido
        <3>2. CASE r # Libre
            BY <1>1, <1>8, <1>9, <3>2 DEF PasoBien
        <3>3. QED
            BY <3>1, <3>2
    <2>2. ASSUME NEW q \in Peticiones, q # k
          PROVE  PasoBien(q)'
        BY <1>4, <1>9, <2>2 DEF IInv, Pasos, PasoBien
    <2>3. QED
        BY <2>1, <2>2 DEF Pasos
<1>12. UnDueno'
    BY <1>8, <1>9 DEF IInv, UnDueno, Tiene
<1>13. Padres' /\ UnDescendiente' /\ Muertas'
    BY <1>3 DEF IInv, Padres, UnDescendiente, Muertas
<1>14. Enlazado'
    BY <1>3, <1>8, <1>9 DEF IInv, Enlazado
<1>15. Serena'
    <2> SUFFICES ASSUME Tranquilo'
                 PROVE  ~alarma' /\ Turnos' /\ Aparte' /\ Frescas' /\ Galletas'
        BY DEF Serena
    <2>1. ~alarma' /\ Turnos /\ Aparte /\ Frescas /\ Galletas
        BY <1>3 DEF IInv, Serena, Tranquilo
    \* The request that it becomes is of the same browser, which had only that one.
    <2>2. r # Libre => r.p = peticion[k].p /\ r.t = t /\ \A q \in Peticiones : DelMismo(q, k) => q = k
        BY <1>7, <1>8, <2>1 DEF Turnos, p
    <2>3. Turnos'
        <3> SUFFICES ASSUME NEW q \in Peticiones, NEW s \in Peticiones, DelMismo(q, s)'
                     PROVE  /\ peticion'[q].p = peticion'[s].p /\ peticion'[q].op = peticion'[s].op
                            /\ peticion'[q].op = "refrescar" => q = s
            BY DEF Turnos
        <3>1. CASE q = k /\ s = k
            BY <1>8, <1>9, <3>1
        <3>2. CASE q # k /\ s # k
            <4>1. DelMismo(q, s)
                BY <1>9, <3>2 DEF DelMismo
            <4>2. QED
                BY <1>9, <2>1, <3>2, <4>1 DEF Turnos
        <3>3. CASE (q = k \/ s = k) /\ q # s
            <4>1. r # Libre
                BY <1>9, <3>3 DEF DelMismo, Libre, Pedido
            <4>2. DelMismo(q, k) /\ DelMismo(s, k)
                BY <1>1, <1>9, <2>2, <3>3, <4>1 DEF DelMismo, p
            <4>3. QED
                BY <2>2, <3>3, <4>1, <4>2
        <3>4. QED
            BY <3>1, <3>2, <3>3
    <2>4. \A q \in Peticiones : peticion'[q].t # Nada =>
              /\ peticion'[q].t = peticion[q].t /\ peticion'[q].p = peticion[q].p
              /\ peticion'[q].paso = "rotar" => peticion[q].paso = "rotar"
        BY <1>8, <1>9, <2>2 DEF Libre, Pedido, t
    <2>5. Aparte'
        <3>1. ASSUME NEW q \in Peticiones, NEW s \in Peticiones, peticion'[q].t # Nada,
                     peticion'[q].t = peticion'[s].t
              PROVE  DelMismo(q, s)'
            <4>1. DelMismo(q, s) /\ peticion'[q].p = peticion[q].p /\ peticion'[s].p = peticion[s].p
                BY <2>1, <2>4, <3>1 DEF Aparte
            <4>2. QED
                BY <4>1 DEF DelMismo
        <3>2. ASSUME NEW q \in Peticiones, NEW m \in Navegadores, peticion'[q].t # Nada,
                     peticion'[q].t = galleta'[m]
              PROVE  peticion'[q].p[1] = m
            <4>1. peticion'[q].t = peticion[q].t /\ peticion'[q].p = peticion[q].p
                BY <2>4, <3>2
            <4>2. CASE m # n
                <5>1. peticion[q].t = galleta[m] /\ peticion[q].t # Nada
                    BY <1>5, <3>2, <4>1, <4>2
                <5>2. QED
                    BY <2>1, <4>1, <5>1 DEF Aparte
            <4>3. CASE m = n
                <5>1. peticion[q].t = t
                    BY <1>5, <3>2, <4>1, <4>3
                <5>2. DelMismo(q, k)
                    BY <2>1, <3>2, <4>1, <5>1 DEF Aparte, t
                <5>3. QED
                    BY <4>1, <4>3, <5>2 DEF DelMismo, n, p
            <4>4. QED
                BY <4>2, <4>3
        <3>3. ASSUME NEW m \in Navegadores, NEW l \in Navegadores, galleta'[m] # Nada,
                     galleta'[m] = galleta'[l]
              PROVE  m = l
            <4>1. \A i \in Navegadores : t # Nada /\ galleta[i] = t => i = n
                BY <2>1 DEF Aparte, t, n, p
            <4>2. CASE m # n /\ l # n
                BY <1>5, <2>1, <3>3, <4>2 DEF Aparte
            <4>3. CASE m = n \/ l = n
                BY <1>5, <3>3, <4>1, <4>3
            <4>4. QED
                BY <4>2, <4>3
        <3>4. QED
            BY <3>1, <3>2, <3>3 DEF Aparte
    <2>6. Frescas'
        BY <1>3, <2>1, <2>4 DEF Frescas
    <2>7. Galletas'
        <3> SUFFICES ASSUME NEW m \in Navegadores, galleta'[m] # Nada
                     PROVE  /\ token[galleta'[m]].estado # "no"
                            /\ token[galleta'[m]].estado = "ROTADO" =>
                                   \E q \in Peticiones :
                                       /\ peticion'[q].op = "refrescar" /\ peticion'[q].paso = "ok"
                                       /\ peticion'[q].p[1] = m
            BY <1>3 DEF Galletas
        <3>1. CASE m = n
            BY <1>5, <2>1, <3>1 DEF Frescas, t
        <3>2. CASE m # n
            <4>1. galleta'[m] = galleta[m] /\ token[galleta[m]].estado # "no"
                BY <1>5, <2>1, <3>2 DEF Galletas
            <4>2. ASSUME token[galleta[m]].estado = "ROTADO"
                  PROVE  \E q \in Peticiones :
                             /\ peticion'[q].op = "refrescar" /\ peticion'[q].paso = "ok"
                             /\ peticion'[q].p[1] = m
                <5>1. PICK q \in Peticiones : /\ peticion[q].op = "refrescar"
                                              /\ peticion[q].paso = "ok" /\ peticion[q].p[1] = m
                    BY <2>1, <4>1, <4>2 DEF Galletas
                <5>2. q # k
                    BY <3>2, <5>1 DEF n, p
                <5>3. QED
                    BY <1>9, <5>1, <5>2
            <4>3. QED
                BY <4>1, <4>2
        <3>3. QED
            BY <3>1, <3>2
    <2>8. QED
        BY <2>1, <2>3, <2>5, <2>6, <2>7
<1>16. QED
    BY <1>10, <1>11, <1>12, <1>13, <1>14, <1>15 DEF IInv

\* Nothing that the invariant reads of the requests and of the rows changes.
LEMMA MismoBien ==
    ASSUME IInv, TypeOK', UNCHANGED <<token, galleta, revocadas, alarma, solo>>,
           Enlazado',
           \A q \in Peticiones :
               /\ peticion'[q].op = peticion[q].op /\ peticion'[q].p = peticion[q].p
               /\ peticion'[q].t = peticion[q].t /\ peticion'[q].paso = peticion[q].paso
               /\ peticion'[q].alcance = peticion[q].alcance
               /\ peticion'[q].salir => peticion[q].op = "refrescar"
    PROVE  IInv'
<1>1. Vivos' = Vivos /\ Sobrantes' = Sobrantes
    BY DEF Vivos, Sobrantes
<1>2. Pasos'
    BY <1>1 DEF IInv, Pasos, PasoBien
<1>3. UnDueno'
    BY DEF IInv, UnDueno, Tiene
<1>4. Padres' /\ UnDescendiente' /\ Muertas'
    BY DEF IInv, Padres, UnDescendiente, Muertas
<1>5. Serena'
    <2> SUFFICES ASSUME Tranquilo'
                 PROVE  ~alarma' /\ Turnos' /\ Aparte' /\ Frescas' /\ Galletas'
        BY DEF Serena
    <2>1. ~alarma' /\ Turnos /\ Aparte /\ Frescas /\ Galletas
        BY DEF IInv, Serena, Tranquilo
    <2>2. Turnos' /\ Aparte'
        BY <2>1, MismosTurnos
    <2>3. Frescas' /\ Galletas'
        BY <2>1 DEF Frescas, Galletas
    <2>4. QED
        BY <2>1, <2>2, <2>3
<1>6. QED
    BY <1>2, <1>3, <1>4, <1>5 DEF IInv

\* What the tabs ask for
LEMMA PedidosBien ==
    ASSUME IInv, Pedir
    PROVE  IInv'
<1>1. PICK k \in Peticiones, p \in Pestanas :
          Entrar(k, p) \/ Refrescar(k, p) \/ Salir(k, p) \/ CambiarLiga(k, p)
    BY DEF Pedir
<1>2. /\ acceso \in [Pestanas -> {"no", "vigente", "vencido"}] /\ eventos \in 0..MaxEventos
      /\ MaxEventos \in Nat /\ peticion \in [Peticiones -> Peticion]
    BY SesionesAssumption DEF IInv, TypeOK, Peticion
<1>3. Anota => eventos' \in 0..MaxEventos
    BY <1>2 DEF Anota
<1>4. ASSUME NEW op, NEW paso, NEW salir, Manda(k, p, op, paso, salir),
             acceso' \in [Pestanas -> {"no", "vigente", "vencido"}],
             UNCHANGED <<bd, galleta, revocadas, alarma>>
      PROVE  IInv'
    BY <1>4, PedirBien
<1>6. CASE Entrar(k, p)
    <2>1. PICK op, paso, salir : Manda(k, p, op, paso, salir)
        <3>1. Manda(k, p, "entrar", "emitir", FALSE)
            BY <1>3, <1>6 DEF Entrar, Pide, Manda
        <3>2. QED
            BY <3>1
    <2>2. UNCHANGED <<bd, galleta, revocadas, alarma>> /\ acceso' = acceso
        BY <1>6 DEF Entrar, navegador
    <2>3. QED
        BY <1>2, <1>4, <2>1, <2>2
<1>7. CASE Refrescar(k, p)
    <2>1. PICK op, paso, salir : Manda(k, p, op, paso, salir)
        <3>1. Manda(k, p, "refrescar", IF galleta[p[1]] = Nada THEN "negada" ELSE "buscar", FALSE)
            BY <1>3, <1>7 DEF Refrescar, Pide, Manda
        <3>2. QED
            BY <3>1
    <2>2. UNCHANGED <<bd, galleta, revocadas, alarma>> /\ acceso' = acceso
        BY <1>7 DEF Refrescar, navegador
    <2>3. QED
        BY <1>2, <1>4, <2>1, <2>2
<1>8. CASE CambiarLiga(k, p)
    <2>1. PICK op, paso, salir : Manda(k, p, op, paso, salir)
        <3>1. Manda(k, p, "cambiar", "cerrar", FALSE)
            BY <1>3, <1>8 DEF CambiarLiga, Pide, Manda
        <3>2. QED
            BY <3>1
    <2>2. UNCHANGED <<bd, galleta, revocadas, alarma>> /\ acceso' = acceso
        BY <1>8 DEF CambiarLiga, navegador
    <2>3. QED
        BY <1>2, <1>4, <2>1, <2>2
<1>9. CASE Salir(k, p)
    <2>1. /\ UNCHANGED <<bd, galleta, revocadas, alarma>>
          /\ acceso' \in [Pestanas -> {"no", "vigente", "vencido"}]
        BY <1>2, <1>9 DEF Salir
    <2>2. CASE Pide(k, "salir", p, "cerrar")
        <3>1. PICK op, paso, salir : Manda(k, p, op, paso, salir)
            <4>1. Manda(k, p, "salir", "cerrar", FALSE)
                BY <1>3, <2>2 DEF Pide, Manda
            <4>2. QED
                BY <4>1
        <3>2. QED
            BY <1>4, <2>1, <3>1
    <2>3. CASE /\ EnVuelo(p, "refrescar") = {} /\ peticion[k] = Libre /\ Anota
               /\ peticion' = [peticion EXCEPT ![k] =
                      Pedido("refrescar", p, galleta[p[1]],
                             IF galleta[p[1]] = Nada THEN "negada" ELSE "buscar", TRUE)]
               /\ solo' = (solo /\ ~Roza(p, "refrescar"))
        <3>1. PICK op, paso, salir : Manda(k, p, op, paso, salir)
            <4>1. Manda(k, p, "refrescar", IF galleta[p[1]] = Nada THEN "negada" ELSE "buscar", TRUE)
                BY <1>3, <2>3 DEF Manda
            <4>2. QED
                BY <4>1
        <3>2. QED
            BY <1>4, <2>1, <3>1
    <2>4. CASE /\ k \in EnVuelo(p, "refrescar")
               /\ peticion' = [peticion EXCEPT ![k].salir = TRUE]
               /\ UNCHANGED <<solo, eventos>>
        <3>1. /\ peticion[k].op = "refrescar" /\ peticion' \in [Peticiones -> Peticion]
              /\ \A q \in Peticiones :
                     /\ peticion'[q].op = peticion[q].op /\ peticion'[q].p = peticion[q].p
                     /\ peticion'[q].t = peticion[q].t /\ peticion'[q].paso = peticion[q].paso
                     /\ peticion'[q].alcance = peticion[q].alcance
                     /\ q # k => peticion'[q].salir = peticion[q].salir
            BY <1>2, <2>4 DEF EnVuelo, Peticion
        <3>2. UNCHANGED <<token, enlace, claves, galleta, revocadas, alarma, solo, eventos>>
            BY <2>1, <2>4 DEF bd
        <3>3. TypeOK'
            BY <2>1, <3>1, <3>2 DEF IInv, TypeOK, Peticion
        <3>4. Enlazado'
            BY <3>1, <3>2 DEF IInv, Enlazado
        <3>5. \A q \in Peticiones : peticion'[q].salir => peticion[q].op = "refrescar"
            BY <3>1 DEF IInv, Pasos, PasoBien
        <3>6. QED
            BY <3>1, <3>2, <3>3, <3>4, <3>5, MismoBien
    <2>5. QED
        BY <1>9, <2>2, <2>3, <2>4 DEF Salir
<1>10. QED
    BY <1>1, <1>6, <1>7, <1>8, <1>9

\* The link of the password, and the access tokens that run out
LEMMA OtrosBien ==
    ASSUME IInv,
           \/ \E p \in Pestanas : AccesoVence(p)
           \/ PedirEnlace
           \/ \E k \in Peticiones : AbrirEnlace(k)
    PROVE  IInv'
<1>1. /\ acceso \in [Pestanas -> {"no", "vigente", "vencido"}] /\ eventos \in 0..MaxEventos
      /\ MaxEventos \in Nat /\ peticion \in [Peticiones -> Peticion]
    BY SesionesAssumption DEF IInv, TypeOK, Peticion
<1>2. Anota => eventos' \in 0..MaxEventos
    BY <1>1 DEF Anota
<1>3. CASE (\E p \in Pestanas : AccesoVence(p)) \/ PedirEnlace
    <2>1. /\ UNCHANGED <<token, claves, galleta, revocadas, alarma, solo>> /\ peticion' = peticion
          /\ acceso' \in [Pestanas -> {"no", "vigente", "vencido"}] /\ eventos' \in 0..MaxEventos
          /\ enlace' = enlace \/ (enlace = "no" /\ enlace' = "vivo")
        BY <1>1, <1>2, <1>3 DEF AccesoVence, PedirEnlace, bd, navegador, historia
    <2>2. TypeOK'
        BY <2>1 DEF IInv, TypeOK
    <2>3. Enlazado'
        BY <2>1 DEF IInv, Enlazado
    <2>4. \A q \in Peticiones : peticion[q].salir => peticion[q].op = "refrescar"
        BY DEF IInv, Pasos, PasoBien
    <2>5. QED
        BY <2>1, <2>2, <2>3, <2>4, MismoBien
<1>4. ASSUME NEW k \in Peticiones, AbrirEnlace(k)
      PROVE  IInv'
    <2> DEFINE nueva == [op |-> "restablecer", p |-> Nada, t |-> Nada, paso |-> "consumir",
                         alcance |-> {}, salir |-> FALSE]
    <2>1. /\ UNCHANGED <<token, enlace, claves, galleta, acceso, revocadas, alarma, solo>>
          /\ eventos' \in 0..MaxEventos /\ peticion[k] = Libre
          /\ Vivos' = Vivos /\ Sobrantes' = Sobrantes
        BY <1>2, <1>4 DEF AbrirEnlace, bd, navegador, historia, Vivos, Sobrantes
    <2>2. /\ peticion' \in [Peticiones -> Peticion] /\ peticion'[k] = nueva
          /\ \A q \in Peticiones : q # k => peticion'[q] = peticion[q]
        BY <1>1, <1>4 DEF AbrirEnlace, Libre, Pedido, Peticion
    <2>3. TypeOK'
        BY <2>1, <2>2 DEF IInv, TypeOK, Peticion
    <2>4. Pasos'
        <3>1. PasoBien(k)'
            BY <2>2 DEF PasoBien
        <3>2. ASSUME NEW q \in Peticiones, q # k
              PROVE  PasoBien(q)'
            BY <2>1, <2>2, <3>2 DEF IInv, Pasos, PasoBien
        <3>3. QED
            BY <3>1, <3>2 DEF Pasos
    <2>5. UnDueno' /\ Enlazado'
        BY <2>1, <2>2 DEF IInv, UnDueno, Tiene, Enlazado
    <2>6. Padres' /\ UnDescendiente' /\ Muertas'
        BY <2>1 DEF IInv, Padres, UnDescendiente, Muertas
    <2>7. Serena'
        <3> SUFFICES ASSUME Tranquilo'
                     PROVE  ~alarma' /\ Turnos' /\ Aparte' /\ Frescas' /\ Galletas'
            BY DEF Serena
        <3>1. ~alarma' /\ Turnos /\ Aparte /\ Frescas /\ Galletas
            BY <2>1 DEF IInv, Serena, Tranquilo
        <3>2. Turnos'
            BY <2>2, <3>1 DEF Turnos, DelMismo
        <3>3. Aparte'
            BY <2>1, <2>2, <3>1 DEF Aparte, DelMismo
        <3>4. Frescas'
            BY <2>1, <2>2, <3>1 DEF Frescas
        <3>5. Galletas'
            BY <2>1, <2>2, <3>1 DEF Galletas, Libre, Pedido
        <3>6. QED
            BY <3>1, <3>2, <3>3, <3>4, <3>5
    <2>8. QED
        BY <2>3, <2>4, <2>5, <2>6, <2>7 DEF IInv
<1>5. QED
    BY <1>3, <1>4

-----------------------------------------------------------------------------
(* The theorems                                                            *)

\* The invariant holds in every state.
LEMMA Invariante == Spec => []IInv
<1>1. Init => IInv
    <2> SUFFICES ASSUME Init PROVE IInv
        OBVIOUS
    <2> USE DEF Init, Libre, Pedido, SinUso
    <2>1. TypeOK
        <3>1. token \in [Tokens -> [estado : {"no", "vivo", "ROTADO", "LOGOUT", "SEGURIDAD"},
                                    padre : Tokens \cup {Nada}]]
            OBVIOUS
        <3>2. peticion \in [Peticiones ->
                  [op : {"libre", "entrar", "refrescar", "salir", "cambiar", "restablecer"},
                   p : Pestanas \cup {Nada}, t : Tokens \cup {Nada},
                   paso : {"ninguno", "emitir", "buscar", "rotar", "cerrar", "delatar", "consumir",
                           "revocar", "ok", "negada"},
                   alcance : SUBSET Tokens, salir : BOOLEAN]]
            OBVIOUS
        <3>3. eventos \in 0..MaxEventos /\ claves \in Nat
            BY SesionesAssumption
        <3>4. QED
            BY <3>1, <3>2, <3>3 DEF TypeOK
    <2>2. Pasos /\ UnDueno
        BY DEF Pasos, PasoBien, UnDueno, Tiene
    <2>3. Padres /\ UnDescendiente /\ Muertas /\ Enlazado
        BY DEF Padres, UnDescendiente, Muertas, Enlazado
    <2>4. Serena
        BY DEF Serena, Tranquilo, Turnos, Aparte, Frescas, Galletas, DelMismo
    <2>5. QED
        BY <2>1, <2>2, <2>3, <2>4 DEF IInv
<1>2. IInv /\ [Next]_vars => IInv'
    <2> SUFFICES ASSUME IInv, [Next]_vars PROVE IInv'
        OBVIOUS
    <2>1. CASE UNCHANGED vars
        <3>1. UNCHANGED <<token, enlace, claves, galleta, acceso, peticion, revocadas, alarma, solo,
                          eventos>>
            BY <2>1 DEF vars, bd, navegador, historia
        <3>2. TypeOK' /\ Enlazado'
            BY <3>1 DEF IInv, TypeOK, Enlazado
        <3>3. \A q \in Peticiones : peticion[q].salir => peticion[q].op = "refrescar"
            BY DEF IInv, Pasos, PasoBien
        <3>4. QED
            BY <3>1, <3>2, <3>3, MismoBien
    <2>2. CASE Pedir
        BY <2>2, PedidosBien
    <2>3. CASE Servir
        BY <2>3, EmisionesBien, BuscarBien, RotarBien, DelatarBien, CerrarBien, ConsumirBien,
           RestablecerBien DEF Servir
    <2>4. ASSUME NEW k \in Peticiones, RecibirNegada(k) \/ Perder(k)
          PROVE  IInv'
        <3>1. /\ acceso \in [Pestanas -> {"no", "vigente", "vencido"}] /\ solo \in BOOLEAN
              /\ eventos \in 0..MaxEventos /\ MaxEventos \in Nat
              /\ peticion[k].p \in Pestanas \cup {Nada}
            BY SesionesAssumption DEF IInv, TypeOK
        <3>2. /\ Acaba(k) /\ UNCHANGED <<bd, galleta, revocadas, alarma>>
              /\ solo' \in BOOLEAN /\ (solo' => solo /\ peticion[k].paso # "ok")
              /\ eventos' \in 0..MaxEventos
            <4>1. CASE RecibirNegada(k)
                BY <3>1, <4>1 DEF RecibirNegada, historia
            <4>2. CASE Perder(k)
                <5>1. eventos' \in 0..MaxEventos
                    BY <3>1, <4>2 DEF Perder, Anota
                <5>2. solo' = FALSE
                    BY <4>2 DEF Perder
                <5>3. Acaba(k) /\ UNCHANGED <<bd, galleta, revocadas, alarma>>
                    BY <4>2 DEF Perder
                <5>4. QED
                    BY <5>1, <5>2, <5>3
            <4>3. QED
                BY <2>4, <4>1, <4>2
        <3>3. acceso' \in [Pestanas -> {"no", "vigente", "vencido"}]
            BY <2>4, <3>1 DEF RecibirNegada, Perder
        <3>4. QED
            BY <3>2, <3>3, AcabaBien
    <2>5. CASE Contestar
        BY <2>4, <2>5, RecibirBien DEF Contestar
    <2>6. QED
        BY <2>1, <2>2, <2>3, <2>5, OtrosBien DEF Next
<1>3. QED
    BY <1>1, <1>2, PTL DEF Spec

\* Rows, cookies and requests keep their types.
THEOREM TiposDeSesiones == Spec => []TypeOK
BY Invariante, PTL DEF IInv

\* A refresh token is exchanged at most once, however many requests carry it at the same
\* time (AuthService.refresh, the atomic rotation).
THEOREM TokenDeUnUso == Spec => []UnDescendiente
BY Invariante, PTL DEF IInv

\* A session that a bulk revocation found is not alive once that request has ended
\* (revocarTodas after a reuse, aplicarResetPassword).
THEOREM NingunaRevocadaVive == Spec => []RevocadasMuertas
<1>1. IInv => RevocadasMuertas
    BY DEF IInv, Muertas, RevocadasMuertas, Vivos
<1>2. QED
    BY <1>1, Invariante, PTL

\* A browser that does one thing at a time, and gets its answers, is not taken for a
\* thief while nobody revokes its sessions (refreshTokens of api.ts).
THEOREM TurnosSinFalsaAlarma == Spec => []SinFalsaAlarma
<1>1. IInv => SinFalsaAlarma
    BY DEF IInv, Serena, Tranquilo, SinFalsaAlarma
<1>2. QED
    BY <1>1, Invariante, PTL

\* The link sets a password once, however many times the form is sent (consumir).
THEOREM EnlaceDeUnUso == Spec => []ClaveUnaVez
<1>1. IInv => ClaveUnaVez
    BY DEF IInv, Enlazado, ClaveUnaVez
<1>2. QED
    BY <1>1, Invariante, PTL
=============================================================================
