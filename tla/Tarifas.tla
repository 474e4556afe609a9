-------------------------------- MODULE Tarifas --------------------------------
(***************************************************************************)
(* What a tournament charges its teams: a matricula and monthly cuotas when *)
(* it starts, cuotas month by month in the old tariffs, and a fine for each *)
(* card and walkover.  The charges of a match are thrown away and made      *)
(* again each time its acta closes; the office pays, cancels, reverts and   *)
(* deletes them meanwhile.  A request reads, and writes when it commits.    *)
(***************************************************************************)
EXTENDS Naturals, FiniteSets, FiniteSetsExt, Functions

CONSTANTS
    Escenarios,     \* where the behaviours start: a tournament, its teams and its tariffs
    Clubes, Inscripciones,   \* inscriptions: 1..N, handed out in order
    Cupo,           \* cupoEquipos of the only category
    Partidos,
    Incidencias,    \* rows of cards that may be loaded in a match
    Carta,          \* row -> [equipo, tipo, quien]: whose card, and which one
    Cuotas,         \* cantidadCuotas
    TiposAMano,     \* tariffs the office makes and edits
    MaxQuincena,    \* half months that go by
    Peticiones,     \* requests that may be in flight together
    MaxEventos,     \* bound on what the office does to charges and tariffs, and on faults
    Nada

ASSUME TarifasAssumption ==
    /\ IsFiniteSet(Incidencias) /\ IsFiniteSet(Peticiones)
    /\ MaxEventos \in Nat /\ MaxQuincena \in Nat /\ Cuotas \in Nat

VARIABLES
    torneo,         \* DRAFT, ACTIVO or CERRADO
    insc,           \* inscriptions: club, month it came in, is it suspended?
    tarifa,         \* tipo -> no, activa, inactiva
    hoy,            \* half months gone by: in the second half the due day has passed
    partido,        \* match -> no (not drawn), abierto, FINALIZADO, WALKOVER
    tarjetas,       \* match -> rows of cards in its acta
    cobros,         \* charges: how many there are of each, in each state
    peticion,       \* request -> what it read and will write
    mayor,          \* history: most cards of its kind an acta ever closed with
    cruces,         \* history: matches two requests fined at once; cuotas cancelled
                    \* while a request was about to make them
    eventos

vars == <<torneo, insc, tarifa, hoy, partido, tarjetas, cobros, peticion, mayor, cruces, eventos>>
calendario == <<torneo, insc, tarifa, hoy>>
acta == <<partido, tarjetas, mayor>>

DeTarjeta == {"MULTA_AMARILLA", "MULTA_ROJA"}
Tipos == {"MATRICULA", "CUOTA", "MULTA_WALKOVER"} \cup DeTarjeta
Meses == 0..(MaxQuincena + 1) \div 2 + Cuotas

\* A scenario: the state of the tournament, its teams in the order they came in, the
\* tariffs, the half month it is and which matches have been drawn.
ASSUME EscenariosAssumption ==
    /\ TiposAMano \subseteq Tipos
    /\ \A e \in Escenarios :
           /\ e.torneo \in {"DRAFT", "ACTIVO", "CERRADO"}
           /\ \A i \in DOMAIN e.inscritos : e.inscritos[i] \in Clubes
           /\ e.tarifa \in [Tipos -> {"no", "activa", "inactiva", "por_mes"}]
           /\ e.hoy \in 0..MaxQuincena
           /\ e.partido \in [Partidos -> {"no", "abierto", "FINALIZADO", "WALKOVER"}]

\* A charge is told by what it is for.
Matricula(i) == [insc |-> i, tarifa |-> "MATRICULA", por |-> Nada]
Cuota(i, m) == [insc |-> i, tarifa |-> "CUOTA", por |-> m]
Multa(i, t, p) == [insc |-> i, tarifa |-> t, por |-> p]
LasCuotas == {Cuota(i, m) : i \in Inscripciones, m \in Meses}
LasMultas == {Multa(i, t, p) : i \in Inscripciones, t \in DeTarjeta \cup {"MULTA_WALKOVER"},
                               p \in Partidos}
Cobros == {Matricula(i) : i \in Inscripciones} \cup LasCuotas \cup LasMultas

\* pagado_at and cancelado
Estados == {"pendiente", "pagado", "cancelado", "pagado_cancelado"}
Filas(k, es) ==
    LET en(e) == IF e \in es THEN cobros[k][e] ELSE 0
    IN en("pendiente") + en("pagado") + en("cancelado") + en("pagado_cancelado")
Saldados == Estados \ {"pendiente"}
Vigentes == {"pendiente", "pagado"}

Libre == [op |-> "libre", que |-> Nada, borra |-> <<>>, crea |-> <<>>]
EnVuelo == {q \in Peticiones : peticion[q] # Libre}
Gasta == eventos < MaxEventos /\ eventos' = eventos + 1

TypeOK ==
    /\ torneo \in {"DRAFT", "ACTIVO", "CERRADO"}
    /\ insc \in [Inscripciones ->
           [club : Clubes, desde : Meses, suspendida : BOOLEAN] \cup {Nada}]
    /\ tarifa \in [Tipos -> {"no", "activa", "inactiva", "por_mes"}] /\ hoy \in 0..MaxQuincena
    /\ partido \in [Partidos -> {"no", "abierto", "FINALIZADO", "WALKOVER"}]
    /\ tarjetas \in [Partidos -> SUBSET Incidencias]
    /\ cobros \in [Cobros -> [Estados -> Nat]]
    /\ mayor \in [LasMultas -> Nat] /\ cruces \subseteq Partidos \cup LasCuotas
    /\ eventos \in 0..MaxEventos

Init ==
    /\ \E e \in Escenarios :
           /\ torneo = e.torneo /\ tarifa = e.tarifa /\ partido = e.partido
           /\ insc = [i \in Inscripciones |-> IF i \in DOMAIN e.inscritos
                 THEN [club |-> e.inscritos[i], desde |-> e.hoy \div 2, suspendida |-> FALSE]
                 ELSE Nada]
           /\ hoy = e.hoy
    /\ tarjetas = [p \in Partidos |-> {}]
    /\ cobros = [k \in Cobros |-> [e \in Estados |-> 0]]
    /\ peticion = [q \in Peticiones |-> Libre]
    /\ mayor = [k \in LasMultas |-> 0]
    /\ cruces = {} /\ eventos = 0

Pide(q, op, que, borra, crea) ==
    /\ peticion[q] = Libre
    /\ peticion' = [peticion EXCEPT ![q] =
           [op |-> op, que |-> que, borra |-> borra, crea |-> crea]]

Acaba(q) == peticion' = [peticion EXCEPT ![q] = Libre]

\* Any error throws: the request leaves nothing.
Abortar(q) ==
    /\ q \in EnVuelo /\ Acaba(q)
    /\ UNCHANGED <<calendario, acta, cobros, cruces, eventos>>

---------------------------------------------------------------------------
(* The teams                                                               *)

Inscritas == {i \in Inscripciones : insc[i] # Nada}
Usadas == {i \in Inscripciones : \E j \in i..Cardinality(Inscripciones) : insc[j] # Nada}

\* inscribir counts the quota before it inserts; the constraint uq_inscripcion refuses a
\* club that is in already.
PedirInscripcion(q, club) ==
    /\ torneo = "DRAFT"
    /\ Cardinality(Inscritas) < Cupo
    /\ Pide(q, "inscribir", club, <<>>, <<>>)
    /\ UNCHANGED <<calendario, acta, cobros, cruces, eventos>>

Inscribir(q) ==
    /\ peticion[q].op = "inscribir"
    /\ peticion[q].que \notin {insc[i].club : i \in Inscritas}
    /\ \E i \in Inscripciones \ Usadas :
           /\ \A j \in Inscripciones \ Usadas : i <= j
           /\ insc' = [insc EXCEPT ![i] =
                  [club |-> peticion[q].que, desde |-> hoy \div 2, suspendida |-> FALSE]]
    /\ Acaba(q)
    /\ UNCHANGED <<torneo, tarifa, hoy, acta, cobros, cruces, eventos>>

\* Its charges lose their inscripcion_id, and nobody finds them again.  Who has been
\* drawn to play stays.
Desinscribir(i) ==
    /\ insc[i] # Nada /\ torneo = "DRAFT"
    /\ \A p \in Partidos : partido[p] = "no"
    /\ insc' = [insc EXCEPT ![i] = Nada]
    /\ cobros' = [k \in Cobros |-> IF k.insc = i THEN [e \in Estados |-> 0] ELSE cobros[k]]
    /\ UNCHANGED <<torneo, tarifa, hoy, acta, peticion, cruces, eventos>>

\* suspender and reactivar of a team
SuspenderOReactivar(i) ==
    /\ insc[i] # Nada /\ Gasta
    /\ torneo = "ACTIVO" \/ insc[i].suspendida
    /\ insc' = [insc EXCEPT ![i].suspendida = ~@]
    /\ UNCHANGED <<torneo, tarifa, hoy, acta, cobros, peticion, cruces>>

---------------------------------------------------------------------------
(* Charges of the start of a tournament, and of each month                 *)

\* buscarTarifa.  A cuota either has a number of payments, made at the start ("activa"),
\* or is one of the old ones, that the cron makes one by one ("por_mes").
CrearTarifa(t) ==
    /\ tarifa[t] = "no" /\ Gasta
    /\ tarifa' = [tarifa EXCEPT ![t] = "activa"]
    /\ UNCHANGED <<torneo, insc, hoy, acta, cobros, peticion, cruces>>

\* validarReglas lets no cuota be edited and stay without a number of payments.
EditarTarifa(t) ==
    /\ tarifa[t] # "no" /\ Gasta
    /\ \E e \in {"activa", "inactiva"} \ {tarifa[t]} : tarifa' = [tarifa EXCEPT ![t] = e]
    /\ UNCHANGED <<torneo, insc, hoy, acta, cobros, peticion, cruces>>

Participan == {i \in Inscritas : ~insc[i].suspendida}
PrimerMes == (hoy + 1) \div 2

\* A charge that exists, paid, pending or cancelled by hand, is not made again.
Faltan(ks) == {k \in ks : Filas(k, Estados) = 0}

\* generarCobrosInicioTorneo: the cuotas are those of the months to come, as of today.
DeInicio ==
    (IF tarifa["MATRICULA"] = "activa" THEN {Matricula(i) : i \in Participan} ELSE {})
    \cup (IF tarifa["CUOTA"] = "activa"
          THEN {Cuota(i, PrimerMes + n) : i \in Participan, n \in 0..Cuotas - 1} ELSE {})

\* generarCuotasDelTenant: from the month a team came in to this one
DelMes ==
    IF tarifa["CUOTA"] = "por_mes" /\ torneo # "CERRADO"
    THEN UNION {{Cuota(i, m) : m \in insc[i].desde..(hoy \div 2)} : i \in Participan} ELSE {}

Uno(ks) == [k \in ks |-> 1]
PideCobros(q, op, ks) ==
    /\ Pide(q, op, Nada, <<>>, Uno(Faltan(ks)))
    /\ UNCHANGED <<calendario, acta, cobros, cruces, eventos>>

\* update of a tournament to ACTIVO: it writes its row first, so it waits for another one.
Activar(q) ==
    /\ torneo # "ACTIVO"
    /\ \A r \in EnVuelo : peticion[r].op # "activar"
    /\ PideCobros(q, "activar", DeInicio)

\* generarCobros, by hand, as many times as one likes
GenerarCobros(q) ==
    /\ torneo # "DRAFT" /\ Faltan(DeInicio) # {}
    /\ PideCobros(q, "generar", DeInicio)

CuotasCron(q) == Faltan(DelMes) # {} /\ PideCobros(q, "cron", DelMes)

\* Mutant: the unique index does not say which month
MutRepetida(k) == \E j \in LasCuotas : j.insc = k.insc /\ j # k /\ Filas(j, Vigentes) > 0

\* uq_cobro_cuota_periodo
Repetida(k) == Filas(k, Vigentes) > 0

\* The cuotas that another request made meanwhile, and those that fail, are left out, each
\* in its savepoint; a matricula has neither an index nor a savepoint.
EscribirCobros(q) ==
    LET pedidos == DOMAIN peticion[q].crea
        entran == {k \in pedidos : insc[k.insc] # Nada
                                   /\ (k.tarifa = "CUOTA" => ~Repetida(k))}
    IN /\ peticion[q].op \in {"activar", "generar", "cron"}
       /\ \A k \in pedidos : k.tarifa = "MATRICULA" => k \in entran
       /\ \E falla \in {{}} \cup {{k} : k \in entran \cap LasCuotas} :
              /\ IF falla = {} THEN UNCHANGED eventos ELSE Gasta
              /\ cobros' = [k \in Cobros |-> IF k \in entran \ falla
                     THEN [cobros[k] EXCEPT !["pendiente"] = @ + 1] ELSE cobros[k]]
       /\ torneo' = IF peticion[q].op = "activar" THEN "ACTIVO" ELSE torneo
       /\ Acaba(q)
       /\ UNCHANGED <<insc, tarifa, hoy, acta, cruces>>

\* update of a tournament to any other state
CambiarEstado(e) ==
    /\ e # torneo /\ e # "ACTIVO" /\ Gasta
    /\ \A q \in EnVuelo : peticion[q].op # "activar"
    /\ torneo' = e
    /\ UNCHANGED <<insc, tarifa, hoy, acta, cobros, peticion, cruces>>

PasaQuincena ==
    /\ hoy < MaxQuincena
    /\ hoy' = hoy + 1
    /\ UNCHANGED <<torneo, insc, tarifa, acta, cobros, peticion, cruces, eventos>>

---------------------------------------------------------------------------
(* Fines                                                                   *)

Rivales(p) == {i \in Inscritas : i <= 2}    \* the first two teams play each other
MultasDe(p) == {k \in LasMultas : k.por = p}
Contadas(p, filas, k) == Cardinality({Carta[f] : f \in {g \in filas :
    Multa(Carta[g].equipo, Carta[g].tipo, p) = k}})

\* Rows that the DELETE of a request in flight has locked
LasQueTomo(q, k) ==
    IF k \in DOMAIN peticion[q].borra THEN {q} \X (1..peticion[q].borra[k]) ELSE {}
Tomadas(k) == Cardinality(UNION {LasQueTomo(q, k) : q \in Peticiones})

\* borrarCobrosAutoDelPartido: nor paid, nor cancelled
Pendientes(k) == cobros[k]["pendiente"] - Tomadas(k)

\* Mutant: what the operator cancelled does not count
MutSaldadas(k) == Filas(k, {"pagado", "pagado_cancelado"})

\* contarCobrosSaldadosDelPartido
Saldadas(k) == Filas(k, Saldados)

\* aplicarMultasDePartido: one for each different card, less those that were settled.
DeTarjetas(p, filas) ==
    [k \in MultasDe(p) |->
        IF tarifa[k.tarifa] # "activa" \/ k.tarifa \notin DeTarjeta THEN 0
        ELSE LET n == Contadas(p, filas, k) IN IF n > Saldadas(k) THEN n - Saldadas(k) ELSE 0]

\* aplicarMultaWalkover
DeWalkover(p, i) ==
    [k \in MultasDe(p) |->
        IF k = Multa(i, "MULTA_WALKOVER", p) /\ tarifa[k.tarifa] = "activa" /\ Saldadas(k) = 0
        THEN 1 ELSE 0]

Ninguna(p) == [k \in MultasDe(p) |-> 0]

\* Fines are best effort: when they fail the charges stay as they were.
Multar(p, crea) ==
    \/ cobros' = [k \in Cobros |-> IF k \in MultasDe(p)
           THEN [cobros[k] EXCEPT !["pendiente"] = @ - Pendientes(k) + crea[k]] ELSE cobros[k]]
       /\ UNCHANGED eventos
    \/ UNCHANGED cobros /\ Gasta

Cruza(p) == cruces' = IF \E q \in EnVuelo : peticion[q].que = p THEN cruces \cup {p} ELSE cruces

\* addIncidencia and removeIncidencia
CargarTarjeta(p, f) ==
    /\ partido[p] = "abierto" /\ Carta[f].equipo \in Rivales(p)
    /\ tarjetas' = [tarjetas EXCEPT ![p] = IF f \in @ THEN @ \ {f} ELSE @ \cup {f}]
    /\ UNCHANGED <<calendario, partido, mayor, cobros, peticion, cruces, eventos>>

CerrarActa(p) ==
    /\ partido[p] = "abierto"
    /\ partido' = [partido EXCEPT ![p] = "FINALIZADO"]
    /\ mayor' = [k \in LasMultas |-> IF k.por = p THEN Max({mayor[k], Contadas(p, tarjetas[p], k)})
                                     ELSE mayor[k]]
    /\ Multar(p, DeTarjetas(p, tarjetas[p]))
    /\ Cruza(p)
    /\ UNCHANGED <<calendario, tarjetas, peticion>>

\* The operator may ask for no fine.
DeclararWalkover(p, i) ==
    /\ partido[p] = "abierto" /\ i \in Rivales(p)
    /\ partido' = [partido EXCEPT ![p] = "WALKOVER"]
    /\ \/ Multar(p, DeWalkover(p, i)) /\ Cruza(p)
       \/ UNCHANGED <<cobros, cruces, eventos>>
    /\ UNCHANGED <<calendario, tarjetas, mayor, peticion>>

\* reabrirActa and anularWalkover
ReabrirOAnular(p) ==
    /\ partido[p] \in {"FINALIZADO", "WALKOVER"}
    /\ partido' = [partido EXCEPT ![p] = "abierto"]
    /\ Multar(p, Ninguna(p))
    /\ UNCHANGED <<calendario, tarjetas, mayor, peticion, cruces>>

\* regenerarMultas takes no lock: it reads the cards, deletes and counts, and creates.
RegenerarMultas(q, p) ==
    /\ partido[p] = "FINALIZADO"
    /\ Pide(q, "regenerar", p, [k \in MultasDe(p) |-> Pendientes(k)], DeTarjetas(p, tarjetas[p]))
    /\ Cruza(p)
    /\ UNCHANGED <<calendario, acta, cobros, eventos>>

EscribirMultas(q) ==
    LET r == peticion[q]
    IN /\ r.op = "regenerar"
       /\ cobros' = [k \in Cobros |-> IF k \in DOMAIN r.crea
              THEN [cobros[k] EXCEPT !["pendiente"] = @ - r.borra[k] + r.crea[k]] ELSE cobros[k]]
       /\ Acaba(q)
       /\ UNCHANGED <<calendario, acta, cruces, eventos>>

---------------------------------------------------------------------------
(* The office                                                              *)

\* marcarPagado, revertirPago, and update with cancelado
Pasos == {<<"pendiente", "pagado">>, <<"pagado", "pendiente">>,
          <<"pendiente", "cancelado">>, <<"pagado", "pagado_cancelado">>,
          <<"cancelado", "pendiente">>, <<"pagado_cancelado", "pagado">>,
          <<"pagado_cancelado", "cancelado">>}

Hay(k, e) == IF e = "pendiente" THEN Pendientes(k) > 0 ELSE cobros[k][e] > 0

\* The unique index refuses to bring back a cuota that has been made again.
CambiarCobro(k, s) ==
    /\ Hay(k, s[1]) /\ Gasta
    /\ k \in LasCuotas /\ s[1] \notin Vigentes /\ s[2] \in Vigentes => ~Repetida(k)
    /\ cobros' = [cobros EXCEPT ![k][s[1]] = @ - 1, ![k][s[2]] = @ + 1]
    /\ cruces' = IF k \in LasCuotas /\ \E q \in EnVuelo : k \in DOMAIN peticion[q].crea
                 THEN cruces \cup {k} ELSE cruces
    /\ UNCHANGED <<calendario, acta, peticion>>

EliminarCobro(k, e) ==
    /\ Hay(k, e) /\ Gasta
    /\ cobros' = [cobros EXCEPT ![k][e] = @ - 1]
    /\ UNCHANGED <<calendario, acta, peticion, cruces>>

---------------------------------------------------------------------------
Next ==
    \/ \E q \in Peticiones :
           \/ \E club \in Clubes : PedirInscripcion(q, club)
           \/ Inscribir(q) \/ Activar(q) \/ GenerarCobros(q) \/ CuotasCron(q)
           \/ EscribirCobros(q) \/ EscribirMultas(q) \/ Abortar(q)
           \/ \E p \in Partidos : RegenerarMultas(q, p)
    \/ \E i \in Inscripciones : Desinscribir(i) \/ SuspenderOReactivar(i)
    \/ \E t \in TiposAMano : CrearTarifa(t) \/ EditarTarifa(t)
    \/ \E e \in {"DRAFT", "CERRADO"} : CambiarEstado(e)
    \/ PasaQuincena
    \/ \E p \in Partidos :
           \/ \E f \in Incidencias : CargarTarjeta(p, f)
           \/ CerrarActa(p) \/ ReabrirOAnular(p)
           \/ \E i \in Inscripciones : DeclararWalkover(p, i)
    \/ \E k \in Cobros :
           \/ \E s \in Pasos : CambiarCobro(k, s)
           \/ \E e \in Estados : EliminarCobro(k, e)

Spec == Init /\ [][Next]_vars

---------------------------------------------------------------------------
(* Properties                                                              *)

\* However an acta is reopened, corrected, forfeited and closed again, and whatever the
\* office pays, cancels and reverts in between, a team has at most one fine of a kind for
\* each card of that kind an acta closed with ("C1 Anti doble-cobro"), unless two requests
\* fined the match at once.
MultasAcotadas ==
    \A k \in LasMultas : k.por \notin cruces =>
        Filas(k, Estados) <= IF k.tarifa = "MULTA_WALKOVER" THEN 1 ELSE mayor[k]

\* A team owes or has paid one cuota for a month, however many requests make cuotas at
\* once; and a month that was cancelled by hand is not charged again, unless it was
\* cancelled while one of them ran ("Esto evita que el cron resucite cobros").
UnaCuotaPorPeriodo ==
    \A k \in LasCuotas :
        /\ Filas(k, Vigentes) <= 1
        /\ k \notin cruces => Filas(k, Estados) <= 1

\* The league says how many cuotas "se cobran en total durante el torneo"
\* (tarifas-admin.service.ts:196): where cuotas are made at the start, nobody owes or has
\* paid more, however often generarCobros runs ("Idempotente: no duplica cobros que ya
\* existan").
CuotasPactadas ==
    tarifa["CUOTA"] # "por_mes" =>
        \A i \in Inscripciones :
            Cardinality({k \in LasCuotas : k.insc = i /\ Filas(k, Vigentes) > 0}) <= Cuotas
=============================================================================
