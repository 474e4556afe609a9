-------------------------------- MODULE Sesiones --------------------------------
(***************************************************************************)
(* The sessions of one user: the rows of refresh_tokens, the browsers that *)
(* carry the refresh token in a cookie all their tabs share, and the tabs, *)
(* each with an access token of its own.  A request is one transaction     *)
(* that the others see when it commits; its answer may be late or lost.    *)
(***************************************************************************)
EXTENDS Naturals, FiniteSets, FiniteSetsExt

CONSTANTS
    Tokens,         \* 1..N, handed out in order
    Pestanas,       \* tabs, each a pair <<browser, number>>
    Peticiones,     \* requests that may be in flight together
    MaxEventos,     \* bound on requests and on access tokens that run out
    Nada

\* The rows are handed out in order, and NULL is neither a row nor a tab.
ASSUME SesionesAssumption ==
    /\ Tokens \subseteq Nat /\ MaxEventos \in Nat
    /\ Nada \notin Tokens /\ Nada \notin Pestanas

VARIABLES
    token,          \* the table refresh_tokens: its state and the token it replaces
    enlace,         \* the magic link to reset the password
    claves,         \* times that the password was set with that link
    galleta,        \* browser -> the token in its cookie
    acceso,         \* tab -> its access token
    peticion,       \* request -> its operation, its tab and how far it is
    revocadas,      \* history: sessions a bulk revocation found and has answered for
    alarma,         \* history: somebody was taken for a thief
    solo,           \* history: no browser did two things at a time or lost an answer
    eventos

bd == <<token, enlace, claves>>
navegador == <<galleta, acceso>>
historia == <<revocadas, alarma, solo>>
vars == <<bd, navegador, peticion, historia, eventos>>

Navegadores == {p[1] : p \in Pestanas}
Vivo == [estado |-> "vivo", padre |-> Nada]
SinUso == [estado |-> "no", padre |-> Nada]
Pedido(op, p, t, paso, salir) ==
    [op |-> op, p |-> p, t |-> t, paso |-> paso, alcance |-> {}, salir |-> salir]
Libre == Pedido("libre", Nada, Nada, "ninguno", FALSE)

TypeOK ==
    /\ token \in [Tokens -> [estado : {"no", "vivo", "ROTADO", "LOGOUT", "SEGURIDAD"},
                             padre : Tokens \cup {Nada}]]
    /\ enlace \in {"no", "vivo", "usado"} /\ claves \in Nat
    /\ galleta \in [Navegadores -> Tokens \cup {Nada}]
    /\ acceso \in [Pestanas -> {"no", "vigente", "vencido"}]
    /\ peticion \in [Peticiones ->
           [op : {"libre", "entrar", "refrescar", "salir", "cambiar", "restablecer"},
            p : Pestanas \cup {Nada}, t : Tokens \cup {Nada},
            paso : {"ninguno", "emitir", "buscar", "rotar", "cerrar", "delatar", "consumir",
                    "revocar", "ok", "negada"},
            alcance : SUBSET Tokens, salir : BOOLEAN]]
    /\ revocadas \subseteq Tokens /\ alarma \in BOOLEAN /\ solo \in BOOLEAN /\ eventos \in 0..MaxEventos

Init ==
    /\ token = [t \in Tokens |-> SinUso]
    /\ enlace = "no" /\ claves = 0
    /\ galleta = [n \in Navegadores |-> Nada]
    /\ acceso = [p \in Pestanas |-> "no"]
    /\ peticion = [q \in Peticiones |-> Libre]
    /\ revocadas = {} /\ alarma = FALSE /\ solo = TRUE
    /\ eventos = 0

Vivos == {t \in Tokens : token[t].estado = "vivo"}
Sobrantes == {t \in Tokens : token[t].estado = "no"}

\* A row that another transaction has updated and not committed
Bloqueada(t) ==
    \E q \in Peticiones : peticion[q].t = t /\ peticion[q].op # "entrar" /\ peticion[q].paso = "emitir"

Anota == eventos < MaxEventos /\ eventos' = eventos + 1

\* The browser already has a request under way, of another tab or of another kind
Roza(p, op) ==
    \E q \in Peticiones : /\ peticion[q].p # Nada /\ peticion[q].p[1] = p[1]
                          /\ <<peticion[q].p, peticion[q].op>> # <<p, op>>

Pide(q, op, p, paso) ==
    /\ peticion[q] = Libre
    /\ Anota
    /\ peticion' = [peticion EXCEPT ![q] = Pedido(op, p, galleta[p[1]], paso, FALSE)]
    /\ solo' = (solo /\ ~Roza(p, op))

Pasa(q, paso) == peticion' = [peticion EXCEPT ![q].paso = paso]

\* The statement that revokes every session starts: it will reach the rows it sees now.
Alcanza(q, paso) == peticion' = [peticion EXCEPT ![q].paso = paso, ![q].alcance = Vivos]

---------------------------------------------------------------------------
(* What the tabs ask for                                                   *)

\* useLogin: login reads the user and its password, and issues later.
Entrar(q, p) ==
    /\ acceso[p] = "no"
    /\ Pide(q, "entrar", p, "emitir")
    /\ UNCHANGED <<bd, navegador, revocadas, alarma>>

AccesoVence(p) ==
    /\ acceso[p] = "vigente"
    /\ Anota
    /\ acceso' = [acceso EXCEPT ![p] = "vencido"]
    /\ UNCHANGED <<bd, galleta, peticion, historia>>

EnVuelo(p, op) == {q \in Peticiones : peticion[q].p = p /\ peticion[q].op = op}

\* Mutant: every request with a 401 refreshes on its own
MutRefrescarSinUnico(q, p) ==
    /\ acceso[p] = "vencido"
    /\ Pide(q, "refrescar", p, IF galleta[p[1]] = Nada THEN "negada" ELSE "buscar")
    /\ UNCHANGED <<bd, navegador, revocadas, alarma>>

\* apiFetch after a 401: refreshTokens, one at a time in each tab, with the cookie there is.
Refrescar(q, p) ==
    /\ acceso[p] = "vencido"
    /\ EnVuelo(p, "refrescar") = {}
    /\ Pide(q, "refrescar", p, IF galleta[p[1]] = Nada THEN "negada" ELSE "buscar")
    /\ UNCHANGED <<bd, navegador, revocadas, alarma>>

\* useLogout: the request leaves with the access token of before, and the tab forgets
\* its own at once.  With an access token that ran out, apiFetch refreshes first.
Salir(q, p) ==
    /\ \/ acceso[p] = "vigente" /\ Pide(q, "salir", p, "cerrar")
       \/ /\ acceso[p] = "vencido" /\ EnVuelo(p, "refrescar") = {}
          /\ peticion[q] = Libre
          /\ Anota
          /\ peticion' = [peticion EXCEPT ![q] =
                 Pedido("refrescar", p, galleta[p[1]],
                        IF galleta[p[1]] = Nada THEN "negada" ELSE "buscar", TRUE)]
          /\ solo' = (solo /\ ~Roza(p, "refrescar"))
       \/ /\ acceso[p] = "vencido" /\ q \in EnVuelo(p, "refrescar")
          /\ peticion' = [peticion EXCEPT ![q].salir = TRUE]
          /\ UNCHANGED <<solo, eventos>>
    /\ acceso' = [acceso EXCEPT ![p] = "no"]
    /\ UNCHANGED <<bd, galleta, revocadas, alarma>>

\* switchTenant of the tab: it closes the session of the cookie and issues another.
CambiarLiga(q, p) ==
    /\ acceso[p] = "vigente"
    /\ Pide(q, "cambiar", p, "cerrar")
    /\ UNCHANGED <<bd, navegador, revocadas, alarma>>

\* forgot-password, and the form of the link sent twice
PedirEnlace ==
    /\ enlace = "no"
    /\ Anota
    /\ enlace' = "vivo"
    /\ UNCHANGED <<token, claves, navegador, peticion, historia>>

AbrirEnlace(q) ==
    /\ enlace = "vivo"
    /\ peticion[q] = Libre
    /\ Anota
    /\ peticion' = [peticion EXCEPT ![q] = Pedido("restablecer", Nada, Nada, "consumir", FALSE)]
    /\ UNCHANGED <<bd, navegador, historia>>

---------------------------------------------------------------------------
(* What the server does                                                    *)

Revoca(ts, motivo) ==
    [t \in Tokens |-> IF t \in ts /\ token[t].estado = "vivo"
                      THEN [token[t] EXCEPT !.estado = motivo] ELSE token[t]]

Emitida(tabla, padre) == [tabla EXCEPT ![Min(Sobrantes)] = [Vivo EXCEPT !.padre = padre]]

\* The answer carries the new cookie.
Responde(q) ==
    peticion' = [peticion EXCEPT ![q].paso = "ok", ![q].t = Min(Sobrantes)]

\* login commits the row that issueTokens inserts.
EmitirEntrada(q) ==
    /\ peticion[q].op = "entrar" /\ peticion[q].paso = "emitir"
    /\ Sobrantes # {}
    /\ token' = Emitida(token, Nada)
    /\ Responde(q)
    /\ UNCHANGED <<enlace, claves, navegador, historia, eventos>>

\* refresh looks its row up: a token that was rotated comes back, one that is closed, or
\* one that may be rotated.
Buscar(q) ==
    LET estado == token[peticion[q].t].estado
    IN /\ peticion[q].op = "refrescar" /\ peticion[q].paso = "buscar"
       /\ \/ estado = "ROTADO" /\ Alcanza(q, "delatar") /\ alarma' = TRUE
          \/ estado \in {"LOGOUT", "SEGURIDAD"} /\ Pasa(q, "negada") /\ UNCHANGED alarma
          \/ estado = "vivo" /\ Pasa(q, "rotar") /\ UNCHANGED alarma
       /\ UNCHANGED <<bd, navegador, revocadas, solo, eventos>>

\* Mutant: the UPDATE without revoked_at IS NULL
MutRotarSinCondicion(q) ==
    /\ peticion[q].op = "refrescar" /\ peticion[q].paso = "rotar"
    /\ ~Bloqueada(peticion[q].t)
    /\ Pasa(q, "emitir")
    /\ UNCHANGED <<bd, navegador, historia, eventos>>

\* The UPDATE that rotates waits for whoever has the row, and finds it alive or not.
Rotar(q) ==
    /\ peticion[q].op = "refrescar" /\ peticion[q].paso = "rotar"
    /\ ~Bloqueada(peticion[q].t)
    /\ IF token[peticion[q].t].estado = "vivo"
       THEN Pasa(q, "emitir") /\ UNCHANGED alarma
       ELSE Alcanza(q, "delatar") /\ alarma' = TRUE
    /\ UNCHANGED <<bd, navegador, revocadas, solo, eventos>>

EmitirPar(q) ==
    /\ peticion[q].op = "refrescar" /\ peticion[q].paso = "emitir"
    /\ Sobrantes # {}
    /\ token' = Emitida([token EXCEPT ![peticion[q].t].estado = "ROTADO"], peticion[q].t)
    /\ Responde(q)
    /\ UNCHANGED <<enlace, claves, navegador, historia, eventos>>

\* Mutant: the revocation runs in the transaction of the request, that rolls back
MutDelatarEnLaMisma(q) ==
    /\ peticion[q].paso = "delatar"
    /\ \A t \in peticion[q].alcance : ~Bloqueada(t)
    /\ revocadas' = revocadas \cup peticion[q].alcance
    /\ Pasa(q, "negada")
    /\ UNCHANGED <<bd, navegador, alarma, solo, eventos>>

\* The revocation commits on its own, and then the request is refused and rolled back.
Delatar(q) ==
    /\ peticion[q].paso = "delatar"
    /\ \A t \in peticion[q].alcance : ~Bloqueada(t)
    /\ token' = Revoca(peticion[q].alcance, "SEGURIDAD")
    /\ revocadas' = revocadas \cup peticion[q].alcance
    /\ Pasa(q, "negada")
    /\ UNCHANGED <<enlace, claves, navegador, alarma, solo, eventos>>

\* logout: its own row, if it is still alive.  switchTenant goes on and issues.
Cerrar(q) ==
    LET t == peticion[q].t
    IN /\ peticion[q].paso = "cerrar"
       /\ t # Nada => ~Bloqueada(t)
       /\ IF peticion[q].op = "salir"
          THEN token' = Revoca({t}, "LOGOUT") /\ Pasa(q, "ok")
          ELSE token' = token /\ Pasa(q, "emitir")
       /\ UNCHANGED <<enlace, claves, navegador, historia, eventos>>

EmitirCambio(q) ==
    /\ peticion[q].op = "cambiar" /\ peticion[q].paso = "emitir"
    /\ Sobrantes # {}
    /\ token' = Emitida(Revoca({peticion[q].t}, "LOGOUT"), Nada)
    /\ Responde(q)
    /\ UNCHANGED <<enlace, claves, navegador, historia, eventos>>

\* aplicarResetPassword with the link in hand: consumir waits for the other form, and the
\* password is set only by the one that marks the link.
EnlaceTomado == \E q \in Peticiones : peticion[q].op = "restablecer" /\ peticion[q].paso = "revocar"

Consumir(q) ==
    /\ peticion[q].paso = "consumir"
    /\ ~EnlaceTomado
    /\ IF enlace = "vivo" THEN Alcanza(q, "revocar") ELSE Pasa(q, "negada")
    /\ UNCHANGED <<bd, navegador, historia, eventos>>

Restablecer(q) ==
    /\ peticion[q].op = "restablecer" /\ peticion[q].paso = "revocar"
    /\ \A t \in peticion[q].alcance : ~Bloqueada(t)
    /\ token' = Revoca(peticion[q].alcance, "SEGURIDAD")
    /\ enlace' = "usado" /\ claves' = claves + 1
    /\ revocadas' = revocadas \cup peticion[q].alcance
    /\ peticion' = [peticion EXCEPT ![q] = Libre]
    /\ UNCHANGED <<navegador, alarma, solo, eventos>>

---------------------------------------------------------------------------
(* The answers                                                             *)

Acaba(q) == peticion' = [peticion EXCEPT ![q] = Libre]

\* A new pair: the browser keeps the cookie and the tab the access token.  A logout that
\* waited for the refresh is sent now; that of the answer to a logout clears the cookie.
Recibir(q) ==
    LET p == peticion[q].p
    IN /\ peticion[q].paso = "ok"
       /\ IF peticion[q].op = "salir"
          THEN galleta' = [galleta EXCEPT ![p[1]] = Nada] /\ UNCHANGED acceso /\ Acaba(q)
          ELSE /\ galleta' = [galleta EXCEPT ![p[1]] = peticion[q].t]
               /\ acceso' = [acceso EXCEPT ![p] = "vigente"]
               /\ IF peticion[q].salir
                  THEN peticion' = [peticion EXCEPT ![q] =
                           Pedido("salir", p, peticion[q].t, "cerrar", FALSE)]
                  ELSE Acaba(q)
       /\ UNCHANGED <<bd, historia, eventos>>

\* A 401 clears the tab, and leaves the cookie as it is.
RecibirNegada(q) ==
    /\ peticion[q].paso = "negada"
    /\ acceso' = IF peticion[q].p = Nada THEN acceso
                 ELSE [acceso EXCEPT ![peticion[q].p] = "no"]
    /\ Acaba(q)
    /\ UNCHANGED <<bd, galleta, historia, eventos>>

\* The answer does not arrive: apiFetch takes it for an expired session when it refreshed,
\* and nobody else changes anything.
Perder(q) ==
    /\ peticion[q].paso \in {"ok", "negada"} /\ peticion[q].p # Nada
    /\ Anota
    /\ acceso' = IF peticion[q].op = "refrescar" THEN [acceso EXCEPT ![peticion[q].p] = "no"]
                 ELSE acceso
    /\ solo' = FALSE
    /\ Acaba(q)
    /\ UNCHANGED <<bd, galleta, revocadas, alarma>>

---------------------------------------------------------------------------
Pedir == \E q \in Peticiones, p \in Pestanas :
             Entrar(q, p) \/ Refrescar(q, p) \/ Salir(q, p) \/ CambiarLiga(q, p)

Servir == \E q \in Peticiones :
              \/ EmitirEntrada(q) \/ Buscar(q) \/ Rotar(q) \/ EmitirPar(q) \/ Delatar(q)
              \/ Cerrar(q) \/ EmitirCambio(q) \/ Consumir(q) \/ Restablecer(q)

Contestar == \E q \in Peticiones : Recibir(q) \/ RecibirNegada(q) \/ Perder(q)

Next ==
    \/ Pedir \/ Servir \/ Contestar
    \/ \E p \in Pestanas : AccesoVence(p)
    \/ PedirEnlace
    \/ \E q \in Peticiones : AbrirEnlace(q)

Spec == Init /\ [][Next]_vars

---------------------------------------------------------------------------
(* Properties                                                              *)

\* A refresh token is exchanged at most once, however many requests carry it at the same
\* time: no two sessions descend from one (auth.service.ts, the atomic rotation).
UnDescendiente ==
    \A t, u \in Tokens : token[t].padre # Nada /\ token[t].padre = token[u].padre => t = u

\* A session that was there when a reuse was found out, or when a new password was being
\* set, is not alive once that request has ended, although the first one is refused.
RevocadasMuertas == revocadas \cap Vivos = {}

\* A browser that does one thing at a time, and gets its answers, is not taken for a
\* thief while nobody revokes its sessions: the tabs of a user only have to take turns
\* (api.ts, refreshTokens).
SinFalsaAlarma == alarma => ~solo \/ revocadas # {}

\* The link sets a password once, however many times the form is sent.
ClaveUnaVez == claves <= 1

\* auth.service.ts says that only a rotated token that comes back is a theft, and that
\* one revoked by a logout or a reset does not escalate.
SoloElRotadoEscala ==
    [][\A q \in Peticiones :
           peticion'[q].paso = "delatar" /\ peticion[q].paso # "delatar" =>
               token[peticion[q].t].estado = "ROTADO"]_vars
=============================================================================
