------------------------------ MODULE Dominio ------------------------------
(***************************************************************************)
(* The pure rules of packages/domain/src that every service shares: when a *)
(* match is resolved, when a matchday is complete, when a suspension is in *)
(* force, and which suspensions the cards of a match earn.                 *)
(***************************************************************************)
EXTENDS Integers, FiniteSets

\* A match that no longer waits for its acta (esPartidoResuelto).
EstadosResueltos ==
    {"FINALIZADO", "WALKOVER", "NO_JUGADO", "SUSPENDIDO_FUERZA_MAYOR", "REPROGRAMADO"}

\* A match that was really played, on the pitch or by forfeit (cuentaParaTabla).
EstadosCuentanTabla == {"FINALIZADO", "WALKOVER"}

EstadosPartido == EstadosResueltos \cup {"PROGRAMADO", "EN_CURSO"}

\* assertPartidoEstadoOperable refuses incidents, certification and the closing
\* of the acta in these states.
EstadosNoOperables ==
    {"NO_JUGADO", "SUSPENDIDO_FUERZA_MAYOR", "REPROGRAMADO", "WALKOVER"}

\* A matchday with the given set of match states is complete (never when empty).
FechaCompleta(estados) == estados # {} /\ estados \subseteq EstadosResueltos

\* Is suspension s in force on matchday number n?
SancionVigente(s, n) ==
    /\ ~s.cumplida
    /\ ~s.revocada
    /\ s.pendientes > 0
    /\ s.desde <= n

\* Yellow cards of this match that carry the total over a multiple of the threshold.
CruceUmbral(previas, actuales, umbral) ==
    (previas + actuales) \div umbral > previas \div umbral

\* calcularSancionesPostPartido: the motives a player earns in one match, from
\* the yellows in the other matches, those of this one, and this one's card types.
MotivosGanados(previas, actuales, tipos, umbral) ==
    (IF "ROJA" \in tipos THEN {"ROJA_DIRECTA"} ELSE {})
    \cup (IF "AMARILLA_ROJA" \in tipos THEN {"DOBLE_AMARILLA"} ELSE {})
    \cup (IF tipos # {} /\ CruceUmbral(previas, actuales, umbral)
          THEN {"ACUMULACION_AMARILLAS"} ELSE {})
=============================================================================
