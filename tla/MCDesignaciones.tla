---------------------------- MODULE MCDesignaciones ----------------------------
EXTENDS Designaciones
LasHoras == 1 :> 0 @@ 2 :> 3
LoQueEjercen == 1 :> {"principal", "asistente"} @@ 2 :> {"principal", "asistente"}
                @@ 3 :> {"asistente"}
LasAusencias == 1 :> {} @@ 2 :> {} @@ 3 :> {}
LosEquipos == {<<>>,
               <<[partido |-> 1, quien |-> 1, rol |-> "principal"],
                 [partido |-> 1, quien |-> 2, rol |-> "asistente"]>>}
LosSlots == "principal" :> 1 @@ "asistente" :> 2
=============================================================================
