SPECIFICATION Spec
CONSTANTS
    Partidos = {1, 2}
    Hora <- LasHoras
    Personas = {1, 2}
    Ejerce <- LoQueEjercen
    Ausente <- LasAusencias
    Roles = {"principal", "asistente"}
    Slots <- LosSlots
    Desigs = {1, 2, 3}
    Liqs = {1, 2}
    Nominas = {1}
    Peticiones = {1, 2}
    Equipos <- LosEquipos
    EstadosAMano = {"CONFIRMADA", "RECHAZADA", "ASISTIO"}
    MaxEventos = 4
    Nada = Nada
CHECK_DEADLOCK FALSE
INVARIANTS UnSoloPagoPorFila EnlaceVivo PlanSinChoques DeficitReal
