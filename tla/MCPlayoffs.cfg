CONSTANTS
    Torneos <- MCTorneos
    Peticiones = {1, 2}
    MaxEventos = 2
    Nadie = Nadie
SPECIFICATION Spec
INVARIANTS TodosContraTodos SiembraJusta CadaUnoPorSuCamino SincronizarIdempotente
CHECK_DEADLOCK FALSE
