SPECIFICATION Spec
CONSTANTS
    Tokens = {1, 2, 3, 4}
    Pestanas <- MCPestanas
    Peticiones = {q1, q2}
    MaxEventos = 6
    Nada = Nada
INVARIANTS UnDescendiente RevocadasMuertas SinFalsaAlarma
CHECK_DEADLOCK FALSE
