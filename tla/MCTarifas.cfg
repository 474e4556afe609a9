CONSTANTS
    a = a  b = b  p1 = p1  q1 = q1  q2 = q2
    Escenarios <- MCEscenarios
    Clubes = {a, b}
    Inscripciones = {1, 2}
    Cupo = 2
    Partidos = {p1}
    Incidencias = {1, 2, 3}
    Carta <- MCCarta
    Cuotas = 1
    MaxQuincena = 3
    TiposAMano = {"MULTA_AMARILLA"}
    Peticiones = {q1, q2}
    MaxEventos = 2
    Nada = Nada
SYMMETRY Simetria
SPECIFICATION Spec
CONSTRAINT SinCruces
INVARIANTS MultasAcotadas UnaCuotaPorPeriodo
CHECK_DEADLOCK FALSE
