CONSTANTS
    t1 = t1  t2 = t2  t3 = t3
    Transacciones = {t1, t2, t3}
    Partidos = {1, 2, 3}
    Fechas = {11, 12}
    NumeroDe <- MCNumeroDe
    Escenarios <- MCEscenarios
SPECIFICATION Spec
INVARIANTS FechaCompletaSeCierra FinalizadaSinPendientes SuspendidaSinAbiertos MarcadorDelActa
PROPERTY TodasTerminan
