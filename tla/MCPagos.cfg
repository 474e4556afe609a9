CONSTANTS
    t1 = t1
    t2 = t2
    c1 = c1
    p1 = p1
    p2 = p2
    Nada = Nada
    Txs = {t1, t2}
    Cobros = {c1}
    Peticiones = {p1, p2}
    MaxEventos = 4
    MAX_INTENTOS = 2
    MaxFallosSii = 2
SPECIFICATION Spec
INVARIANTS PagoRespaldado AprobadaPagaSuCobro EmisionUnica
PROPERTIES EstadoFinalFirme DocumentoTermina
CHECK_DEADLOCK FALSE
