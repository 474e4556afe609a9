SPECIFICATION Spec
CONSTANTS
    Meses = {1, 2}
    Txs = {1, 2}
    Peticiones = {1, 2}
    EstadosAMano = {"ACTIVO", "SUSPENDIDO"}
    MaxEventos = 4
    Nada = Nada
INVARIANTS AprobadaNoSeDebe
PROPERTY MorosaSeSuspende
