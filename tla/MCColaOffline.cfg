CONSTANTS
    Ops = {1, 2, 3}
    Tipo <- MCTipo
    MAX_RETRIES = 2
    Vaciados = {1, 2}
    MaxFallos = 2
    MaxOficina = 1
SPECIFICATION Spec
INVARIANTS IncidenciaUnaVez NadaSePierde
PROPERTY ColaDrena
