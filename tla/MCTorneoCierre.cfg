CONSTANTS
    p1 = p1  p2 = p2  p3 = p3  f1 = f1  f2 = f2  f3 = f3
    a = a  b = b  j1 = j1  j2 = j2  Nada = Nada 
    Partidos = {p1, p2}
    Fechas = {f1, f2}
    Equipos = {a, b}
    Jugadores = {j1}
    Resoluciones = {r1}
    NumeroDe <- MCNumeroDe
    FechaDe <- MCFechaDe
    EquiposDe <- MCEquiposDe
    ClubDe <- MCClubDe
    ClubDelJugador <- MCClubDelJugador
    RutDe <- MCRutDe
    Planilla <- MCPlanilla
    Umbral = 1
    TiposTarjeta = {"AMARILLA_ROJA"}
    Minutos = {1}
    Listas = {{}}
    Destinos = {f1}
    Cantidades = {0}
    Desdes = {}
    Estrategias = {}
    Suspendibles = {a, b}
    Vetos = {TRUE}
SPECIFICATION Spec
INVARIANTS LibroSoloDeFinalizadas TarjetasRespaldanSanciones
PROPERTIES CompletarCierra
