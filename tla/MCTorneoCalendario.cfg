CONSTANTS
    p1 = p1  p2 = p2  p3 = p3  f1 = f1  f2 = f2  f3 = f3
    a = a  b = b  j1 = j1  j2 = j2  Nada = Nada 
    Partidos = {p1, p3}
    Fechas = {f1, f2, f3}
    Equipos = {a, b}
    Jugadores = {j1}
    Resoluciones = {r1}
    NumeroDe <- MCNumeroDe
    FechaDe <- MCFechaDe
    EquiposDe <- MCEquiposDe
    ClubDe <- MCClubDe
    ClubDelJugador <- MCClubDelJugador
    RutDe <- MCRutDe
    Planilla <- MCPlanilla
    Umbral = 2
    TiposTarjeta = {}
    Minutos = {1}
    Listas = {}
    Destinos = {f2}
    Cantidades = {2}
    Desdes = {}
    Estrategias = {"MANUAL", "AL_FINAL", "TRASNOCHE_DOMINO", "REUSAR_EXISTENTE"}
    Suspendibles = {}
    Vetos = {TRUE}
SPECIFICATION Spec
INVARIANTS SaldoCoherente LibroExacto
PROPERTIES SoloCumpleQuienJugo PendienteReabreLaFecha ActaCerradaNoSeToca ImplementaLibroMayor
