CONSTANTS
    p1 = p1  c1 = c1  s1 = s1  k1 = k1  Nada = Nada  SinReloj = SinReloj
    Partidos = {p1}
    EnJuego = {p1}
    Cronistas = {c1}
    Sockets = {s1}
    Mira <- MCMira
    Claves = {k1}
    Duracion = 1
    Agregados = {1}
    MaxHora = 2
    MaxPeriodo = 2
    MaxPedidos = 2
    MaxFallos = 1
SPECIFICATION Spec
INVARIANTS EnVivoTieneReloj
PROPERTIES VencidoSePausa PantallaAlDia
