CONSTANTS
    Peticiones = {r1, r2, r3}
    Admins = {a1, a2}
    Correos = {c1}
    Nadie = Nadie
    LimiteActor = 1
    LimiteGlobal = 2
    VentanaActor = 1
    VentanaGlobal = 2
    MaxTiempo = 2
SPECIFICATION Spec
SYMMETRY Simetria
INVARIANTS LimiteRespetado RegistroVeraz
PROPERTIES AltasSpec
CHECK_DEADLOCK FALSE
