CONSTANTS
    Mandos = {m1, m2}
    Ids = {b1, b2}
    MaxVersion = 2
    MaxGen = 1
    Otro = Otro
    Huerfano = Huerfano
    Nada = Nada
SPECIFICATION Spec
SYMMETRY Simetria
INVARIANTS InvInstantes CopiaCoherente MutaConSuGeneracion
PROPERTIES InstalacionSpec
CHECK_DEADLOCK FALSE
