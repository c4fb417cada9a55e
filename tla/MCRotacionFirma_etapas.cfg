CONSTANTS
    Mandos = {m1, m2}
    Consumidores <- DosConsumidores
    Nada = Nada
    Huerfano = Huerfano
SPECIFICATION Spec
CONSTRAINT SinApilar
SYMMETRY Simetria
INVARIANTS InvInductivo FirmaValida
PROPERTIES RespuestaFirme
CHECK_DEADLOCK FALSE
