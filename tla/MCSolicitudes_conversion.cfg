SPECIFICATION SpecSolicitudes
CONSTANTS
    Solicitudes = {q1, q2}
    Pedidos = {p1, p2}
    Clientes = {c1, c2}
    Refs = {f1, f2}
    Transacciones = {r1, r2}
    MaxAnio = 2
    MaxNumero = 2
    MaxIntentos = 2
    Nulo = Nulo
SYMMETRY Simetria
INVARIANTS InvSolicitudes NumeracionSinHuecos ReferenciaSalvoCruce
PROPERTIES ConversionFirme VentanillaSpec
CHECK_DEADLOCK FALSE
