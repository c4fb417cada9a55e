SPECIFICATION Spec
CONSTANTS
  a = a  b = b  c = c  t = t  i1 = i1  i2 = i2
  Propia = Propia  Alta = Alta  Nadie = Nadie
  Usuarios = {a, b, t}
  Administradores = {a, b}
  ConTemporal = {t}
  AdminConTemporal = {}
  Editores = {}
  Intentos = {i1, i2}
SYMMETRY Simetria
INVARIANTS
  TemporalBloqueaSalvoCruce
  InvInductivo
PROPERTIES
  MarcaSoloPorIntento
  ReseteoSpec
CHECK_DEADLOCK FALSE
