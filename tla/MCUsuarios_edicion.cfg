SPECIFICATION Spec
CONSTANTS
  a = a  b = b  c = c  t = t  i1 = i1  i2 = i2
  Propia = Propia  Alta = Alta  Nadie = Nadie
  Usuarios = {a, b}
  Administradores = {a, b}
  ConTemporal = {}
  AdminConTemporal = {}
  Editores = {a, b}
  Intentos = {i1}
INVARIANTS
  SiempreUnAdmin
CHECK_DEADLOCK FALSE
