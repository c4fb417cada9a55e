SPECIFICATION Spec
CONSTANTS
  q1 = q1  q2 = q2  s1 = s1  s2 = s2  i1 = i1  i2 = i2  p1 = p1
  f1 = f1  f2 = f2  f3 = f3  r1 = r1  r2 = r2
  Sin = Sin
  Solicitudes = {q1}
  Pedidos = {p1}
  Sesiones = {s1}
  Items = {i1}
  ArchivoIds = {f1}
  Peticiones = {r1}
  SesionDe <- UnItem
  MaxItems = 2
  Plazo = 1
  Gracia = 1
  VidaFirma = 1
  LimiteSesiones = 1
  LimiteCandidatos = 1
  MaxTiempo = 1
INVARIANTS
  ArchivosHeredados
