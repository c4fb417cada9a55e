SPECIFICATION Spec
CONSTANTS
  r1 = r1  r2 = r2  gestor = gestor  trabajador = trabajador
  Sin = Sin  Borrada = Borrada
  t1 = t1  t2 = t2
  Tareas = {t1, t2}
  Cantidades = {1}
  Peticiones = {r1, r2}
  Actores = {gestor, trabajador}
  Gestores = {gestor}
  ActorDe <- ActoresDePeticiones
  Precios = {0, 2}
  Cobros = {0, 1, 2}
SYMMETRY Simetria
INVARIANTS
  InvInductivo
PROPERTIES
  SinAccesoSoloLoAdmitido
  CicloSpec
  TareasCongeladas
