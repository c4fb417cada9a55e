SPECIFICATION Spec
CONSTANTS
  g0 = g0  g1 = g1  g2 = g2  gp = gp  p1 = p1  p2 = p2
  Gen = {g0, g1, g2, gp}
  Inicial = g0
  Paquete = gp
  Procesos = {p1, p2}
  Ordenes = {"arranque", "importar", "panel_rotar", "panel_volver", "opaca_preparar", "opaca_activar", "opaca_volver", "jwt_preparar", "jwt_cambiar", "pg_preparar"}
  Nada = Nada
SYMMETRY Simetria
INVARIANT InvInductivo
PROPERTIES
  PunteroTrasEntorno
  RegistroPublica
CHECK_DEADLOCK FALSE
