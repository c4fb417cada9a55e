SPECIFICATION Spec
CONSTANT NumServicios = 5
INVARIANTS
  InvInductivo
  RespuestaVeraz
  SiguienteAdmitida
PROPERTIES
  PunteroEsCompromiso
  ContenedorTrasCompromiso
  PublicaUnaSola
