SPECIFICATION Spec
CONSTANTS
  Suites = {"ecdhe_gcm", "ecdhe_cbc", "rsa_cbc"}
  Tls12Only = {"ecdhe_gcm"}
  Signed = {"ecdhe_gcm", "ecdhe_cbc"}
  ClientConfigs <- MCClients
  ServerConfigs <- MCServers
  Rooms = {0, 1, 2}
  NotFound = NotFound
  MaxConns = 3
  Damages = TRUE
INVARIANTS
  TypeOK
  Agreement
  Authenticated
  CompatibleSucceeds
PROPERTY
  HandshakeEnds
CHECK_DEADLOCK FALSE
