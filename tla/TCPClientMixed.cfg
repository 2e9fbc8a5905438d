SPECIFICATION TSpec
CONSTANTS
    Hosts = {h1}
    Ips = {i1}
    SecurePorts = {p443}
    PlainPorts = {p80}
    NoHost = noHost
    NoIp = noIp
    NoPort = noPort
    Uses = {"switch", "peek", "certs"}
INVARIANTS
    TTypeOK
PROPERTIES
    TlsStaysTls
    WritesReachTarget
