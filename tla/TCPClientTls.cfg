SPECIFICATION TSpec
CONSTANTS
    Hosts = {h1, h2}
    Ips = {}
    SecurePorts = {p443}
    PlainPorts = {}
    NoHost = noHost
    NoIp = noIp
    NoPort = noPort
    Uses = {"idle"}
PROPERTIES
    TlsStaysTls
    WritesReachTarget
