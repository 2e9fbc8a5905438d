SPECIFICATION TSpec
CONSTANTS
    Hosts = {h1}
    Ips = {}
    SecurePorts = {p443}
    PlainPorts = {p80}
    NoHost = noHost
    NoIp = noIp
    NoPort = noPort
    Uses = {"idle"}
PROPERTIES
    WritesReachTarget
