SPECIFICATION Spec
CONSTANTS
    Hosts = {h1}
    Ips = {i1}
    SecurePorts = {p443}
    PlainPorts = {p80}
    NoHost = noHost
    NoIp = noIp
    NoPort = noPort
INVARIANTS
    TypeOK
    EngineOwned
    EngineOnItsConnection
    WriteErrorIsFinal
