SPECIFICATION Spec
CONSTANTS
    a = a
    b = b
    Ids = {a, b}
    None = none
    Servers <- MCServers
    IssuerHashed = TRUE
INVARIANTS
    TypeOK
    OneMode
    OnlyAdmittedServers
