\* One address, two connections allowed from it: the third is refused.
CONSTANTS
    Conns = {c1, c2, c3}
    IPs = {i1}
    Unknown = Unknown
    MaxConnections = 3
    MaxPerIP = 2
SPECIFICATION Spec
PROPERTY RefusedOnlyAtLimit
