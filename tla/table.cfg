\* Four connections from two addresses: the limit per address (2) and the total
\* limit (3) are both reached, in either order, and a fourth is refused.
CONSTANTS
    Conns = {c1, c2, c3, c4}
    IPs = {i1, i2}
    Unknown = Unknown
    MaxConnections = 3
    MaxPerIP = 2
SPECIFICATION Spec
SYMMETRY Symmetry
INVARIANTS Inv WithinLimits
