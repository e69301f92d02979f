\* Two connections, two addresses, two tokens; a window shorter than a lifetime.
CONSTANTS
    Conns = {c1, c2}
    IPs = {i1, i2}
    Tokens = {t1, t2}
    None = None
    Lifetime = 3
    ResumeWindow = 1
    MaxTime = 4
    Faults = {"raise", "no_db", "rollback", "lost_ack", "crash"}
SPECIFICATION Spec
SYMMETRY Symmetry
INVARIANTS Inv SingleHolder HeldIsBound
PROPERTIES ImplementsContract LogoutIsFinal
