\* Liveness: no symmetry, so one address and two tokens, all the faults.
CONSTANTS
    Conns = {c1, c2}
    IPs = {i1}
    Tokens = {t1, t2}
    None = None
    Lifetime = 2
    ResumeWindow = 1
    MaxTime = 2
    Faults = {"raise", "no_db", "rollback", "lost_ack", "crash"}
SPECIFICATION FairSpec
PROPERTY VanishedIsClosed
