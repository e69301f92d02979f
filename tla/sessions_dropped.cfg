\* The database and the process never fail; only a request makes dispatch raise.
CONSTANTS
    Conns = {c1, c2}
    IPs = {i1}
    Tokens = {t1, t2}
    None = None
    Lifetime = 3
    ResumeWindow = 1
    MaxTime = 3
    Faults = {"raise"}
SPECIFICATION Spec
PROPERTY DroppedIsResumable
