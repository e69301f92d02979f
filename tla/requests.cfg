\* Two frames in one session (sessions share no row of the history), two users and
\* two tasks, which may exist before and may be another user's.  The shortest TTL
\* the assumption allows, and a clock that passes the last arrival of a frame that is
\* stamped a tick ahead and reaches the expiry of a row registered at the start.
CONSTANTS
    Scopes = {s1}
    Ids = {r1, r2}
    Users = {u1, u2}
    TaskIds = {t1, t2}
    None = None
    Tolerance = 1
    TTL = 4
    MaxStall = 1
    MaxTime = 4
    Faults = {"raise", "no_db", "rollback", "lost_ack", "crash"}
SPECIFICATION TaskSpec
SYMMETRY Symmetry
INVARIANTS Inv AtMostOnce RecordedSuccessIsReal TaskInv OneTaskPerCreate
PROPERTIES NothingComesBack OwnersOnly OneChance
