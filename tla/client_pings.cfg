\* One failing ping is enough; the application makes no call.
CONSTANTS
    Requests = {r1}
    Pings = {p1}
    MaxAttempts = 1
    MaxPingFailures = 1
    MaxReconnects = 0
SPECIFICATION Spec
CHECK_DEADLOCK FALSE
PROPERTY GivesUpOnSilence
