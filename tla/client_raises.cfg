\* One call, whatever the connection does; the pings play no part.
CONSTANTS
    Requests = {r1}
    Pings = {p1}
    MaxAttempts = 3
    MaxPingFailures = 2
    MaxReconnects = 0
SPECIFICATION Spec
CHECK_DEADLOCK FALSE
PROPERTY RaisesWithoutAnswer
