\* One call of the application and two pings, which overlap it, with the code's
\* two failures and one attempt less than the code's three: each attempt but the
\* last is alike.  The connection is re-established once.
\* The model stops when every id is used and the connection is lost for good.
CONSTANTS
    Requests = {r1}
    Pings = {p1, p2}
    MaxAttempts = 2
    MaxPingFailures = 2
    MaxReconnects = 1
SPECIFICATION FairSpec
CHECK_DEADLOCK FALSE
INVARIANTS Inv AnswersAreOwn DuplicateIsLast
PROPERTY CallsEnd
