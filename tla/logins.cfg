\* One address and one account: scopes share nothing, and from where a guess comes
\* does not matter to the account.  The clock passes two bans and two locks; each
\* limit can be reached with the other one out of reach.
CONSTANTS
    Scopes = {s1}
    Users = {u1}
    None = None
    Second = 1
    Minute = 3
    PerSecond = 2
    PerMinute = 3
    MaxViolations = 2
    ViolationWindow = 2
    Ban = 2
    MaxFailed = 2
    LockTime = 2
    MaxTime = 7
SPECIFICATION Spec
CHECK_DEADLOCK FALSE
INVARIANTS LimiterInv WindowsHold ViolationsBounded AccountsInv GuessesBounded
