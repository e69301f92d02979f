CONSTANTS
 Clicks = {u1}
 Tokens = {t1, t2}
 Conns = {c1, c2}
 None = None
 MaxAttempts = 2
 MaxOpened = 2
 MaxFaults = 1
SPECIFICATION FairSpec
CHECK_DEADLOCK FALSE
INVARIANTS ClientInv ConnectedIsHeard AgreesWhenQuiet
PROPERTIES ReconnectionEnds SilentLossNoticed WipedWriterNoticed LoggedOutStaysOut
