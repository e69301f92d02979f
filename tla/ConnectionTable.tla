--------------------------- MODULE ConnectionTable ---------------------------
(***************************************************************************)
(* Which connections the server takes: handle_client around a client loop, *)
(* with the two module-level tables of server/server.py, the set           *)
(* _active_connections and the counters _connections_per_ip.               *)
(*                                                                         *)
(* The counters are keyed by _get_client_ip(writer), which asks the        *)
(* transport again each time.  Once the event loop has called              *)
(* connection_lost the SSL transport has no peername, and the answer is    *)
(* "?" (Unknown): the key read in _unregister_connection need not be the   *)
(* key _register_connection counted under.                                 *)
(*                                                                         *)
(* Abstracted: what the loop does between the two (SessionServer).         *)
(***************************************************************************)
EXTENDS Naturals, FiniteSets

CONSTANTS
    Conns,           \* connections that may exist at the same time
    IPs,             \* addresses clients connect from
    Unknown,         \* "?", what _get_client_ip returns without a peername
    MaxConnections,  \* MAX_CONNECTIONS
    MaxPerIP         \* MAX_CONNECTIONS_PER_IP

ASSUME ConnsAssumption == IsFiniteSet(Conns)
ASSUME UnknownAssumption == Unknown \notin IPs
ASSUME LimitsAssumption == MaxConnections \in Nat \ {0} /\ MaxPerIP \in Nat \ {0}

VARIABLES
    task,       \* where handle_client is: "none", "accepted", "serving", "closing"
    addr,       \* the address the client connected from
    up,         \* connections whose transport was not reported lost
    ip,         \* handle_client: ip, read right after the registration
    active,     \* _active_connections
    perIP,      \* _connections_per_ip, 0 where there is no entry
    leaked      \* history: ends of loops that did not find their counter

vars == <<task, addr, up, ip, active, perIP, leaked>>

Keys == IPs \cup {Unknown}

TypeOK == /\ task \in [Conns -> {"none", "accepted", "serving", "closing"}]
          /\ addr \in [Conns -> Keys]
          /\ up \in SUBSET Conns
          /\ ip \in [Conns -> Keys]
          /\ active \in SUBSET Conns
          /\ perIP \in [Keys -> 0 .. MaxPerIP]
          /\ leaked \in [IPs -> Nat]

Init == /\ task = [c \in Conns |-> "none"]
        /\ addr = [c \in Conns |-> Unknown]
        /\ up = {}
        /\ ip = [c \in Conns |-> Unknown]
        /\ active = {}
        /\ perIP = [k \in Keys |-> 0]
        /\ leaked = [a \in IPs |-> 0]

-----------------------------------------------------------------------------

\* _get_client_ip
ClientIP(c) == IF c \in up THEN addr[c] ELSE Unknown

\* _register_connection; a count that is missing is read as 0.
HasRoom(k) == Cardinality(active) < MaxConnections /\ perIP[k] < MaxPerIP

Register(c, k) == /\ active' = active \cup {c}
                  /\ perIP' = [perIP EXCEPT ![k] = @ + 1]

\* _unregister_connection; a count that is missing is read as 1 and removed.
UnregisterAll(c, k) ==        \* mutant: the entry is always removed
    /\ active' = active \ {c}
    /\ perIP' = [perIP EXCEPT ![k] = 0]
Unregister(c, k) == /\ active' = active \ {c}
                    /\ perIP' = [perIP EXCEPT ![k] = IF @ <= 1 THEN 0 ELSE @ - 1]

\* The TLS handshake is done and a handle_client task is scheduled.
Connect(c) == /\ task[c] = "none"
              /\ \E a \in IPs : addr' = [addr EXCEPT ![c] = a]
              /\ task' = [task EXCEPT ![c] = "accepted"]
              /\ up' = up \cup {c}
              /\ UNCHANGED <<ip, active, perIP, leaked>>

Admit(c) == /\ task[c] = "accepted"
            /\ HasRoom(ClientIP(c))
            /\ Register(c, ClientIP(c))
            /\ ip' = [ip EXCEPT ![c] = ClientIP(c)]
            /\ task' = [task EXCEPT ![c] = "serving"]
            /\ UNCHANGED <<addr, up, leaked>>

\* A refused connection is closed without being counted or uncounted.
RefuseAndUncount(c) ==        \* mutant: the refusal runs inside the try
    /\ task[c] = "accepted"
    /\ ~HasRoom(ClientIP(c))
    /\ Unregister(c, ClientIP(c))
    /\ task' = [task EXCEPT ![c] = "closing"]
    /\ UNCHANGED <<addr, up, ip, leaked>>
Refuse(c) == /\ task[c] = "accepted"
             /\ ~HasRoom(ClientIP(c))
             /\ task' = [task EXCEPT ![c] = "closing"]
             /\ UNCHANGED <<addr, up, ip, active, perIP, leaked>>

\* connection_lost: the peer closed or reset the connection, or a write failed.
TransportLost(c) == /\ c \in up
                    /\ up' = up \ {c}
                    /\ UNCHANGED <<task, addr, ip, active, perIP, leaked>>

\* _client_loop ends, for any reason: with the transport still up after BYE, an
\* idle timeout, an incomplete frame or an exception in dispatch.
LoopEnds(c) ==
    /\ task[c] = "serving"
    /\ Unregister(c, ClientIP(c))
    /\ leaked' = IF ip[c] # ClientIP(c) THEN [leaked EXCEPT ![ip[c]] = @ + 1] ELSE leaked
    /\ task' = [task EXCEPT ![c] = "closing"]
    /\ UNCHANGED <<addr, up, ip>>

\* wait_closed returned: the writer is forgotten.
Closed(c) == /\ task[c] = "closing"
             /\ task' = [task EXCEPT ![c] = "none"]
             /\ addr' = [addr EXCEPT ![c] = Unknown]
             /\ ip' = [ip EXCEPT ![c] = Unknown]
             /\ up' = up \ {c}
             /\ UNCHANGED <<active, perIP, leaked>>

\* The process is restarted: both tables live in its memory.
Restart == /\ \E c \in Conns : task[c] # "none"
           /\ task' = [c \in Conns |-> "none"]
           /\ addr' = [c \in Conns |-> Unknown]
           /\ up' = {}
           /\ ip' = [c \in Conns |-> Unknown]
           /\ active' = {}
           /\ perIP' = [k \in Keys |-> 0]
           /\ leaked' = [a \in IPs |-> 0]

ConnStep(c) == \/ Connect(c) \/ Admit(c) \/ Refuse(c)
               \/ TransportLost(c) \/ LoopEnds(c) \/ Closed(c)

Next == (\E c \in Conns : ConnStep(c)) \/ Restart

Spec == Init /\ [][Next]_vars

-----------------------------------------------------------------------------
(* Properties. *)

\* The connections counted under address a.
Counted(a) == {c \in active : ip[c] = a}

\* The connections of address a that are served and still up.
Served(a) == {c \in up : task[c] = "serving" /\ addr[c] = a}

\* However many connections drop, and whatever key their ends find, the server
\* never serves more than its two limits allow.
WithinLimits == /\ Cardinality(active) <= MaxConnections
                /\ \A a \in IPs : Cardinality(Served(a)) <= MaxPerIP

\* The counter of an address is its registered connections plus the ends that
\* read "?" instead: nothing else makes it drift, and it is never too low.
CountsExplained == \A a \in IPs : perIP[a] = Cardinality(Counted(a)) + leaked[a]

\* What the variables of one connection say together.
TaskShape ==
    \A c \in Conns : /\ c \in active <=> task[c] = "serving"
                     /\ task[c] = "none" => c \notin up
                     /\ c \in up => addr[c] \in IPs
                     /\ task[c] = "serving" => ip[c] \in {addr[c], Unknown}
                     /\ task[c] = "serving" /\ c \in up => ip[c] = addr[c]

\* The inductive invariant.
Inv == /\ TypeOK
       /\ TaskShape
       /\ CountsExplained
       /\ Cardinality(active) <= MaxConnections

\* What the server logs, and its test expects, of a refusal by address: that
\* the address does have MAX_CONNECTIONS_PER_IP connections.
RefusedOnlyAtLimit ==
    [][\A c \in up : task[c] = "accepted" /\ task'[c] = "closing"
          => \/ Cardinality(active) >= MaxConnections
             \/ Cardinality({d \in active : addr[d] = addr[c]}) >= MaxPerIP]_vars
=============================================================================
