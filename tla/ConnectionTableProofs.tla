------------------------ MODULE ConnectionTableProofs ------------------------
(***************************************************************************)
(* The connection table keeps both limits, for any number of connections   *)
(* and addresses.  The argument: the counter of an address is the number   *)
(* of its registered connections plus the ends that were counted elsewhere *)
(* (CountsExplained), so it is never too low, and the connections that are *)
(* still up are among the registered ones.                                 *)
(***************************************************************************)
EXTENDS ConnectionTable, FiniteSetTheorems, TLAPS

\* Subsets of Conns are finite and have a natural number of elements; adding or
\* removing one connection changes that number by one.
LEMMA Counting ==
  ASSUME NEW S \in SUBSET Conns, NEW c \in Conns
  PROVE  /\ IsFiniteSet(S) /\ Cardinality(S) \in Nat
         /\ c \notin S => Cardinality(S \cup {c}) = Cardinality(S) + 1
         /\ c \in S => Cardinality(S) \in Nat \ {0} /\ Cardinality(S \ {c}) = Cardinality(S) - 1
  <1>1. IsFiniteSet(S)
    BY ConnsAssumption, FS_Subset
  <1>2. Cardinality(S) \in Nat
    BY <1>1, FS_CardinalityType
  <1>3. c \notin S => Cardinality(S \cup {c}) = Cardinality(S) + 1
    BY <1>1, FS_AddElement
  <1>4. c \in S => Cardinality(S \ {c}) = Cardinality(S) - 1
    BY <1>1, FS_RemoveElement
  <1>5. c \in S => Cardinality(S \ {c}) \in Nat
    BY <1>1, FS_Subset, FS_CardinalityType
  <1> QED
    BY <1>1, <1>2, <1>3, <1>4, <1>5

LEMMA InitInv == Init => Inv
  <1> SUFFICES ASSUME Init PROVE Inv
    OBVIOUS
  <1>1. TypeOK /\ TaskShape
    BY LimitsAssumption DEF Init, TypeOK, TaskShape, Keys
  <1>2. active = {} /\ \A a \in IPs : Counted(a) = {}
    BY DEF Init, Counted
  <1> QED
    BY <1>1, <1>2, FS_EmptySet, LimitsAssumption DEF Init, Inv, CountsExplained, Keys

\* A step that leaves both tables and the keys of the registered connections
\* alone keeps the accounting.
LEMMA SameCounts ==
  ASSUME Inv, UNCHANGED <<active, perIP, leaked>>, \A c \in active : ip'[c] = ip[c]
  PROVE  CountsExplained' /\ (Cardinality(active) <= MaxConnections)'
  <1>1. \A a \in IPs : Counted(a)' = Counted(a)
    BY DEF Counted
  <1> QED
    BY <1>1 DEF Inv, CountsExplained

LEMMA AdmitStep ==
  ASSUME Inv, NEW c \in Conns, Admit(c)
  PROVE  Inv'
  <1> DEFINE k == ClientIP(c)
  <1>1. k \in Keys /\ c \notin active /\ (k # Unknown => c \in up /\ k = addr[c])
    BY DEF Inv, TypeOK, TaskShape, Admit, ClientIP, Keys
  <1>2. /\ active' = active \cup {c} /\ perIP' = [perIP EXCEPT ![k] = @ + 1]
        /\ ip' = [ip EXCEPT ![c] = k] /\ leaked' = leaked
        /\ perIP[k] < MaxPerIP /\ Cardinality(active) < MaxConnections
    BY DEF Admit, Register, HasRoom
  <1>3. TypeOK'
    BY <1>1, <1>2, LimitsAssumption DEF Admit, Inv, TypeOK
  <1>4. TaskShape'
    BY <1>1, <1>2, UnknownAssumption DEF Admit, ClientIP, Inv, TypeOK, TaskShape, Keys
  <1>5. CountsExplained'
    <2> SUFFICES ASSUME NEW a \in IPs
                 PROVE  perIP'[a] = Cardinality(Counted(a)') + leaked'[a]
      BY DEF CountsExplained
    <2>1. /\ perIP[a] = Cardinality(Counted(a)) + leaked[a] /\ perIP[a] \in Nat
          /\ leaked[a] \in Nat /\ Counted(a) \in SUBSET Conns /\ c \notin Counted(a)
      BY <1>1 DEF Inv, TypeOK, CountsExplained, Counted, Keys
    <2>2. CASE a = k
      <3>1. Counted(a)' = Counted(a) \cup {c}
        BY <1>1, <1>2, <2>2 DEF Counted, Inv, TypeOK
      <3>2. perIP'[a] = perIP[a] + 1
        BY <1>1, <1>2, <2>2 DEF Inv, TypeOK
      <3> QED
        BY <1>2, <2>1, <3>1, <3>2, Counting
    <2>3. CASE a # k
      <3>1. Counted(a)' = Counted(a)
        BY <1>1, <1>2, <2>3 DEF Counted, Inv, TypeOK
      <3>2. perIP'[a] = perIP[a]
        BY <1>1, <1>2, <2>3 DEF Inv, TypeOK, Keys
      <3> QED
        BY <1>2, <2>1, <3>1, <3>2
    <2> QED
      BY <2>2, <2>3
  <1>6. (Cardinality(active) <= MaxConnections)'
    BY <1>1, <1>2, Counting, LimitsAssumption DEF Inv, TypeOK
  <1> QED
    BY <1>3, <1>4, <1>5, <1>6 DEF Inv

LEMMA LoopEndsStep ==
  ASSUME Inv, NEW c \in Conns, LoopEnds(c)
  PROVE  Inv'
  <1> DEFINE k == ClientIP(c)
  <1>1. /\ k \in Keys /\ ip[c] \in Keys /\ c \in active
        /\ ip[c] # k => ip[c] \in IPs /\ k = Unknown
    BY UnknownAssumption DEF Inv, TypeOK, TaskShape, LoopEnds, ClientIP, Keys
  <1>2. /\ active' = active \ {c} /\ ip' = ip
        /\ perIP' = [perIP EXCEPT ![k] = IF @ <= 1 THEN 0 ELSE @ - 1]
        /\ leaked' = IF ip[c] # k THEN [leaked EXCEPT ![ip[c]] = @ + 1] ELSE leaked
    BY DEF LoopEnds, Unregister
  <1>3. \A j \in Keys : /\ j # k => perIP'[j] = perIP[j]
                        /\ perIP'[k] = IF perIP[k] <= 1 THEN 0 ELSE perIP[k] - 1
    BY <1>1, <1>2 DEF Inv, TypeOK
  <1>4. TypeOK'
    <2>1. perIP' \in [Keys -> 0 .. MaxPerIP]
      BY <1>1, <1>2, LimitsAssumption DEF Inv, TypeOK
    <2>2. leaked' \in [IPs -> Nat]
      BY <1>1, <1>2 DEF Inv, TypeOK
    <2> QED
      BY <2>1, <2>2, <1>2 DEF LoopEnds, Inv, TypeOK
  <1>5. TaskShape'
    BY <1>1, <1>2 DEF LoopEnds, Inv, TypeOK, TaskShape
  <1>6. CountsExplained'
    <2> SUFFICES ASSUME NEW a \in IPs
                 PROVE  perIP'[a] = Cardinality(Counted(a)') + leaked'[a]
      BY DEF CountsExplained
    <2>1. /\ perIP[a] = Cardinality(Counted(a)) + leaked[a] /\ perIP[a] \in Nat
          /\ leaked[a] \in Nat /\ Counted(a) \in SUBSET Conns /\ a \in Keys
      BY DEF Inv, TypeOK, CountsExplained, Counted, Keys
    <2>2. CASE a = ip[c]
      <3>1. Counted(a)' = Counted(a) \ {c} /\ c \in Counted(a)
        BY <1>1, <1>2, <2>2 DEF Counted
      <3>2. /\ Cardinality(Counted(a)) \in Nat \ {0}
            /\ Cardinality(Counted(a)') = Cardinality(Counted(a)) - 1
        BY <2>1, <3>1, Counting
      <3>3. CASE a = k
        <4>1. perIP'[a] = IF perIP[a] <= 1 THEN 0 ELSE perIP[a] - 1
          BY <1>3, <2>1, <3>3
        <4>2. leaked'[a] = leaked[a]
          BY <1>2, <2>2, <3>3
        <4> QED
          BY <2>1, <3>2, <4>1, <4>2
      <3>4. CASE a # k
        <4>1. perIP'[a] = perIP[a]
          BY <1>3, <2>1, <3>4
        <4>2. leaked'[a] = leaked[a] + 1
          BY <1>2, <2>2, <3>4 DEF Inv, TypeOK
        <4> QED
          BY <2>1, <3>2, <4>1, <4>2
      <3> QED
        BY <3>3, <3>4
    <2>3. CASE a # ip[c]
      <3>1. Counted(a)' = Counted(a)
        BY <1>2, <2>3 DEF Counted
      <3>2. a # k
        BY <1>1, <2>3, UnknownAssumption
      <3>3. perIP'[a] = perIP[a] /\ leaked'[a] = leaked[a]
        BY <1>1, <1>2, <1>3, <2>1, <2>3, <3>2 DEF Inv, TypeOK
      <3> QED
        BY <2>1, <3>1, <3>3
    <2> QED
      BY <2>2, <2>3
  <1>7. (Cardinality(active) <= MaxConnections)'
    BY <1>1, <1>2, Counting, LimitsAssumption DEF Inv, TypeOK
  <1> QED
    BY <1>4, <1>5, <1>6, <1>7 DEF Inv

LEMMA NextInv == Inv /\ [Next]_vars => Inv'
  <1> SUFFICES ASSUME Inv, [Next]_vars PROVE Inv'
    OBVIOUS
  <1>1. ASSUME NEW c \in Conns, Connect(c) \/ Refuse(c) \/ TransportLost(c) \/ Closed(c)
        PROVE  Inv'
    <2>1. UNCHANGED <<active, perIP, leaked>>
      BY <1>1 DEF Connect, Refuse, TransportLost, Closed
    <2>2. \A d \in active : ip'[d] = ip[d]
      BY <1>1 DEF Connect, Refuse, TransportLost, Closed, Inv, TypeOK, TaskShape
    <2>3. TypeOK'
      BY <1>1 DEF Connect, Refuse, TransportLost, Closed, Inv, TypeOK, Keys
    <2>4. TaskShape'
      BY <1>1 DEF Connect, Refuse, TransportLost, Closed, Inv, TypeOK, TaskShape, Keys
    <2> QED
      BY <2>1, <2>2, <2>3, <2>4, SameCounts DEF Inv
  <1>2. CASE Restart
    <2>1. TypeOK' /\ TaskShape'
      BY <1>2, LimitsAssumption DEF Restart, TypeOK, TaskShape, Keys
    <2>2. active' = {} /\ \A a \in IPs : Counted(a)' = {}
      BY <1>2 DEF Restart, Counted
    <2> QED
      <3>1. Cardinality({}) = 0
        BY FS_EmptySet
      <3>2. \A a \in IPs : perIP'[a] = 0 /\ leaked'[a] = 0 /\ Cardinality(Counted(a)') = 0
        BY <1>2, <2>2, <3>1 DEF Restart, Keys
      <3>3. CountsExplained'
        BY <3>2 DEF CountsExplained
      <3>4. (Cardinality(active) <= MaxConnections)'
        BY <2>2, <3>1, LimitsAssumption
      <3> QED
        BY <2>1, <3>3, <3>4 DEF Inv
  <1>3. CASE UNCHANGED vars
    <2>1. TypeOK' /\ TaskShape'
      BY <1>3 DEF vars, Inv, TypeOK, TaskShape
    <2>2. CountsExplained' /\ (Cardinality(active) <= MaxConnections)'
      BY <1>3, SameCounts DEF vars
    <2> QED
      BY <2>1, <2>2 DEF Inv
  <1> QED
    BY <1>1, <1>2, <1>3, AdmitStep, LoopEndsStep DEF Next, ConnStep

\* The type invariant and the exact accounting of both tables.
THEOREM Invariance == Spec => []Inv
  BY InitInv, NextInv, PTL DEF Spec

\* Both limits hold for any number of connections and addresses.
THEOREM LimitsHold == Spec => []WithinLimits
  <1>1. Inv => WithinLimits
    <2> SUFFICES ASSUME Inv, NEW a \in IPs PROVE Cardinality(Served(a)) <= MaxPerIP
      BY DEF Inv, WithinLimits
    <2>1. Served(a) \subseteq Counted(a) /\ Counted(a) \in SUBSET Conns
      BY DEF Served, Counted, Inv, TypeOK, TaskShape
    <2>2. IsFiniteSet(Counted(a))
      BY <2>1, ConnsAssumption, FS_Subset
    <2>3. /\ Cardinality(Served(a)) <= Cardinality(Counted(a))
          /\ Cardinality(Served(a)) \in Nat /\ Cardinality(Counted(a)) \in Nat
      BY <2>1, <2>2, FS_Subset, FS_CardinalityType
    <2>4. /\ perIP[a] = Cardinality(Counted(a)) + leaked[a]
          /\ perIP[a] <= MaxPerIP /\ leaked[a] \in Nat /\ perIP[a] \in Nat
      BY LimitsAssumption DEF Inv, TypeOK, CountsExplained, Keys
    <2> QED
      BY <2>3, <2>4, LimitsAssumption
  <1> QED
    BY <1>1, Invariance, PTL
=============================================================================
