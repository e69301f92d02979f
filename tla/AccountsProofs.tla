--------------------------- MODULE AccountsProofs ---------------------------
(***************************************************************************)
(* The windows of the rate limiter hold for every limit and every length;  *)
(* the lockout bounds the guesses for every number of accounts, every      *)
(* limit and every length of the lock, and the rate limiter keeps its own  *)
(* promises behind the handlers.                                           *)
(*                                                                         *)
(* LimiterInv is inductive.  Two facts carry it.  A deque keeps everything *)
(* that is not yet old (Holds), so if the request that passes were one too *)
(* many of its window, the last n positions of the deque would all count   *)
(* (WindowGrows).  And a scope with all its violations is blocked until    *)
(* the last of them is older than the window (BlockedSince), which needs   *)
(* ViolationWindow <= Ban.                                                 *)
(*                                                                         *)
(* Of n guesses since the right password, the row counts the last f < the  *)
(* maximum; guess n - f locked the account, and guess n - f + 1 came when  *)
(* the lock was over (CountedSinceLock).  The guess that is MaxFailed      *)
(* before the next one is guess n - f or an earlier one, so a lock lies    *)
(* between them (GuessAllowed).                                            *)
(***************************************************************************)
EXTENDS Accounts, FiniteSetTheorems, TLAPS

-----------------------------------------------------------------------------
(* Deques. *)

LEMMA ElementsAreNat ==
    ASSUME NEW t \in Seq(Nat)
    PROVE  \A a \in 1 .. Len(t) : t[a] \in Nat
  OBVIOUS

LEMMA PoppedFacts ==
    ASSUME NEW d \in Deques, NEW t \in Int
    PROVE  /\ Popped(d, t) \in Deques
           /\ Popped(d, t).times = d.times
           /\ Popped(d, t).left = {i \in d.left : d.times[i] > t}
  BY DEF Popped, Deques

LEMMA PushedFacts ==
    ASSUME NEW d \in Deques, NEW t \in Nat
    PROVE  /\ Pushed(d, t) \in Deques
           /\ Pushed(d, t).times = Append(d.times, t)
           /\ Pushed(d, t).left = d.left \cup {Len(d.times) + 1}
  <1>1. d.times \in Seq(Nat) /\ d.left \in SUBSET (Nat \ {0})
    BY DEF Deques
  <1>2. Append(d.times, t) \in Seq(Nat) /\ Len(d.times) + 1 \in Nat \ {0}
    BY <1>1
  <1> QED BY <1>1, <1>2 DEF Pushed, Deques

LEMMA PoppedHolds ==
    ASSUME NEW d \in Deques, NEW age \in Nat, now \in Nat, Holds(d, age)
    PROVE  Holds(Popped(d, now - age), age)
  <1>1. now - age \in Int
    OBVIOUS
  <1>2. d.times \in Seq(Nat)
    BY DEF Deques
  <1>3. PICK p : p = Popped(d, now - age)
    OBVIOUS
  <1>4. p.times = d.times /\ p.left = {i \in d.left : d.times[i] > now - age}
    BY <1>1, <1>3, PoppedFacts
  <1>5. p.left \subseteq 1 .. Len(d.times)
    BY <1>4 DEF Holds
  <1>6. ASSUME NEW i \in 1 .. Len(d.times)
        PROVE  d.times[i] <= now /\ (i \notin p.left => d.times[i] <= now - age)
    <2>1. d.times[i] \in Nat
      BY <1>2
    <2>2. d.times[i] <= now /\ (i \notin d.left => d.times[i] <= now - age)
      BY DEF Holds
    <2>3. CASE i \in d.left
      BY <1>1, <1>4, <2>1, <2>2, <2>3
    <2> QED BY <1>4, <2>2, <2>3
  <1>7. InOrder(p.times)
    BY <1>4 DEF Holds
  <1>8. Holds(p, age)
    BY <1>4, <1>5, <1>6, <1>7 DEF Holds
  <1> QED BY <1>3, <1>8

LEMMA PushedHolds ==
    ASSUME NEW d \in Deques, NEW age \in Nat, now \in Nat, Holds(d, age)
    PROVE  Holds(Pushed(d, now), age)
  <1> DEFINE n == Len(d.times)
             e == Append(d.times, now)
  <1>1. d.times \in Seq(Nat) /\ n \in Nat
    BY DEF Deques
  <1>2. Len(e) = n + 1 /\ e[n + 1] = now /\ \A i \in 1 .. n : e[i] = d.times[i]
    BY <1>1
  <1>3. InOrder(e)
    BY <1>1, <1>2 DEF Holds, InOrder
  <1>4. d.left \cup {n + 1} \subseteq 1 .. Len(e)
    BY <1>1, <1>2 DEF Holds
  <1>5. \A i \in 1 .. Len(e) : /\ e[i] <= now
                               /\ i \notin d.left \cup {n + 1} => e[i] <= now - age
    BY <1>1, <1>2 DEF Holds
  <1> QED BY <1>3, <1>4, <1>5, PushedFacts DEF Holds

LEMMA FinitelyMany ==
    ASSUME NEW d \in Deques, NEW age, Holds(d, age)
    PROVE  IsFiniteSet(d.left) /\ Size(d) \in Nat
  <1>1. Len(d.times) \in Nat
    BY DEF Deques
  <1>2. IsFiniteSet(1 .. Len(d.times))
    BY <1>1, FS_Interval
  <1> QED BY <1>2, FS_Subset, FS_CardinalityType DEF Holds, Size

\* What is popped makes a deque smaller.
LEMMA PoppedSmaller ==
    ASSUME NEW d \in Deques, NEW age \in Nat, now \in Nat, Holds(d, age)
    PROVE  Size(Popped(d, now - age)) <= Size(d)
  <1>1. now - age \in Int
    OBVIOUS
  <1>2. PICK l : l = Popped(d, now - age).left
    OBVIOUS
  <1>3. l \in SUBSET d.left
    BY <1>1, <1>2, PoppedFacts
  <1>4. Cardinality(l) <= Cardinality(d.left)
    BY <1>3, FinitelyMany, FS_Subset
  <1> QED BY <1>2, <1>4 DEF Size

\* A window is respected by one more request, if fewer than n of it count.
LEMMA WindowGrows ==
    ASSUME NEW d \in Deques, NEW n \in Nat \ {0}, NEW age \in Nat, NEW span \in Nat,
           now \in Nat, span <= age, Holds(d, age), AtMost(n, d.times, span),
           Cardinality({i \in d.left : d.times[i] > now - span}) < n
    PROVE  AtMost(n, Append(d.times, now), span)
  <1> DEFINE k == Len(d.times)
             e == Append(d.times, now)
             Counted == {i \in d.left : d.times[i] > now - span}
  <1>1. d.times \in Seq(Nat) /\ k \in Nat
    BY DEF Deques
  <1>2. Len(e) = k + 1 /\ e[k + 1] = now /\ \A i \in 1 .. k : e[i] = d.times[i]
    BY <1>1
  <1> SUFFICES ASSUME NEW i \in 1 .. Len(e), i + n <= Len(e)
               PROVE  e[i + n] - e[i] >= span
    BY DEF AtMost
  <1>3. CASE i + n <= k
    BY <1>1, <1>2, <1>3 DEF AtMost
  <1>4. CASE i + n = k + 1
    <2>1. i \in 1 .. k /\ e[i + n] = now /\ e[i] = d.times[i] /\ d.times[i] \in Nat
      BY SMTT(30), <1>1, <1>2, <1>4
    <2> SUFFICES ASSUME d.times[i] > now - span  PROVE FALSE
      BY <2>1
    <2>2. \A j \in i .. k : j \in Counted
      <3> TAKE j \in i .. k
      <3>0. j \in 1 .. k /\ i <= j
        BY <1>1, <2>1
      <3>1. j \in 1 .. k /\ d.times[j] \in Nat /\ d.times[i] <= d.times[j]
        <4>1. \A a, b \in 1 .. k : a <= b => d.times[a] <= d.times[b]
          BY DEF Holds, InOrder
        <4>2. \A a \in 1 .. k : d.times[a] \in Nat
          BY <1>1, ElementsAreNat
        <4> HIDE DEF k
        <4> QED BY <2>1, <3>0, <4>1, <4>2
      <3>2. d.times[j] > now - span /\ ~(d.times[j] <= now - age)
        BY SMTT(30), <2>1, <3>1
      <3> QED BY <3>1, <3>2 DEF Holds
    <2>3. IsFiniteSet(Counted) /\ Cardinality(Counted) \in Nat
      <3>1. Counted \in SUBSET d.left
        OBVIOUS
      <3> QED BY <3>1, FinitelyMany, FS_Subset, FS_CardinalityType
    <2>4. Cardinality(i .. k) <= Cardinality(Counted)
      BY <2>2, <2>3, FS_Subset
    <2>5. Cardinality(i .. k) = k - i + 1
      <3>1. i \in Int /\ k \in Int /\ ~(i > k)
        BY <1>1, <2>1
      <3>2. \A a, b \in Int : ~(a > b) => Cardinality(a .. b) = b - a + 1
        BY FS_Interval
      <3> HIDE DEF k
      <3> QED BY <3>1, <3>2
    <2> QED BY <1>1, <1>4, <2>1, <2>3, <2>4, <2>5
  <1> QED BY SMTT(30), <1>1, <1>2, <1>3, <1>4

-----------------------------------------------------------------------------
(* The invariant. *)

\* Enough to know of the entries of the scope that a call changes.
LEMMA ScopeChanged ==
    ASSUME LimiterInv, now' = now, NEW s \in Scopes, NEW e \in Deques, NEW v \in Deques,
           NEW b \in Nat \cup {None},
           events' = [events EXCEPT ![s] = e],
           violations' = [violations EXCEPT ![s] = v],
           blocked' = [blocked EXCEPT ![s] = b],
           Holds(e, Minute), Holds(v, ViolationWindow),
           AtMost(PerSecond, e.times, Second), AtMost(PerMinute, e.times, Minute),
           Size(v) <= MaxViolations,
           Size(v) >= MaxViolations =>
               b # None /\ \A i \in v.left : v.times[i] + Ban <= b
    PROVE  LimiterInv'
  <1>1. LimiterTypeOK'
    BY DEF LimiterInv, LimiterTypeOK
  <1>2. /\ events'[s] = e /\ violations'[s] = v /\ blocked'[s] = b
        /\ \A t \in Scopes \ {s} : /\ events'[t] = events[t]
                                   /\ violations'[t] = violations[t]
                                   /\ blocked'[t] = blocked[t]
    BY DEF LimiterInv, LimiterTypeOK
  <1>3. ASSUME NEW t \in Scopes
        PROVE  /\ Holds(events[t], Minute)' /\ Holds(violations[t], ViolationWindow)'
               /\ BlockedSince(t)'
    <2>1. CASE t = s
      BY <1>2, <2>1 DEF Holds, BlockedSince
    <2>2. CASE t # s
      BY <1>2, <2>2 DEF LimiterInv, Holds, BlockedSince
    <2> QED BY <2>1, <2>2
  <1>4. WindowsHold'
    BY <1>2 DEF LimiterInv, WindowsHold
  <1>5. ViolationsBounded'
    BY <1>2 DEF LimiterInv, ViolationsBounded
  <1> QED BY <1>1, <1>3, <1>4, <1>5 DEF LimiterInv

\* The entries after _prune.
LEMMA Pruned ==
    ASSUME LimiterInv, NEW s \in Scopes
    PROVE  /\ now \in Nat /\ events[s] \in Deques /\ violations[s] \in Deques
           /\ Events(s) \in Deques /\ Violations(s) \in Deques
           /\ Blocked(s) \in Nat \cup {None}
           /\ Events(s).times = events[s].times
           /\ Holds(Events(s), Minute) /\ Holds(Violations(s), ViolationWindow)
           /\ Size(Violations(s)) <= Size(violations[s])
           /\ Size(violations[s]) \in Nat /\ Size(Violations(s)) \in Nat
           /\ Violations(s).times = violations[s].times
           /\ Violations(s).left =
                 {i \in violations[s].left : violations[s].times[i] > now - ViolationWindow}
  <1>1. /\ now \in Nat /\ events[s] \in Deques /\ violations[s] \in Deques
        /\ blocked[s] \in Nat \cup {None}
    BY DEF LimiterInv, LimiterTypeOK
  <1>2. Minute \in Nat /\ ViolationWindow \in Nat
    BY LimitsAssumption
  <1>3. now - Minute \in Int /\ now - ViolationWindow \in Int
    BY <1>1, <1>2
  <1>4. Holds(events[s], Minute) /\ Holds(violations[s], ViolationWindow)
    BY DEF LimiterInv
  <1>5. Holds(Events(s), Minute) /\ Holds(Violations(s), ViolationWindow)
    BY <1>1, <1>2, <1>4, PoppedHolds DEF Events, Violations
  <1>6. /\ Events(s) \in Deques /\ Events(s).times = events[s].times
        /\ Violations(s) \in Deques /\ Violations(s).times = violations[s].times
        /\ Violations(s).left =
                 {i \in violations[s].left : violations[s].times[i] > now - ViolationWindow}
    BY <1>1, <1>3, PoppedFacts DEF Events, Violations
  <1>7. Size(Violations(s)) <= Size(violations[s])
    BY <1>1, <1>2, <1>4, PoppedSmaller DEF Violations
  <1>8. Size(violations[s]) \in Nat /\ Size(Violations(s)) \in Nat
    BY <1>1, <1>4, <1>5, <1>6, FinitelyMany
  <1>9. Blocked(s) \in Nat \cup {None}
    BY <1>1 DEF Blocked
  <1> QED BY <1>1, <1>5, <1>6, <1>7, <1>8, <1>9

\* When a scope is not blocked, the violations that led to a ban are too old.
LEMMA RoomForViolation ==
    ASSUME LimiterInv, NEW s \in Scopes, Blocked(s) = None
    PROVE  Size(Violations(s)) < MaxViolations
  <1> USE LimitsAssumption, NoBlockAssumption
  <1>1. CASE Size(violations[s]) < MaxViolations
    BY <1>1, Pruned
  <1>2. CASE Size(violations[s]) >= MaxViolations
    <2>1. /\ blocked[s] # None /\ blocked[s] \in Nat /\ blocked[s] <= now
          /\ \A i \in violations[s].left : violations[s].times[i] + Ban <= blocked[s]
      BY <1>2 DEF LimiterInv, LimiterTypeOK, BlockedSince, Blocked
    <2>2. \A i \in violations[s].left : violations[s].times[i] \in Nat
      <3>1. violations[s] \in Deques /\ Holds(violations[s], ViolationWindow)
        BY Pruned DEF LimiterInv
      <3>2. PICK t : t = violations[s].times
        OBVIOUS
      <3>3. t \in Seq(Nat) /\ violations[s].left \subseteq 1 .. Len(t)
        BY <3>1, <3>2 DEF Deques, Holds
      <3>4. \A i \in 1 .. Len(t) : t[i] \in Nat
        BY <3>3
      <3> QED BY <3>2, <3>3, <3>4
    <2>3. Violations(s).left = {}
      <3>1. \A i \in violations[s].left : ~(violations[s].times[i] > now - ViolationWindow)
        BY <2>1, <2>2, Pruned
      <3> QED BY <3>1, Pruned
    <2> QED BY <2>3, FS_EmptySet DEF Size
  <1> QED BY <1>1, <1>2, Pruned

LEMMA StillBlockedStep ==
    ASSUME LimiterInv, NEW s \in Scopes, StillBlocked(s), now' = now
    PROVE  LimiterInv'
  <1> USE LimitsAssumption, NoBlockAssumption
  <1>1. blocked' = [blocked EXCEPT ![s] = blocked[s]] /\ blocked[s] \in Nat \cup {None}
    BY DEF StillBlocked, LimiterInv, LimiterTypeOK
  <1>2. AtMost(PerSecond, Events(s).times, Second) /\ AtMost(PerMinute, Events(s).times, Minute)
    BY Pruned DEF LimiterInv, WindowsHold
  <1>3. Size(Violations(s)) <= MaxViolations
    BY Pruned DEF LimiterInv, ViolationsBounded
  <1>4. Size(Violations(s)) >= MaxViolations =>
            blocked[s] # None /\ \A i \in Violations(s).left :
                                     Violations(s).times[i] + Ban <= blocked[s]
    BY Pruned DEF LimiterInv, BlockedSince
  <1> QED BY <1>1, <1>2, <1>3, <1>4, Pruned, ScopeChanged DEF StillBlocked

LEMMA ViolationStep ==
    ASSUME LimiterInv, NEW s \in Scopes, Violation(s), now' = now
    PROVE  LimiterInv'
  <1> USE LimitsAssumption, NoBlockAssumption
  <1> DEFINE v == Pushed(Violations(s), now)
             b == IF Size(v) >= MaxViolations THEN now + Ban ELSE None
  <1>1. Blocked(s) = None
    BY DEF Violation
  <1>2. v \in Deques /\ Holds(v, ViolationWindow)
    BY Pruned, PushedFacts, PushedHolds
  <1>3. AtMost(PerSecond, Events(s).times, Second) /\ AtMost(PerMinute, Events(s).times, Minute)
    BY Pruned DEF LimiterInv, WindowsHold
  <1>4. Size(v) <= MaxViolations
    <2>1. v.left = Violations(s).left \cup {Len(Violations(s).times) + 1}
      BY Pruned, PushedFacts
    <2>2. IsFiniteSet(Violations(s).left)
      BY Pruned, FinitelyMany
    <2>3. Size(v) <= Size(Violations(s)) + 1
      <3>1. PICK l, x : l = Violations(s).left /\ x = Len(Violations(s).times) + 1
        OBVIOUS
      <3>2. IsFiniteSet(l) /\ v.left = l \cup {x}
        BY <2>1, <2>2, <3>1
      <3>3. Cardinality(l) \in Nat
        BY <3>2, FS_CardinalityType
      <3>4. Cardinality(l \cup {x}) = Cardinality(l) \/ Cardinality(l \cup {x}) = Cardinality(l) + 1
        BY <3>2, FS_AddElement
      <3>5. Cardinality(v.left) <= Cardinality(l) + 1
        BY <3>2, <3>3, <3>4
      <3> QED BY <3>1, <3>5 DEF Size
    <2>4. Size(v) \in Nat
      BY <1>2, FinitelyMany
    <2> QED BY <1>1, <2>3, <2>4, Pruned, RoomForViolation
  <1>5. \A i \in v.left : v.times[i] + Ban <= now + Ban
    <2> TAKE i \in v.left
    <2>1. v.times \in Seq(Nat) /\ i \in 1 .. Len(v.times)
      BY <1>2 DEF Deques, Holds
    <2>2. v.times[i] \in Nat /\ v.times[i] <= now
      BY SMTT(30), <1>2, <2>1 DEF Holds
    <2> QED BY <2>2, Pruned
  <1>6. b \in Nat \cup {None}
    BY Pruned
  <1>7. /\ events' = [events EXCEPT ![s] = Events(s)]
        /\ violations' = [violations EXCEPT ![s] = v]
        /\ blocked' = [blocked EXCEPT ![s] = b]
    BY DEF Violation
  <1>8. Size(v) >= MaxViolations => b # None /\ \A i \in v.left : v.times[i] + Ban <= b
    BY <1>5, Pruned
  <1> HIDE DEF v, b
  <1> QED BY <1>2, <1>3, <1>4, <1>6, <1>7, <1>8, Pruned, ScopeChanged

LEMMA PassStep ==
    ASSUME LimiterInv, NEW s \in Scopes, Pass(s), now' = now
    PROVE  LimiterInv'
  <1> USE LimitsAssumption, NoBlockAssumption
  <1> DEFINE e == Pushed(Events(s), now)
  <1>1. Blocked(s) = None /\ ~Busy(s)
    BY DEF Pass
  <1>2. e \in Deques /\ Holds(e, Minute) /\ e.times = Append(Events(s).times, now)
    BY Pruned, PushedFacts, PushedHolds
  <1>3. AtMost(PerSecond, Events(s).times, Second) /\ AtMost(PerMinute, Events(s).times, Minute)
    BY Pruned DEF LimiterInv, WindowsHold
  <1>4. AtMost(PerSecond, e.times, Second)
    <2>1. Cardinality({i \in Events(s).left : Events(s).times[i] > now - Second}) < PerSecond
      <3>1. {i \in Events(s).left : Events(s).times[i] > now - Second} \in SUBSET Events(s).left
        OBVIOUS
      <3>2. Cardinality({i \in Events(s).left : Events(s).times[i] > now - Second}) \in Nat
        BY <3>1, Pruned, FinitelyMany, FS_Subset, FS_CardinalityType
      <3>3. ~(Cardinality({i \in Events(s).left : Events(s).times[i] > now - Second}) >= PerSecond)
        BY <1>1 DEF Busy, LastSecond
      <3> QED BY <3>2, <3>3
    <2>2. AtMost(PerSecond, Append(Events(s).times, now), Second)
      BY <1>3, <2>1, Pruned, WindowGrows
    <2> QED BY <1>2, <2>2
  <1>5. AtMost(PerMinute, e.times, Minute)
    <2>1. {i \in Events(s).left : Events(s).times[i] > now - Minute} = Events(s).left
      <3>1. events[s] \in Deques /\ now - Minute \in Int
        BY Pruned
      <3> QED BY <3>1, PoppedFacts DEF Events
    <2>2. Size(Events(s)) \in Nat
      BY Pruned, FinitelyMany
    <2>3. Cardinality({i \in Events(s).left : Events(s).times[i] > now - Minute}) < PerMinute
      <3>1. ~(Size(Events(s)) >= PerMinute)
        BY <1>1 DEF Busy
      <3>2. Size(Events(s)) < PerMinute
        BY <2>2, <3>1
      <3>3. Cardinality({i \in Events(s).left : Events(s).times[i] > now - Minute}) = Size(Events(s))
        BY <2>1 DEF Size
      <3> QED BY <3>2, <3>3
    <2>4. AtMost(PerMinute, Append(Events(s).times, now), Minute)
      BY <1>3, <2>3, Pruned, WindowGrows
    <2> QED BY <1>2, <2>4
  <1>6. Size(Violations(s)) < MaxViolations
    BY <1>1, RoomForViolation
  <1>7. /\ events' = [events EXCEPT ![s] = e]
        /\ violations' = [violations EXCEPT ![s] = Violations(s)]
        /\ blocked' = [blocked EXCEPT ![s] = None]
    BY DEF Pass
  <1>8. Size(Violations(s)) <= MaxViolations /\ ~(Size(Violations(s)) >= MaxViolations)
    BY <1>6, Pruned
  <1>9. None \in Nat \cup {None}
    OBVIOUS
  <1> HIDE DEF e
  <1> QED BY <1>2, <1>4, <1>5, <1>7, <1>8, <1>9, Pruned, ScopeChanged

LEMMA TickStep ==
    ASSUME LimiterInv, Tick
    PROVE  LimiterInv'
  <1> USE LimitsAssumption, NoBlockAssumption
  <1>1. LimiterTypeOK'
    BY DEF LimiterInv, LimiterTypeOK, Tick, limiter
  <1>2. ASSUME NEW s \in Scopes
        PROVE  /\ Holds(events[s], Minute)' /\ Holds(violations[s], ViolationWindow)'
               /\ BlockedSince(s)'
    <2>1. now \in Nat /\ now' = now + 1 /\ events' = events /\ violations' = violations
                /\ blocked' = blocked
      BY DEF LimiterInv, LimiterTypeOK, Tick, limiter
    <2>3. Holds(events[s], Minute) /\ Holds(violations[s], ViolationWindow) /\ BlockedSince(s)
      BY DEF LimiterInv
    <2>4. ASSUME NEW d \in Deques, NEW age \in Nat, Holds(d, age)
          PROVE  \A i \in 1 .. Len(d.times) :
                     d.times[i] <= now' /\ (i \notin d.left => d.times[i] <= now' - age)
      <3> TAKE i \in 1 .. Len(d.times)
      <3>1. d.times[i] \in Nat
        BY <2>4 DEF Deques
      <3>2. d.times[i] <= now /\ (i \notin d.left => d.times[i] <= now - age)
        BY <2>4 DEF Holds
      <3> QED BY SMTT(30), <2>1, <3>1, <3>2
    <2>5. events[s] \in Deques /\ violations[s] \in Deques
      BY DEF LimiterInv, LimiterTypeOK
    <2>6. Holds(events[s], Minute)'
      BY <2>1, <2>3, <2>4, <2>5 DEF Holds
    <2>7. Holds(violations[s], ViolationWindow)'
      BY <2>1, <2>3, <2>4, <2>5 DEF Holds
    <2>8. BlockedSince(s)'
      BY <2>1, <2>3 DEF BlockedSince
    <2> QED BY <2>6, <2>7, <2>8
  <1>3. WindowsHold' /\ ViolationsBounded'
    BY DEF LimiterInv, WindowsHold, ViolationsBounded, Tick, limiter
  <1> QED BY <1>1, <1>2, <1>3 DEF LimiterInv

LEMMA LimiterInitially == LimiterInit => LimiterInv
  <1> SUFFICES ASSUME LimiterInit PROVE LimiterInv
    OBVIOUS
  <1> USE LimitsAssumption, NoBlockAssumption
  <1>1. EmptyDeque \in Deques /\ EmptyDeque.times = <<>> /\ EmptyDeque.left = {}
    BY DEF EmptyDeque, Deques
  <1>2. LimiterTypeOK
    BY <1>1 DEF LimiterInit, LimiterTypeOK
  <1>3. \A s \in Scopes : events[s] = EmptyDeque /\ violations[s] = EmptyDeque
    BY DEF LimiterInit
  <1>4. Size(EmptyDeque) = 0
    BY <1>1, FS_EmptySet DEF Size
  <1>5. \A s \in Scopes : /\ Holds(events[s], Minute) /\ Holds(violations[s], ViolationWindow)
                          /\ BlockedSince(s)
    BY SMTT(30), <1>1, <1>3, <1>4 DEF Holds, InOrder, BlockedSince
  <1>6. WindowsHold /\ ViolationsBounded
    BY <1>1, <1>3, <1>4 DEF WindowsHold, ViolationsBounded, AtMost
  <1> QED BY <1>2, <1>5, <1>6 DEF LimiterInv

\* A call of check_and_record, or the clock.
LEMMA LimiterInductive == LimiterInv /\ [LimiterNext]_limiterVars => LimiterInv'
  <1> SUFFICES ASSUME LimiterInv, [LimiterNext]_limiterVars PROVE LimiterInv'
    OBVIOUS
  <1>1. ASSUME NEW s \in Scopes, Pass(s), now' = now PROVE LimiterInv'
    BY <1>1, PassStep
  <1>2. ASSUME NEW s \in Scopes, Refuse(s), now' = now PROVE LimiterInv'
    BY <1>2, StillBlockedStep, ViolationStep DEF Refuse
  <1>3. CASE Tick
    BY <1>3, TickStep
  <1>4. CASE UNCHANGED limiterVars
    BY <1>4 DEF LimiterInv, LimiterTypeOK, limiterVars, limiter, Holds, BlockedSince,
                WindowsHold, ViolationsBounded
  <1> QED BY <1>1, <1>2, <1>3, <1>4 DEF LimiterNext

THEOREM LimiterInvariance == LimiterSpec => []LimiterInv
  BY LimiterInitially, LimiterInductive, PTL DEF LimiterSpec

\* No second has more than PerSecond requests of a scope that passed, and no minute
\* more than PerMinute, for every number, scope and pattern of arrival.
THEOREM Windows == LimiterSpec => []WindowsHold
  BY LimiterInvariance, PTL DEF LimiterInv

\* The violations on record never exceed the number that leads to a ban.
THEOREM BoundedViolations == LimiterSpec => []ViolationsBounded
  BY LimiterInvariance, PTL DEF LimiterInv

-----------------------------------------------------------------------------
(* One row and its guesses. *)

LEMMA Appended ==
    ASSUME NEW g \in Seq(Nat), NEW t \in Nat
    PROVE  /\ Append(g, t) \in Seq(Nat) /\ Len(g) \in Nat
           /\ Len(Append(g, t)) = Len(g) + 1
           /\ Append(g, t)[Len(g) + 1] = t
           /\ \A i \in 1 .. Len(g) : Append(g, t)[i] = g[i] /\ g[i] \in Nat
  OBVIOUS

\* When the account is not locked, the guess that is MaxFailed back is a lock away.
LEMMA GuessAllowed ==
    ASSUME now \in Nat, NEW row \in Rows, NEW g \in Seq(Nat), Explains(row, g),
           row # None, ~(row.locked # None /\ row.locked > now)
    PROVE  AtMost(MaxFailed, Append(g, now), LockTime)
  <1> USE LockAssumption, NoBlockAssumption
  <1>1. PICK n, f, e : n = Len(g) /\ f = row.failed /\ e = Append(g, now)
    OBVIOUS
  <1>2. /\ n \in Nat /\ Len(e) = n + 1 /\ e[n + 1] = now
        /\ \A i \in 1 .. n : e[i] = g[i] /\ g[i] \in Nat
    BY <1>1, Appended
  <1>3. /\ f \in Nat /\ f < MaxFailed /\ f <= n
        /\ n > f /\ f = 0 => row.locked # None /\ row.locked = g[n] + LockTime
        /\ n > f /\ f > 0 => g[n - f + 1] - g[n - f] >= LockTime
        /\ row.locked \in Nat \cup {None}
    BY <1>1 DEF Explains, CountedSinceLock, Rows
  <1>4. /\ \A i, j \in 1 .. n : i <= j => g[i] <= g[j]
        /\ \A i \in 1 .. n : g[i] <= now
        /\ \A i \in 1 .. n : i + MaxFailed <= n => g[i + MaxFailed] - g[i] >= LockTime
    BY <1>1 DEF Explains, InOrder, AtMost
  <1> SUFFICES ASSUME NEW i \in 1 .. Len(e), i + MaxFailed <= Len(e)
               PROVE  e[i + MaxFailed] - e[i] >= LockTime
    BY <1>1 DEF AtMost
  <1>5. CASE i + MaxFailed <= n
    <2>1. i \in 1 .. n /\ i + MaxFailed \in 1 .. n
      BY <1>2, <1>5
    <2> QED BY <1>2, <1>4, <1>5, <2>1
  <1>6. CASE i + MaxFailed = n + 1
    <2>1. i \in 1 .. n /\ n - f \in 1 .. n /\ i <= n - f /\ n > f
      BY <1>2, <1>3, <1>6
    <2>2. e[i + MaxFailed] = now /\ e[i] = g[i] /\ g[i] \in Nat /\ g[n - f] \in Nat
      BY <1>2, <1>6, <2>1
    <2>3. g[i] <= g[n - f]
      BY <1>4, <2>1
    <2>4. CASE f = 0
      <3>1. n \in 1 .. n /\ g[n - f] = g[n] /\ row.locked = g[n] + LockTime
        BY <1>2, <1>3, <2>1, <2>4
      <3>2. row.locked \in Nat /\ row.locked <= now
        BY <1>3, <2>1, <2>4
      <3>3. PICK a, b, l : a = g[i] /\ b = g[n - f] /\ l = row.locked
        OBVIOUS
      <3>4. /\ a \in Nat /\ b \in Nat /\ l \in Nat
            /\ a <= b /\ l = b + LockTime /\ l <= now
        BY <2>2, <2>3, <3>1, <3>2, <3>3
      <3>5. now - a >= LockTime
        BY <3>4
      <3>6. e[i + MaxFailed] = now /\ e[i] = a
        BY <2>2, <3>3
      <3> QED BY <3>5, <3>6
    <2>5. CASE f > 0
      <3>1. n - f + 1 \in 1 .. n
        BY <1>2, <1>3, <2>5
      <3>2. PICK a, b, c : a = g[i] /\ b = g[n - f] /\ c = g[n - f + 1]
        OBVIOUS
      <3>3. c - b >= LockTime
        BY <1>3, <2>1, <2>5, <3>2
      <3>4. a \in Nat /\ b \in Nat /\ c \in Nat /\ c <= now /\ a <= b
        BY <1>2, <1>4, <2>2, <2>3, <3>1, <3>2
      <3>5. now - a >= LockTime
        BY <3>3, <3>4
      <3> QED BY <2>2, <3>2, <3>5
    <2> QED BY <1>3, <2>4, <2>5
  <1> QED BY <1>2, <1>5, <1>6

\* What a wrong password leaves.
LEMMA WrongExplains ==
    ASSUME now \in Nat, NEW row \in Rows, NEW g \in Seq(Nat), Explains(row, g),
           row # None, ~(row.locked # None /\ row.locked > now),
           NEW r \in Rows,
           r = IF row.failed + 1 >= MaxFailed
               THEN [failed |-> 0, locked |-> now + LockTime]
               ELSE [failed |-> row.failed + 1, locked |-> None]
    PROVE  Explains(r, Append(g, now))
  <1> USE LockAssumption, NoBlockAssumption, RowAssumption
  <1>1. PICK n, f, e : n = Len(g) /\ f = row.failed /\ e = Append(g, now)
    OBVIOUS
  <1>2. /\ n \in Nat /\ Len(e) = n + 1 /\ e[n + 1] = now
        /\ \A i \in 1 .. n : e[i] = g[i] /\ g[i] \in Nat
    BY <1>1, Appended
  <1>3. /\ f \in Nat /\ f < MaxFailed /\ f <= n
        /\ n > f /\ f = 0 => row.locked # None /\ row.locked = g[n] + LockTime
        /\ n > f /\ f > 0 => g[n - f + 1] - g[n - f] >= LockTime
        /\ row.locked \in Nat \cup {None}
    BY <1>1 DEF Explains, CountedSinceLock, Rows
  <1>4. /\ \A i, j \in 1 .. n : i <= j => g[i] <= g[j]
        /\ \A i \in 1 .. n : g[i] <= now
    BY <1>1 DEF Explains, InOrder
  <1>5. /\ \A i, j \in 1 .. n + 1 : i <= j => e[i] <= e[j]
        /\ \A i \in 1 .. n + 1 : e[i] <= now
    <2>1. \A i \in 1 .. n + 1 : i \in 1 .. n \/ i = n + 1
      BY <1>2
    <2>2. \A i \in 1 .. n + 1 : e[i] <= now
      BY <1>2, <1>4, <2>1
    <2>3. ASSUME NEW i \in 1 .. n + 1, NEW j \in 1 .. n + 1, i <= j
          PROVE  e[i] <= e[j]
      <3>1. CASE j = n + 1
        BY <1>2, <2>2, <3>1
      <3>2. CASE j \in 1 .. n
        <4>1. i \in 1 .. n
          BY <1>2, <2>3, <3>2
        <4> QED BY <1>2, <1>4, <2>3, <3>2, <4>1
      <3> QED BY <2>1, <3>1, <3>2
    <2> QED BY <2>2, <2>3
  <1>6. CountedSinceLock(r, e)
    <2>1. CASE f + 1 >= MaxFailed
      <3>1. r.failed = 0 /\ r.locked = now + LockTime /\ now + LockTime \in Nat
        BY <1>1, <2>1
      <3> QED BY <1>2, <3>1 DEF CountedSinceLock
    <2>2. CASE f + 1 < MaxFailed
      <3>1. r.failed = f + 1
        BY <1>1, <1>3, <2>2
      <3>2. ASSUME n > f
            PROVE  e[n - f + 1] - e[n - f] >= LockTime
        <4>1. n - f \in 1 .. n /\ e[n - f] = g[n - f] /\ g[n - f] \in Nat
          BY <1>2, <1>3, <3>2
        <4>2. CASE f = 0
          <5>1. e[n - f + 1] = now /\ row.locked = g[n - f] + LockTime
            BY <1>2, <1>3, <3>2, <4>2
          <5>2. row.locked \in Nat /\ row.locked <= now
            BY <1>3, <3>2, <4>2
          <5> QED BY <4>1, <5>1, <5>2
        <4>3. CASE f > 0
          <5>1. n - f + 1 \in 1 .. n
            BY SMTT(30), <1>2, <1>3, <4>3, <3>2
          <5>2. e[n - f + 1] = g[n - f + 1]
            BY <1>2, <5>1
          <5> QED BY <1>3, <3>2, <4>1, <4>3, <5>2
        <4> QED BY <1>3, <4>2, <4>3
      <3>3. /\ Len(e) - r.failed = n - f /\ r.failed # 0
            /\ (Len(e) > r.failed => n > f) /\ r.failed <= Len(e)
        <4>1. PICK m, q : m = Len(e) /\ q = r.failed
          OBVIOUS
        <4>2. m = n + 1 /\ q = f + 1 /\ n \in Nat /\ f \in Nat /\ f <= n
          BY <1>2, <1>3, <3>1, <4>1
        <4>3. (n + 1) - (f + 1) = n - f /\ f + 1 # 0 /\ f + 1 <= n + 1
          BY <4>2
        <4>4. n + 1 > f + 1 => n > f
          BY <4>2
        <4> QED BY <4>1, <4>2, <4>3, <4>4
      <3>4. r.failed < MaxFailed
        BY <2>2, <3>1
      <3> QED BY <3>2, <3>3, <3>4 DEF CountedSinceLock
    <2> QED BY <1>3, <2>1, <2>2
  <1>7. AtMost(MaxFailed, e, LockTime)
    BY <1>1, GuessAllowed
  <1>8. r # None
    OBVIOUS
  <1>9. Explains(r, e)
    BY <1>2, <1>5, <1>6, <1>7, <1>8 DEF Explains, InOrder
  <1> QED BY <1>1, <1>9

\* A new row, or one whose count and lock were reset, without guesses.
LEMMA NoGuesses ==
    ASSUME NEW row \in Rows \cup {None}, row # None => row.failed = 0
    PROVE  Explains(row, <<>>)
  <1> USE LockAssumption
  <1>1. Len(<<>>) = 0
    OBVIOUS
  <1> QED BY <1>1 DEF Explains, CountedSinceLock, InOrder, AtMost

-----------------------------------------------------------------------------
(* The invariant. *)

\* Enough to know of the account that a request changes.
LEMMA AccountChanged ==
    ASSUME AccountsInv, now' = now, LimiterTypeOK', NEW u \in Users,
           NEW row \in Rows \cup {None}, NEW g \in Seq(Nat), Explains(row, g),
           users' = [users EXCEPT ![u] = row], guesses' = [guesses EXCEPT ![u] = g]
    PROVE  AccountsInv'
  <1>1. TypeOK'
    BY DEF AccountsInv, TypeOK
  <1>2. ASSUME NEW v \in Users
        PROVE  Explains(users[v], guesses[v])'
    <2>1. CASE v = u
      BY <2>1 DEF AccountsInv, TypeOK, Explains
    <2>2. CASE v # u
      BY <2>2 DEF AccountsInv, TypeOK, Explains
    <2> QED BY <2>1, <2>2
  <1> QED BY <1>1, <1>2 DEF AccountsInv

LEMMA NothingChanged ==
    ASSUME AccountsInv, now' = now, LimiterTypeOK', NoAccountChanged
    PROVE  AccountsInv'
  BY DEF AccountsInv, TypeOK, NoAccountChanged, Explains

LEMMA RegisterStep ==
    ASSUME AccountsInv, now' = now, LimiterTypeOK', NEW u \in Users, Register(u)
    PROVE  AccountsInv'
  <1>1. CASE users[u] # None
    BY <1>1, NothingChanged DEF Register, NoAccountChanged
  <1>2. CASE users[u] = None
    <2>1. PICK row : row = [failed |-> 0, locked |-> None]
      OBVIOUS
    <2>2. row \in Rows /\ row.failed = 0
      BY <2>1 DEF Rows
    <2>3. guesses[u] = <<>>
      BY <1>2 DEF AccountsInv, Explains
    <2>4. <<>> \in Seq(Nat) /\ guesses' = [guesses EXCEPT ![u] = <<>>]
      BY <2>3 DEF Register, AccountsInv, TypeOK
    <2>5. users' = [users EXCEPT ![u] = row]
      BY <1>2, <2>1 DEF Register
    <2> QED BY <2>2, <2>4, <2>5, NoGuesses, AccountChanged
  <1> QED BY <1>1, <1>2

LEMMA LoginStep ==
    ASSUME AccountsInv, now' = now, LimiterTypeOK', NEW u \in Users, Login(u)
    PROVE  AccountsInv'
  <1> USE LockAssumption, NoBlockAssumption, RowAssumption
  <1>1. CASE UNCHANGED <<users, guesses>>
    BY <1>1, NothingChanged DEF NoAccountChanged
  <1>2. CASE users[u] # None /\ ~Locked(u) /\ Wrong(u)
    <2>1. PICK row, g : row = users[u] /\ g = guesses[u]
      OBVIOUS
    <2>2. row \in Rows /\ g \in Seq(Nat) /\ Explains(row, g) /\ now \in Nat
      BY <1>2, <2>1 DEF AccountsInv, TypeOK, LimiterTypeOK
    <2>3. PICK r : r = IF row.failed + 1 >= MaxFailed
                       THEN [failed |-> 0, locked |-> now + LockTime]
                       ELSE [failed |-> row.failed + 1, locked |-> None]
      OBVIOUS
    <2>4. r \in Rows
      BY <2>2, <2>3 DEF Rows
    <2>5. ~(row.locked # None /\ row.locked > now) /\ row # None
      BY <1>2, <2>1 DEF Locked
    <2>6. Explains(r, Append(g, now)) /\ Append(g, now) \in Seq(Nat)
      BY <2>2, <2>3, <2>4, <2>5, WrongExplains
    <2>7. users' = [users EXCEPT ![u] = r] /\ guesses' = [guesses EXCEPT ![u] = Append(g, now)]
      BY <1>2, <2>1, <2>3 DEF Wrong, AccountsInv, TypeOK
    <2> QED BY <2>4, <2>6, <2>7, AccountChanged
  <1>3. CASE Right(u)
    <2>1. PICK row : row = [failed |-> 0, locked |-> None]
      OBVIOUS
    <2>2. row \in Rows /\ row.failed = 0 /\ <<>> \in Seq(Nat)
      BY <2>1 DEF Rows
    <2>3. users' = [users EXCEPT ![u] = row] /\ guesses' = [guesses EXCEPT ![u] = <<>>]
      BY <1>3, <2>1 DEF Right
    <2> QED BY <2>2, <2>3, NoGuesses, AccountChanged
  <1> QED BY <1>1, <1>2, <1>3 DEF Login

LEMMA ClockStep ==
    ASSUME AccountsInv, Tick, NoAccountChanged, LimiterTypeOK'
    PROVE  AccountsInv'
  <1>1. /\ now \in Nat /\ now' = now + 1 /\ users' = users /\ guesses' = guesses
        /\ \A u \in Users : guesses[u] \in Seq(Nat)
    BY DEF AccountsInv, TypeOK, LimiterTypeOK, Tick, NoAccountChanged
  <1>2. ASSUME NEW u \in Users
        PROVE  Explains(users[u], guesses[u])'
    <2>1. PICK g : g = guesses[u] /\ g \in Seq(Nat)
      BY <1>1
    <2>2. Explains(users[u], g)
      BY <2>1 DEF AccountsInv
    <2>3. \A i \in 1 .. Len(g) : g[i] <= now + 1
      <3>1. \A i \in 1 .. Len(g) : g[i] \in Nat
        BY <2>1, ElementsAreNat
      <3> QED BY <1>1, <2>2, <3>1 DEF Explains
    <2> QED BY <1>1, <2>1, <2>2, <2>3 DEF Explains
  <1> QED BY <1>1, <1>2 DEF AccountsInv, TypeOK

-----------------------------------------------------------------------------
(* The theorems. *)

\* Whatever the handlers do, the limiter runs as it does alone.
LEMMA LimiterStep == [Next]_vars => [LimiterNext]_limiterVars
  BY DEF Next, vars, Request, LimiterNext, limiterVars

THEOREM LimiterBehindLogins == Spec => LimiterSpec
  <1>1. Init => LimiterInit
    BY DEF Init
  <1> QED BY <1>1, LimiterStep, PTL DEF Spec, LimiterSpec

LEMMA AccountsInitially == Init => AccountsInv
  <1> SUFFICES ASSUME Init PROVE AccountsInv
    OBVIOUS
  <1>1. LimiterTypeOK
    BY LimiterInitially DEF Init, LimiterInv
  <1>2. TypeOK
    BY <1>1 DEF Init, TypeOK
  <1>3. \A u \in Users : Explains(users[u], guesses[u])
    BY NoGuesses DEF Init
  <1> QED BY <1>2, <1>3 DEF AccountsInv

\* A request with what its handler does to an account, or the clock.
LEMMA AccountsInductive ==
    AccountsInv /\ LimiterTypeOK' /\ [Next]_vars => AccountsInv'
  <1> SUFFICES ASSUME AccountsInv, LimiterTypeOK', [Next]_vars PROVE AccountsInv'
    OBVIOUS
  <1>1. ASSUME NEW s \in Scopes, Request(s), now' = now PROVE AccountsInv'
    BY <1>1, NothingChanged, RegisterStep, LoginStep DEF Request
  <1>2. CASE Tick /\ NoAccountChanged
    BY <1>2, ClockStep
  <1>3. CASE UNCHANGED vars
    BY <1>3, NothingChanged DEF vars, limiterVars, NoAccountChanged
  <1> QED BY <1>1, <1>2, <1>3 DEF Next

THEOREM AccountsInvariance == Spec => []AccountsInv
  <1>1. LimiterInv => LimiterTypeOK
    BY DEF LimiterInv
  <1>2. Spec => []LimiterTypeOK
    BY <1>1, LimiterBehindLogins, LimiterInvariance, PTL
  <1> QED BY <1>2, AccountsInitially, AccountsInductive, PTL DEF Spec

\* At most MaxFailed wrong passwords are tried on an account within the time of a lock,
\* for every number of accounts and addresses.
THEOREM BoundedGuesses == Spec => []GuessesBounded
  <1>1. AccountsInv => GuessesBounded
    BY DEF AccountsInv, GuessesBounded, Explains
  <1> QED BY <1>1, AccountsInvariance, PTL
=============================================================================
