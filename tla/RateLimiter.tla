----------------------------- MODULE RateLimiter -----------------------------
(***************************************************************************)
(* InMemoryRateLimiter (rate_limit_service.py): per scope, a sliding       *)
(* window of a second and one of a minute over the requests that passed,   *)
(* and a ban after several violations.                                     *)
(*                                                                         *)
(* check_and_record is synchronous, so each call is one step.  A deque is  *)
(* kept with everything that was ever appended to it, and the positions    *)
(* that were not popped: the clock does not run backwards, so popleft      *)
(* while the leftmost is old pops exactly what is old.                     *)
(* Abstracted: retry_after_seconds, messages; a scope is never empty.      *)
(***************************************************************************)
EXTENDS Integers, Sequences, FiniteSets

CONSTANTS
    Scopes,           \* scope keys: the hash of a session token, or an address
    None,             \* no entry in _blocked_until
    Second, Minute,   \* one second and one minute of the clock
    PerSecond,        \* RATE_LIMIT_PER_SECOND
    PerMinute,        \* RATE_LIMIT_PER_MINUTE
    MaxViolations,    \* RATE_LIMIT_MAX_VIOLATIONS
    ViolationWindow,  \* RATE_LIMIT_VIOLATION_WINDOW_SECONDS
    Ban,              \* RATE_LIMIT_BAN_SECONDS
    MaxTime           \* bound: the clock stops here

Deques == [times : Seq(Nat), left : SUBSET (Nat \ {0})]

ASSUME LimitsAssumption ==
    /\ {PerSecond, PerMinute, MaxViolations} \subseteq Nat \ {0}
    /\ {Second, Minute, ViolationWindow, Ban, MaxTime} \subseteq Nat
    /\ Second <= Minute
    /\ ViolationWindow <= Ban
ASSUME NoBlockAssumption == None \notin Nat

VARIABLES now,         \* datetime.now(timezone.utc)
          events,      \* _events
          violations,  \* _violations
          blocked      \* _blocked_until

limiter == <<events, violations, blocked>>
limiterVars == <<now, limiter>>

LimiterTypeOK == /\ now \in Nat
                 /\ events \in [Scopes -> Deques]
                 /\ violations \in [Scopes -> Deques]
                 /\ blocked \in [Scopes -> Nat \cup {None}]

EmptyDeque == [times |-> <<>>, left |-> {}]

LimiterInit == /\ now = 0
               /\ events = [s \in Scopes |-> EmptyDeque]
               /\ violations = [s \in Scopes |-> EmptyDeque]
               /\ blocked = [s \in Scopes |-> None]

-----------------------------------------------------------------------------

\* popleft while the leftmost is not later than t; append t.
Popped(d, t) == [d EXCEPT !.left = {i \in d.left : d.times[i] > t}]
Pushed(d, t) == [times |-> Append(d.times, t), left |-> d.left \cup {Len(d.times) + 1}]
Size(d) == Cardinality(d.left)

\* _prune: what is left of each entry of s.
Events(s) == Popped(events[s], now - Minute)
Violations(s) == Popped(violations[s], now - ViolationWindow)
Blocked(s) == IF blocked[s] # None /\ blocked[s] > now THEN blocked[s] ELSE None

LastSecondStrict(s) ==          \* mutant: the requests of this instant do not count
    {i \in Events(s).left : Events(s).times[i] > now - Second /\ Events(s).times[i] < now}
LastSecond(s) == {i \in Events(s).left : Events(s).times[i] > now - Second}

BusyAboveLimit(s) ==            \* mutant: one more than the limit of the minute
    \/ Cardinality(LastSecond(s)) >= PerSecond
    \/ Size(Events(s)) > PerMinute
Busy(s) == \/ Cardinality(LastSecond(s)) >= PerSecond
           \/ Size(Events(s)) >= PerMinute

\* check_and_record(s) with its three outcomes: the scope is blocked, the request
\* is over a limit, or it passes.
StillBlocked(s) == /\ Blocked(s) # None
                   /\ events' = [events EXCEPT ![s] = Events(s)]
                   /\ violations' = [violations EXCEPT ![s] = Violations(s)]
                   /\ UNCHANGED blocked

BanOnlyAboveMaximum(s) ==       \* mutant: the ban comes one violation late
    /\ Blocked(s) = None /\ Busy(s)
    /\ events' = [events EXCEPT ![s] = Events(s)]
    /\ LET v == Pushed(Violations(s), now) IN
       /\ violations' = [violations EXCEPT ![s] = v]
       /\ blocked' = [blocked EXCEPT ![s] = IF Size(v) > MaxViolations THEN now + Ban
                                            ELSE None]

Violation(s) ==
    /\ Blocked(s) = None /\ Busy(s)
    /\ events' = [events EXCEPT ![s] = Events(s)]
    /\ LET v == Pushed(Violations(s), now) IN
       /\ violations' = [violations EXCEPT ![s] = v]
       /\ blocked' = [blocked EXCEPT ![s] = IF Size(v) >= MaxViolations THEN now + Ban
                                            ELSE None]

Pass(s) == /\ Blocked(s) = None /\ ~Busy(s)
           /\ events' = [events EXCEPT ![s] = Pushed(Events(s), now)]
           /\ violations' = [violations EXCEPT ![s] = Violations(s)]
           /\ blocked' = [blocked EXCEPT ![s] = None]

Refuse(s) == StillBlocked(s) \/ Violation(s)

Tick == now < MaxTime /\ now' = now + 1 /\ UNCHANGED limiter

LimiterNext == \/ \E s \in Scopes : (Pass(s) \/ Refuse(s)) /\ UNCHANGED now
               \/ Tick

LimiterSpec == LimiterInit /\ [][LimiterNext]_limiterVars

-----------------------------------------------------------------------------
(* Properties. *)

\* At most n of these times lie within any span of the given length.
AtMost(n, times, span) ==
    \A i \in 1 .. Len(times) : i + n <= Len(times) => times[i + n] - times[i] >= span

\* Whatever is pruned when, in any second at most PerSecond requests of a scope pass,
\* and in any minute at most PerMinute: not only in those that end at a request.
WindowsHold == \A s \in Scopes : /\ AtMost(PerSecond, events[s].times, Second)
                                 /\ AtMost(PerMinute, events[s].times, Minute)

\* A scope never has more violations on record than lead to a ban: when the ban is
\* over they are all too old, so one more refusal does not ban it again.
ViolationsBounded == \A s \in Scopes : Size(violations[s]) <= MaxViolations

InOrder(times) == \A i, j \in 1 .. Len(times) : i <= j => times[i] <= times[j]

\* A deque holds a part of what was appended, in order, and what is gone is old.
Holds(d, age) ==
    /\ d.left \subseteq 1 .. Len(d.times)
    /\ InOrder(d.times)
    /\ \A i \in 1 .. Len(d.times) : /\ d.times[i] <= now
                                    /\ i \notin d.left => d.times[i] <= now - age

\* A scope with all its violations is blocked, since the last of them or later.
BlockedSince(s) ==
    Size(violations[s]) >= MaxViolations =>
        /\ blocked[s] # None
        /\ \A i \in violations[s].left : violations[s].times[i] + Ban <= blocked[s]

\* The inductive invariant.
LimiterInv == /\ LimiterTypeOK
              /\ \A s \in Scopes : /\ Holds(events[s], Minute)
                                   /\ Holds(violations[s], ViolationWindow)
                                   /\ BlockedSince(s)
              /\ WindowsHold
              /\ ViolationsBounded
=============================================================================
