------------------------- MODULE RequestGuardProofs -------------------------
(***************************************************************************)
(* A request takes effect at most once, for every number of requests and   *)
(* every tolerance, TTL and stall with TTL > 2 * Tolerance + MaxStall.     *)
(* The argument: a frame is checked within Tolerance of its timestamp, so  *)
(* the row registered for it outlives Horizon, the last instant at which   *)
(* another copy can reach register_request (Covered).  A second copy is    *)
(* either refused by the timestamp check or finds the row.                 *)
(***************************************************************************)
EXTENDS RequestGuard, TLAPS

\* What a dispatch in progress consists of.
LEMMA BusyShape ==
  ASSUME TypeOK, busy # None
  PROVE  /\ busy \in Dispatch /\ busy.req \in Requests /\ busy.req[2] \in Ids
         /\ busy.stage \in {"checked", "registered", "handled"}
         /\ busy.since \in Nat /\ busy.code \in Codes \cup {None}
  BY DEF TypeOK, Dispatch, Requests

LEMMA NoneIsNothing == None \notin Nat /\ None \notin Codes /\ None \notin HistoryRow
                       /\ None \notin Dispatch
  BY NoneAssumption

LEMMA FailureIsCode == \A r : CodeOfFailure(r) \in Codes
  BY DEF CodeOfFailure, Codes

LEMMA InitInv == Init => Inv
  BY TimesAssumption DEF Init, Inv, TypeOK, Covered, Progress, CheckedInTime, AtMostOnce,
                         RecordedSuccessIsReal, At

\* A step that ends the dispatch and touches no row, no frame and no effect.
LEMMA OverKeepsInv ==
  ASSUME Inv, Over, UNCHANGED <<now, stamp, byes, history, tried, effects>>
  PROVE  Inv'
  BY DEF Over, Inv, TypeOK, Covered, Horizon, Progress, CheckedInTime, At, AtMostOnce,
         RecordedSuccessIsReal

LEMMA MakeFrameStep ==
  ASSUME Inv, NEW i \in Ids, MakeFrame(i)
  PROVE  Inv'
  <1>1. \A j \in Ids : stamp[j] # None => stamp'[j] = stamp[j]
    BY DEF MakeFrame, Inv, TypeOK
  <1>2. /\ UNCHANGED <<now, history, busy, tried, effects>>
        /\ stamp' \in [Ids -> Nat \cup {None}]
        /\ byes \subseteq byes' /\ byes' \in SUBSET Ids
    BY TimesAssumption DEF MakeFrame, Inv, TypeOK
  <1>3. \A r \in Requests : r[2] \in Ids
    BY DEF Requests
  <1>4. TypeOK'
    BY <1>2 DEF Inv, TypeOK
  <1>5. Covered'
    BY <1>1, <1>2, <1>3, NoneIsNothing DEF Inv, TypeOK, Covered, Horizon
  <1>6. busy # None => /\ busy.req[2] \in Ids /\ stamp[busy.req[2]] # None
                       /\ stamp'[busy.req[2]] = stamp[busy.req[2]]
    BY <1>1, BusyShape DEF Inv, Progress
  <1>7. Progress'
    BY <1>1, <1>2, <1>6 DEF Inv, Progress, At, Horizon
  <1>8. CheckedInTime'
    BY <1>2, <1>6 DEF Inv, CheckedInTime, At
  <1> QED
    BY <1>2, <1>4, <1>5, <1>7, <1>8 DEF Inv, AtMostOnce, RecordedSuccessIsReal

LEMMA CheckStep ==
  ASSUME Inv, NEW r \in Requests, Check(r)
  PROVE  Inv'
  <1>1. /\ r[2] \in Ids /\ stamp[r[2]] \in Nat /\ now \in Nat
        /\ now <= stamp[r[2]] + Tolerance /\ stamp[r[2]] <= now + Tolerance
    BY TimesAssumption DEF Check, InWindow, Inv, TypeOK, Requests
  <1>2. /\ UNCHANGED <<now, stamp, byes, history, tried, effects>>
        /\ busy' = [req |-> r, stage |-> "checked", since |-> now, code |-> None]
        /\ busy' \in Dispatch
    BY <1>1 DEF Check, Dispatch
  <1>3. TypeOK' /\ Covered'
    BY <1>2 DEF Inv, TypeOK, Covered, Horizon
  <1>4. Progress'
    BY <1>1, <1>2, NoneIsNothing, TimesAssumption DEF Inv, Progress, Check, At, Horizon
  <1>5. CheckedInTime'
    BY <1>1, <1>2, TimesAssumption DEF CheckedInTime, At
  <1> QED
    BY <1>2, <1>3, <1>4, <1>5 DEF Inv, AtMostOnce, RecordedSuccessIsReal

\* The heart of the matter: a request that passes the duplicate check was never
\* registered before, and its new row outlives its horizon.
LEMMA FreshRegistration ==
  ASSUME Inv, At("checked"), NEW t \in busy.since .. now, ~Known(busy.req, t)
  PROVE  /\ busy.req \notin tried
         /\ effects[busy.req] = 0
         /\ t \in Nat
         /\ t + TTL > Horizon(busy.req)
  <1> DEFINE r == busy.req
  <1>1. /\ r \in Requests /\ r[2] \in Ids /\ busy.since \in Nat
        /\ stamp[r[2]] \in Nat /\ now \in Nat
    BY BusyShape, TimesAssumption DEF At, Inv, TypeOK, Progress
  <1>2. now <= Horizon(r)
    BY DEF At, Inv, Progress
  <1>3. t \in Nat /\ t <= now /\ t + TTL > Horizon(r)
    BY <1>1, TimesAssumption DEF Inv, CheckedInTime, Horizon
  <1>4. r \notin tried
    <2> SUFFICES ASSUME r \in tried PROVE FALSE
      OBVIOUS
    <2>1. history[r] # None /\ history[r].expires > Horizon(r)
      BY <1>1, <1>2, TimesAssumption DEF Inv, Covered, Horizon
    <2>2. history[r].expires \in Nat /\ Horizon(r) \in Nat
      BY <1>1, <2>1, TimesAssumption DEF Inv, TypeOK, HistoryRow, Horizon
    <2> QED
      BY <1>1, <1>2, <1>3, <2>1, <2>2 DEF Known
  <1>5. effects[r] = 0
    BY <1>1, <1>4 DEF Inv, TypeOK, Progress
  <1> QED
    BY <1>3, <1>4, <1>5

LEMMA RegisterStep ==
  ASSUME Inv, Register
  PROVE  Inv'
  <1>1. CASE Over /\ UNCHANGED <<history, tried>>
    BY <1>1, OverKeepsInv DEF Register
  <1>2. ASSUME NEW t \in busy.since .. now, ~Known(busy.req, t), Insert(busy.req, t),
               tried' = tried \cup {busy.req},
               busy' = [busy EXCEPT !.stage = "registered"] \/ Over
        PROVE  Inv'
    <2>1. PICK r : r = busy.req
      OBVIOUS
    <2>2. /\ r \notin tried /\ effects[r] = 0 /\ t \in Nat /\ t + TTL > Horizon(r)
          /\ r \in Requests /\ busy # None /\ busy \in Dispatch
          /\ stamp[r[2]] # None
      BY <1>2, <2>1, FreshRegistration, BusyShape
      DEF Register, At, Inv, TypeOK, Progress
    <2>3. /\ history' = [history EXCEPT ![r] = [expires |-> t + TTL, code |-> None]]
          /\ tried' = tried \cup {r} /\ UNCHANGED <<now, stamp, byes, effects>>
      BY <1>2, <2>1 DEF Register, Insert
    <2>4. /\ \A q \in Requests \ {r} : history'[q] = history[q]
          /\ history'[r] = [expires |-> t + TTL, code |-> None]
          /\ history'[r] \in HistoryRow
      BY <2>2, <2>3, TimesAssumption DEF Inv, TypeOK, HistoryRow
    <2>5. busy' = None \/ (busy' \in Dispatch /\ busy'.req = r /\ busy'.stage = "registered"
                           /\ busy'.code = busy.code)
      BY <1>2, <2>1, <2>2 DEF Over, Dispatch
    <2>6. TypeOK'
      BY <2>2, <2>3, <2>4, <2>5 DEF Inv, TypeOK
    <2>7. Covered'
      BY <2>2, <2>3, <2>4, NoneIsNothing DEF Inv, TypeOK, Covered, Horizon
    <2>8. Progress'
      BY <2>2, <2>3, <2>5 DEF Inv, Progress, At
    <2>9. CheckedInTime'
      BY <2>5 DEF CheckedInTime, At
    <2>10. RecordedSuccessIsReal'
      BY <2>2, <2>3, <2>4, NoneIsNothing DEF Inv, RecordedSuccessIsReal, Codes
    <2> QED
      BY <2>3, <2>6, <2>7, <2>8, <2>9, <2>10 DEF Inv, AtMostOnce
  <1> QED
    BY <1>1, <1>2 DEF Register

LEMMA TakeEffectStep ==
  ASSUME Inv, TakeEffect
  PROVE  Inv'
  <1>1. PICK r : r = busy.req
    OBVIOUS
  <1>2. /\ r \in Requests /\ busy # None /\ busy \in Dispatch /\ r \in tried
        /\ effects[r] = 0 /\ stamp[r[2]] # None
    BY <1>1, BusyShape DEF TakeEffect, At, Inv, Progress
  <1>3. /\ effects' = [effects EXCEPT ![r] = @ + 1]
        /\ UNCHANGED <<now, stamp, byes, history, tried>>
    BY <1>1 DEF TakeEffect
  <1>4. effects'[r] = 1 /\ \A q \in Requests \ {r} : effects'[q] = effects[q]
    BY <1>2, <1>3 DEF Inv, TypeOK
  <1>5. busy' = None \/ (busy' \in Dispatch /\ busy'.req = r /\ busy'.stage = "handled")
    BY <1>1, <1>2, FailureIsCode DEF TakeEffect, Over, Dispatch, Codes
  <1>6. TypeOK'
    <2>1. effects' \in [Requests -> Nat]
      BY <1>2, <1>3 DEF Inv, TypeOK
    <2> QED
      BY <1>3, <1>5, <2>1 DEF Inv, TypeOK
  <1>7. Covered'
    BY <1>3 DEF Inv, Covered, Horizon
  <1>8. Progress'
    BY <1>2, <1>3, <1>4, <1>5 DEF Inv, Progress, At
  <1>9. CheckedInTime'
    BY <1>5 DEF CheckedInTime, At
  <1>10. AtMostOnce' /\ RecordedSuccessIsReal'
    BY <1>3, <1>4 DEF Inv, AtMostOnce, RecordedSuccessIsReal
  <1> QED
    BY <1>6, <1>7, <1>8, <1>9, <1>10 DEF Inv

LEMMA HandleStep ==
  ASSUME Inv, HandleWithoutEffect
  PROVE  Inv'
  <1>1. CASE Over
    BY <1>1, OverKeepsInv DEF HandleWithoutEffect
  <1>2. CASE busy' = [busy EXCEPT !.stage = "handled", !.code = CodeOfFailure(busy.req)]
    <2>1. /\ busy # None /\ busy \in Dispatch /\ busy.req \in tried
          /\ stamp[busy.req[2]] # None /\ UNCHANGED <<now, stamp, byes, history, tried, effects>>
      BY BusyShape DEF HandleWithoutEffect, At, Inv, Progress
    <2>2. busy' \in Dispatch /\ busy'.req = busy.req /\ busy'.stage = "handled"
          /\ busy'.code = CodeOfFailure(busy.req)
      BY <1>2, <2>1, FailureIsCode DEF Dispatch
    <2>3. TypeOK' /\ Covered'
      BY <2>1, <2>2 DEF Inv, TypeOK, Covered, Horizon
    <2>4. busy'.code = "ok" => busy'.req[2] \in byes
      BY <2>2 DEF CodeOfFailure
    <2>5. Progress' /\ CheckedInTime'
      BY <2>1, <2>2, <2>4 DEF Inv, Progress, CheckedInTime, At
    <2> QED
      BY <2>1, <2>3, <2>5 DEF Inv, AtMostOnce, RecordedSuccessIsReal
  <1> QED
    BY <1>1, <1>2 DEF HandleWithoutEffect

LEMMA RecordStep ==
  ASSUME Inv, RecordCode
  PROVE  Inv'
  <1>1. CASE UNCHANGED history
    BY <1>1, OverKeepsInv DEF RecordCode
  <1>2. CASE history[busy.req] # None
             /\ history' = [history EXCEPT ![busy.req].code = busy.code]
    <2>1. PICK r : r = busy.req
      OBVIOUS
    <2>2. /\ r \in Requests /\ history[r] \in HistoryRow /\ busy.code \in Codes \cup {None}
          /\ busy.code = "ok" /\ r[2] \notin byes => effects[r] = 1
          /\ busy' = None /\ UNCHANGED <<now, stamp, byes, tried, effects>>
      BY <1>2, <2>1, BusyShape DEF RecordCode, Over, At, Inv, TypeOK, Progress
    <2>3. /\ \A q \in Requests \ {r} : history'[q] = history[q]
          /\ history'[r] \in HistoryRow /\ history'[r].expires = history[r].expires
          /\ history'[r].code = busy.code
      BY <1>2, <2>1, <2>2 DEF Inv, TypeOK, HistoryRow
    <2>4. TypeOK'
      <3>1. history' \in [Requests -> HistoryRow \cup {None}]
        BY <1>2, <2>1, <2>2, <2>3 DEF Inv, TypeOK
      <3> QED
        BY <2>2, <3>1 DEF Inv, TypeOK
    <2>5. Covered'
      BY <2>2, <2>3, NoneIsNothing DEF Inv, TypeOK, Covered, Horizon
    <2>6. Progress' /\ CheckedInTime'
      BY <2>2 DEF Inv, Progress, CheckedInTime, At
    <2>7. RecordedSuccessIsReal'
      BY <2>2, <2>3 DEF Inv, RecordedSuccessIsReal
    <2> QED
      BY <2>2, <2>4, <2>5, <2>6, <2>7 DEF Inv, AtMostOnce
  <1> QED
    BY <1>1, <1>2 DEF RecordCode

LEMMA CleanupStep ==
  ASSUME Inv, Cleanup
  PROVE  Inv'
  <1>1. /\ UNCHANGED <<now, stamp, byes, busy, tried, effects>> /\ now \in Nat
        /\ \A r \in Requests : history'[r] = IF history[r] # None /\ history[r].expires <= now
                                             THEN None ELSE history[r]
        /\ history' \in [Requests -> HistoryRow \cup {None}]
    BY TimesAssumption DEF Cleanup, Inv, TypeOK
  <1>2. TypeOK'
    BY <1>1 DEF Inv, TypeOK
  <1>3. Covered'
    <2> SUFFICES ASSUME NEW r \in tried, ~(now > Horizon(r))
                 PROVE  history'[r] # None /\ history'[r].expires > Horizon(r)
      BY <1>1 DEF Inv, Covered, Horizon
    <2>1. r \in Requests /\ history[r] # None /\ history[r].expires > Horizon(r)
      BY DEF Inv, TypeOK, Covered
    <2>2. history[r].expires \in Nat /\ Horizon(r) \in Nat
      BY <2>1, TimesAssumption DEF Inv, TypeOK, HistoryRow, Covered, Horizon, Requests
    <2>3. ~(history[r].expires <= now)
      BY <1>1, <2>1, <2>2
    <2> QED
      BY <1>1, <2>1, <2>3
  <1>4. Progress' /\ CheckedInTime'
    BY <1>1 DEF Inv, Progress, CheckedInTime, At, Horizon
  <1>5. RecordedSuccessIsReal'
    BY <1>1 DEF Inv, RecordedSuccessIsReal
  <1> QED
    BY <1>1, <1>2, <1>3, <1>4, <1>5 DEF Inv, AtMostOnce

LEMMA TickStep ==
  ASSUME Inv, Tick
  PROVE  Inv'
  <1>1. /\ UNCHANGED <<stamp, byes, history, busy, tried, effects>>
        /\ now \in Nat /\ now' = now + 1 /\ now < MaxTime
    BY TimesAssumption DEF Tick, Inv, TypeOK
  <1>2. TypeOK'
    BY <1>1, TimesAssumption DEF Inv, TypeOK
  <1>3. Covered'
    <2> SUFFICES ASSUME NEW r \in tried, now > Horizon(r)
                 PROVE  now' > Horizon(r)
      BY <1>1 DEF Inv, Covered, Horizon
    <2>1. Horizon(r) \in Nat
      BY TimesAssumption DEF Inv, TypeOK, Covered, Horizon, Requests
    <2> QED
      BY <1>1, <2>1
  <1>4. CASE At("checked")
    <2>1. /\ stamp[busy.req[2]] \in Nat /\ busy.since \in Nat
          /\ now - busy.since < MaxStall
      BY <1>4, BusyShape DEF Tick, At, Inv, TypeOK, Progress
    <2>2. CheckedInTime'
      BY <1>1, <1>4, <2>1, TimesAssumption DEF Inv, CheckedInTime, At
    <2>3. now' <= Horizon(busy.req)
      BY <1>1, <1>4, <2>1, TimesAssumption DEF Inv, CheckedInTime, Horizon
    <2>4. Progress'
      BY <1>1, <1>4, <2>3 DEF Inv, Progress, At, Horizon
    <2> QED
      BY <1>1, <1>2, <1>3, <2>2, <2>4 DEF Inv, AtMostOnce, RecordedSuccessIsReal
  <1>5. CASE ~At("checked")
    <2>1. CheckedInTime' /\ Progress'
      BY <1>1, <1>5 DEF Inv, CheckedInTime, Progress, At, Horizon
    <2> QED
      BY <1>1, <1>2, <1>3, <2>1 DEF Inv, AtMostOnce, RecordedSuccessIsReal
  <1> QED
    BY <1>4, <1>5

LEMMA NextInv == Inv /\ [Next]_vars => Inv'
  <1> SUFFICES ASSUME Inv, [Next]_vars PROVE Inv'
    OBVIOUS
  <1>1. CASE UNCHANGED vars
    BY <1>1 DEF vars, Inv, TypeOK, Covered, Horizon, Progress, CheckedInTime, At,
                AtMostOnce, RecordedSuccessIsReal
  <1>2. ASSUME NEW r \in Requests, Reject(r) PROVE Inv'
    BY <1>1, <1>2 DEF Reject
  <1>3. CASE Limited \/ Crash
    BY <1>3, OverKeepsInv DEF Limited, Crash
  <1> QED
    BY <1>1, <1>2, <1>3, MakeFrameStep, CheckStep, RegisterStep, TakeEffectStep, HandleStep,
       RecordStep, CleanupStep, TickStep DEF Next

\* The strengthened invariant.
THEOREM Invariance == Spec => []Inv
  BY InitInv, NextInv, PTL DEF Spec

\* A request takes effect at most once in its scope, whatever is retransmitted,
\* delayed, lost or cleaned up, for every TTL > 2 * Tolerance + MaxStall.
THEOREM TakesEffectAtMostOnce == Spec => []AtMostOnce
  <1>1. Inv => AtMostOnce
    BY DEF Inv
  <1> QED
    BY <1>1, Invariance, PTL

\* A row with the code of success belongs to a request that took effect, or to a BYE:
\* handle_bye reports success whatever logout_user returns.
THEOREM SuccessIsReal == Spec => []RecordedSuccessIsReal
  <1>1. Inv => RecordedSuccessIsReal
    BY DEF Inv
  <1> QED
    BY <1>1, Invariance, PTL

-----------------------------------------------------------------------------
(* The guard implements its contract. *)

IsOpen(r) == At("registered") /\ busy.req = r

\* A step that opens and ends no dispatch of a handler.
LEMMA QuietStep ==
  ASSUME UNCHANGED <<effects, tried>>,
         \A r \in Requests : IsOpen(r)' <=> IsOpen(r),
         Reported' \subseteq Reported
  PROVE  Contract!Next
  <1>1. \A r \in Requests : PhaseOf(r)' = PhaseOf(r)
    BY DEF PhaseOf, IsOpen
  <1>2. Contract!Forget
    BY <1>1 DEF Contract!Forget
  <1> QED BY <1>2 DEF Contract!Next

\* The phase of one request changes.
LEMMA PhaseStep ==
  ASSUME NEW r \in Requests, NEW p, PhaseOf(r)' = p,
         \A q \in Requests \ {r} : PhaseOf(q)' = PhaseOf(q),
         Reported' = Reported
  PROVE  Contract!Becomes(r, p)
  BY DEF Contract!Becomes

LEMMA SameRows == UNCHANGED <<history, byes>> => Reported' = Reported
  BY DEF Reported

LEMMA ContractInit == Init => Contract!Init
  BY DEF Init, Contract!Init, PhaseOf, Reported, At

LEMMA RegisterRefines ==
  ASSUME Inv, Register
  PROVE  Contract!Next
  <1>1. At("checked") /\ UNCHANGED <<byes, effects>>
    BY DEF Register
  <1>2. CASE Over /\ UNCHANGED <<history, tried>>
    BY <1>1, <1>2, SameRows, QuietStep DEF IsOpen, At, Over
  <1>3. ASSUME NEW t \in busy.since .. now, ~Known(busy.req, t), Insert(busy.req, t),
               tried' = tried \cup {busy.req},
               busy' = [busy EXCEPT !.stage = "registered"] \/ Over
        PROVE  Contract!Next
    <2>1. PICK r : r = busy.req
      OBVIOUS
    <2>2. /\ r \in Requests /\ r \notin tried /\ effects[r] = 0 /\ busy \in Dispatch
      BY <1>1, <1>3, <2>1, FreshRegistration, BusyShape DEF At, Inv
    <2>3. /\ \A q \in Requests \ {r} : history'[q] = history[q]
          /\ history'[r].code = None
      BY <1>3, <2>1, <2>2 DEF Insert, Inv, TypeOK
    <2>4. Reported' = Reported
      BY <1>1, <2>2, <2>3, NoneIsNothing DEF Reported, Inv, RecordedSuccessIsReal, Codes
    <2>5. PhaseOf(r) = "new" /\ \A q \in Requests : PhaseOf(q) # "open"
      BY <1>1, <2>2 DEF PhaseOf, At
    <2>6. CASE Over
      <3>1. /\ PhaseOf(r)' = "dead"
            /\ \A q \in Requests \ {r} : PhaseOf(q)' = PhaseOf(q)
        BY <1>1, <1>3, <2>1, <2>2, <2>6 DEF PhaseOf, At, Over
      <3>2. Contract!Waste(r)
        BY <2>2, <2>4, <2>5, <3>1, PhaseStep DEF Contract!Waste
      <3> QED BY <2>2, <3>2 DEF Contract!Next
    <2>7. CASE busy' = [busy EXCEPT !.stage = "registered"]
      <3>1. busy' # None /\ busy'.stage = "registered" /\ busy'.req = r
        <4>1. busy' \in Dispatch /\ busy'.stage = "registered" /\ busy'.req = r
          BY <2>1, <2>2, <2>7 DEF Dispatch
        <4> QED BY <4>1, NoneIsNothing
      <3>2. /\ PhaseOf(r)' = "open"
            /\ \A q \in Requests \ {r} : PhaseOf(q)' = PhaseOf(q)
        BY <1>1, <1>3, <2>1, <2>2, <3>1 DEF PhaseOf, At
      <3>3. Contract!Open(r)
        BY <2>2, <2>4, <2>5, <3>2, PhaseStep DEF Contract!Open
      <3> QED BY <2>2, <3>3 DEF Contract!Next
    <2> QED BY <1>3, <2>6, <2>7
  <1> QED BY <1>2, <1>3 DEF Register

\* The dispatch that has called its handler leaves it.
LEMMA LeaveHandler ==
  ASSUME Inv, At("registered"), ~At("registered")', NEW r, r = busy.req
  PROVE  /\ r \in Requests /\ r \in tried /\ effects[r] = 0
         /\ PhaseOf(r) = "open"
         /\ ~IsOpen(r)'
         /\ \A q \in Requests \ {r} : IsOpen(q)' <=> IsOpen(q)
  BY BusyShape DEF At, Inv, Progress, PhaseOf, IsOpen

\* It ends without effect.
LEMMA DeadRefines ==
  ASSUME Inv, At("registered"), ~At("registered")', UNCHANGED <<byes, history, tried, effects>>
  PROVE  Contract!Next
  <1>1. PICK r : r = busy.req
    OBVIOUS
  <1>2. /\ r \in Requests /\ r \in tried /\ effects[r] = 0 /\ PhaseOf(r) = "open"
        /\ ~IsOpen(r)' /\ \A q \in Requests \ {r} : IsOpen(q)' <=> IsOpen(q)
    BY <1>1, LeaveHandler
  <1>3. PhaseOf(r)' = "dead" /\ \A q \in Requests \ {r} : PhaseOf(q)' = PhaseOf(q)
    BY <1>2 DEF PhaseOf, IsOpen
  <1>4. Contract!Die(r)
    BY <1>2, <1>3, SameRows, PhaseStep DEF Contract!Die
  <1> QED BY <1>2, <1>4 DEF Contract!Next

LEMMA TakeEffectRefines ==
  ASSUME Inv, TakeEffect
  PROVE  Contract!Next
  <1>1. PICK r : r = busy.req
    OBVIOUS
  <1>2. /\ At("registered") /\ busy \in Dispatch /\ busy.req \in Requests
        /\ effects' = [effects EXCEPT ![r] = @ + 1] /\ UNCHANGED <<byes, history, tried>>
    BY <1>1, BusyShape DEF TakeEffect, At, Inv
  <1>3. ~At("registered")'
    BY <1>2 DEF TakeEffect, At, Over, Dispatch
  <1>4. /\ r \in Requests /\ PhaseOf(r) = "open"
        /\ ~IsOpen(r)' /\ \A q \in Requests \ {r} : IsOpen(q)' <=> IsOpen(q)
    BY <1>1, <1>2, <1>3, LeaveHandler
  <1>5. effects'[r] > 0 /\ \A q \in Requests \ {r} : effects'[q] = effects[q]
    BY <1>2, <1>4 DEF Inv, TypeOK
  <1>6. PhaseOf(r)' = "done" /\ \A q \in Requests \ {r} : PhaseOf(q)' = PhaseOf(q)
    BY <1>2, <1>4, <1>5 DEF PhaseOf, IsOpen
  <1>7. Contract!TakeEffect(r)
    BY <1>2, <1>4, <1>6, SameRows, PhaseStep DEF Contract!TakeEffect
  <1> QED BY <1>4, <1>7 DEF Contract!Next

LEMMA RecordRefines ==
  ASSUME Inv, RecordCode
  PROVE  Contract!Next
  <1>1. /\ At("handled") /\ ~At("registered") /\ ~At("registered")'
        /\ UNCHANGED <<byes, tried, effects>>
    BY DEF RecordCode, At, Over
  <1>2. \A r \in Requests : IsOpen(r)' <=> IsOpen(r)
    BY <1>1 DEF IsOpen
  <1>3. PICK r : r = busy.req
    OBVIOUS
  <1>4. r \in Requests /\ (busy.code = "ok" /\ r[2] \notin byes => effects[r] = 1)
    BY <1>1, <1>3, BusyShape DEF At, Inv, Progress
  <1>5. CASE UNCHANGED history
    BY <1>1, <1>2, <1>5, SameRows, QuietStep
  <1>6. CASE /\ history[r] # None
             /\ history' = [history EXCEPT ![r].code = busy.code]
    <2>1. /\ \A q \in Requests \ {r} : history'[q] = history[q]
          /\ history'[r] # None /\ history'[r].code = busy.code
      <3>1. history[r] \in HistoryRow /\ history' = [history EXCEPT ![r].code = busy.code]
        BY <1>4, <1>6 DEF Inv, TypeOK
      <3>2. busy.code \in Codes \cup {None}
        BY <1>1, BusyShape DEF At, Inv
      <3>3. history'[r] \in HistoryRow /\ history'[r].code = busy.code
        BY <1>4, <3>1, <3>2 DEF Inv, TypeOK, HistoryRow
      <3> QED BY <1>4, <3>1, <3>3, NoneIsNothing DEF Inv, TypeOK
    <2>2. CASE busy.code = "ok" /\ r[2] \notin byes
      <3>1. Reported' = Reported \cup {r}
        BY <1>1, <1>4, <2>1, <2>2 DEF Reported
      <3>2. \A q \in Requests : PhaseOf(q)' = PhaseOf(q)
        BY <1>1, <1>2 DEF PhaseOf, IsOpen
      <3>3. PhaseOf(r) = "done"
        BY <1>4, <2>2 DEF PhaseOf
      <3>4. Contract!Report(r)
        BY <1>4, <3>1, <3>2, <3>3 DEF Contract!Report
      <3> QED BY <1>4, <3>4 DEF Contract!Next
    <2>3. CASE ~(busy.code = "ok" /\ r[2] \notin byes)
      <3>1. Reported' \subseteq Reported
        BY <1>1, <1>4, <2>1, <2>3 DEF Reported
      <3> QED BY <1>1, <1>2, <3>1, QuietStep
    <2> QED BY <2>2, <2>3
  <1> QED BY <1>3, <1>5, <1>6 DEF RecordCode

LEMMA NextRefines ==
  ASSUME Inv, [Next]_vars
  PROVE  [Contract!Next]_(Contract!vars)
  <1>1. ASSUME UNCHANGED <<history, busy, tried, effects>>, byes \subseteq byes'
        PROVE  Contract!Next
    <2>1. Reported' \subseteq Reported
      BY <1>1 DEF Reported
    <2> QED BY <1>1, <2>1, QuietStep DEF IsOpen, At
  <1>2. ASSUME UNCHANGED <<byes, history, tried, effects>>, ~At("registered"), ~At("registered")'
        PROVE  Contract!Next
    BY <1>2, SameRows, QuietStep DEF IsOpen
  <1>3. CASE UNCHANGED vars
    BY <1>1, <1>3 DEF vars
  <1>4. CASE (\E i \in Ids : MakeFrame(i)) \/ (\E r \in Requests : Reject(r)) \/ Tick
    BY <1>1, <1>4 DEF MakeFrame, Reject, vars, Tick
  <1>5. ASSUME NEW r \in Requests, Check(r)
        PROVE  Contract!Next
    BY <1>2, <1>5 DEF Check, At
  <1>6. CASE Limited
    BY <1>2, <1>6 DEF Limited, At, Over
  <1>7. CASE HandleWithoutEffect
    <2>1. At("registered") /\ busy \in Dispatch /\ UNCHANGED <<byes, history, tried, effects>>
      BY <1>7, BusyShape DEF HandleWithoutEffect, At, Inv
    <2>2. ~At("registered")'
      BY <1>7, <2>1 DEF HandleWithoutEffect, At, Over, Dispatch
    <2> QED BY <2>1, <2>2, DeadRefines
  <1>8. CASE Crash
    <2>1. UNCHANGED <<byes, history, tried, effects>> /\ ~At("registered")'
      BY <1>8 DEF Crash, At, Over
    <2> QED BY <1>2, <2>1, DeadRefines
  <1>9. CASE Cleanup
    <2>1. /\ UNCHANGED <<byes, busy, tried, effects>>
          /\ \A r \in Requests : history'[r] \in {history[r], None}
      BY <1>9 DEF Cleanup, Inv, TypeOK
    <2>2. Reported' \subseteq Reported
      BY <2>1 DEF Reported
    <2> QED BY <2>1, <2>2, QuietStep DEF IsOpen, At
  <1> QED BY <1>3, <1>4, <1>5, <1>6, <1>7, <1>8, <1>9, RegisterRefines, TakeEffectRefines,
             RecordRefines DEF Next

\* Every request, BYE included, has one chance, for every number of requests and
\* copies, and success is reported only of what took effect, except of a BYE: the guard
\* implements its contract.
THEOREM ContractImplemented == Spec => OneChance
  BY ContractInit, NextRefines, Invariance, PTL DEF Spec, OneChance, Contract!Spec
=============================================================================
