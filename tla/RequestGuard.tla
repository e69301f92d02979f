---------------------------- MODULE RequestGuard ----------------------------
(***************************************************************************)
(* The duplicate and replay guard of router.dispatch: the timestamp check, *)
(* the request_history table and the order of its transactions around the  *)
(* handler (request_guard_service.py).                                     *)
(*                                                                         *)
(* A frame never changes: send_frame retransmits the same bytes, with the  *)
(* same request_id and timestamp, and a copy may be delayed for any time.  *)
(* dispatch is not interrupted by other requests (one asyncio process, no  *)
(* await inside), so at most one is in progress; its transactions commit   *)
(* one by one, so the database or the process may fail between two of      *)
(* them, and the wall clock moves on while they run.  Maintenance runs in  *)
(* a process of its own.                                                   *)
(*                                                                         *)
(* Abstracted: the connections (SessionServer); what a handler does beyond *)
(* taking effect or refusing; the counters of the rate limiter, which are  *)
(* in memory and may refuse any request here; request_hash, which decides  *)
(* nothing.  PING skips the guard and has no effect in the database.  Of   *)
(* the message types only BYE is told apart: its handler never refuses.    *)
(***************************************************************************)
EXTENDS Integers

CONSTANTS
    Scopes,      \* scope keys: the hash of a session token, or an address
    Ids,         \* request_id values; a client makes each once (uuid4)
    None,        \* NULL
    Tolerance,   \* TIMESTAMP_TOLERANCE_SECONDS
    TTL,         \* REQUEST_HISTORY_TTL_SECONDS
    MaxStall,    \* what passes at most from the timestamp check to the select
                 \* in register_request's transaction: get_connection, which
                 \* may block, runs in between
    MaxTime,     \* bound: the clock stops here
    Faults       \* which failures happen, a subset of AllFaults

\* "raise":    a handler raises, or there is none for the message type;
\* "no_db":    get_connection fails: dispatch raises;
\* "rollback": a transaction is rolled back and answered 500;
\* "lost_ack": a transaction takes effect, but its commit is answered 500;
\* "crash":    the process dies and is started again.
AllFaults == {"raise", "no_db", "rollback", "lost_ack", "crash"}

Requests == Scopes \X Ids
Codes == {"ok", "error"}
HistoryRow == [expires : Nat, code : Codes \cup {None}]
Dispatch == [req : Requests, stage : {"checked", "registered", "handled"},
             since : Nat, code : Codes \cup {None}]

ASSUME TimesAssumption ==
    /\ Tolerance \in Nat /\ TTL \in Nat /\ MaxStall \in Nat /\ MaxTime \in Nat
    /\ TTL > 2 * Tolerance + MaxStall
ASSUME NoneAssumption == None \notin Nat \cup Codes \cup HistoryRow \cup Dispatch
ASSUME FaultsAssumption == Faults \subseteq AllFaults

VARIABLES
    now,       \* datetime.now(timezone.utc) of the server
    stamp,     \* the timestamp in the frame with this id, None if not yet made
    byes,      \* the frames of type BYE
    history,   \* table request_history: (scope_key, request_id) -> row or None
    busy,      \* the dispatch in progress, or None
    tried,     \* history: requests that were registered at least once
    effects    \* history: how often the handler of a request took effect

vars == <<now, stamp, byes, history, busy, tried, effects>>

TypeOK == /\ now \in 0 .. MaxTime
          /\ stamp \in [Ids -> Nat \cup {None}]
          /\ byes \in SUBSET Ids
          /\ history \in [Requests -> HistoryRow \cup {None}]
          /\ busy \in Dispatch \cup {None}
          /\ tried \in SUBSET Requests
          /\ effects \in [Requests -> Nat]

Init == /\ now = 0
        /\ stamp = [i \in Ids |-> None]
        /\ byes = {}
        /\ history = [r \in Requests |-> None]
        /\ busy = None
        /\ tried = {}
        /\ effects = [r \in Requests |-> 0]

-----------------------------------------------------------------------------

\* A client makes a frame; its clock shows anything.
MakeFrame(i) == /\ stamp[i] = None
                /\ \E ts \in 0 .. MaxTime : stamp' = [stamp EXCEPT ![i] = ts]
                /\ byes' \in {byes, byes \cup {i}}
                /\ UNCHANGED <<now, history, busy, tried, effects>>

\* validate_message_timestamp
NotTooOld(ts) == now - ts <= Tolerance      \* mutant: the skew is not absolute
InWindow(ts) == now - ts <= Tolerance /\ ts - now <= Tolerance

\* A copy is answered 100: nothing changes.
Reject(r) == /\ busy = None
             /\ stamp[r[2]] # None
             /\ ~InWindow(stamp[r[2]])
             /\ UNCHANGED vars

\* A copy arrives where its type is allowed (else it is answered 101 or 201 and
\* nothing changes either), and its timestamp is in the window.
Check(r) == /\ busy = None
            /\ stamp[r[2]] # None
            /\ InWindow(stamp[r[2]])
            /\ busy' = [req |-> r, stage |-> "checked", since |-> now, code |-> None]
            /\ UNCHANGED <<now, stamp, byes, history, tried, effects>>

At(stage) == busy # None /\ busy.stage = stage

\* dispatch is over, with or without an answer.
Over == busy' = None

\* check_rate_limit answers 400.
Limited == /\ At("checked")
           /\ Over
           /\ UNCHANGED <<now, stamp, byes, history, tried, effects>>

KnownIfAnswered(r, t) ==                    \* mutant: only answered requests count
    history[r] # None /\ history[r].expires > t /\ history[r].code # None
Known(r, t) == history[r] # None /\ history[r].expires > t

InsertAsOk(r, t) ==                         \* mutant: the code starts as success
    history' = [history EXCEPT ![r] = [expires |-> t + TTL, code |-> "ok"]]
Insert(r, t) == history' = [history EXCEPT ![r] = [expires |-> t + TTL, code |-> None]]

\* register_request reads its clock (t) before it connects to the database: 301
\* for a known request, else a new row in place of an expired one; or its
\* transaction fails, before or after it takes effect.
Register ==
    /\ At("checked")
    /\ LET r == busy.req IN
       \/ \E t \in busy.since .. now :
             \/ Known(r, t) /\ Over /\ UNCHANGED <<history, tried>>
             \/ /\ ~Known(r, t)
                /\ Insert(r, t)
                /\ tried' = tried \cup {r}
                /\ \/ busy' = [busy EXCEPT !.stage = "registered"]
                   \/ "lost_ack" \in Faults /\ Over
       \/ /\ Faults \cap {"no_db", "rollback"} # {}
          /\ Over
          /\ UNCHANGED <<history, tried>>
    /\ UNCHANGED <<now, stamp, byes, effects>>

\* The code of a handler whose transaction seems to have failed, or that refuses: an
\* error, but handle_bye ignores the result of logout_user and answers BYE.
CodeOfFailure(r) == IF r[2] \in byes THEN "ok" ELSE "error"

\* The handler takes effect; a lost acknowledgement makes it answer 500, or
\* something after the commit raises.
TakeEffect ==
    /\ At("registered")
    /\ effects' = [effects EXCEPT ![busy.req] = @ + 1]
    /\ \/ busy' = [busy EXCEPT !.stage = "handled", !.code = "ok"]
       \/ /\ "lost_ack" \in Faults
          /\ Over \/ busy' = [busy EXCEPT !.stage = "handled", !.code = CodeOfFailure(busy.req)]
    /\ UNCHANGED <<now, stamp, byes, history, tried>>

\* The handler refuses, its transaction is rolled back, or it raises.
HandleAndFreeRow ==                         \* mutant: a refused request is not remembered
    /\ At("registered")
    /\ busy' = [busy EXCEPT !.stage = "handled", !.code = CodeOfFailure(busy.req)]
    /\ history' = [history EXCEPT ![busy.req] = None]
    /\ UNCHANGED <<now, stamp, byes, tried, effects>>
HandleWithoutEffect ==
    /\ At("registered")
    /\ \/ busy' = [busy EXCEPT !.stage = "handled", !.code = CodeOfFailure(busy.req)]
       \/ Faults \cap {"raise", "no_db"} # {} /\ Over
    /\ UNCHANGED <<now, stamp, byes, history, tried, effects>>

\* set_request_response_code; dispatch ignores whether it worked.
RecordCode ==
    /\ At("handled")
    /\ Over
    /\ \/ history' = IF history[busy.req] = None THEN history
                     ELSE [history EXCEPT ![busy.req].code = busy.code]
       \/ Faults \cap {"no_db", "rollback"} # {} /\ UNCHANGED history
    /\ UNCHANGED <<now, stamp, byes, tried, effects>>

\* The process dies at any point of a dispatch.
Crash == /\ "crash" \in Faults
         /\ busy # None
         /\ Over
         /\ UNCHANGED <<now, stamp, byes, history, tried, effects>>

\* cleanup_expired_security_data, whenever an operator runs it.
Cleanup == /\ \E r \in Requests : history[r] # None /\ history[r].expires <= now
           /\ history' = [r \in Requests |->
                 IF history[r] # None /\ history[r].expires <= now THEN None
                 ELSE history[r]]
           /\ UNCHANGED <<now, stamp, byes, busy, tried, effects>>

Tick == /\ now < MaxTime
        /\ At("checked") => now - busy.since < MaxStall
        /\ now' = now + 1
        /\ UNCHANGED <<stamp, byes, history, busy, tried, effects>>

Next == \/ \E i \in Ids : MakeFrame(i)
        \/ \E r \in Requests : Reject(r) \/ Check(r)
        \/ Limited \/ Register \/ TakeEffect \/ HandleWithoutEffect \/ RecordCode
        \/ Crash \/ Cleanup \/ Tick

Spec == Init /\ [][Next]_vars

-----------------------------------------------------------------------------
(* Properties. *)

\* However many copies arrive, however late, and whatever fails or is cleaned
\* up in between, a request takes effect at most once in its scope.
AtMostOnce == \A r \in Requests : effects[r] <= 1

\* A row that records success tells the truth, although it is written by a
\* transaction of its own after the handler's; only that of a BYE may not.
RecordedSuccessIsReal ==
    \A r \in Requests :
       history[r] # None /\ history[r].code = "ok" /\ r[2] \notin byes => effects[r] = 1

\* The last instant at which register_request may still see this frame.
Horizon(r) == stamp[r[2]] + Tolerance + MaxStall

\* Why AtMostOnce holds: the row of a request that was registered outlives the
\* last instant at which a copy can get past the timestamp check.
Covered == \A r \in tried :
              /\ stamp[r[2]] # None
              /\ \/ now > Horizon(r)
                 \/ history[r] # None /\ history[r].expires > Horizon(r)

\* How far the dispatch in progress, and its request, have come.
Progress ==
    /\ busy # None => /\ stamp[busy.req[2]] # None
                      /\ At("checked") => now <= Horizon(busy.req)
                      /\ At("registered") => busy.req \in tried /\ effects[busy.req] = 0
                      /\ At("handled") => busy.req \in tried
                      /\ At("handled") /\ busy.code = "ok" /\ busy.req[2] \notin byes
                         => effects[busy.req] = 1
    /\ \A r \in Requests : effects[r] > 0 => r \in tried

CheckedInTime == At("checked") => /\ now - busy.since <= MaxStall
                                  /\ busy.since <= stamp[busy.req[2]] + Tolerance
                                  /\ busy.since + Tolerance >= stamp[busy.req[2]]
                                  /\ busy.since <= now

\* The inductive invariant.
Inv == /\ TypeOK
       /\ Covered
       /\ Progress
       /\ CheckedInTime
       /\ AtMostOnce
       /\ RecordedSuccessIsReal

-----------------------------------------------------------------------------
(* The guard against its contract. *)

PhaseOf(r) == IF effects[r] > 0 THEN "done"
              ELSE IF At("registered") /\ busy.req = r THEN "open"
              ELSE IF r \in tried THEN "dead"
              ELSE "new"
\* The row of a BYE is no report: it says "ok" whatever became of the session.
Reported == {r \in Requests : r[2] \notin byes /\ history[r] # None /\ history[r].code = "ok"}

\* The guard gives each request one chance: one that was refused, or cut off by a
\* failure or a crash, never takes effect, however late another copy of its frame
\* arrives; so a client that gave a request up may ask anew.
Contract == INSTANCE RequestContract WITH
                phase <- [r \in Requests |-> PhaseOf(r)],
                reported <- Reported
OneChance == Contract!Spec
=============================================================================
