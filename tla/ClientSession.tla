---------------------------- MODULE ClientSession ----------------------------
(***************************************************************************)
(* One client process against the server: the session manager with its     *)
(* reconnection and idle timer (client/network/session_manager.py), the    *)
(* connect, login and disconnect of client/client.py, and the windows of   *)
(* client/interface that start them, over TCP connections that break.      *)
(*                                                                         *)
(* The client has two threads.  The window thread blocks on a call for     *)
(* some seconds, gives up on it, and may start another; the call goes on   *)
(* in the event loop.  There the coroutines interleave where they await:   *)
(* open_connection, the answer to a request, wait_closed, sleep.  They     *)
(* share the attributes of one ConnectionManager.                          *)
(*                                                                         *)
(* The server is what SessionServer implements: SessionContract says what  *)
(* becomes of a token, proto is the protocol state of a loop.              *)
(*                                                                         *)
(* Abstracted: send_frame's attempts (ClientConnection): a call has one    *)
(* copy of its frame under way, on the latest connection it was sent on,   *)
(* and may raise at any time, before or after the server served it; an     *)
(* answer is read as soon as it is made, or never; the calls for tasks,    *)
(* which change the session only where they are answered 203; a            *)
(* keep-alive task that _ping_task no longer names; addresses; durations.  *)
(***************************************************************************)
EXTENDS Naturals, Sequences

CONSTANTS
    Clicks,        \* calls of the login windows that may run at the same time
    Tokens,        \* session tokens the server may generate
    None,          \* None in Python; no call, no connection
    Conns,         \* TCP connections that may exist at the same time
    MaxAttempts,   \* STMPSessionManager.max_retry_attempts
    MaxOpened,     \* bound: connections opened after the first
    MaxFaults      \* bound: failures that nothing before them explains

VARIABLES
    \* the network and the server, per connection
    up,            \* bytes still pass
    opened, faults,  \* number of connections opened again, and of failures, so far
    line,          \* the calls whose request is under way, in order
    proto,         \* protocol state of the server's loop, "CLOSED" when none runs
    phase, holder, \* SessionContract: what the server knows of each token
    \* ConnectionManager
    writer,        \* self.writer and self.reader: a connection, or None
    connected,     \* is_connected
    hears,         \* _listen_loop of each connection: where it is
    pings,         \* the keep-alive task runs
    \* STMPSessionManager
    state,         \* self.state
    stored,        \* self.session_token
    attempt,       \* _retry_reconnect: attempt
    \* coroutines and windows
    at,            \* where each coroutine is
    sent,          \* the request whose answer it awaits, and its connection
    screen         \* "login", "dashboard", "dialog" or "left" (logged out)

net == <<up, line, opened, faults>>
server == <<proto, phase, holder>>
manager == <<writer, connected, hears, pings>>
session == <<state, stored, attempt>>
calls == <<at, sent>>
vars == <<net, server, manager, session, calls, screen>>

\* handle_connection_loss and disconnect run once at a time.
Procs == {"reconnect", "disconnect"} \cup Clicks

ASSUME BoundsAssumption == MaxAttempts \in Nat \ {0} /\ MaxOpened \in Nat /\ MaxFaults \in Nat
ASSUME NamesAssumption == /\ Clicks \cap {"reconnect", "disconnect"} = {}
                          /\ None \notin Procs \cup Tokens \cup Conns
                          /\ Conns # {}

Server == INSTANCE SessionContract

Kinds == {"HELLO", "LOGIN", "RESUME_SESSION", "BYE"}
\* seen: register_request has recorded it, so it may be answered 301 from now on.
Request == [kind : Kinds, token : Tokens \cup {None}, on : Conns, seen : BOOLEAN]
\* An answer: of the request's type, 203, the handler's ERROR, or the ERROR of
\* STATE_ALLOWED (101, 201).
Results == {"ok", "denied", "refused", "unexpected"}

TypeOK == /\ up \in [Conns -> BOOLEAN]
          /\ line \in [Conns -> Seq(Procs)]
          /\ proto \in [Conns -> {"CONNECTED", "AUTHENTICATED", "ACTIVE", "CLOSED"}]
          /\ Server!TypeOK
          /\ writer \in Conns \cup {None}
          /\ {connected, pings} \subseteq BOOLEAN
          /\ hears \in [Conns -> {"off", "reading", "failed", "closing", "closed"}]
          /\ opened \in 0 .. MaxOpened /\ faults \in 0 .. MaxFaults
          /\ state \in {"DISCONNECTED", "CONNECTED", "SESSION_ACTIVE", "SESSION_EXPIRED"}
          /\ stored \in Tokens \cup {None}
          /\ attempt \in 0 .. MaxAttempts
          /\ at \in [Procs -> {"off", "ready", "open", "asks", "closing", "closed", "sleep"}]
          /\ sent \in [Procs -> Request \cup {None}]
          /\ screen \in {"login", "dashboard", "dialog", "left"}

\* After start_application: connect() returned True and the login form is shown.
Init == /\ writer = (CHOOSE k \in Conns : TRUE) /\ connected = TRUE
        /\ up = [k \in Conns |-> k = writer]
        /\ line = [k \in Conns |-> <<>>]
        /\ proto = [k \in Conns |-> IF k = writer THEN "AUTHENTICATED" ELSE "CLOSED"]
        /\ Server!Init
        /\ hears = [k \in Conns |-> IF k = writer THEN "reading" ELSE "off"]
        /\ pings = TRUE /\ opened = 0 /\ faults = 0
        /\ state = "CONNECTED" /\ stored = None /\ attempt = 0
        /\ at = [p \in Procs |-> "off"] /\ sent = [p \in Procs |-> None]
        /\ screen = "login"

-----------------------------------------------------------------------------
(* What the coroutines are built from. *)

Fault == faults < MaxFaults /\ faults' = faults + 1

GoTo(p, place) == /\ at' = [at EXCEPT ![p] = place]
                  /\ sent' = [sent EXCEPT ![p] = None]

Asks(p, kind) == at[p] = "asks" /\ sent[p].kind = kind

\* No request of p is under way any more, and then one is, on connection k.
RemoveAt(s, i) == SubSeq(s, 1, i - 1) \o SubSeq(s, i + 1, Len(s))
Without(p) ==
    [c \in Conns |-> LET places == {i \in DOMAIN line[c] : line[c][i] = p} IN
                     IF places = {} THEN line[c]
                     ELSE RemoveAt(line[c], CHOOSE i \in places : TRUE)]
With(p, k) == IF up[k] /\ proto[k] # "CLOSED"
              THEN [Without(p) EXCEPT ![k] = Append(@, p)] ELSE Without(p)

\* The answer p waits for cannot come; or a call fails for no such reason.
Hopeless(p) == LET k == sent[p].on IN
               ~up[k] \/ hears[k] # "reading" \/ \A i \in DOMAIN line[k] : line[k][i] # p
Fails(p) == \/ at[p] \in {"open", "asks"} /\ Fault
            \/ at[p] = "open" /\ opened = MaxOpened /\ UNCHANGED faults
            \/ at[p] = "asks" /\ Hopeless(p) /\ UNCHANGED faults

\* send_frame raises at once where is_connected is false or there is no writer.
Sendable == connected /\ writer # None
Ask(p, kind, t) == /\ line' = With(p, writer)
                   /\ at' = [at EXCEPT ![p] = "asks"]
                   /\ sent' = [sent EXCEPT ![p] = [kind |-> kind, token |-> t, on |-> writer,
                                              seen |-> FALSE]]
                   /\ UNCHANGED up

\* The call of p is over, and its request with it.
Leave(p, place) == GoTo(p, place) /\ line' = Without(p)

\* close_sockets up to `await wait_closed()`, which it skips without a writer,
\* and after it: writer and reader are dropped, whatever they are by then.
BeginCloseStaysConnected ==     \* mutant: is_connected is not cleared
    /\ pings' = FALSE /\ up' = [k \in Conns |-> up[k] /\ k # writer]
    /\ UNCHANGED connected
BeginClose == /\ connected' = FALSE /\ pings' = FALSE
              /\ up' = [k \in Conns |-> up[k] /\ k # writer]
Closing == IF writer = None THEN "closed" ELSE "closing"
EndClose(place) == writer' = IF place = "closing" THEN None ELSE writer

\* clear_session; with SESSION_EXPIRED after it.
Clear == /\ stored' = None
         /\ state' = IF state \in {"DISCONNECTED", "SESSION_EXPIRED"} THEN state
                     ELSE "DISCONNECTED"
Expire == stored' = None /\ state' = "SESSION_EXPIRED"

\* Nothing is left of k: another connection may take its place.
Gone(k) == /\ proto[k] = "CLOSED" /\ hears[k] = "off" /\ writer # k
           /\ \A p \in Procs : sent[p] # None => sent[p].on # k

\* open_connection succeeds: the attributes are overwritten, a listening loop is
\* started and HELLO sent.
Opens(p) ==
    /\ at[p] = "open" /\ opened < MaxOpened
    /\ opened' = opened + 1
    /\ (\E k \in Conns : Gone(k))
    /\ LET k == CHOOSE k \in Conns : Gone(k) IN
       /\ writer' = k /\ connected' = TRUE
       /\ hears' = [hears EXCEPT ![k] = "reading"]
       /\ up' = [up EXCEPT ![k] = TRUE]
       /\ proto' = [proto EXCEPT ![k] = "CONNECTED"]
       /\ line' = [line EXCEPT ![k] = <<p>>]
       /\ at' = [at EXCEPT ![p] = "asks"]
       /\ sent' = [sent EXCEPT ![p] = [kind |-> "HELLO", token |-> None, on |-> k,
                                            seen |-> FALSE]]
    /\ UNCHANGED <<faults, phase, holder, pings, session, screen>>

\* The connection changed under a call: it times out, pauses, and sends the same
\* bytes on the connection there is now.
Retransmits(p) ==
    /\ at[p] = "asks" /\ Sendable /\ sent[p].on # writer
    /\ line' = With(p, writer)
    /\ sent' = [sent EXCEPT ![p].on = writer]
    /\ UNCHANGED <<up, opened, faults, server, manager, session, at, screen>>

-----------------------------------------------------------------------------
(* The reconnection: handle_connection_loss, _retry_reconnect. *)

\* _on_unexpected_disconnect.  is_reconnecting is at["reconnect"] # "off"; whether
\* the token is locally valid depends on a clock.
HandleConnectionLoss ==
    \/ /\ stored # None
       /\ state' = "DISCONNECTED" /\ UNCHANGED stored
       /\ GoTo("reconnect", "open")
       /\ attempt' = 1
    \/ Expire /\ UNCHANGED <<calls, attempt>>
Report == IF state = "SESSION_ACTIVE" /\ at["reconnect"] = "off" THEN HandleConnectionLoss
          ELSE UNCHANGED <<session, calls>>

\* The answer to RESUME_SESSION.
ResumedOnAnyAnswer(result) ==   \* mutant: an ERROR is taken for RESUME_SESSION_OK
    /\ state' = "SESSION_ACTIVE" /\ pings' = TRUE /\ UNCHANGED stored
Resumed(result) == IF result = "ok"
                   THEN state' = "SESSION_ACTIVE" /\ pings' = TRUE /\ UNCHANGED stored
                   ELSE Expire /\ UNCHANGED pings

\* What the answer to its request makes the reconnection do.
ReconnectAnswered(result) ==
    /\ \/ /\ Asks("reconnect", "HELLO") /\ result = "ok" /\ Sendable
          /\ Ask("reconnect", "RESUME_SESSION", stored)
          /\ UNCHANGED <<connected, pings, state, stored>>
       \/ /\ Asks("reconnect", "HELLO") /\ (result # "ok" \/ ~Sendable)
          /\ Leave("reconnect", Closing) /\ BeginClose
          /\ UNCHANGED <<state, stored>>
       \/ /\ Asks("reconnect", "RESUME_SESSION")
          /\ Leave("reconnect", "off")
          /\ Resumed(result)
          /\ UNCHANGED <<up, connected>>
    /\ UNCHANGED <<attempt, screen>>

\* An exception in an attempt: close_sockets, whoever's connection it closes.
AttemptFails == /\ Fails("reconnect")
                /\ Leave("reconnect", Closing) /\ BeginClose
                /\ UNCHANGED <<opened, server, writer, hears, session, screen>>

AttemptOverTooLate ==           \* mutant: one attempt more than allowed
    /\ at["reconnect"] \in {"closing", "closed"}
    /\ EndClose(at["reconnect"])
    /\ \/ attempt <= MaxAttempts /\ GoTo("reconnect", "sleep") /\ UNCHANGED <<state, stored>>
       \/ /\ attempt > MaxAttempts
          /\ GoTo("reconnect", "off")
          /\ IF state = "SESSION_ACTIVE" THEN UNCHANGED <<state, stored>> ELSE Expire
    /\ UNCHANGED <<net, server, connected, hears, pings, attempt, screen>>
AttemptOver ==
    /\ at["reconnect"] \in {"closing", "closed"}
    /\ EndClose(at["reconnect"])
    /\ \/ attempt < MaxAttempts /\ GoTo("reconnect", "sleep") /\ UNCHANGED <<state, stored>>
       \/ /\ attempt = MaxAttempts
          /\ GoTo("reconnect", "off")
          /\ IF state = "SESSION_ACTIVE" THEN UNCHANGED <<state, stored>> ELSE Expire
    /\ UNCHANGED <<net, server, connected, hears, pings, attempt, screen>>

NextAttemptUncounted ==         \* mutant: the attempt is not counted
    /\ at["reconnect"] = "sleep"
    /\ GoTo("reconnect", "open")
    /\ UNCHANGED <<net, server, manager, session, screen>>
NextAttempt == /\ at["reconnect"] = "sleep"
               /\ GoTo("reconnect", "open")
               /\ attempt' = attempt + 1
               /\ UNCHANGED <<net, server, manager, state, stored, screen>>

-----------------------------------------------------------------------------
(* The windows: login form, dashboard, re-login dialog. *)

\* refresh_status_bar, every second.
ShowDialog == /\ screen = "dashboard"
              /\ state \in {"DISCONNECTED", "SESSION_EXPIRED"}
              /\ screen' = "dialog"
              /\ UNCHANGED <<net, server, manager, session, calls>>

\* perform_login sends LOGIN on the connection there is; perform_reauth calls
\* connect() first, which returns at once if is_connected.
Click(u) == /\ screen \in {"login", "dialog"} /\ at[u] = "off"
            /\ GoTo(u, IF screen = "login" \/ connected THEN "ready" ELSE "open")
            /\ UNCHANGED <<net, server, manager, session, screen>>

SendLogin(u) == /\ at[u] = "ready" /\ Sendable
                /\ Ask(u, "LOGIN", None)
                /\ UNCHANGED <<opened, faults, server, manager, session, screen>>

\* LOGIN_OK: store_session, and the window goes on.
LoggedIn(u, t) == /\ state' = "SESSION_ACTIVE" /\ stored' = t
                  /\ \/ UNCHANGED screen
                     \/ screen # "left" /\ screen' = "dashboard"

ClickAnswered(u, k, result) ==
    \/ /\ Asks(u, "HELLO") /\ result = "ok"
       /\ Leave(u, "off") \/ (screen # "left" /\ Leave(u, "ready"))
       /\ state' = "CONNECTED" /\ pings' = TRUE
       /\ UNCHANGED <<up, connected, stored, attempt, screen>>
    \/ /\ Asks(u, "HELLO") /\ result # "ok"
       /\ Leave(u, Closing) /\ BeginClose
       /\ UNCHANGED <<session, screen>>
    \/ /\ Asks(u, "LOGIN") /\ Leave(u, "off")
       /\ \/ result = "ok" /\ \E t \in Tokens : holder'[t] = k /\ LoggedIn(u, t)
          \/ result = "denied" /\ Expire /\ UNCHANGED screen
          \/ result \in {"refused", "unexpected"} /\ UNCHANGED <<state, stored, screen>>
       /\ UNCHANGED <<up, connected, pings, attempt>>

\* connect() clears is_connected on an exception, and closes nothing.
ConnectFails(u) == /\ at[u] = "open" \/ Asks(u, "HELLO")
                   /\ Fails(u)
                   /\ connected' = FALSE
                   /\ Leave(u, "off")
                   /\ UNCHANGED <<up, opened, server, writer, hears, pings,
                                  session, screen>>

\* connect() closes after a HELLO that was not answered HELLO_OK.
ConnectClosed(u) == /\ at[u] \in {"closing", "closed"}
                    /\ EndClose(at[u])
                    /\ GoTo(u, "off")
                    /\ UNCHANGED <<net, server, connected, hears, pings,
                                   session, screen>>

LoginFails(u) == /\ \/ at[u] = "ready" /\ ~Sendable /\ UNCHANGED faults
                    \/ Asks(u, "LOGIN") /\ Fails(u)
                 /\ Leave(u, "off")
                 /\ UNCHANGED <<up, opened, server, manager, session, screen>>

\* handle_logout: disconnect() in the background; the windows go on with a new
\* STMPClient, which starts in Init.
Logout == /\ screen \in {"dashboard", "dialog"} /\ \A u \in Clicks : at[u] # "ready"
          /\ screen' = "left"
          /\ IF Sendable THEN Ask("disconnect", "BYE", None) ELSE UNCHANGED <<up, line, calls>>
          /\ UNCHANGED <<opened, faults, server, manager, session>>

DisconnectAnswered(result) ==
    /\ Asks("disconnect", "BYE")
    /\ Leave("disconnect", Closing) /\ BeginClose
    /\ IF result = "ok" THEN Clear ELSE UNCHANGED <<state, stored>>
    /\ UNCHANGED <<attempt, screen>>
DisconnectOver == /\ at["disconnect"] \in {"closing", "closed"}
                  /\ EndClose(at["disconnect"])
                  /\ Clear
                  /\ GoTo("disconnect", "off")
                  /\ UNCHANGED <<net, server, connected, hears, pings,
                                 attempt, screen>>
DisconnectFails == /\ Asks("disconnect", "BYE") /\ Fails("disconnect")
                   /\ Leave("disconnect", "off")
                   /\ UNCHANGED <<up, opened, server, manager, session, screen>>

-----------------------------------------------------------------------------
(* The server and the network. *)

Live(k) == proto[k] \in {"CONNECTED", "AUTHENTICATED", "ACTIVE"}
HeldBy(k) == {t \in Tokens : holder[t] = k}

\* STATE_ALLOWED.
Belongs(k, kind) == \/ proto[k] = "CONNECTED" /\ kind = "HELLO"
                    \/ proto[k] = "AUTHENTICATED" /\ kind \in {"LOGIN", "RESUME_SESSION"}
                    \/ proto[k] = "ACTIVE" /\ kind \in {"RESUME_SESSION", "BYE"}

\* dispatch: what does not belong to the state is answered 101 or 201; the rest is
\* handled, or refused for its timestamp, by the rate limit, the history or the
\* handler.  A resume whose commit only seemed to fail is refused, and its token lost.
Serves(k, kind, t, result) ==
    \/ ~Belongs(k, kind) /\ result = "unexpected" /\ UNCHANGED server
    \/ /\ Belongs(k, kind)
       /\ result = "refused" \/ (result = "denied" /\ kind = "LOGIN")
       /\ UNCHANGED server
    \/ /\ kind = "RESUME_SESSION" /\ Belongs(k, kind) /\ result = "refused"
       /\ t # None /\ phase[t] = "suspended" /\ Server!End({t})
       /\ UNCHANGED proto
    \/ /\ Belongs(k, kind) /\ result = "ok"
       /\ \/ /\ kind = "HELLO"
             /\ proto' = [proto EXCEPT ![k] = "AUTHENTICATED"]
             /\ UNCHANGED <<phase, holder>>
          \/ /\ kind = "LOGIN"
             /\ proto' = [proto EXCEPT ![k] = "ACTIVE"]
             /\ LET fresh == {u \in Tokens : phase[u] = "fresh"} IN
                fresh # {} /\ Server!Open(CHOOSE u \in fresh : TRUE, k)
          \/ /\ kind = "RESUME_SESSION" /\ t # None /\ Server!Reclaim(t, k)
             /\ proto' = [proto EXCEPT ![k] = "ACTIVE"]
          \/ /\ kind = "BYE" /\ Server!End(HeldBy(k))
             /\ proto' = [proto EXCEPT ![k] = "CLOSED"]

\* A HELLO or BYE that is refused counts among the failures.
Unexplained(kind, result) == kind \in {"HELLO", "BYE"} /\ result = "refused"

\* A listening loop on k has read an answer.  Its next turn reads self.reader,
\* whichever connection that is by now: another loop reads there, or it is None.
ReadsOn(k) == hears' = [hears EXCEPT ![k] = IF ~connected THEN "off"
                                            ELSE IF writer = k THEN "reading" ELSE "failed"]

\* A request is served, and its call woken up by the listening loop.
Answered(k) ==
    /\ Live(k) /\ up[k] /\ hears[k] = "reading" /\ line[k] # <<>>
    /\ LET p == Head(line[k]) IN
       \E result \in Results :
          /\ Serves(k, sent[p].kind, sent[p].token, result)
          /\ IF Unexplained(sent[p].kind, result) THEN Fault ELSE UNCHANGED faults
          /\ \/ p = "reconnect" /\ ReconnectAnswered(result)
             \/ p = "disconnect" /\ DisconnectAnswered(result)
             \/ p \in Clicks /\ ClickAnswered(p, k, result)
    /\ ReadsOn(k)
    /\ UNCHANGED <<opened, writer>>

\* A request is served, and the answer lost or too late.  HELLO and what does not
\* belong to the state are not recorded.
Unanswered(k) ==
    /\ Live(k) /\ line[k] # <<>>
    /\ LET p == Head(line[k])
           recorded == sent[p].kind # "HELLO" /\ Belongs(k, sent[p].kind) IN
       /\ \E result \in Results :
             /\ Serves(k, sent[p].kind, sent[p].token, result)
             /\ IF up[k] \/ Unexplained(sent[p].kind, result)
                THEN Fault ELSE UNCHANGED faults
       /\ sent' = [sent EXCEPT ![p].seen = @ \/ recorded]
    /\ line' = [line EXCEPT ![k] = Tail(@)]
    /\ UNCHANGED <<up, opened, manager, session, at, screen>>

\* A copy of a request that was served comes in the scope it was recorded in, and is
\* answered 301: send_frame takes that for no answer.  In another scope, or where the
\* limits refuse it first, it is served like any other.
Repeated(k) ==
    /\ Live(k) /\ up[k] /\ hears[k] = "reading" /\ line[k] # <<>>
    /\ LET p == Head(line[k]) IN sent[p].seen /\ Belongs(k, sent[p].kind)
    /\ line' = [line EXCEPT ![k] = Tail(@)]
    /\ ReadsOn(k)
    /\ UNCHANGED <<up, opened, faults, server, writer, connected, pings, session, calls, screen>>

\* The server's loop ends: the client is gone, or sent nothing for IDLE_TIMEOUT.
\* Its session becomes resumable, or ends where it cannot be marked.
ServerCloses(k) ==
    /\ Live(k)
    /\ \/ ~up[k] /\ UNCHANGED faults
       \/ up[k] /\ line[k] = <<>> /\ IF writer = k THEN Fault ELSE UNCHANGED faults
    /\ proto' = [proto EXCEPT ![k] = "CLOSED"]
    /\ up' = [up EXCEPT ![k] = FALSE]
    /\ line' = [line EXCEPT ![k] = <<>>]
    /\ \/ HeldBy(k) = {} /\ UNCHANGED <<phase, holder>>
       \/ \E t \in HeldBy(k) : Server!Suspend(t) \/ Server!End({t})
    /\ UNCHANGED <<opened, manager, session, calls, screen>>

\* The window of a suspended session, or the session's lifetime, is over.
WindowElapses(t) == /\ phase[t] = "suspended"
                    /\ Server!End({t})
                    /\ UNCHANGED <<net, proto, manager, session, calls, screen>>

Breaks(k) == /\ up[k] /\ Fault
             /\ up' = [up EXCEPT ![k] = FALSE]
             /\ UNCHANGED <<line, opened, server, manager, session, calls, screen>>

-----------------------------------------------------------------------------
(* The loops of the client. *)

\* The stream ends, or a turn failed: a loss, if is_connected is still set.
EndOfStream(k) == \/ hears[k] = "failed"
                  \/ hears[k] = "reading" /\ (~up[k] \/ proto[k] = "CLOSED")
ListenEndsOwnOnly(k) ==         \* mutant: a loop closes only the connection it read
    /\ EndOfStream(k)
    /\ IF connected /\ writer = k THEN hears' = [hears EXCEPT ![k] = Closing] /\ BeginClose
       ELSE hears' = [hears EXCEPT ![k] = "off"] /\ UNCHANGED <<up, connected, pings>>
    /\ UNCHANGED <<line, opened, faults, server, writer, session, calls, screen>>
ListenEnds(k) ==
    /\ EndOfStream(k)
    /\ IF connected THEN hears' = [hears EXCEPT ![k] = Closing] /\ BeginClose
       ELSE hears' = [hears EXCEPT ![k] = "off"] /\ UNCHANGED <<up, connected, pings>>
    /\ UNCHANGED <<line, opened, faults, server, writer, session, calls, screen>>

LossReported(k) == /\ hears[k] \in {"closing", "closed"}
                   /\ EndClose(hears[k])
                   /\ hears' = [hears EXCEPT ![k] = "off"]
                   /\ Report
                   /\ UNCHANGED <<net, server, connected, pings, screen>>

\* The keep-alive loop closes the connection.  close_sockets cancels the task it
\* runs in, which ends at `await wait_closed()`: writer stays and nothing is
\* reported; without a writer there is no await and the loss is reported.
KeepAliveGivesUp == /\ pings /\ connected /\ Fault
                    /\ BeginClose
                    /\ IF writer = None THEN Report ELSE UNCHANGED <<session, calls>>
                    /\ UNCHANGED <<line, opened, server, writer, hears, screen>>

\* _idle_timeout_loop runs exactly while the state is SESSION_ACTIVE: both steps
\* that enter that state start it.
IdleTimeoutIfConnected ==       \* mutant: the timer stops with the connection
    /\ state = "SESSION_ACTIVE" /\ Sendable
    /\ Expire
    /\ UNCHANGED <<net, server, manager, attempt, calls, screen>>
IdleTimeout == /\ state = "SESSION_ACTIVE"
               /\ Expire
               /\ UNCHANGED <<net, server, manager, attempt, calls, screen>>

ReconnectStep == Opens("reconnect") \/ AttemptFails \/ AttemptOver \/ NextAttempt
ClickStep(u) == \/ Opens(u) \/ ConnectFails(u) \/ ConnectClosed(u)
                \/ SendLogin(u) \/ LoginFails(u)
DisconnectStep == DisconnectOver \/ DisconnectFails

Next == \/ ReconnectStep \/ DisconnectStep
        \/ ShowDialog \/ Logout
        \/ \E u \in Clicks : Click(u) \/ ClickStep(u)
        \/ \E p \in Procs : Retransmits(p)
        \/ \E k \in Conns : \/ Answered(k) \/ Unanswered(k) \/ Repeated(k)
                            \/ ServerCloses(k) \/ Breaks(k)
                            \/ ListenEnds(k) \/ LossReported(k)
        \/ KeepAliveGivesUp \/ IdleTimeout
        \/ \E t \in Tokens : WindowElapses(t)

Spec == Init /\ [][Next]_vars

\* The client's event loop runs what is ready and its timers fire; the idle timer
\* cannot be put off where no request can be answered or no user is left.  The
\* server's loop of a connection answers what it receives, and closes when the
\* connection is lost or nobody writes to it.
Fairness == /\ WF_vars(ReconnectStep) /\ WF_vars(DisconnectStep)
            /\ \A u \in Clicks : WF_vars(ClickStep(u))
            /\ WF_vars(\E k \in Conns : ListenEnds(k) \/ LossReported(k))
            /\ \A k \in Conns : WF_vars(Answered(k) \/ (ServerCloses(k) /\ (~up[k] \/ writer # k)))
            /\ WF_vars(IdleTimeout /\ (~Sendable \/ screen = "left"))
FairSpec == Spec /\ Fairness

-----------------------------------------------------------------------------
(* Properties. *)

\* Whenever is_connected is set, a listening loop of the connection that requests
\* are written to, or of the one before it where that is gone, is there to notice
\* its end: no coroutine can leave the client with a connection nobody listens to.
ConnectedIsHeard ==
    connected => \E k \in Conns : writer \in {k, None} /\ hears[k] \in {"reading", "failed"}

\* When no coroutine is at work, a client that believes in its session and whose
\* connection is sound has a server loop that is ACTIVE, or has ended and will be
\* noticed: no order of the window's calls, the reconnection and the answers
\* leaves it with a loop that waits for LOGIN.
AgreesWhenQuiet ==
    /\ \A p \in Procs : at[p] = "off"
    /\ \A k \in Conns : hears[k] \in {"off", "reading"}
    /\ state = "SESSION_ACTIVE" /\ Sendable /\ up[writer]
    => proto[writer] \in {"ACTIVE", "CLOSED"}

\* A call waits for an answer exactly while it has sent its request; what is under way
\* is a request whose call waits for it on that connection, and is there once; and a
\* reconnection that pauses has an attempt left.
CallsKnown ==
    /\ \A p \in Procs : IF at[p] = "asks" THEN sent[p] \in Request ELSE sent[p] = None
    /\ \A k \in Conns : \A i \in 1 .. Len(line[k]) :
          LET p == line[k][i] IN
          /\ at[p] = "asks" /\ sent[p].on = k
          /\ \A j \in 1 .. Len(line[k]) : line[k][j] = p => j = i
    /\ at["reconnect"] = "sleep" => attempt < MaxAttempts

\* A client that believes in its session while the server waits for HELLO or LOGIN is
\* about to change its mind: a loop of an older connection has failed and will close
\* this one, or a call is there that has its answer to come on this connection,
\* which gives the session up or gets it back.
DoubtIsSettled ==
    /\ state = "SESSION_ACTIVE" /\ Sendable /\ up[writer]
    /\ proto[writer] \in {"CONNECTED", "AUTHENTICATED"}
    => \/ \E k \in Conns : hears[k] = "failed"
       \/ \E p \in Clicks \cup {"reconnect"} :
             /\ at[p] = "asks" /\ sent[p].on = writer
             /\ sent[p].kind = "HELLO" \/ p = "reconnect"

\* What every order of the steps keeps: AgreesWhenQuiet follows from it.
ClientInv == TypeOK /\ CallsKnown /\ ConnectedIsHeard /\ DoubtIsSettled

\* handle_connection_loss comes to an end, whatever else opens and closes sockets
\* meanwhile: is_reconnecting does not stay set, which would silence every
\* later loss.
ReconnectionEnds == at["reconnect"] # "off" ~> at["reconnect"] = "off"

\* A loss that was never reported (the keep-alive loop cancelled itself, or another
\* coroutine cleared is_connected) is noticed all the same, by the idle timer.
SilentLossNoticed ==
    state = "SESSION_ACTIVE" /\ ~connected /\ at["reconnect"] = "off"
        ~> state # "SESSION_ACTIVE" \/ connected

\* A connection whose writer was dropped by the close of an earlier one is given
\* up in the end, although no request can be sent on it.
WipedWriterNoticed == connected /\ writer = None ~> ~connected \/ writer # None

\* A client that was logged out may resume its session behind the user's back, but
\* not for ever.
LoggedOutStaysOut == screen = "left" ~> [](state # "SESSION_ACTIVE")
=============================================================================
