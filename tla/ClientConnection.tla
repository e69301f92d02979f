-------------------------- MODULE ClientConnection --------------------------
(***************************************************************************)
(* The client's ConnectionManager (client/network/connection.py): the      *)
(* calls of send_frame with their retransmissions, the listening loop that *)
(* hands each answer to the call that waits for it, and the keep-alive     *)
(* loop, over a TCP connection that keeps the order of frames and breaks.  *)
(*                                                                         *)
(* The client is one asyncio process: a coroutine is interrupted only      *)
(* where it awaits.  send_frame awaits the answer (wait_for, which may     *)
(* time out) and the pause before a retransmission (asyncio.sleep), when   *)
(* its entry of _pending_requests holds a future that wait_for cancelled.  *)
(*                                                                         *)
(* The other end is what dispatch does with a frame: an ERROR (101) unless *)
(* its connection is ACTIVE, then PONG for a PING, 301 for a request id it *)
(* knows, an answer of its own for any other.                              *)
(* Abstracted: durations (a wait may time out whenever no answer is        *)
(* there, and any time may count as quiet), payloads, writer.drain()       *)
(* (frames are smaller than its buffer; where it raises, the call ends as  *)
(* it does when is_connected is false), the frames of connect, login and   *)
(* the reconnection (only their outcome), and how the client's own timers  *)
(* end a session.                                                          *)
(***************************************************************************)
EXTENDS Naturals, Sequences

CONSTANTS
    Requests,         \* request ids of the calls that need a session, each made once
    Pings,            \* request ids of the keep-alive loop's calls
    MaxAttempts,      \* MAX_RETRY_ATTEMPTS
    MaxPingFailures,  \* MAX_PING_FAILURES
    MaxReconnects     \* bound: how often the connection is re-established

ASSUME IdsAssumption == /\ Requests \cap Pings = {}
                        /\ {"off", "sleeping"} \cap (Requests \cup Pings) = {}
ASSUME BoundsAssumption == /\ MaxAttempts \in Nat \ {0} /\ MaxPingFailures \in Nat \ {0}
                           /\ MaxReconnects \in Nat

Ids == Requests \cup Pings
Answers == {"answer", "duplicate", "pong"}

VARIABLES
    call,          \* send_frame: "idle", where it waits, or how it ended
    attempt,       \* send_frame: attempt
    pending,       \* _pending_requests: "pending" or a result; "none" where there
                   \* is no future or a cancelled one
    duplicates,    \* _duplicate_ids
    keepAlive,     \* _keep_alive_loop: "off", "sleeping", or the ping it awaits
    failures,      \* _keep_alive_loop: consecutive_fails
    connected,     \* is_connected
    session,       \* session manager: "none", "active", or "resuming" while
                   \* handle_connection_loss runs
    reconnects,    \* number of reconnections
    toServer,      \* ids of the frames under way
    toClient,      \* <<id, answer>> under way
    active,        \* server: the connection's state is ACTIVE
    known,         \* server: ids in request_history of the session of the connection
    answered       \* history: ids whose answer, PONG or other than a 301, reached
                   \* the client while the call was under way

calls == <<call, attempt, pending, duplicates>>
loop == <<keepAlive, failures>>
link == <<connected, session, reconnects>>
server == <<active, known>>
vars == <<calls, loop, link, toServer, toClient, server, answered>>

TypeOK == /\ call \in [Ids -> {"idle", "waiting", "pause", "returned", "raised",
                            "broken", "cancelled"}]
          /\ attempt \in [Ids -> 0 .. MaxAttempts]
          /\ pending \in [Ids -> {"none", "pending", "answer", "duplicate"}]
          /\ duplicates \in SUBSET Ids
          /\ keepAlive \in {"off", "sleeping"} \cup Pings
          /\ failures \in 0 .. MaxPingFailures
          /\ reconnects \in 0 .. MaxReconnects
          /\ {connected, active} \subseteq BOOLEAN
          /\ session \in {"none", "active", "resuming"}
          /\ toServer \in Seq(Ids) /\ toClient \in Seq(Ids \X Answers)
          /\ known \in SUBSET Requests
          /\ answered \in SUBSET Ids

\* After connect, or after the login that follows: the connection is up, HELLO is
\* answered, the loops run.
Init == /\ call = [i \in Ids |-> "idle"] /\ attempt = [i \in Ids |-> 0]
        /\ pending = [i \in Ids |-> "none"] /\ duplicates = {}
        /\ keepAlive = "sleeping" /\ failures = 0
        /\ connected = TRUE /\ reconnects = 0
        /\ toServer = <<>> /\ toClient = <<>>
        /\ active \in BOOLEAN /\ session = IF active THEN "active" ELSE "none"
        /\ known = {} /\ answered = {}

-----------------------------------------------------------------------------
(* send_frame. *)

\* The future is done with; the call goes on to a pause, or ends.
Leave(i, where) == /\ call' = [call EXCEPT ![i] = where]
                   /\ pending' = [pending EXCEPT ![i] = "none"]
                   /\ UNCHANGED <<attempt, toServer>>

\* One turn of the loop: a new future and the frame, unless it is a duplicate.
Attempt(i, flagged) ==
    \/ /\ connected
       /\ call' = [call EXCEPT ![i] = "waiting"]
       /\ pending' = [pending EXCEPT ![i] = "pending"]
       /\ attempt' = [attempt EXCEPT ![i] = @ + 1]
       /\ toServer' = IF i \in flagged THEN toServer ELSE Append(toServer, i)
    \/ ~connected /\ Leave(i, "broken")

Call(i) == /\ call[i] = "idle"
           /\ Attempt(i, duplicates)
           /\ UNCHANGED <<duplicates, loop, link, toClient, server, answered>>

Return(i) == /\ pending[i] = "answer"
             /\ Leave(i, "returned")
             /\ duplicates' = duplicates \ {i}
             /\ UNCHANGED <<loop, link, toClient, server, answered>>

\* A 301: the next attempt waits without sending.
Duplicate(i) == /\ pending[i] = "duplicate"
                /\ \/ /\ attempt[i] < MaxAttempts
                      /\ duplicates' = duplicates \cup {i}
                      /\ Attempt(i, duplicates')
                   \/ /\ attempt[i] = MaxAttempts
                      /\ duplicates' = duplicates \ {i}
                      /\ Leave(i, "raised")
                /\ UNCHANGED <<loop, link, toClient, server, answered>>

TimeoutForgetsAttempt(i) ==     \* mutant: a timeout does not use up an attempt
    /\ pending[i] = "pending"
    /\ duplicates' = duplicates \ {i}
    /\ call' = [call EXCEPT ![i] = "pause"]
    /\ pending' = [pending EXCEPT ![i] = "none"]
    /\ attempt' = [attempt EXCEPT ![i] = @ - 1]
    /\ UNCHANGED <<loop, link, toServer, toClient, server, answered>>
Timeout(i) == /\ pending[i] = "pending"
              /\ duplicates' = duplicates \ {i}
              /\ Leave(i, IF attempt[i] < MaxAttempts THEN "pause" ELSE "raised")
              /\ UNCHANGED <<loop, link, toClient, server, answered>>

\* The pause is over: the same frame again, on the connection there is now.
Retransmit(i) == /\ call[i] = "pause"
                 /\ Attempt(i, duplicates)
                 /\ UNCHANGED <<duplicates, loop, link, toClient, server, answered>>

-----------------------------------------------------------------------------
(* The listening loop, the server and the connection. *)

DeliverToAnyone(m) ==           \* mutant: the request_id is not looked at
    \E i \in Ids : pending' = [pending EXCEPT ![i] = IF @ = "pending" THEN m[2] ELSE @]
\* The answer goes to the call that waits under its id; else it is dropped.
Deliver(m) ==
    pending' = [pending EXCEPT ![m[1]] = IF @ = "pending" THEN m[2] ELSE @]

\* PONG is skipped: it is not handed to the call of send_frame that sent PING.
Listen == /\ toClient # <<>>
          /\ toClient' = Tail(toClient)
          /\ LET m == Head(toClient) IN
             /\ answered' = IF m[2] # "duplicate" /\ call[m[1]] \in {"waiting", "pause"}
                             THEN answered \cup {m[1]} ELSE answered
             /\ IF m[2] = "pong" THEN UNCHANGED pending ELSE Deliver(m)
          /\ UNCHANGED <<call, attempt, duplicates, loop, link, toServer, server>>

\* What dispatch answers to the frame with id i.
Reply(i) == IF ~active THEN "answer"
            ELSE IF i \in Pings THEN "pong"
            ELSE IF i \in known THEN "duplicate" ELSE "answer"

ServeOutOfOrder ==              \* mutant: an answer overtakes the earlier ones
    /\ toServer # <<>>
    /\ toServer' = Tail(toServer)
    /\ LET i == Head(toServer) IN
       /\ toClient' = <<<<i, Reply(i)>>>> \o toClient
       /\ known' = IF active THEN known \cup ({i} \cap Requests) ELSE known
    /\ UNCHANGED <<calls, loop, link, active, answered>>
Serve == /\ toServer # <<>>
         /\ toServer' = Tail(toServer)
         /\ LET i == Head(toServer) IN
            /\ toClient' = Append(toClient, <<i, Reply(i)>>)
            /\ known' = IF active THEN known \cup ({i} \cap Requests) ELSE known
         /\ UNCHANGED <<calls, loop, link, active, answered>>

\* LOGIN_OK: store_session.  The history knows nothing in the scope of a new session.
LoggedIn == /\ connected /\ ~active /\ session = "none"
            /\ active' = TRUE /\ session' = "active" /\ known' = {}
            /\ UNCHANGED <<calls, loop, connected, reconnects, toServer, toClient,
                           answered>>

\* close_sockets: is_connected is cleared and the keep-alive task cancelled, and
\* with it its call of send_frame; the application's calls are left alone.
CloseKeepsPing ==               \* mutant: the keep-alive task is not cancelled
    /\ connected' = FALSE
    /\ toServer' = <<>> /\ toClient' = <<>> /\ active' = FALSE
    /\ UNCHANGED <<calls, keepAlive, failures, reconnects, known, answered>>
CloseSockets ==
    /\ connected' = FALSE
    /\ keepAlive' = "off"
    /\ call' = [i \in Ids |-> IF i = keepAlive /\ call[i] \in {"waiting", "pause"}
                              THEN "cancelled" ELSE call[i]]
    /\ pending' = [i \in Ids |-> IF i = keepAlive THEN "none" ELSE pending[i]]
    /\ toServer' = <<>> /\ toClient' = <<>> /\ active' = FALSE
    /\ UNCHANGED <<attempt, duplicates, failures, reconnects, known, answered>>

\* The connection breaks, or the server closed it: the listening loop ends and
\* schedules handle_connection_loss, or the reconnection fails and is retried.
ConnectionLost == /\ connected
                  /\ CloseSockets
                  /\ session' = IF session = "none" THEN "none" ELSE "resuming"

\* _establish_raw_connection: calls may use the connection from now on, although
\* the server does not know its session yet.
Reconnect == /\ session = "resuming" /\ ~connected /\ reconnects < MaxReconnects
             /\ connected' = TRUE
             /\ reconnects' = reconnects + 1
             /\ UNCHANGED <<calls, loop, session, toServer, toClient, server, answered>>

\* RESUME_SESSION_OK starts a new keep-alive loop.
Resumed == /\ session = "resuming" /\ connected
           /\ active' = TRUE /\ session' = "active"
           /\ keepAlive' = "sleeping" /\ failures' = 0
           /\ UNCHANGED <<calls, connected, reconnects, toServer, toClient, known, answered>>

\* Any ERROR: the session is cleared, the connection stays and is not pinged.
ResumeRefused == /\ session = "resuming" /\ connected
                 /\ session' = "none"
                 /\ UNCHANGED <<calls, loop, connected, reconnects, toServer, toClient,
                                server, answered>>

-----------------------------------------------------------------------------
(* The keep-alive loop. *)

\* It wakes up and there was activity.
Rest == /\ keepAlive = "sleeping" /\ failures > 0
        /\ failures' = 0
        /\ UNCHANGED <<calls, keepAlive, link, toServer, toClient, server, answered>>

\* It wakes up and there was none for KEEP_ALIVE_IDLE_SECONDS.
Ping(p) == /\ keepAlive = "sleeping"
           /\ call[p] = "idle"
           /\ Attempt(p, duplicates)
           /\ keepAlive' = p
           /\ UNCHANGED <<duplicates, failures, link, toClient, server, answered>>

PingReturned == /\ keepAlive \in Pings /\ call[keepAlive] = "returned"
                /\ keepAlive' = "sleeping" /\ failures' = 0
                /\ UNCHANGED <<calls, link, toServer, toClient, server, answered>>

PingFailed == /\ keepAlive \in Pings /\ call[keepAlive] \in {"raised", "broken"}
              /\ failures + 1 < MaxPingFailures
              /\ keepAlive' = "sleeping" /\ failures' = failures + 1
              /\ UNCHANGED <<calls, link, toServer, toClient, server, answered>>

\* The last failure allowed: the loop closes the connection.  close_sockets
\* cancels the very task that runs it, which ends in wait_closed: the loss is
\* never reported to the session manager.
GiveUp == /\ keepAlive \in Pings /\ call[keepAlive] \in {"raised", "broken"}
          /\ failures + 1 = MaxPingFailures
          /\ CloseSockets
          /\ UNCHANGED session

Progress(i) == Return(i) \/ Duplicate(i) \/ Timeout(i) \/ Retransmit(i)

Next == \/ \E i \in Requests : Call(i)
        \/ \E i \in Ids : Progress(i)
        \/ \E p \in Pings : Ping(p)
        \/ Listen \/ Serve \/ LoggedIn \/ ConnectionLost
        \/ Reconnect \/ Resumed \/ ResumeRefused
        \/ Rest \/ PingReturned \/ PingFailed \/ GiveUp

Spec == Init /\ [][Next]_vars

\* The event loop runs what is ready and its timers fire.  Nothing is assumed
\* of the server, the network or the application.
Fairness == \A i \in Ids : WF_vars(Progress(i))
FairSpec == Spec /\ Fairness

-----------------------------------------------------------------------------
(* Properties. *)

\* A call returns only what the server answered to its own request, although
\* calls overlap, answers are late, and a retransmission has a new future.
AnswersAreOwn == \A i \in Ids : call[i] = "returned" => i \in answered

\* The futures, the flags and the loops agree: no future outlives its wait, no
\* keep-alive call or loop outlives its connection.
Bookkeeping ==
    /\ TypeOK
    /\ \A i \in Ids : /\ pending[i] # "none" <=> call[i] = "waiting"
                      /\ call[i] = "idle" => attempt[i] = 0
                      /\ call[i] \in {"waiting", "pause"} => attempt[i] > 0
                      /\ call[i] = "pause" => attempt[i] < MaxAttempts
                      /\ i \in duplicates => call[i] \in {"waiting", "broken"}
    /\ \A p \in Pings : /\ call[p] \in {"waiting", "pause"} => keepAlive = p
                        /\ p \notin duplicates /\ pending[p] # "duplicate"
    /\ keepAlive # "off" => connected
    /\ toServer # <<>> \/ toClient # <<>> \/ active => connected
    /\ active => session = "active"
    /\ session = "resuming" => keepAlive = "off"

\* Once a 301 is handed to a call, nothing that could still wake it with its real
\* answer is on its way: the answer was read before, or lost with a connection.
DuplicateIsLast ==
    \A i \in Ids : i \in duplicates \/ pending[i] = "duplicate" =>
        \A k \in 1 .. Len(toClient) : toClient[k] # <<i, "answer">>

\* Why: where a 301 is under way, the server knows the request and its connection is
\* ACTIVE, so no other answer follows; and a call that was told 301 has no copy
\* under way to a connection that would refuse it, or to a session that would not
\* know it.
DuplicatesInOrder ==
    /\ \A k \in 1 .. Len(toClient), i \in Ids : toClient[k] = <<i, "duplicate">> =>
          /\ active /\ i \in known
          /\ \A l \in k + 1 .. Len(toClient) : toClient[l] # <<i, "answer">>
    /\ \A k \in 1 .. Len(toServer) :
          toServer[k] \in duplicates \/ pending[toServer[k]] = "duplicate"
          => active /\ toServer[k] \in known

\* The inductive invariant.
Inv == /\ Bookkeeping
       /\ \A i \in Ids : pending[i] = "answer" => i \in answered
       /\ AnswersAreOwn
       /\ DuplicateIsLast
       /\ DuplicatesInOrder

\* Every call ends after a bounded number of attempts, whatever the server does.
CallsEnd == \A i \in Ids :
                call[i] = "waiting" ~> call[i] \in {"returned", "raised", "broken", "cancelled"}

\* What the keep-alive loop logs when it gives up, and its test is named for:
\* that the pings went unanswered.
GivesUpOnSilence ==
    [][GiveUp => keepAlive \notin answered]_vars

\* send_frame is to handle retries and retransmit duplicates correctly, and waits on
\* where it is told 301, as the request is known to the server: such a call does not
\* end as if there was no answer when its answer has reached the client.
RaisesWithoutAnswer ==
    [][\A i \in Requests :
          /\ i \in duplicates \/ pending[i] = "duplicate"
          /\ call[i] # "raised" /\ call'[i] = "raised"
          => i \notin answered]_vars
=============================================================================
