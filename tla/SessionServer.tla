---------------------------- MODULE SessionServer ----------------------------
(***************************************************************************)
(* The server's connection loops and the session rows they work on         *)
(* (server/server.py, server/protocol/router.py, session_service.py,       *)
(* auth_service.py).                                                       *)
(*                                                                         *)
(* The server is one asyncio process.  A connection loop runs without      *)
(* interruption from the moment parse_message returns to the moment the    *)
(* reply is handed to writer.drain(): router.dispatch never awaits, its    *)
(* database calls block the process.  So one action is one such stretch,   *)
(* and other connections interleave only where the loop awaits: before a   *)
(* message (~replying[c]) and while a reply is being sent (replying[c]).   *)
(* What can fall inside a stretch is a failure: the stretch's transactions *)
(* commit one by one, so an action has one disjunct for each place where   *)
(* the database or the process may fail (CONSTANT Faults).                 *)
(*                                                                         *)
(* Time is a counter.  Abstracted: the user and password checks of LOGIN,  *)
(* the gates of dispatch (timestamp, rate limit, duplicates), tasks, and   *)
(* the columns no guard reads (last_seen_at, disconnected_at).             *)
(***************************************************************************)
EXTENDS Naturals

CONSTANTS
    Conns,          \* connections that may be open at the same time
    IPs,            \* addresses the connections come from
    Tokens,         \* what secrets.token_urlsafe(32) may return, each once
    None,           \* NULL in a row, None in Python
    Lifetime,       \* SESSION_LIFETIME_MINUTES
    ResumeWindow,   \* SESSION_RESUME_MINUTES
    MaxTime,        \* bound: the clock stops here
    Faults          \* which failures happen, a subset of AllFaults

\* "raise":    a handler raises: a payload field is not of the type it expects;
\* "no_db":    get_connection fails, outside the services' try: dispatch raises,
\*             and a disconnect is not marked;
\* "rollback": a transaction fails and is rolled back, the service answers 500;
\* "lost_ack": a transaction takes effect but its commit, or a later step of
\*             the same dispatch, fails;
\* "crash":    the server process dies and is started again.
AllFaults == {"raise", "no_db", "rollback", "lost_ack", "crash"}

SessionRow == [ip : IPs, expires : Nat, resume : Nat \cup {None}, revoked : BOOLEAN]

ASSUME TimesAssumption == Lifetime \in Nat \ {0} /\ ResumeWindow \in Nat /\ MaxTime \in Nat
ASSUME NoneAssumption == None \notin Nat \cup Tokens \cup IPs \cup Conns \cup SessionRow
ASSUME FaultsAssumption == Faults \subseteq AllFaults

VARIABLES
    now,        \* datetime.now(timezone.utc)
    sessions,   \* table sessions: token -> row, None where there is no row
    issued,     \* the tokens generated so far
    state,      \* _client_loop: state; "CLOSED" when no loop runs in this slot
    token,      \* _client_loop: session_token
    peer,       \* _client_loop: ip
    replying,   \* the loop awaits writer.drain() (else it awaits parse_message)
    gone        \* connections whose client sends nothing any more

connVars == <<state, token, peer, replying, gone>>
vars == <<now, sessions, issued, connVars>>

ConnectionState == {"CLOSED", "CONNECTED", "AUTHENTICATED", "ACTIVE", "DISCONNECTED"}

TypeOK == /\ now \in 0 .. MaxTime
          /\ sessions \in [Tokens -> SessionRow \cup {None}]
          /\ issued \in SUBSET Tokens
          /\ state \in [Conns -> ConnectionState]
          /\ token \in [Conns -> Tokens \cup {None}]
          /\ peer \in [Conns -> IPs \cup {None}]
          /\ replying \in [Conns -> BOOLEAN]
          /\ gone \in SUBSET Conns

Init == /\ now = 0
        /\ sessions = [t \in Tokens |-> None]
        /\ issued = {}
        /\ state = [c \in Conns |-> "CLOSED"]
        /\ token = [c \in Conns |-> None]
        /\ peer = [c \in Conns |-> None]
        /\ replying = [c \in Conns |-> FALSE]
        /\ gone = {}

-----------------------------------------------------------------------------
(* Session rows. *)

\* The check mark_session_as_disconnected and resume_session start with.
Usable(t) == /\ sessions[t] # None
             /\ ~sessions[t].revoked
             /\ sessions[t].expires > now

CreateSessionWithWindow(t, ip) ==   \* mutant: the row starts with a window
    sessions' = [sessions EXCEPT ![t] = [ip |-> ip, expires |-> now + Lifetime,
                                         resume |-> now + Lifetime, revoked |-> FALSE]]
CreateSession(t, ip) ==
    sessions' = [sessions EXCEPT ![t] = [ip |-> ip, expires |-> now + Lifetime,
                                         resume |-> None, revoked |-> FALSE]]

RevokeSession(t) ==
    sessions' = IF sessions[t] = None THEN sessions
                ELSE [sessions EXCEPT ![t].revoked = TRUE]

ResumeKeepsWindow(t, ip) ==         \* mutant: resume_until is not cleared
    sessions' = [sessions EXCEPT ![t].ip = ip]
ResumeSessionRecord(t, ip) ==
    sessions' = [sessions EXCEPT ![t].resume = None, ![t].ip = ip]

\* resume_until is NULL while the session is connected: a session that was not
\* marked as disconnected cannot be resumed.
Resumable(t) == /\ Usable(t)
                /\ sessions[t].resume # None
                /\ sessions[t].resume >= now

MarkSessionAsDisconnected(t) ==
    \/ /\ Usable(t)
       /\ sessions' = [sessions EXCEPT ![t].resume = now + ResumeWindow]
    \/ /\ ~Usable(t) \/ Faults \cap {"no_db", "rollback"} # {}
       /\ UNCHANGED sessions

-----------------------------------------------------------------------------
(* The loop of connection c. *)

Reading(c) == state[c] # "CLOSED" /\ ~replying[c]

\* A complete message of c is parsed now.
Receives(c) == Reading(c) /\ c \notin gone

\* dispatch returns: the loop takes over the new state and token, then sends.
Reply(c, newState, newToken) ==
    /\ state' = [state EXCEPT ![c] = newState]
    /\ token' = [token EXCEPT ![c] = newToken]
    /\ replying' = [replying EXCEPT ![c] = TRUE]
    /\ UNCHANGED <<peer, gone>>

\* The loop ends, by a break or by an exception, and handle_client closes.
Close(c) ==
    /\ state' = [state EXCEPT ![c] = "CLOSED"]
    /\ token' = [token EXCEPT ![c] = None]
    /\ peer' = [peer EXCEPT ![c] = None]
    /\ replying' = [replying EXCEPT ![c] = FALSE]
    /\ gone' = gone \ {c}

\* The transaction of this dispatch took effect, but the loop never learns it:
\* the service answers 500, or the rest of dispatch raises.
ReplyLost(c) == /\ "lost_ack" \in Faults
                /\ Reply(c, state[c], token[c]) \/ Close(c)

MarkWhateverState(c) ==             \* mutant: graceful_close and state ignored
    IF token[c] # None THEN MarkSessionAsDisconnected(token[c]) ELSE UNCHANGED sessions
MarkForReconnect(c) ==
    IF state[c] = "ACTIVE" /\ token[c] # None
    THEN MarkSessionAsDisconnected(token[c])
    ELSE UNCHANGED sessions

Accept(c) == /\ state[c] = "CLOSED"
             /\ \E ip \in IPs : peer' = [peer EXCEPT ![c] = ip]
             /\ state' = [state EXCEPT ![c] = "CONNECTED"]
             /\ UNCHANGED <<now, sessions, issued, token, replying, gone>>

Hello(c) == /\ Receives(c)
            /\ state[c] = "CONNECTED"
            /\ Reply(c, "AUTHENTICATED", token[c])
            /\ UNCHANGED <<now, sessions, issued>>

Login(c) ==
    /\ Receives(c)
    /\ state[c] = "AUTHENTICATED"
    /\ \E t \in Tokens \ issued :
         /\ issued' = issued \cup {t}
         /\ CreateSession(t, peer[c])
         /\ Reply(c, "ACTIVE", t) \/ ReplyLost(c)
    /\ UNCHANGED now

\* The token is the one in the payload, not the loop's: a connection that is
\* already ACTIVE may resume another session and takes its token over.
ResumeFromAnyAddress(c) ==          \* mutant: the row's address is not compared
    /\ Receives(c)
    /\ state[c] \in {"AUTHENTICATED", "ACTIVE"}
    /\ \E t \in issued :
         /\ Resumable(t)
         /\ ResumeSessionRecord(t, sessions[t].ip)
         /\ Reply(c, "ACTIVE", t) \/ ReplyLost(c)
    /\ UNCHANGED <<now, issued>>
ResumeSession(c) ==
    /\ Receives(c)
    /\ state[c] \in {"AUTHENTICATED", "ACTIVE"}
    /\ \E t \in issued :
         /\ Resumable(t)
         /\ sessions[t].ip = peer[c]
         /\ ResumeSessionRecord(t, peer[c])
         /\ Reply(c, "ACTIVE", t) \/ ReplyLost(c)
    /\ UNCHANGED <<now, issued>>

\* handle_bye ignores what logout_user returns: the answer is BYE, and the loop
\* closes the connection after it, whether or not the row was revoked.
Bye(c) ==
    /\ Receives(c)
    /\ state[c] = "ACTIVE"
    /\ \/ RevokeSession(token[c]) /\ Reply(c, "DISCONNECTED", token[c])
       \/ RevokeSession(token[c]) /\ "lost_ack" \in Faults /\ Close(c)
       \/ /\ "rollback" \in Faults
          /\ Reply(c, "DISCONNECTED", token[c])
          /\ UNCHANGED sessions
    /\ UNCHANGED <<now, issued>>

\* Every other request, and a frame that does not parse: it is answered, and
\* neither the session rows nor the loop's state and token change.
Other(c) == /\ Receives(c)
            /\ Reply(c, state[c], token[c])
            /\ UNCHANGED <<now, sessions, issued>>

\* dispatch raises before it changed a session.  Nothing in _client_loop
\* catches it: handle_client closes, and the session is not marked.
DispatchRaises(c) == /\ Faults \cap {"raise", "no_db"} # {}
                     /\ Receives(c)
                     /\ state[c] \in {"AUTHENTICATED", "ACTIVE"}
                     /\ Close(c)
                     /\ UNCHANGED <<now, sessions, issued>>

\* The reply is out: the loop waits for the next message, or ends after BYE.
Sent(c) == /\ replying[c]
           /\ \/ state[c] = "DISCONNECTED" /\ Close(c)
              \/ /\ state[c] # "DISCONNECTED"
                 /\ replying' = [replying EXCEPT ![c] = FALSE]
                 /\ UNCHANGED <<state, token, peer, gone>>
           /\ UNCHANGED <<now, sessions, issued>>

SendFails(c) == /\ replying[c]
                /\ MarkForReconnect(c)
                /\ Close(c)
                /\ UNCHANGED <<now, issued>>

\* End of stream, reset, a frame that stays incomplete: the loop notices.
Lost(c) == /\ Reading(c)
           /\ MarkForReconnect(c)
           /\ Close(c)
           /\ UNCHANGED <<now, issued>>

IdleTimeoutOfUsers(c) ==            \* mutant: only sessions time out
    /\ Reading(c) /\ token[c] # None
    /\ MarkSessionAsDisconnected(token[c])
    /\ Close(c)
    /\ UNCHANGED <<now, issued>>
\* IDLE_TIMEOUT seconds without a message.
IdleTimeout(c) == /\ Reading(c)
                  /\ IF token[c] # None
                     THEN MarkSessionAsDisconnected(token[c])
                     ELSE UNCHANGED sessions
                  /\ Close(c)
                  /\ UNCHANGED <<now, issued>>

-----------------------------------------------------------------------------
(* The environment. *)

\* The client of c is gone and the network does not tell: nothing arrives.
Vanish(c) == /\ state[c] # "CLOSED" /\ c \notin gone
             /\ gone' = gone \cup {c}
             /\ UNCHANGED <<now, sessions, issued, state, token, peer, replying>>

\* The process dies, or is stopped, and starts again: all loops are lost and
\* nothing marks their sessions.
Crash == /\ "crash" \in Faults
         /\ \E c \in Conns : state[c] # "CLOSED"
         /\ state' = [c \in Conns |-> "CLOSED"]
         /\ token' = [c \in Conns |-> None]
         /\ peer' = [c \in Conns |-> None]
         /\ replying' = [c \in Conns |-> FALSE]
         /\ gone' = {}
         /\ UNCHANGED <<now, sessions, issued>>

\* cleanup_expired_security_data, run by an operator: no server code calls it.
Cleanup == /\ \E t \in Tokens : sessions[t] # None /\ sessions[t].expires <= now
           /\ sessions' = [t \in Tokens |->
                 IF sessions[t] # None /\ sessions[t].expires <= now THEN None
                 ELSE sessions[t]]
           /\ UNCHANGED <<now, issued, connVars>>

Tick == /\ now < MaxTime
        /\ now' = now + 1
        /\ UNCHANGED <<sessions, issued, connVars>>

ConnStep(c) == \/ Accept(c) \/ Hello(c) \/ Login(c) \/ ResumeSession(c) \/ Bye(c)
               \/ Other(c) \/ DispatchRaises(c) \/ Sent(c) \/ SendFails(c)
               \/ Lost(c) \/ IdleTimeout(c) \/ Vanish(c)

Next == (\E c \in Conns : ConnStep(c)) \/ Crash \/ Cleanup \/ Tick

Spec == Init /\ [][Next]_vars

\* drain() returns or raises, and asyncio.wait_for fires while no message comes.
\* Nothing is assumed of clients, of the network's error reports or of the clock.
Fairness == \A c \in Conns : /\ WF_vars(Sent(c) \/ SendFails(c))
                             /\ WF_vars(IdleTimeout(c))

FairSpec == Spec /\ Fairness

-----------------------------------------------------------------------------
(* Properties. *)

Holds(c, t) == state[c] = "ACTIVE" /\ token[c] = t
Held(t) == \E c \in Conns : Holds(c, t)

\* A session is worked on through one connection at a time: no order of logins,
\* drops, late resumes and restarts lets two loops be ACTIVE with one token.
SingleHolder == \A c, d \in Conns : \A t \in Tokens :
                    Holds(c, t) /\ Holds(d, t) => c = d

\* While a loop is ACTIVE with a token, the row (if cleanup has not removed it)
\* is bound to that loop's address, so validate_session's address check never
\* fails for the rightful holder, also after any number of resumes.
HeldIsBound == \A c \in Conns : \A t \in Tokens :
                   Holds(c, t) /\ sessions[t] # None => sessions[t].ip = peer[c]

\* Why SingleHolder holds: the row of a token some loop still has carries no
\* resume window, so RESUME_SESSION is refused until that loop gave it up.
HeldNotResumable ==
    \A c \in Conns : token[c] # None =>
        /\ token[c] \in issued
        /\ sessions[token[c]] # None => sessions[token[c]].resume = None

\* What the loops' variables say together.
LoopShape ==
    \A c \in Conns : /\ state[c] \in {"ACTIVE", "DISCONNECTED"} <=> token[c] # None
                     /\ state[c] = "CLOSED" <=> peer[c] = None
                     /\ state[c] = "CLOSED" => ~replying[c] /\ c \notin gone
                     /\ state[c] = "DISCONNECTED" => replying[c]

UniqueToken == \A c, d \in Conns : token[c] # None /\ token[c] = token[d] => c = d
TokenIsBound == \A c \in Conns : token[c] # None /\ sessions[token[c]] # None
                                   => sessions[token[c]].ip = peer[c]
UnissuedHasNoRow == \A t \in Tokens \ issued : sessions[t] = None

\* The inductive invariant.
Inv == /\ TypeOK
       /\ LoopShape
       /\ UniqueToken
       /\ HeldNotResumable
       /\ TokenIsBound
       /\ UnissuedHasNoRow

PhaseOf(t) == IF t \notin issued THEN "fresh"
              ELSE IF Held(t) THEN "held"
              ELSE IF Resumable(t) THEN "suspended"
              ELSE "ended"
HolderOf(t) == IF Held(t) THEN CHOOSE c \in Conns : Holds(c, t) ELSE None

\* The server implements the contract: in particular a token that was logged
\* out, expired, stranded or dropped past its window is never held again.
Contract == INSTANCE SessionContract WITH
                phase <- [t \in Tokens |-> PhaseOf(t)],
                holder <- [t \in Tokens |-> HolderOf(t)]
ImplementsContract == Contract!Spec

\* Once BYE is answered the token is ended, even where the logout could not be
\* written to the database and the row is not revoked (handle_bye ignores it).
LogoutIsFinal == [][\A c \in Conns, t \in Tokens :
                      Holds(c, t) /\ state'[c] = "DISCONNECTED" => PhaseOf(t)' = "ended"]_vars

\* A connection whose client vanished is closed, in every protocol state and
\* wherever its loop was, so its session does not stay held for ever.
VanishedIsClosed == \A c \in Conns : c \in gone ~> state[c] = "CLOSED"

\* What tests/test_security_sessions.py expects of an unexpected disconnect: a
\* usable session whose connection ends other than by BYE can be resumed.
DroppedIsResumable == [][\A t \in Tokens :
                           Held(t) /\ Usable(t) /\ ~(Held(t) \/ Resumable(t))'
                             => \E c \in Conns : Holds(c, t) /\ state'[c] = "DISCONNECTED"]_vars
=============================================================================
