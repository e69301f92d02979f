# A TLA+ model of the Secure Task Manager protocol (STMP/1.0)

This directory models the client and the server of this repository. Of the
server: the session life cycle, the table of connections, the duplicate guard,
the tasks behind it, the rate limiter, the accounts and the frame parser. Of the
client: the connection manager, and the session manager with the windows that
drive it. TLC checks the modules on small instances; TLAPS proves every safety
and action property that passes there for all values of the constants.

## The system

A client opens a TLS connection and sends length-prefixed JSON frames: `HELLO`,
then `LOGIN` or `RESUME_SESSION`, then task requests, `PING`, and `BYE`. The
server is **one asyncio process**; each connection has a task (`handle_client`
-> `_client_loop`). `router.dispatch` is synchronous: between the moment
`parse_message` returns and the moment the reply is handed to `writer.drain()`
no other connection runs. Everything durable is in PostgreSQL, and each
service function commits its own transactions.

| component | state | operations | talks to | what is hard |
|---|---|---|---|---|
| client loop (`server/server.py`, `router.py`) | per connection `state`, `session_token`, `ip` | one turn per frame; ends on BYE, timeouts, end of stream, failed send, exception | session service, request guard | interleaving at two awaits; six different exits; exceptions out of `dispatch` |
| session service (`session_service.py`, `auth_service.py`, `session_repository.py`) | table `sessions` | login, logout, mark as disconnected, resume, validate | database, clock | windows and expiry, partial failure, commit whose acknowledgement is lost |
| connection table (`server.py`) | `_active_connections`, `_connections_per_ip` | register, unregister, refuse | transport's `peername` | a key that is read twice, from a transport that changes |
| request guard (`request_guard_service.py`) | table `request_history` | timestamp check, register, record the code | rate limiter, handlers | copies delayed beyond expiry, crash between transactions, cleanup |
| rate limiter (`rate_limit_service.py`) | events, violations, bans in memory | check and record | - | window, violation and ban boundaries, and their interplay |
| accounts (`auth_service.py`) | table `users` | register, login, failed logins, lockout | rate limiter, database | a counter that restarts at a lock, a lock that a later failure overwrites |
| tasks (`task_service.py`) | table `tasks` | create, update, delete, list | request guard, session validation | two transactions per request; late copies; ids of deleted tasks |
| parser (`parser.py`) | position in the stream | read a frame or refuse it | client loop | refused frames and the position of the next one |
| maintenance (`maintenance_service.py`) | - | delete expired sessions and history rows | both tables | runs in another process, whenever an operator starts it |
| connection manager (`client/network/connection.py`) | `_pending_requests`, `_duplicate_ids`, `is_connected`, the two loops | `send_frame`, listen, keep alive, close | server, session manager | late answers, retransmission, 301, cancellation, reconnection |
| session manager (`client/network/session_manager.py`) | session state, token, timers | store, expire, reconnect and resume | connection manager, server | reconnection, windows, listening loops and timers share attributes across awaits |
| user interface (`client/interface`, `client/actions`, `client/api`) | which window is shown | login, re-login dialog, logout, poll of the session state, task forms | session manager, in another thread | a window gives up on a call that goes on |

Correctness, per component:

* sessions: one holder per token, from the bound address only; a session that
  was logged out, expired or stranded never comes back; a client that vanished
  does not hold its session for ever;
* connection table: never more connections than the limits, and counters that
  can be accounted for;
* request guard: a request takes effect at most once whatever is resent, and
  the history never claims a success that did not happen, except of a `BYE`,
  whose handler ignores that the logout failed;
* connection manager: a call gets the answer to its own request or fails, every
  call ends, no call or loop outlives its connection;
* rate limiter and accounts: no window lets one request, one ban or one guess
  too many through, wherever the limits lie to each other;
* tasks: one `CREATE_TASK` makes one task, a late copy never undoes a later
  request, and only the owner's sessions change a task;
* parser: as long as it is in step every message is dispatched, once and in
  order, and nothing else is; out of step it dispatches nothing twice or
  backwards, and does not wait for ever;
* session manager: a connection is never without a listener, every loss is acted
  upon, a reconnection ends, and when nothing is under way the client and the
  server agree.

`PROJECT.json` lists under `hazards` each place where these may go wrong.

## Modules

| module | models | state and actions |
|---|---|---|
| `SessionContract` | the promise about a token, without rows, clock or protocol states | `phase` and `holder` of each token; `Open`, `Waste`, `Suspend`, `Reclaim`, `End` |
| `SessionServer` | `_client_loop`, the session services, cleanup | `sessions` is the table, `state`/`token`/`peer` are the loop's variables, `replying` tells at which of its two awaits the loop is, `gone` marks silent clients; one action per message kind or exit of the loop |
| `ConnectionTable` | `handle_client` around the loop | `active` and `perIP` are the two tables, `up` is what the transport still knows, `ip` is what the task read first; history variable `leaked` |
| `RequestContract` | the promise about a request, without frames, rows or clock | `phase` of each request and the successes `reported`; `Open`, `Waste`, `TakeEffect`, `Die`, `Report`, `Forget` |
| `RequestGuard` | `dispatch` around a handler | `history` is the table, `busy` the dispatch in progress and its stage (each stage is a separate transaction), `stamp` the timestamp in a frame, `byes` the frames of type `BYE`; history variables `tried`, `effects` |
| `ClientConnection` | `ConnectionManager` | `call`/`attempt`/`pending`/`duplicates` are `send_frame`'s, `keepAlive`/`failures` the keep-alive loop's, `toServer`/`toClient` the frames under way, `session` the session manager's outcome; history variable `answered` |
| `Tasks` | the task handlers, `EXTENDS RequestGuard` | `tasks` is the table, a task's fields are the request that wrote them last; `asks` is what a frame asks for, `owner` the user of a session. `HandleTask` is the guard's `TakeEffect` with what it does to the table |
| `RateLimiter` | `InMemoryRateLimiter` | `events`, `violations`, `blocked` per scope; a deque is everything ever appended and the positions not yet popped. `check_and_record` is one of `StillBlocked`, `Violation`, `Pass` |
| `Accounts` | registration, login and lockout, `EXTENDS RateLimiter` | `users` is the table; history variable `guesses`. `Request` is a dispatch: the limiter, then a handler |
| `FrameParser` | `parse_message` on a stream of bytes | `frames` are what was sent, `arrived` and `taken` the positions in the stream that the network and the parser have reached, `need` is what it awaits, `dispatched` the texts it handed on, as places in the stream. A byte of a text is chosen where it is read as part of a size: anything, but not 0 in a JSON text |
| `ClientSession` | `STMPSessionManager`, `STMPClient` and the windows, against the server that `SessionContract` describes | `writer`, `connected`, `hears`, `pings` are `ConnectionManager`'s attributes and loops, `state`, `stored`, `attempt` the session manager's; `at` and `sent` say where each coroutine waits and for what (`seen`: a copy of the request is in the server's history), `screen` what the user sees; `proto` is the server's loop of each connection |
| `SessionServerProofs`, `ConnectionTableProofs`, `RequestGuardProofs`, `TasksProofs`, `AccountsProofs`, `ClientConnectionProofs`, `FrameParserProofs`, `ClientSessionProofs` | theorems | |
| `MCSessionServer`, `MCConnectionTable`, `MCTasks` | instances for TLC, with their symmetry sets | |

How they fit together. `SessionServer` implements `SessionContract` (checked and
proved), and `RequestGuard` implements `RequestContract`, behind handlers that
take effect or not, refuse, raise or lose an acknowledgement (`Tasks` too). A
handler that fails answers an error, except `handle_bye`, so the contract's
`Report` leaves out the requests in `byes`. `ClientSession` uses that contract for its server, so what it shows of
a client rests on what was proved of the server. `ClientSession` in turn takes
from `ClientConnection` that a call ends with the answer to its own request or
raises. `Tasks` and `Accounts` extend `RequestGuard` and `RateLimiter`: each of
their steps is a step of the module they extend, which is a theorem
(`GuardBehindTasks`, `LimiterBehindLogins`).

One action is one uninterrupted stretch of the process. Where such a stretch
contains several transactions, the action has a disjunct for each place where
the database or the process can fail; the constant `Faults` selects which
failures happen. In `RequestGuard` the transactions are actions of their own,
because there another process (maintenance), the clock and a crash can come
between them. In `ClientSession` an action is what a coroutine does between two
awaits.

Operators marked `\* mutant:` are deliberate mistakes and part of no
specification: each replaces the definition after it in a check that a
property can fail.

## Runs

| run | bounds | shows |
|---|---|---|
| `sessions` | 2 connections, 2 addresses, 2 tokens, lifetime 3, window 1, clock to 4, all failures | `Inv`, `SingleHolder`, `HeldIsBound`; the refinement `ImplementsContract`; `LogoutIsFinal` |
| `sessions_live` | one address, clock to 2, no symmetry | `VanishedIsClosed` |
| `sessions_dropped` (violation) | only exceptions out of `dispatch` | `DroppedIsResumable` fails |
| `table` | 4 connections, 2 addresses, limits 3 and 2 | `Inv`, `WithinLimits` |
| `table_refusal` (violation) | 3 connections, 1 address | `RefusedOnlyAtLimit` fails |
| `requests` | 2 frames of one session, 2 users, 2 tasks, tolerance 1, TTL 4, stall 1, clock to 4, all failures | `Inv`, `AtMostOnce`, `RecordedSuccessIsReal` of the guard; the refinement `OneChance`; `TaskInv`, `OneTaskPerCreate`, `NothingComesBack`, `OwnersOnly` |
| `logins` | 1 scope, 1 account, 2 per second, 3 per minute of 3, 2 violations within 2, ban 2, 2 guesses, lock 2, clock to 7 | `LimiterInv`, `WindowsHold`, `ViolationsBounded`, `AccountsInv`, `GuessesBounded` |
| `frames` | 3 frames, 2 values of a byte, sizes to 4, announced 0, 4, 6 or 8 | `ParserInv`, `Genuine`, `InStep`; `StalledReadEnds` |
| `client` | 1 call, 2 pings, 2 attempts, 2 ping failures, 1 reconnection | `Inv`, `AnswersAreOwn`, `DuplicateIsLast`, `CallsEnd` |
| `client_pings` (violation) | 1 ping, 1 attempt | `GivesUpOnSilence` fails |
| `client_raises` (violation) | 1 call, 3 attempts | `RaisesWithoutAnswer` fails |
| `client_session` | 1 window call, 2 tokens, 2 connections at a time, 2 attempts, 2 opened, 1 unexplained failure | `ClientInv`, `ConnectedIsHeard`, `AgreesWhenQuiet`, `ReconnectionEnds`, `SilentLossNoticed`, `WipedWriterNoticed`, `LoggedOutStaysOut` |

Why these bounds are enough to be interesting. Two connections and two tokens
let a connection resume a session while it holds another one, and two loops
compete for one token; the clock passes the resume window and the lifetime of a
session, so late resumes, late disconnect marks and cleanup all happen. In
`table` both limits are reached, in either order. In `requests` the TTL is the
smallest the assumption allows; a frame that is stamped one tick ahead is
registered at 0, its last copy reaches the duplicate check at 3, one tick before
its row expires, and the clock runs to that expiry at 4, when the row no longer
counts and may be cleaned up; one session is enough because sessions share no
row of the history. Each of the two frames may be a `BYE` or ask for a task, and
the tasks that exist at the start may be the other user's. In `logins` the windows, bans and locks
have different lengths and the clock passes two bans and two locks. In `frames`
two values of a byte are enough for a text to hold any size, acceptable or not;
the largest size is the square of the base, as in the code, where it is 65536;
of the two sizes above it one leaves the parser two bytes ahead and one back in
step, and the three frames are one that is refused, one that is misread and one
that is swallowed. In `client` the two pings overlap the call; one attempt less
than the code's three suffices because each attempt but the last is alike. In
`client_session` the one unexplained failure starts everything (a break, a call
that raises, a keep-alive loop that gives up); the two connections opened after
it let the reconnection and the re-login dialog each have one, which is where
they get in each other's way. A refused `HELLO` or `BYE` counts as that failure
too; on a second connection, which only a failure opens, a refused `HELLO` is
beyond the bound, and there `connect()` is seen to close its connection after an
answer out of place. Refused resumes, lost acknowledgements and 301s are free. The
theorems remove the bounds for everything but the liveness properties.

Deadlock is checked, except in `client*`, `client_session`, `logins` and
`frames`: their ids, connections, clock or frames are used up, and a client with
nothing left to send and no connection does stop.

## Fairness

`SessionServer!Fairness` has two parts per connection. `WF(IdleTimeout)`:
`asyncio.wait_for(..., IDLE_TIMEOUT)` fires while no frame arrives. `WF(Sent \/
SendFails)`: `writer.drain()` returns or raises. The second one is an assumption
on TCP, since the code puts no timeout on `drain`: a peer that accepts no bytes
and keeps its connection alive would hold a loop. Nothing is assumed of clients,
of the clock, of the network's error reports, or of an operator who runs cleanup.

`ClientConnection!Fairness` is weak fairness of one call's own progress: the
event loop runs a call whose future is done, and the timers of `wait_for` and
`sleep` fire. Nothing is assumed of the server or the network.

`ClientSession!Fairness`: the coroutines of the client go on (`ReconnectStep`,
`DisconnectStep`, `ClickStep`), some listening loop that saw the end of its stream goes on to report it, and each
of the server's loops goes on: it answers a request it received, or closes a
connection that is lost or that the client no longer writes to (`IDLE_TIMEOUT`); `IdleTimeout`, which any request puts off, only while no
request can be answered or the user has logged out. Nothing is assumed of the
user, of failures, or of the keep-alive loop.

`FrameParser!Spec`: bytes that have arrived are read, and `FRAME_TIMEOUT` fires
for a size or a text that has begun. Bytes need not arrive.

## What is proved

All theorems are about the specification with every finite or infinite set of
connections, addresses, tokens and requests (`ConnectionTable`: finitely many
connections), every duration, and every set of failures.

* `SessionServerProofs`: `Inv` is inductive (`Invariance`), hence
  `OneHolderPerToken` and `HolderIsBound`. `SingleHolder` alone is not
  inductive. The argument is `HeldNotResumable`: the row of a token that some
  loop still has carries no resume window, because a login creates the row
  without one, a resume clears it, and only the loop that has the token opens
  it, in the step in which it ends. So `RESUME_SESSION` cannot find a held token.
* `SessionServerProofs`, second part: `ContractImplemented`. The phase of a token is
  computed from the loops, the row and the clock; one lemma per kind of step
  shows which contract step it is. `LogoutEndsToken` does not rest on the row
  being revoked: without a window the token cannot be resumed either.
* `ConnectionTableProofs`: `CountsExplained` is the invariant; the counter of an
  address is never below its registered connections, which gives `LimitsHold`
  although counters may be too high.
* `RequestGuardProofs`: a frame that passes the timestamp check does so within
  the tolerance of its timestamp, so its row expires after `Horizon`, the last
  instant at which another copy may reach the duplicate check (`Covered`); until
  then the row cannot be cleaned up either. This is where
  `TTL > 2 * Tolerance + MaxStall` is needed. The code's values are 300 s and
  30 s, which leaves 240 s for `MaxStall`; `get_connection` gives up after 5.
  The same argument gives `ContractImplemented`: whoever passes the duplicate
  check is new to `tried` (`FreshRegistration`), so a request is `open` once, and
  one that was refused or cut off is dead for good (`OneChance`).
  `SuccessIsReal` needs that a handler that fails answers an error; `handle_bye`
  answers `BYE` whatever `logout_user` returns, so rows of `byes` are exempt.
  `AtMostOnce` and the rest hold of them too.
* `TasksProofs`: a step of the tasks is a step of the guard, so the guard's
  invariant carries over (`GuardBehindTasks`). A handler that commits finds that
  its request took no effect before, while every request the table names took
  one (`Accounted`): so it is a new name, which gives `OneTask` and `NoLateWrite`.
  The guard's contract holds of the tasks too (`TasksHaveOneChance`).
* `AccountsProofs`, first part, about `RateLimiter`: a deque keeps everything that is not yet old, so a
  request too many would find its predecessors in it (`WindowGrows`); a scope
  with all its violations is blocked until the last of them is too old
  (`BlockedSince`). This is where `ViolationWindow <= Ban` is needed; the code's
  values are 120 s and 180 s.
* `AccountsProofs`, second part: the guesses since the last lock are as many as the row
  counts, and the first of them came when the lock was over
  (`CountedSinceLock`); hence any `MaxFailed + 1` guesses span a lock
  (`BoundedGuesses`). The limiter's theorems hold of it too.
* `ClientConnectionProofs`: besides the bookkeeping of futures and loops, what is
  under way for a call is in order: an answer to its own request first, then
  refusals of its copies. `AnswersAreOwn` and `DuplicateIsLast` follow, for any
  number of calls, pings, attempts and reconnections.

* `FrameParserProofs`: nothing is assumed of the bytes of a text, but that JSON
  has no byte 0. The frames partition the stream (`Stream`), and while the parser
  is in step its position tells what it awaits (`Aligned`). A frame that is
  refused for its size leaves its text unread. If that is JSON, four of its bytes
  are never an acceptable size, as the first of them is not 0 and the maximum is
  below 2^24, so sizes are refused until the text is used up, and behind a text
  whose length is a multiple of four the parser is in step again. So only a
  refused text that is no JSON, or whose length is no multiple of four, is
  `Harmful`; up to the first one every message is dispatched and nothing else is
  (`InStep`, `StaysInStep`). Behind it any bytes may be dispatched that pass for a
  message. What still holds is `Genuine` (`DispatchesWhatWasSent`): order, no byte
  twice, and a dispatched text was sent as a message unless its size was found
  within a frame that `build_frame` did not make. A size that is found late but in a
  frame of `build_frame` is found in the last bytes of its header, so what it
  announces begins within `{"type": ...` and is no JSON (`Origin`).
* `ClientSessionProofs`: `ClientInv` is inductive (`ClientInvariance`).
  `AgreesWhenQuiet` only speaks of a client at rest, so it needs a statement about
  every state in between: `DoubtIsSettled`. If the client believes in its session
  while the server's loop waits for `HELLO` or `LOGIN`, then something is there
  that will settle it: a listening loop that has failed and will close this
  connection, or a call whose answer comes on this very connection, and gives the
  session up or gets it back. Each step either removes the doubt or leaves what
  settles it. This rests on `CallsKnown`: the requests under way on a connection
  are those of calls that wait for their answer there, each once; so an answer
  reaches the call that asked, and nobody else changes where it waits.
  `ConnectedIsHeard` says that some listening loop reads the connection, or has
  failed and will notice, even where `close_sockets` of another coroutine
  dropped the writer.

Assumptions beyond the code: the wall clock does not run backwards; tokens,
request ids and task ids are never generated twice (`secrets.token_urlsafe`,
`uuid4`, `gen_random_uuid`); one server process at a time; a transaction is
atomic and isolated.

Assumptions on the constants that the models themselves need: names of
different kinds differ, `None` is no name, and the client has at least one
connection to begin with (`Conns # {}` in `ClientSession`).

Only model-checked, because fairness and `ENABLED` are beyond this prover: the
liveness properties `VanishedIsClosed`, `CallsEnd`, `StalledReadEnds`,
`ReconnectionEnds`, `SilentLossNoticed`, `WipedWriterNoticed` and
`LoggedOutStaysOut`. The four violations are counterexamples, found by TLC.

## Findings

* **A dispatch that raises strands the session** (`sessions_dropped`). A handler
  that meets a payload field of the wrong type (a number as a task title), or a
  failing `get_connection`, raises through `_client_loop`; `handle_client`
  closes the connection and nothing marks the session, which then cannot be
  resumed. The same property also fails where an `ACTIVE` connection resumes
  another session: the first one is given up without a window.
* **Lost connections are never uncounted** (`table_refusal`). After
  `connection_lost` the transport has no `peername`, and `_unregister_connection`
  decrements the key `"?"`. After five connections dropped by their clients an
  address is refused although it has none, until the server is restarted.
  `CountsExplained` shows that this is the only drift.
* **A PONG does not reach the call that sent PING** (`client_pings`).
* **An answer that arrives during the pause before a retransmission is lost**
  (`client_raises`). The trace logs in, has a request carried out and answered,
  drops the answer, is told 301 for the copy, and raises. `DuplicateIsLast` shows the consequence: once a call is
  told 301 no other answer is on its way, so waiting again cannot help.

Seen while modelling, represented in the models, and without a run:

* `GiveUp`: `close_sockets` cancels the keep-alive task that is running it, so
  `on_unexpected_disconnect` is not scheduled (`connection.py:195-198`).
* `REFRESH_TOKEN` is allowed by the state table but has no handler; its history
  row never gets a code.
* A request whose dispatch died after `register_request` is answered 301 until
  its row expires, although it never took effect.
* A retransmission can use a new connection before `RESUME_SESSION` is answered,
  and is then refused with 101.
* The stream after a frame that is too large is out of step, although
  `server.py:175` means to wait for the next message: the text was not read, and
  its bytes are taken for sizes. `InStep` says that this is the only way, and
  that it is harmless where the text is JSON and its length a multiple of four. A
  text of another program may hold a size and a message, which is dispatched.
* The history row of a `BYE` records success although the logout may have been
  rolled back (`router.py:120-123` and `:267-268`). The token is ended even so
  (`LogoutIsFinal`).
* An `ERROR` of the parser carries no `request_id`, so it wakes no call.
* The re-login dialog opens while a reconnection still runs. If that one
  resumes the session, the dialog's `LOGIN` is answered 201 and the dialog stays.
* `connect()` answers `True` at once where `is_connected` is set, also when the
  writer was dropped; the login that follows raises (`WipedWriterNoticed` shows
  that this passes).
* A window that gives up after its timeout leaves its call running: a later
  `LOGIN_OK` makes the session active behind the form, and a task may be created
  that was reported as failed.
* A `LOGIN` of the dialog that is sent while the reconnection waits for its
  `HELLO_OK` is served before `RESUME_SESSION`: the server gives the new session
  up for the old one, and the client keeps the new token. It works on, as the
  loop uses its own token, until the next drop, when it resumes a session that
  has ended. `AgreesWhenQuiet` is about the loop's state and not the token, for
  this reason.
* Logout while a reconnection runs leaves the old client connected, with a
  session it resumed, until its idle timer (`LoggedOutStaysOut`).
* A 203 for another user's task makes the client drop its own session
  (`client.py:107-111`).
* The scope of a request is the session of the connection it arrives on
  (`router.py:50-53`). A frame that is retransmitted after a re-login is another
  request to the guard, and may take effect twice; `AtMostOnce` and the
  properties of `Tasks` are stated per session.
* A task may be written in a session that expired between the two transactions
  of its handler (`task_service.py:38`).

## Not modelled

* Forms, lists and layout of the windows, and the launcher: they keep no
  protocol state of their own. When the windows start a call, and give up on
  one, is in `ClientSession`.
* TLS, certificates, password hashing and token generation: libraries. A
  password is right or wrong, a token is one no other login returned.
* Which field of a message is wrong and with which code it is refused: pure
  checks, which change no state. A message passes them or does not.
* The audit log: written, never read. Logging, scripts and configuration.
* PostgreSQL itself, of which the services use atomic transactions.
* The client's choice of a local address, and with it a resume that is refused
  because the address changed: `SessionServer` has addresses, `ClientSession` has
  none.

## Plan

Done: all modules, and proofs of every safety and action property a passing run
checks.

Left:

1. A composition of the client's retransmission with `Tasks` over several
   sessions of one user, to state what a re-login does to `OneChance`.
2. The client's local addresses in `ClientSession`, so that a resume can be
   refused for an address that changed.
3. Safety lemmas behind the liveness properties (what decreases while a call or
   a reconnection goes on), as far as they can be stated without fairness.
