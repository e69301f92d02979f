------------------------------ MODULE Accounts ------------------------------
(***************************************************************************)
(* Registration, login and the lockout of an account (auth_service.py,     *)
(* user_repository.py), behind the rate limiter.                           *)
(*                                                                         *)
(* dispatch is not interrupted: the limiter is asked, then one transaction *)
(* on the table users.  login_user reads its clock before it connects to   *)
(* the database, but nothing else runs meanwhile: to wait for a connection *)
(* is to take longer afterwards.  The transaction may be rolled back       *)
(* (answered 500), or take effect although its commit is answered 500.     *)
(* Abstracted: names and passwords, of which only matters whether they     *)
(* exist and are right; the session that a login opens (SessionServer);    *)
(* the duplicate guard (RequestGuard).                                     *)
(***************************************************************************)
EXTENDS RateLimiter

CONSTANTS
    Users,        \* user names
    MaxFailed,    \* MAX_FAILED_LOGINS
    LockTime      \* LOCK_TIME_MINUTES

Rows == [failed : Nat, locked : Nat \cup {None}]

ASSUME LockAssumption == MaxFailed \in Nat \ {0} /\ LockTime \in Nat
ASSUME RowAssumption == None \notin Rows

VARIABLES
    users,    \* table users: name -> row or None
    guesses   \* history: when wrong passwords were tried since the last right one

vars == <<limiterVars, users, guesses>>

TypeOK == /\ LimiterTypeOK
          /\ users \in [Users -> Rows \cup {None}]
          /\ guesses \in [Users -> Seq(Nat)]

Init == /\ LimiterInit
        /\ users = [u \in Users |-> None]
        /\ guesses = [u \in Users |-> <<>>]

-----------------------------------------------------------------------------

\* register_user: 204 for a name that exists, whatever the password.
Register(u) == /\ users' = IF users[u] = None
                           THEN [users EXCEPT ![u] = [failed |-> 0, locked |-> None]]
                           ELSE users
               /\ UNCHANGED guesses

Locked(u) == users[u] # None /\ users[u].locked # None /\ users[u].locked > now

WrongKeepsLock(u) ==            \* mutant: the row is locked only if it never was
    LET f == users[u].failed + 1 IN
    /\ users' = [users EXCEPT ![u] =
          IF f >= MaxFailed
          THEN [failed |-> 0, locked |-> IF @.locked = None THEN now + LockTime ELSE @.locked]
          ELSE [failed |-> f, locked |-> @.locked]]
    /\ guesses' = [guesses EXCEPT ![u] = Append(@, now)]
\* A wrong password: the last one allowed locks the account and the count restarts.
Wrong(u) ==
    LET f == users[u].failed + 1 IN
    /\ users' = [users EXCEPT ![u] = IF f >= MaxFailed
                                     THEN [failed |-> 0, locked |-> now + LockTime]
                                     ELSE [failed |-> f, locked |-> None]]
    /\ guesses' = [guesses EXCEPT ![u] = Append(@, now)]

RightKeepsCount(u) ==           \* mutant: a success does not reset the count
    /\ UNCHANGED users
    /\ guesses' = [guesses EXCEPT ![u] = <<>>]
\* The right one: reset_failed_logins.
Right(u) == /\ users' = [users EXCEPT ![u] = [failed |-> 0, locked |-> None]]
            /\ guesses' = [guesses EXCEPT ![u] = <<>>]

\* login_user: 200 for an unknown name, 203 while the account is locked.
Login(u) == \/ (users[u] = None \/ Locked(u)) /\ UNCHANGED <<users, guesses>>
            \/ users[u] # None /\ ~Locked(u) /\ (Wrong(u) \/ Right(u))

\* The transaction is rolled back, or the request is of another kind.
NoAccountChanged == UNCHANGED <<users, guesses>>

\* A request that the limiter passes reaches its handler.
Request(s) == \/ Pass(s) /\ (NoAccountChanged \/ \E u \in Users : Register(u) \/ Login(u))
              \/ Refuse(s) /\ NoAccountChanged

Next == \/ \E s \in Scopes : Request(s) /\ UNCHANGED now
        \/ Tick /\ NoAccountChanged

Spec == Init /\ [][Next]_vars

-----------------------------------------------------------------------------
(* Properties. *)

\* Until the right password is given, at most MaxFailed wrong ones are tried on an
\* account within the time of a lock, from however many addresses: the count
\* that restarts at each lock, and the lock that a later failure overwrites with
\* NULL, never let one more through.
GuessesBounded == \A u \in Users : AtMost(MaxFailed, guesses[u], LockTime)

\* Why: the guesses since the last lock are as many as the row counts, and the first
\* of them came when the lock was over.
CountedSinceLock(row, times) ==
    LET n == Len(times)
        f == row.failed
    IN /\ f < MaxFailed /\ f <= n
       /\ n > f /\ f = 0 => row.locked # None /\ row.locked = times[n] + LockTime
       /\ n > f /\ f > 0 => times[n - f + 1] - times[n - f] >= LockTime

\* A row and the guesses on its account.
Explains(row, times) ==
    /\ IF row = None THEN times = <<>> ELSE CountedSinceLock(row, times)
    /\ InOrder(times) /\ \A i \in 1 .. Len(times) : times[i] <= now
    /\ AtMost(MaxFailed, times, LockTime)

\* The inductive invariant, besides LimiterInv.
AccountsInv == /\ TypeOK
               /\ \A u \in Users : Explains(users[u], guesses[u])
=============================================================================
