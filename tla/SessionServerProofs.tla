------------------------- MODULE SessionServerProofs -------------------------
(***************************************************************************)
(* Proofs about SessionServer for every set of connections, addresses and  *)
(* tokens, every lifetime and window, and every set of faults: the         *)
(* inductive invariant, and from it that SessionServer implements          *)
(* SessionContract.  Every step of the server opens, wastes, suspends,     *)
(* reclaims or ends tokens of the contract, or leaves them alone.          *)
(***************************************************************************)
EXTENDS SessionServer, TLAPS

Rows == [Tokens -> SessionRow \cup {None}]

\* None is not a row, so a table entry is one or the other.
LEMMA NoneIsNoRow == None \notin SessionRow \cup Tokens \cup IPs \cup Conns
  BY NoneAssumption

-----------------------------------------------------------------------------
(* What the transactions do to the table. *)

LEMMA CreateEffect ==
  ASSUME TypeOK, NEW t \in Tokens, NEW ip \in IPs, CreateSession(t, ip)
  PROVE  /\ sessions' \in Rows
         /\ sessions'[t] # None /\ sessions'[t].resume = None /\ sessions'[t].ip = ip
         /\ \A u \in Tokens : u # t => sessions'[u] = sessions[u]
  <1>1. now + Lifetime \in Nat
    BY TimesAssumption DEF TypeOK
  <1>2. [ip |-> ip, expires |-> now + Lifetime, resume |-> None, revoked |-> FALSE]
           \in SessionRow
    BY <1>1 DEF SessionRow
  <1> QED
    BY <1>2, NoneIsNoRow DEF CreateSession, TypeOK, Rows

LEMMA RevokeEffect ==
  ASSUME TypeOK, NEW t \in Tokens, RevokeSession(t)
  PROVE  /\ sessions' \in Rows
         /\ \A u \in Tokens : /\ sessions'[u] = None <=> sessions[u] = None
                              /\ sessions[u] # None =>
                                   /\ sessions'[u].ip = sessions[u].ip
                                   /\ sessions'[u].resume = sessions[u].resume
  <1>1. CASE sessions[t] = None
    BY <1>1, NoneIsNoRow DEF RevokeSession, TypeOK, Rows
  <1>2. CASE sessions[t] # None
    <2>1. sessions[t] \in SessionRow
      BY <1>2 DEF TypeOK
    <2>2. sessions' = [sessions EXCEPT ![t] = [sessions[t] EXCEPT !.revoked = TRUE]]
      BY <1>2 DEF RevokeSession
    <2>3. [sessions[t] EXCEPT !.revoked = TRUE] \in SessionRow
      BY <2>1 DEF SessionRow
    <2> QED
      BY <2>1, <2>2, <2>3, NoneIsNoRow DEF TypeOK, Rows, SessionRow
  <1> QED
    BY <1>1, <1>2

LEMMA ResumeEffect ==
  ASSUME TypeOK, NEW t \in Tokens, NEW ip \in IPs, sessions[t] # None,
         ResumeSessionRecord(t, ip)
  PROVE  /\ sessions' \in Rows
         /\ sessions'[t] # None /\ sessions'[t].resume = None /\ sessions'[t].ip = ip
         /\ \A u \in Tokens : u # t => sessions'[u] = sessions[u]
  <1> DEFINE row == [sessions[t] EXCEPT !.resume = None, !.ip = ip]
  <1>1. sessions[t] \in SessionRow
    BY DEF TypeOK
  <1>2. sessions' = [sessions EXCEPT ![t] = row]
    BY DEF ResumeSessionRecord, TypeOK
  <1>3. row \in SessionRow /\ row.resume = None /\ row.ip = ip
    BY <1>1 DEF SessionRow
  <1> QED
    BY <1>2, <1>3, NoneIsNoRow DEF TypeOK, Rows

LEMMA MarkEffect ==
  ASSUME TypeOK, NEW t \in Tokens, MarkSessionAsDisconnected(t)
  PROVE  /\ sessions' \in Rows
         /\ \A u \in Tokens : /\ sessions'[u] = None <=> sessions[u] = None
                              /\ sessions[u] # None => sessions'[u].ip = sessions[u].ip
                              /\ u # t => sessions'[u] = sessions[u]
  <1>1. CASE Usable(t) /\ sessions' = [sessions EXCEPT ![t].resume = now + ResumeWindow]
    <2> DEFINE row == [sessions[t] EXCEPT !.resume = now + ResumeWindow]
    <2>1. sessions[t] \in SessionRow
      BY <1>1 DEF TypeOK, Usable
    <2>2. sessions' = [sessions EXCEPT ![t] = row]
      BY <1>1
    <2>3. now + ResumeWindow \in Nat
      BY TimesAssumption DEF TypeOK
    <2>4. row \in SessionRow /\ row.ip = sessions[t].ip
      BY <2>1, <2>3 DEF SessionRow
    <2> HIDE DEF row
    <2> QED
      BY <1>1, <2>1, <2>2, <2>4, NoneIsNoRow DEF TypeOK, Rows
  <1>2. CASE UNCHANGED sessions
    BY <1>2, NoneIsNoRow DEF TypeOK, Rows
  <1> QED
    BY <1>1, <1>2 DEF MarkSessionAsDisconnected

-----------------------------------------------------------------------------
(* The inductive invariant. *)

THEOREM InitInv == Init => Inv
  <1> SUFFICES ASSUME Init PROVE Inv
    OBVIOUS
  <1>1. TypeOK
    BY TimesAssumption DEF Init, TypeOK, ConnectionState
  <1>2. LoopShape /\ UniqueToken /\ HeldNotResumable /\ TokenIsBound /\ UnissuedHasNoRow
    BY DEF Init, LoopShape, UniqueToken, HeldNotResumable, TokenIsBound, UnissuedHasNoRow
  <1> QED
    BY <1>1, <1>2 DEF Inv

\* The table stays well formed: tokens are only added, rows only for them.
TableStep == /\ now' \in 0 .. MaxTime
             /\ sessions' \in Rows
             /\ issued \subseteq issued' /\ issued' \subseteq Tokens
             /\ \A u \in Tokens : sessions'[u] # None => u \in issued'

\* What a step leaves alone in the rows of the tokens that the loops of D have.
RowsKept(D) ==
    \A d \in D : token[d] # None /\ sessions'[token[d]] # None =>
        /\ sessions[token[d]] # None
        /\ sessions'[token[d]].ip = sessions[token[d]].ip
        /\ sessions'[token[d]].resume = sessions[token[d]].resume

\* A step of c that leaves its token alone.
LEMMA ReplyKeepsToken ==
  ASSUME Inv, NEW c \in Conns, NEW s \in ConnectionState \ {"CLOSED"},
         Reading(c), s \in {"ACTIVE", "DISCONNECTED"} <=> token[c] # None,
         Reply(c, s, token[c]), TableStep, RowsKept(Conns)
  PROVE  Inv'
  <1> USE DEF Inv, Reply, Reading, TableStep
  <1>1. token' = token
    BY DEF TypeOK
  <1>2. TypeOK'
    BY <1>1 DEF TypeOK, Rows
  <1>3. LoopShape'
    BY <1>1 DEF TypeOK, LoopShape
  <1>4. UniqueToken'
    BY <1>1 DEF UniqueToken
  <1>5. HeldNotResumable'
    BY <1>1 DEF HeldNotResumable, TypeOK, RowsKept
  <1>6. TokenIsBound'
    BY <1>1 DEF TokenIsBound, TypeOK, RowsKept
  <1>7. UnissuedHasNoRow'
    BY DEF UnissuedHasNoRow
  <1> QED
    BY <1>2, <1>3, <1>4, <1>5, <1>6, <1>7

\* A step of c that takes over token t, which no loop has.
LEMMA ReplyTakesToken ==
  ASSUME Inv, NEW c \in Conns, NEW t \in Tokens,
         Reading(c), state[c] # "CONNECTED", \A d \in Conns : token[d] # t,
         Reply(c, "ACTIVE", t), TableStep, RowsKept(Conns),
         t \in issued', sessions'[t].resume = None, sessions'[t].ip = peer[c]
  PROVE  Inv'
  <1> USE DEF Inv, Reply, Reading, TableStep
  <1>1. TypeOK'
    BY DEF TypeOK, Rows, ConnectionState
  <1>2. LoopShape'
    BY NoneIsNoRow DEF TypeOK, LoopShape
  <1>3. UniqueToken'
    BY DEF UniqueToken, TypeOK
  <1>4. HeldNotResumable'
    BY NoneIsNoRow DEF HeldNotResumable, TypeOK, RowsKept
  <1>5. TokenIsBound'
    BY NoneIsNoRow DEF TokenIsBound, TypeOK, RowsKept
  <1>6. UnissuedHasNoRow'
    BY DEF UnissuedHasNoRow
  <1> QED
    BY <1>1, <1>2, <1>3, <1>4, <1>5, <1>6

\* The end of c's loop; the row of its own token may change.
LEMMA CloseKeepsInv ==
  ASSUME Inv, NEW c \in Conns, Close(c), TableStep, RowsKept(Conns \ {c})
  PROVE  Inv'
  <1> USE DEF Inv, Close, TableStep
  <1>1. TypeOK'
    BY DEF TypeOK, Rows, ConnectionState
  <1>2. LoopShape'
    BY DEF TypeOK, LoopShape
  <1>3. UniqueToken'
    BY DEF UniqueToken, TypeOK
  <1>4. HeldNotResumable'
    BY NoneIsNoRow DEF HeldNotResumable, TypeOK, RowsKept
  <1>5. TokenIsBound'
    BY NoneIsNoRow DEF TokenIsBound, TypeOK, RowsKept
  <1>6. UnissuedHasNoRow'
    BY DEF UnissuedHasNoRow
  <1> QED
    BY <1>1, <1>2, <1>3, <1>4, <1>5, <1>6

-----------------------------------------------------------------------------
(* One lemma per action. *)

\* A step that leaves the table alone is a table step that keeps the rows.
LEMMA NoTableStep ==
  ASSUME Inv, UNCHANGED <<now, sessions, issued>>
  PROVE  TableStep /\ \A D \in SUBSET Conns : RowsKept(D)
  BY DEF Inv, TypeOK, Rows, TableStep, RowsKept, UnissuedHasNoRow

LEMMA AcceptInv == ASSUME Inv, NEW c \in Conns, Accept(c) PROVE Inv'
  <1> USE DEF Inv, Accept
  <1>1. TypeOK'
    BY DEF TypeOK, ConnectionState
  <1>2. LoopShape'
    BY NoneIsNoRow DEF TypeOK, LoopShape
  <1>3. UniqueToken' /\ HeldNotResumable' /\ UnissuedHasNoRow'
    BY DEF UniqueToken, HeldNotResumable, UnissuedHasNoRow
  <1>4. token[c] = None
    BY DEF LoopShape
  <1>5. TokenIsBound'
    BY <1>4 DEF TokenIsBound, TypeOK
  <1> QED
    BY <1>1, <1>2, <1>3, <1>5

LEMMA LoginInv == ASSUME Inv, NEW c \in Conns, Login(c) PROVE Inv'
  <1> PICK t \in Tokens \ issued : /\ issued' = issued \cup {t}
                                   /\ CreateSession(t, peer[c])
                                   /\ Reply(c, "ACTIVE", t) \/ ReplyLost(c)
    BY DEF Login
  <1>1. peer[c] \in IPs /\ token[c] = None /\ Reading(c) /\ state[c] = "AUTHENTICATED"
        /\ now' = now
    BY DEF Inv, Login, TypeOK, LoopShape, Receives
  <1>2. \A d \in Conns : token[d] # t
    BY NoneIsNoRow DEF Inv, HeldNotResumable
  <1>3. /\ sessions' \in Rows
        /\ sessions'[t] # None /\ sessions'[t].resume = None /\ sessions'[t].ip = peer[c]
        /\ \A u \in Tokens : u # t => sessions'[u] = sessions[u]
    BY <1>1, CreateEffect DEF Inv
  <1>4. TableStep
    BY <1>1, <1>3 DEF Inv, TypeOK, TableStep, UnissuedHasNoRow
  <1>5. \A D \in SUBSET Conns : RowsKept(D)
    BY <1>2, <1>3 DEF Inv, TypeOK, RowsKept
  <1>6. CASE Reply(c, "ACTIVE", t)
    BY <1>1, <1>2, <1>3, <1>4, <1>5, <1>6, ReplyTakesToken
  <1>7. CASE Reply(c, state[c], token[c])
    BY <1>1, <1>4, <1>5, <1>7, ReplyKeepsToken DEF ConnectionState
  <1>8. CASE Close(c)
    BY <1>4, <1>5, <1>8, CloseKeepsInv
  <1> QED
    BY <1>6, <1>7, <1>8 DEF ReplyLost

LEMMA ResumeInv == ASSUME Inv, NEW c \in Conns, ResumeSession(c) PROVE Inv'
  <1> PICK t \in issued : /\ Resumable(t)
                          /\ ResumeSessionRecord(t, peer[c])
                          /\ Reply(c, "ACTIVE", t) \/ ReplyLost(c)
    BY DEF ResumeSession
  <1>1. /\ t \in Tokens /\ peer[c] \in IPs /\ Reading(c)
        /\ state[c] \in {"AUTHENTICATED", "ACTIVE"} /\ now' = now /\ issued' = issued
    BY DEF Inv, ResumeSession, TypeOK, LoopShape, Receives
  <1>2. \A d \in Conns : token[d] # t
    BY <1>1, NoneIsNoRow DEF Inv, HeldNotResumable, Resumable, Usable
  <1>3. /\ sessions' \in Rows
        /\ sessions'[t] # None /\ sessions'[t].resume = None /\ sessions'[t].ip = peer[c]
        /\ \A u \in Tokens : u # t => sessions'[u] = sessions[u]
    BY <1>1, ResumeEffect DEF Inv, Resumable, Usable
  <1>4. TableStep
    BY <1>1, <1>3 DEF Inv, TypeOK, TableStep, UnissuedHasNoRow
  <1>5. \A D \in SUBSET Conns : RowsKept(D)
    BY <1>2, <1>3 DEF Inv, TypeOK, RowsKept
  <1>6. CASE Reply(c, "ACTIVE", t)
    BY <1>1, <1>2, <1>3, <1>4, <1>5, <1>6, ReplyTakesToken
  <1>7. CASE Reply(c, state[c], token[c])
    BY <1>1, <1>4, <1>5, <1>7, ReplyKeepsToken DEF ConnectionState, Inv, LoopShape
  <1>8. CASE Close(c)
    BY <1>4, <1>5, <1>8, CloseKeepsInv
  <1> QED
    BY <1>6, <1>7, <1>8 DEF ReplyLost

LEMMA ByeInv == ASSUME Inv, NEW c \in Conns, Bye(c) PROVE Inv'
  <1>1. /\ token[c] \in Tokens /\ token[c] # None /\ Reading(c)
        /\ now' = now /\ issued' = issued
    BY DEF Inv, Bye, TypeOK, LoopShape, Receives
  <1>2. CASE UNCHANGED sessions /\ Reply(c, "DISCONNECTED", token[c])
    BY <1>1, <1>2, NoTableStep, ReplyKeepsToken DEF ConnectionState
  <1>3. CASE RevokeSession(token[c])
    <2>1. TableStep /\ \A D \in SUBSET Conns : RowsKept(D)
      BY <1>1, <1>3, RevokeEffect
         DEF Inv, TypeOK, TableStep, RowsKept, UnissuedHasNoRow
    <2>2. CASE Reply(c, "DISCONNECTED", token[c])
      BY <1>1, <2>1, <2>2, ReplyKeepsToken DEF ConnectionState
    <2>3. CASE Close(c)
      BY <2>1, <2>3, CloseKeepsInv
    <2> QED
      BY <1>1, <1>2, <1>3, <2>2, <2>3 DEF Bye
  <1> QED
    BY <1>2, <1>3 DEF Bye

\* Lost, SendFails and IdleTimeout: c's loop ends and its token may be marked.
LEMMA MarkAndCloseInv ==
  ASSUME Inv, NEW c \in Conns, Close(c), UNCHANGED <<now, issued>>,
         \/ UNCHANGED sessions
         \/ token[c] # None /\ MarkSessionAsDisconnected(token[c])
  PROVE  Inv'
  <1>1. CASE UNCHANGED sessions
    BY <1>1, NoTableStep, CloseKeepsInv
  <1>2. CASE token[c] # None /\ MarkSessionAsDisconnected(token[c])
    <2>1. token[c] \in Tokens
      BY <1>2 DEF Inv, TypeOK
    <2>2. TableStep
      BY <1>2, <2>1, MarkEffect DEF Inv, TypeOK, TableStep, UnissuedHasNoRow
    <2>3. \A d \in Conns \ {c} : token[d] # token[c]
      BY <1>2 DEF Inv, UniqueToken
    <2>4. RowsKept(Conns \ {c})
      BY <1>2, <2>1, <2>3, MarkEffect DEF Inv, TypeOK, RowsKept
    <2> QED
      BY <2>2, <2>4, CloseKeepsInv
  <1> QED
    BY <1>1, <1>2

LEMMA SentInv == ASSUME Inv, NEW c \in Conns, Sent(c) PROVE Inv'
  <1>1. CASE Close(c)
    BY <1>1, NoTableStep, CloseKeepsInv DEF Sent
  <1>2. CASE /\ state[c] # "DISCONNECTED"
             /\ replying' = [replying EXCEPT ![c] = FALSE]
             /\ UNCHANGED <<state, token, peer, gone>>
    <2> USE <1>2 DEF Sent, Inv
    <2>1. TypeOK'
      BY DEF TypeOK
    <2>2. LoopShape'
      BY DEF TypeOK, LoopShape
    <2>3. UniqueToken' /\ HeldNotResumable' /\ TokenIsBound' /\ UnissuedHasNoRow'
      BY DEF UniqueToken, HeldNotResumable, TokenIsBound, UnissuedHasNoRow
    <2> QED
      BY <2>1, <2>2, <2>3
  <1> QED
    BY <1>1, <1>2 DEF Sent

LEMMA EnvironmentInv ==
  ASSUME Inv, (\E c \in Conns : Vanish(c)) \/ Crash \/ Cleanup \/ Tick
  PROVE  Inv'
  <1> USE DEF Inv
  <1>1. ASSUME NEW c \in Conns, Vanish(c) PROVE Inv'
    <2> USE <1>1 DEF Vanish
    <2>1. TypeOK' /\ LoopShape'
      BY DEF TypeOK, LoopShape
    <2>2. UniqueToken' /\ HeldNotResumable' /\ TokenIsBound' /\ UnissuedHasNoRow'
      BY DEF UniqueToken, HeldNotResumable, TokenIsBound, UnissuedHasNoRow
    <2> QED
      BY <2>1, <2>2
  <1>2. CASE Crash
    <2> USE <1>2 DEF Crash
    <2>1. TypeOK' /\ LoopShape'
      BY DEF TypeOK, LoopShape, ConnectionState
    <2>2. UniqueToken' /\ HeldNotResumable' /\ TokenIsBound' /\ UnissuedHasNoRow'
      BY DEF UniqueToken, HeldNotResumable, TokenIsBound, UnissuedHasNoRow
    <2> QED
      BY <2>1, <2>2
  <1>3. CASE Cleanup
    <2> USE <1>3 DEF Cleanup, connVars
    <2>1. \A u \in Tokens : sessions'[u] # None => sessions'[u] = sessions[u]
      OBVIOUS
    <2>2. TypeOK'
      BY NoneIsNoRow DEF TypeOK
    <2>3. LoopShape' /\ UniqueToken'
      BY DEF LoopShape, UniqueToken
    <2>4. HeldNotResumable' /\ TokenIsBound' /\ UnissuedHasNoRow'
      BY <2>1 DEF HeldNotResumable, TokenIsBound, UnissuedHasNoRow, TypeOK
    <2> QED
      BY <2>2, <2>3, <2>4
  <1>4. CASE Tick
    <2> USE <1>4 DEF Tick, connVars
    <2>1. TypeOK'
      BY TimesAssumption DEF TypeOK
    <2>2. LoopShape' /\ UniqueToken' /\ HeldNotResumable' /\ TokenIsBound' /\ UnissuedHasNoRow'
      BY DEF LoopShape, UniqueToken, HeldNotResumable, TokenIsBound, UnissuedHasNoRow
    <2> QED
      BY <2>1, <2>2
  <1> QED
    BY <1>1, <1>2, <1>3, <1>4

-----------------------------------------------------------------------------
(* The theorems. *)

\* One step of the server keeps the invariant.
THEOREM NextInv == Inv /\ [Next]_vars => Inv'
  <1> SUFFICES ASSUME Inv, [Next]_vars PROVE Inv'
    OBVIOUS
  <1>1. ASSUME NEW c \in Conns, Accept(c) PROVE Inv'
    BY <1>1, AcceptInv
  <1>2. ASSUME NEW c \in Conns, Hello(c) PROVE Inv'
    <2>1. Reading(c) /\ token[c] = None /\ Reply(c, "AUTHENTICATED", token[c])
      BY <1>2 DEF Hello, Receives, Inv, LoopShape
    <2> QED
      BY <1>2, <2>1, NoTableStep, ReplyKeepsToken DEF Hello, ConnectionState
  <1>3. ASSUME NEW c \in Conns, Login(c) PROVE Inv'
    BY <1>3, LoginInv
  <1>4. ASSUME NEW c \in Conns, ResumeSession(c) PROVE Inv'
    BY <1>4, ResumeInv
  <1>5. ASSUME NEW c \in Conns, Bye(c) PROVE Inv'
    BY <1>5, ByeInv
  <1>6. ASSUME NEW c \in Conns, Other(c) PROVE Inv'
    <2>1. /\ Reading(c) /\ Reply(c, state[c], token[c])
          /\ state[c] \in ConnectionState \ {"CLOSED"}
          /\ state[c] \in {"ACTIVE", "DISCONNECTED"} <=> token[c] # None
      BY <1>6 DEF Other, Receives, Reading, Inv, TypeOK, LoopShape
    <2> QED
      BY <1>6, <2>1, NoTableStep, ReplyKeepsToken DEF Other
  <1>7. ASSUME NEW c \in Conns, DispatchRaises(c) PROVE Inv'
    BY <1>7, MarkAndCloseInv DEF DispatchRaises
  <1>8. ASSUME NEW c \in Conns, Sent(c) PROVE Inv'
    BY <1>8, SentInv
  <1>9. ASSUME NEW c \in Conns, SendFails(c) \/ Lost(c) PROVE Inv'
    BY <1>9, MarkAndCloseInv DEF SendFails, Lost, MarkForReconnect
  <1>10. ASSUME NEW c \in Conns, IdleTimeout(c) PROVE Inv'
    BY <1>10, MarkAndCloseInv DEF IdleTimeout
  <1>11. CASE (\E c \in Conns : Vanish(c)) \/ Crash \/ Cleanup \/ Tick
    BY <1>11, EnvironmentInv
  <1>12. CASE UNCHANGED vars
    <2> USE <1>12 DEF vars, connVars, Inv
    <2>1. TypeOK' /\ LoopShape'
      BY DEF TypeOK, LoopShape
    <2>2. UniqueToken' /\ HeldNotResumable' /\ TokenIsBound' /\ UnissuedHasNoRow'
      BY DEF UniqueToken, HeldNotResumable, TokenIsBound, UnissuedHasNoRow
    <2> QED
      BY <2>1, <2>2
  <1> QED
    BY <1>1, <1>2, <1>3, <1>4, <1>5, <1>6, <1>7, <1>8, <1>9, <1>10, <1>11, <1>12
    DEF Next, ConnStep

\* In every reachable state the loops and the rows are well formed, and the row
\* of a token that a loop still has is bound to it and carries no window.
THEOREM Invariance == Spec => []Inv
  BY InitInv, NextInv, PTL DEF Spec

\* No two loops of server.py are ever ACTIVE with the same session token.
THEOREM OneHolderPerToken == Spec => []SingleHolder
  <1>1. Inv => SingleHolder
    BY NoneIsNoRow DEF Inv, UniqueToken, SingleHolder, Holds
  <1> QED
    BY <1>1, Invariance, PTL

\* validate_session never meets a wrong address on the rightful connection.
THEOREM HolderIsBound == Spec => []HeldIsBound
  <1>1. Inv => HeldIsBound
    BY NoneIsNoRow DEF Inv, TokenIsBound, HeldIsBound, Holds
  <1> QED
    BY <1>1, Invariance, PTL

-----------------------------------------------------------------------------
(* The refinement. *)

\* What a step does to a token is one of: nothing, or it ends it.
Same(t) == PhaseOf(t)' = PhaseOf(t) /\ HolderOf(t)' = HolderOf(t)
EndsNow(t) == PhaseOf(t) \in {"held", "suspended"} /\ PhaseOf(t)' = "ended"

LEMMA HolderIsUnique ==
  ASSUME Inv, NEW c \in Conns, NEW t \in Tokens, Holds(c, t)
  PROVE  PhaseOf(t) = "held" /\ HolderOf(t) = c
  <1>1. t \in issued /\ Held(t)
    BY NoneIsNoRow DEF Inv, HeldNotResumable, Held, Holds
  <1>2. \A d \in Conns : Holds(d, t) => d = c
    BY NoneIsNoRow DEF Inv, UniqueToken, Holds
  <1> QED
    BY <1>1, <1>2 DEF PhaseOf, HolderOf

LEMMA NotHeldHasNoHolder ==
  ASSUME NEW t \in Tokens
  PROVE  /\ ~Held(t) => HolderOf(t) = None
         /\ PhaseOf(t) # "held" /\ t \in issued => HolderOf(t) = None
         /\ (~Held(t))' => HolderOf(t)' = None
         /\ PhaseOf(t) \in {"suspended", "ended"} => ~Held(t)
         /\ PhaseOf(t)' = "ended" => HolderOf(t)' = None
  BY DEF HolderOf, PhaseOf

\* A step that changes no token, or only ends tokens, is a step of the contract.
LEMMA EndStep ==
  ASSUME \A t \in Tokens : Same(t) \/ EndsNow(t)
  PROVE  [Contract!Next]_(Contract!vars)
  <1> DEFINE S == {t \in Tokens : ~Same(t)}
  <1>1. CASE S = {}
    BY <1>1 DEF Same, Contract!vars
  <1>2. CASE S # {}
    <2>1. \A t \in S : PhaseOf(t) \in {"held", "suspended"} /\ PhaseOf(t)' = "ended"
                       /\ HolderOf(t)' = None
      BY NotHeldHasNoHolder DEF EndsNow
    <2>2. \A t \in Tokens \ S : PhaseOf(t)' = PhaseOf(t) /\ HolderOf(t)' = HolderOf(t)
      BY DEF Same
    <2> HIDE DEF S
    <2>3. S \in (SUBSET Tokens) \ {{}}
      BY <1>2 DEF S
    <2>4. Contract!End(S)
      BY <2>1, <2>2, <2>3 DEF Contract!End, Contract!Ended
    <2> QED
      BY <2>3, <2>4 DEF Contract!Next
  <1> QED
    BY <1>1, <1>2

-----------------------------------------------------------------------------
(* Who holds what after a step, and what follows for a token. *)

LEMMA HolderIsUniqueNext ==
  ASSUME Inv', NEW c \in Conns, NEW t \in Tokens, Holds(c, t)'
  PROVE  PhaseOf(t)' = "held" /\ HolderOf(t)' = c
  <1>1. (t \in issued)' /\ Held(t)'
    BY NoneIsNoRow DEF Inv, HeldNotResumable, Held, Holds
  <1>2. \A d \in Conns : Holds(d, t)' => d = c
    BY NoneIsNoRow DEF Inv, UniqueToken, Holds
  <1> QED
    BY <1>1, <1>2 DEF PhaseOf, HolderOf

LEMMA ReplyHolds ==
  ASSUME Inv, NEW c \in Conns, NEW s, NEW k, Reply(c, s, k)
  PROVE  \A d \in Conns, u \in Tokens :
           Holds(d, u)' <=> IF d = c THEN s = "ACTIVE" /\ k = u ELSE Holds(d, u)
  BY DEF Inv, TypeOK, Reply, Holds

LEMMA CloseHolds ==
  ASSUME Inv, NEW c \in Conns, Close(c)
  PROVE  \A d \in Conns, u \in Tokens : Holds(d, u)' <=> d # c /\ Holds(d, u)
  BY DEF Inv, TypeOK, Close, Holds

\* A held token has no window, so it ends when it is not held any more unless
\* the step marks it.
LEMMA HeldHasNoWindow ==
  ASSUME Inv, NEW t \in Tokens, Held(t)
  PROVE  t \in issued /\ (sessions[t] # None => sessions[t].resume = None) /\ ~Resumable(t)
  BY NoneIsNoRow DEF Inv, HeldNotResumable, Held, Holds, Resumable, Usable

LEMMA SameToken ==
  ASSUME Inv, Inv', NEW t \in Tokens,
         (t \in issued)' <=> t \in issued,
         \A d \in Conns : Holds(d, t)' <=> Holds(d, t),
         Held(t) \/ (Resumable(t)' <=> Resumable(t))
  PROVE  Same(t)
  <1>1. CASE Held(t)
    <2> PICK c \in Conns : Holds(c, t)
      BY <1>1 DEF Held
    <2> QED
      BY HolderIsUnique, HolderIsUniqueNext DEF Same
  <1>2. CASE ~Held(t)
    <2>1. ~Held(t)'
      BY <1>2 DEF Held
    <2> QED
      BY <1>2, <2>1 DEF Same, PhaseOf, HolderOf
  <1> QED
    BY <1>1, <1>2

\* A token of which the step changes neither the row nor the holder.
LEMMA UntouchedToken ==
  ASSUME Inv, Inv', NEW t \in Tokens, now' = now,
         sessions'[t] = sessions[t], (t \in issued)' <=> t \in issued,
         \A d \in Conns : Holds(d, t)' <=> Holds(d, t)
  PROVE  Same(t)
  <1>1. Resumable(t)' <=> Resumable(t)
    BY DEF Resumable, Usable
  <1> QED
    BY <1>1, SameToken

\* A token that was held and is neither held nor resumable any more.
LEMMA ReleasedToken ==
  ASSUME Inv, NEW t \in Tokens, Held(t) \/ (t \in issued /\ Resumable(t)),
         issued \subseteq issued', ~Held(t)', ~Resumable(t)'
  PROVE  EndsNow(t)
  <1>1. t \in issued /\ t \in issued'
    BY HeldHasNoWindow
  <1> QED
    BY <1>1 DEF EndsNow, PhaseOf

-----------------------------------------------------------------------------
(* The steps. *)

THEOREM InitRefines == Init => Contract!Init
  <1> SUFFICES ASSUME Init PROVE Contract!Init
    OBVIOUS
  <1>1. \A t \in Tokens : PhaseOf(t) = "fresh"
    BY DEF Init, PhaseOf
  <1>2. \A t \in Tokens : ~Held(t)
    BY DEF Init, Held, Holds
  <1>3. \A t \in Tokens : HolderOf(t) = None
    BY <1>2 DEF HolderOf
  <1> QED
    BY <1>1, <1>3 DEF Contract!Init

\* A step of c that changes no row and keeps what c holds.
LEMMA QuietStep ==
  ASSUME Inv, Inv', NEW c \in Conns, UNCHANGED <<now, sessions, issued>>,
         \A d \in Conns, u \in Tokens : Holds(d, u)' <=> Holds(d, u)
  PROVE  [Contract!Next]_(Contract!vars)
  BY UntouchedToken, EndStep

\* The end of c's loop when the row of the token it had is not marked.
LEMMA UnmarkedCloseStep ==
  ASSUME Inv, Inv', NEW c \in Conns, Close(c), UNCHANGED <<now, sessions, issued>>
  PROVE  [Contract!Next]_(Contract!vars)
  <1> SUFFICES ASSUME NEW t \in Tokens PROVE Same(t) \/ EndsNow(t)
    BY EndStep
  <1>1. CASE Holds(c, t)
    <2>1. Held(t) /\ \A d \in Conns : Holds(d, t) => d = c
      BY <1>1, NoneIsNoRow DEF Held, Holds, Inv, UniqueToken
    <2>2. ~Held(t)'
      BY <2>1, CloseHolds DEF Held
    <2>3. ~Resumable(t)'
      BY <2>1, HeldHasNoWindow DEF Resumable, Usable
    <2> QED
      BY <2>1, <2>2, <2>3, ReleasedToken
  <1>2. CASE ~Holds(c, t)
    BY <1>2, CloseHolds, UntouchedToken
  <1> QED
    BY <1>1, <1>2

\* LOGIN opens the new token, or wastes it where its answer is lost.
LEMMA LoginStep ==
  ASSUME Inv, Inv', NEW c \in Conns, Login(c)
  PROVE  Contract!Next
  <1> PICK t \in Tokens \ issued : /\ issued' = issued \cup {t}
                                   /\ CreateSession(t, peer[c])
                                   /\ Reply(c, "ACTIVE", t) \/ ReplyLost(c)
    BY DEF Login
  <1>1. state[c] = "AUTHENTICATED" /\ now' = now /\ peer[c] \in IPs
    BY DEF Login, Inv, TypeOK, LoopShape
  <1>2. /\ sessions'[t].resume = None
        /\ \A u \in Tokens : u # t => sessions'[u] = sessions[u]
    BY <1>1, CreateEffect DEF Inv
  <1>3. \A d \in Conns : ~Holds(d, t)
    BY NoneIsNoRow DEF Inv, HeldNotResumable, Holds
  <1>4. \A u \in Tokens : ~Holds(c, u)
    BY <1>1 DEF Holds
  <1>5. PhaseOf(t) = "fresh" /\ HolderOf(t) = None
    BY <1>3 DEF PhaseOf, HolderOf, Held
  <1>6. CASE Reply(c, "ACTIVE", t)
    <2>1. \A u \in Tokens \ {t} : Same(u)
      BY <1>1, <1>2, <1>4, <1>6, ReplyHolds, UntouchedToken
    <2>2. PhaseOf(t)' = "held" /\ HolderOf(t)' = c
      BY <1>6, ReplyHolds, HolderIsUniqueNext
    <2>3. \A u \in Tokens : HolderOf(u) # c
      <3> SUFFICES ASSUME NEW u \in Tokens, HolderOf(u) = c PROVE FALSE
        OBVIOUS
      <3>1. Held(u)
        BY NoneIsNoRow DEF HolderOf
      <3> QED
        BY <1>4, <3>1, HolderIsUnique DEF Held
    <2>4. Contract!Open(t, c)
      BY <1>5, <2>1, <2>2, <2>3 DEF Contract!Open, Same
    <2> QED
      BY <2>4 DEF Contract!Next
  <1>7. CASE ReplyLost(c)
    <2>1. \A d \in Conns, u \in Tokens : Holds(d, u)' <=> Holds(d, u)
      BY <1>1, <1>4, <1>7, ReplyHolds, CloseHolds DEF ReplyLost
    <2>2. \A u \in Tokens \ {t} : Same(u)
      BY <1>1, <1>2, <2>1, UntouchedToken
    <2>3. ~Held(t)' /\ ~Resumable(t)' /\ (t \in issued)'
      BY <1>2, <1>3, <2>1 DEF Held, Resumable
    <2>4. PhaseOf(t)' = "ended" /\ HolderOf(t)' = None
      BY <2>3 DEF PhaseOf, HolderOf
    <2>5. Contract!Waste(t)
      BY <1>5, <2>2, <2>4 DEF Contract!Waste, Contract!Ended, Same
    <2> QED
      BY <2>5 DEF Contract!Next
  <1> QED
    BY <1>6, <1>7

\* RESUME_SESSION reclaims a suspended token, or ends it where the answer is lost.
LEMMA ResumeStep ==
  ASSUME Inv, Inv', NEW c \in Conns, ResumeSession(c)
  PROVE  [Contract!Next]_(Contract!vars)
  <1> PICK t \in issued : /\ Resumable(t)
                          /\ ResumeSessionRecord(t, peer[c])
                          /\ Reply(c, "ACTIVE", t) \/ ReplyLost(c)
    BY DEF ResumeSession
  <1>1. /\ t \in Tokens /\ peer[c] \in IPs /\ now' = now /\ issued' = issued
        /\ state[c] \in {"AUTHENTICATED", "ACTIVE"}
    BY DEF Inv, ResumeSession, TypeOK, LoopShape
  <1>2. /\ sessions'[t].resume = None
        /\ \A u \in Tokens : u # t => sessions'[u] = sessions[u]
    BY <1>1, ResumeEffect DEF Inv, Resumable, Usable
  <1>3. ~Held(t)
    BY <1>1, HeldHasNoWindow
  <1>4. PhaseOf(t) = "suspended"
    BY <1>1, <1>3 DEF PhaseOf
  <1>5. \A u \in Tokens \ {t} : ~Holds(c, u) => \A d \in Conns : Holds(d, u)' <=> Holds(d, u)
    BY ReplyHolds, CloseHolds DEF ReplyLost, Holds
  <1>6. \A u \in Tokens \ {t} : ~Holds(c, u) => Same(u)
    BY <1>1, <1>2, <1>5, UntouchedToken
  <1>7. \A u \in Tokens \ {t} : Holds(c, u) /\ ~Held(u)' => EndsNow(u)
    <2> SUFFICES ASSUME NEW u \in Tokens \ {t}, Holds(c, u), ~Held(u)' PROVE EndsNow(u)
      OBVIOUS
    <2>1. Held(u)
      BY DEF Held
    <2>2. ~Resumable(u)'
      BY <1>2, <2>1, HeldHasNoWindow DEF Resumable, Usable
    <2> QED
      BY <1>1, <2>1, <2>2, ReleasedToken
  <1>8. CASE Reply(c, "ACTIVE", t)
    <2>1. PhaseOf(t)' = "held" /\ HolderOf(t)' = c
      BY <1>1, <1>8, ReplyHolds, HolderIsUniqueNext
    <2>2. \A u \in Tokens \ {t} : Holds(c, u) => EndsNow(u) /\ HolderOf(u) = c /\ HolderOf(u)' = None
      <3> SUFFICES ASSUME NEW u \in Tokens \ {t}, Holds(c, u)
                   PROVE  EndsNow(u) /\ HolderOf(u) = c /\ HolderOf(u)' = None
        OBVIOUS
      <3>1. \A d \in Conns : Holds(d, u) => d = c
        BY NoneIsNoRow DEF Inv, UniqueToken, Holds
      <3>2. ~Held(u)'
        BY <1>8, <3>1, ReplyHolds DEF Held
      <3> QED
        BY <1>7, <3>2, HolderIsUnique DEF HolderOf
    <2>3. \A u \in Tokens \ {t} : ~Holds(c, u) => Same(u) /\ HolderOf(u) # c
      <3> SUFFICES ASSUME NEW u \in Tokens \ {t}, ~Holds(c, u), HolderOf(u) = c
                   PROVE  FALSE
        BY <1>6
      <3>1. Held(u)
        BY NoneIsNoRow DEF HolderOf
      <3> QED
        BY <3>1, HolderIsUnique DEF Held
    <2>4. Contract!Reclaim(t, c)
      BY <1>1, <1>4, <2>1, <2>2, <2>3 DEF Contract!Reclaim, Same, EndsNow
    <2> QED
      BY <1>1, <2>4 DEF Contract!Next
  <1>9. CASE ReplyLost(c)
    <2>1. ~Held(t)' /\ ~Resumable(t)'
      BY <1>1, <1>2, <1>3, <1>9, ReplyHolds, CloseHolds
      DEF Held, Resumable, ReplyLost, Holds
    <2>2. EndsNow(t)
      BY <1>1, <2>1, ReleasedToken
    <2>3. ASSUME NEW u \in Tokens \ {t}, Holds(c, u) PROVE Same(u) \/ EndsNow(u)
      <3>1. CASE Reply(c, state[c], token[c])
        <4>1. \A d \in Conns : Holds(d, u)' <=> Holds(d, u)
          BY <3>1, ReplyHolds DEF Holds
        <4> QED
          BY <1>1, <1>2, <4>1, UntouchedToken
      <3>2. CASE Close(c)
        <4>1. \A d \in Conns : Holds(d, u) => d = c
          BY <2>3, NoneIsNoRow DEF Inv, UniqueToken, Holds
        <4>2. ~Held(u)'
          BY <3>2, <4>1, CloseHolds DEF Held
        <4> QED
          BY <1>7, <2>3, <4>2
      <3> QED
        BY <1>9, <3>1, <3>2 DEF ReplyLost
    <2> QED
      BY <1>6, <2>2, <2>3, EndStep
  <1> QED
    BY <1>8, <1>9

\* BYE ends the token, also where the row could not be revoked.
LEMMA ByeStep ==
  ASSUME Inv, Inv', NEW c \in Conns, Bye(c)
  PROVE  /\ \A t \in Tokens : t = token[c] => PhaseOf(t)' = "ended"
         /\ [Contract!Next]_(Contract!vars)
  <1>0. token[c] \in Tokens
    BY DEF Inv, Bye, TypeOK, LoopShape
  <1> PICK t \in Tokens : t = token[c]
    BY <1>0
  <1>1. Holds(c, t) /\ now' = now /\ issued' = issued
    BY DEF Bye, Holds
  <1>2. \A u \in Tokens : /\ sessions'[u] = None <=> sessions[u] = None
                          /\ sessions[u] # None => sessions'[u].resume = sessions[u].resume
    BY RevokeEffect DEF Bye, Inv
  <1>3. \A u \in Tokens : u # t => sessions'[u] = sessions[u]
    BY DEF Bye, RevokeSession, Inv, TypeOK
  <1>4. \A d \in Conns, u \in Tokens : Holds(d, u)' <=> d # c /\ Holds(d, u)
    BY ReplyHolds, CloseHolds DEF Bye
  <1>5. \A d \in Conns : Holds(d, t) => d = c
    BY <1>1, NoneIsNoRow DEF Inv, UniqueToken, Holds
  <1>6. Held(t) /\ ~Held(t)'
    BY <1>1, <1>4, <1>5 DEF Held
  <1>7. ~Resumable(t)'
    BY <1>1, <1>2, <1>6, HeldHasNoWindow DEF Resumable, Usable
  <1>8. EndsNow(t)
    BY <1>1, <1>6, <1>7, ReleasedToken
  <1>9. \A u \in Tokens \ {t} : Same(u)
    <2> SUFFICES ASSUME NEW u \in Tokens \ {t} PROVE Same(u)
      OBVIOUS
    <2>1. ~Holds(c, u)
      BY <1>1 DEF Holds
    <2> QED
      BY <1>1, <1>3, <1>4, <2>1, UntouchedToken
  <1>10. [Contract!Next]_(Contract!vars)
    BY <1>8, <1>9, EndStep
  <1> QED
    BY <1>8, <1>10 DEF EndsNow

\* The loop of c ends and the session it was ACTIVE with is marked: suspended.
LEMMA MarkedCloseStep ==
  ASSUME Inv, Inv', NEW c \in Conns, Close(c), UNCHANGED <<now, issued>>,
         state[c] = "ACTIVE", token[c] # None, Usable(token[c]),
         sessions' = [sessions EXCEPT ![token[c]].resume = now + ResumeWindow]
  PROVE  Contract!Next
  <1>0. token[c] \in Tokens
    BY DEF Inv, TypeOK
  <1> PICK t \in Tokens : t = token[c]
    BY <1>0
  <1>1. Holds(c, t) /\ \A d \in Conns : Holds(d, t) => d = c
    BY DEF Holds, Inv, UniqueToken
  <1>2. PhaseOf(t) = "held" /\ t \in issued
    BY <1>1, HolderIsUnique, HeldHasNoWindow DEF Held
  <1>3. /\ sessions'[t] # None /\ ~sessions'[t].revoked
        /\ sessions'[t].expires > now /\ sessions'[t].resume = now + ResumeWindow
    <2>1. sessions[t] \in SessionRow
      BY DEF Usable, Inv, TypeOK
    <2>2. sessions'[t] = [sessions[t] EXCEPT !.resume = now + ResumeWindow]
      BY DEF Inv, TypeOK
    <2>3. now + ResumeWindow \in Nat
      BY TimesAssumption DEF Inv, TypeOK
    <2>4. [sessions[t] EXCEPT !.resume = now + ResumeWindow] \in SessionRow
      BY <2>1, <2>3 DEF SessionRow
    <2> QED
      BY <2>1, <2>2, <2>4, NoneIsNoRow DEF Usable, SessionRow
  <1>4. Resumable(t)'
    <2>1. now + ResumeWindow \in Nat /\ now + ResumeWindow >= now
      BY TimesAssumption DEF Inv, TypeOK
    <2> QED
      BY <1>3, <2>1, NoneAssumption DEF Resumable, Usable
  <1>5. ~Held(t)'
    BY <1>1, CloseHolds DEF Held
  <1>6. PhaseOf(t)' = "suspended" /\ HolderOf(t)' = None
    BY <1>2, <1>4, <1>5 DEF PhaseOf, HolderOf
  <1>7. \A u \in Tokens \ {t} : Same(u)
    <2> SUFFICES ASSUME NEW u \in Tokens \ {t} PROVE Same(u)
      OBVIOUS
    <2>1. ~Holds(c, u)
      BY DEF Holds
    <2>2. sessions'[u] = sessions[u]
      BY DEF Inv, TypeOK
    <2> QED
      BY <2>1, <2>2, CloseHolds, UntouchedToken
  <1>8. Contract!Suspend(t)
    BY <1>2, <1>6, <1>7 DEF Contract!Suspend, Same
  <1> QED
    BY <1>8 DEF Contract!Next

\* All three ways in which a loop ends unexpectedly.
LEMMA MarkAndCloseStep ==
  ASSUME Inv, Inv', NEW c \in Conns, Close(c), UNCHANGED <<now, issued>>,
         \/ UNCHANGED sessions
         \/ state[c] = "ACTIVE" /\ token[c] # None /\ MarkSessionAsDisconnected(token[c])
  PROVE  [Contract!Next]_(Contract!vars)
  BY UnmarkedCloseStep, MarkedCloseStep DEF MarkSessionAsDisconnected

\* A restart of the server ends every session that was held.
LEMMA CrashStep ==
  ASSUME Inv, Inv', Crash
  PROVE  [Contract!Next]_(Contract!vars)
  <1> SUFFICES ASSUME NEW t \in Tokens PROVE Same(t) \/ EndsNow(t)
    BY EndStep
  <1>1. UNCHANGED <<now, sessions, issued>> /\ \A d \in Conns : ~Holds(d, t)'
    BY DEF Crash, Holds
  <1>2. CASE Held(t)
    <2>1. ~Held(t)' /\ ~Resumable(t)'
      BY <1>1, <1>2, HeldHasNoWindow DEF Held, Resumable, Usable
    <2> QED
      BY <1>1, <1>2, <2>1, ReleasedToken
  <1>3. CASE ~Held(t)
    BY <1>1, <1>3, UntouchedToken DEF Held
  <1> QED
    BY <1>2, <1>3

\* Cleanup deletes only rows that cannot be resumed any more.
LEMMA CleanupStep ==
  ASSUME Inv, Inv', Cleanup
  PROVE  [Contract!Next]_(Contract!vars)
  <1> SUFFICES ASSUME NEW t \in Tokens PROVE Same(t)
    BY EndStep
  <1>1. now' = now /\ issued' = issued /\ \A d \in Conns : Holds(d, t)' <=> Holds(d, t)
    BY DEF Cleanup, connVars, Holds
  <1>2. CASE sessions[t] # None /\ sessions[t].expires <= now
    <2>1. sessions'[t] = None /\ ~(sessions[t].expires > now)
      <3>1. sessions[t].expires \in Nat /\ now \in Nat
        BY <1>2 DEF Inv, TypeOK, SessionRow
      <3> QED
        BY <1>2, <3>1 DEF Cleanup
    <2> QED
      BY <1>1, <2>1, SameToken DEF Resumable, Usable
  <1>3. CASE ~(sessions[t] # None /\ sessions[t].expires <= now)
    <2>1. sessions'[t] = sessions[t]
      BY <1>3 DEF Cleanup
    <2> QED
      BY <1>1, <2>1, UntouchedToken
  <1> QED
    BY <1>2, <1>3

\* The clock ends suspended sessions: their window, or the session, is over.
LEMMA TickStep ==
  ASSUME Inv, Inv', Tick
  PROVE  [Contract!Next]_(Contract!vars)
  <1> SUFFICES ASSUME NEW t \in Tokens PROVE Same(t) \/ EndsNow(t)
    BY EndStep
  <1>1. /\ sessions' = sessions /\ issued' = issued
        /\ \A d \in Conns : Holds(d, t)' <=> Holds(d, t)
    BY DEF Tick, connVars, Holds
  <1>2. Resumable(t)' => Resumable(t)
    <2> SUFFICES ASSUME Resumable(t)' PROVE Resumable(t)
      OBVIOUS
    <2>1. /\ sessions[t] # None /\ sessions[t] \in SessionRow /\ ~sessions[t].revoked
          /\ sessions[t].expires > now + 1
          /\ sessions[t].resume # None /\ sessions[t].resume >= now + 1
      BY <1>1 DEF Resumable, Usable, Tick, Inv, TypeOK
    <2>2. sessions[t].expires \in Nat /\ sessions[t].resume \in Nat /\ now \in Nat
      BY <2>1 DEF SessionRow, Inv, TypeOK
    <2> QED
      BY <2>1, <2>2 DEF Resumable, Usable
  <1>3. CASE Held(t) \/ (Resumable(t)' <=> Resumable(t))
    BY <1>1, <1>3, SameToken
  <1>4. CASE ~Held(t) /\ Resumable(t) /\ ~Resumable(t)'
    <2>1. t \in issued
      BY <1>4, NoneIsNoRow DEF Inv, UnissuedHasNoRow, Resumable, Usable
    <2> QED
      BY <1>1, <1>4, <2>1, ReleasedToken DEF Held
  <1> QED
    BY <1>2, <1>3, <1>4

-----------------------------------------------------------------------------
(* The theorems. *)

THEOREM NextRefines == Inv /\ Inv' /\ [Next]_vars => [Contract!Next]_(Contract!vars)
  <1> SUFFICES ASSUME Inv, Inv', [Next]_vars PROVE [Contract!Next]_(Contract!vars)
    OBVIOUS
  <1>1. ASSUME NEW c \in Conns, Accept(c) \/ Hello(c) \/ Other(c) \/ Vanish(c)
        PROVE  [Contract!Next]_(Contract!vars)
    <2>1. \A d \in Conns, u \in Tokens : Holds(d, u)' <=> Holds(d, u)
      BY <1>1 DEF Accept, Hello, Other, Vanish, Reply, Holds, Inv, TypeOK
    <2> QED
      BY <1>1, <2>1, QuietStep DEF Accept, Hello, Other, Vanish
  <1>2. ASSUME NEW c \in Conns, Login(c) PROVE Contract!Next
    BY <1>2, LoginStep
  <1>3. ASSUME NEW c \in Conns, ResumeSession(c) PROVE [Contract!Next]_(Contract!vars)
    BY <1>3, ResumeStep
  <1>4. ASSUME NEW c \in Conns, Bye(c) PROVE [Contract!Next]_(Contract!vars)
    BY <1>4, ByeStep
  <1>5. ASSUME NEW c \in Conns, DispatchRaises(c) PROVE [Contract!Next]_(Contract!vars)
    BY <1>5, MarkAndCloseStep DEF DispatchRaises
  <1>6. ASSUME NEW c \in Conns, Sent(c) PROVE [Contract!Next]_(Contract!vars)
    <2>1. CASE Close(c)
      BY <1>6, <2>1, MarkAndCloseStep DEF Sent
    <2>2. CASE UNCHANGED <<state, token>>
      BY <1>6, <2>2, QuietStep DEF Sent, Holds
    <2> QED
      BY <1>6, <2>1, <2>2 DEF Sent
  <1>7. ASSUME NEW c \in Conns, SendFails(c) \/ Lost(c)
        PROVE  [Contract!Next]_(Contract!vars)
    BY <1>7, MarkAndCloseStep DEF SendFails, Lost, MarkForReconnect
  <1>8. ASSUME NEW c \in Conns, IdleTimeout(c) PROVE [Contract!Next]_(Contract!vars)
    <2>1. token[c] # None => state[c] = "ACTIVE"
      BY <1>8 DEF IdleTimeout, Reading, Inv, LoopShape
    <2> QED
      BY <1>8, <2>1, MarkAndCloseStep DEF IdleTimeout
  <1>9. CASE Crash \/ Cleanup \/ Tick
    BY <1>9, CrashStep, CleanupStep, TickStep
  <1>10. CASE UNCHANGED vars
    <2>1. \A t \in Tokens : Same(t)
      BY <1>10, UntouchedToken DEF vars, connVars, Holds
    <2> QED
      BY <2>1, EndStep
  <1> QED
    BY <1>1, <1>2, <1>3, <1>4, <1>5, <1>6, <1>7, <1>8, <1>9, <1>10 DEF Next, ConnStep

\* The server implements the session contract: whatever fails, a token that has
\* ended is never held or resumable again, and only its one holder can lose it.
THEOREM ContractImplemented == Spec => ImplementsContract
  BY InitRefines, NextRefines, Invariance, PTL DEF Spec, Contract!Spec, ImplementsContract

\* After BYE is answered the token is ended, revoked in the database or not.
THEOREM LogoutEndsToken == Spec => LogoutIsFinal
  <1> DEFINE Final == \A c \in Conns, t \in Tokens :
                        Holds(c, t) /\ state'[c] = "DISCONNECTED" => PhaseOf(t)' = "ended"
  <1>1. ASSUME Inv, Inv', [Next]_vars, NEW c \in Conns, NEW t \in Tokens,
               Holds(c, t), state'[c] = "DISCONNECTED"
        PROVE  PhaseOf(t)' = "ended"
    <2>0. state[c] = "ACTIVE"
      BY <1>1 DEF Holds
    <2>1. Bye(c)
      <3>1. state' # state
        BY <1>1, <2>0
      <3>2. \A d \in Conns : Close(d) \/ UNCHANGED state \/ Reply(d, "AUTHENTICATED", token[d])
                               \/ (\E u \in Tokens : Reply(d, "ACTIVE", u))
                               \/ Reply(d, state[d], token[d])
                                 => state'[c] # "DISCONNECTED"
        BY <1>1, <2>0 DEF Close, Reply, Inv, TypeOK
      <3>3. ~Crash /\ ~Cleanup /\ ~Tick /\ ~UNCHANGED vars
        BY <1>1, <3>1 DEF Crash, Cleanup, Tick, vars, connVars
      <3>4. PICK d \in Conns : ConnStep(d)
        BY <1>1, <3>3 DEF Next
      <3>5. ~Accept(d)
        BY <1>1, <2>0 DEF Accept, Inv, TypeOK
      <3>6. /\ ~Login(d) /\ ~ResumeSession(d) /\ ~Hello(d) /\ ~Other(d)
            /\ ~DispatchRaises(d) /\ ~Sent(d) /\ ~SendFails(d)
            /\ ~Lost(d) /\ ~IdleTimeout(d) /\ ~Vanish(d)
        BY <1>1, <3>2 DEF Login, ResumeSession, Hello, Other, DispatchRaises, Sent, SendFails,
                          Lost, IdleTimeout, Vanish, ReplyLost, Inv, TypeOK
      <3>7. Bye(d)
        BY <3>4, <3>5, <3>6 DEF ConnStep
      <3>8. d = c
        BY <1>1, <2>0, <3>7 DEF Bye, Reply, Close, Inv, TypeOK
      <3> QED
        BY <3>7, <3>8
    <2>2. t = token[c]
      BY <1>1 DEF Holds
    <2>3. \A u \in Tokens : u = token[c] => PhaseOf(u)' = "ended"
      BY <1>1, <2>1, ByeStep
    <2> QED
      BY <2>2, <2>3
  <1>2. Inv /\ Inv' /\ [Next]_vars => [Final]_vars
    BY <1>1
  <1> QED
    BY <1>2, Invariance, PTL DEF Spec, LogoutIsFinal
=============================================================================
