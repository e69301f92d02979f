--------------------------- MODULE SessionContract ---------------------------
(***************************************************************************)
(* What the server promises about a session token, independently of        *)
(* connections' protocol states, of the database rows and of the clock.    *)
(*                                                                         *)
(* A token is fresh until LOGIN generates it; then it is held by exactly   *)
(* one live connection, or suspended (its connection was lost and the      *)
(* resume window is running), or ended.  An ended token never comes back:  *)
(* not by a late RESUME_SESSION, not by a disconnect noticed after the     *)
(* logout, not by a restart of the server.                                 *)
(***************************************************************************)
CONSTANTS Conns, Tokens, None

VARIABLES phase,      \* token -> "fresh", "held", "suspended" or "ended"
          holder      \* token -> the connection that holds it, or None

vars == <<phase, holder>>

Phases == {"fresh", "held", "suspended", "ended"}

TypeOK == /\ phase \in [Tokens -> Phases]
          /\ holder \in [Tokens -> Conns \cup {None}]

Init == /\ phase = [t \in Tokens |-> "fresh"]
        /\ holder = [t \in Tokens |-> None]

\* The tokens of S end together, whoever holds them.
Ended(S) == /\ phase' = [t \in Tokens |-> IF t \in S THEN "ended" ELSE phase[t]]
            /\ holder' = [t \in Tokens |-> IF t \in S THEN None ELSE holder[t]]

\* A login succeeds, and its connection, which holds no other token, takes
\* the new one.
Open(t, c) == /\ phase[t] = "fresh"
              /\ \A u \in Tokens : holder[u] # c
              /\ phase' = [phase EXCEPT ![t] = "held"]
              /\ holder' = [holder EXCEPT ![t] = c]

\* A login is recorded but its connection never learns the token.
Waste(t) == phase[t] = "fresh" /\ Ended({t})

\* The connection that holds t is lost, and the resume window opens.
Suspend(t) == /\ phase[t] = "held"
              /\ phase' = [phase EXCEPT ![t] = "suspended"]
              /\ holder' = [holder EXCEPT ![t] = None]

\* RESUME_SESSION: c takes a suspended token, and gives up for good the one it
\* may have held before.
Reclaim(t, c) ==
    /\ phase[t] = "suspended"
    /\ phase' = [u \in Tokens |-> IF u = t THEN "held"
                                  ELSE IF holder[u] = c THEN "ended" ELSE phase[u]]
    /\ holder' = [u \in Tokens |-> IF u = t THEN c
                                   ELSE IF holder[u] = c THEN None ELSE holder[u]]

\* Logout, expiry, the end of the window, a restart of the server: any number
\* of held or suspended tokens end at once.
End(S) == /\ \A t \in S : phase[t] \in {"held", "suspended"}
          /\ Ended(S)

Next == \/ \E t \in Tokens, c \in Conns : Open(t, c) \/ Reclaim(t, c)
        \/ \E t \in Tokens : Waste(t) \/ Suspend(t)
        \/ \E S \in (SUBSET Tokens) \ {{}} : End(S)

Spec == Init /\ [][Next]_vars
=============================================================================
