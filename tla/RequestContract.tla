--------------------------- MODULE RequestContract ---------------------------
(***************************************************************************)
(* What the duplicate guard promises about a request, independently of     *)
(* frames, timestamps, rows and the clock.                                 *)
(*                                                                         *)
(* A request has one chance.  It is new until its one dispatch reaches the *)
(* handler; there it takes effect, once, or it is dead: refused, or cut    *)
(* off by a failure or a crash.  A dead request stays dead, whatever       *)
(* copies of its frame are still to arrive.  Success is reported only of a *)
(* request that took effect; the report may be lost, or cleaned up.  (A    *)
(* BYE gets no report here: it is answered as one whatever comes of it.)   *)
(***************************************************************************)
CONSTANT Requests

VARIABLES phase,     \* request -> "new", "open", "done" or "dead"
          reported   \* requests the history records as successful

vars == <<phase, reported>>

Init == phase = [r \in Requests |-> "new"] /\ reported = {}

Becomes(r, p) == phase' = [phase EXCEPT ![r] = p] /\ UNCHANGED reported

\* The handler is called; the process has one dispatch at a time.
Open(r) == /\ phase[r] = "new" /\ \A q \in Requests : phase[q] # "open"
           /\ Becomes(r, "open")

\* The request is registered, but no handler will be called for it.
Waste(r) == phase[r] = "new" /\ Becomes(r, "dead")

TakeEffect(r) == phase[r] = "open" /\ Becomes(r, "done")

Die(r) == phase[r] = "open" /\ Becomes(r, "dead")

Report(r) == /\ phase[r] = "done"
             /\ reported' = reported \cup {r}
             /\ UNCHANGED phase

\* Reports are lost, or cleaned up.
Forget == reported' \subseteq reported /\ UNCHANGED phase

Next == Forget \/ \E r \in Requests : \/ Open(r) \/ Waste(r) \/ TakeEffect(r)
                                      \/ Die(r) \/ Report(r)

Spec == Init /\ [][Next]_vars
=============================================================================
