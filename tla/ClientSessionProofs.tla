------------------------- MODULE ClientSessionProofs -------------------------
(***************************************************************************)
(* However the coroutines of a client interleave, whatever is lost and     *)
(* whatever the windows start: a connection is listened to, and a client   *)
(* at rest that believes in its session is right.                          *)
(*                                                                         *)
(* ClientInv is inductive.  Only an answer makes the state SESSION_ACTIVE, *)
(* LOGIN_OK or RESUME_SESSION_OK, and the loop that gave it is ACTIVE.     *)
(* Where another connection has taken that one's place, the listening loop *)
(* that brought the answer fails in its next turn and closes the other;    *)
(* where a new connection takes the place of one in use, the call that     *)
(* opened it is still there (DoubtIsSettled).                              *)
(***************************************************************************)
EXTENDS ClientSession, SequenceTheorems, TLAPS

-----------------------------------------------------------------------------
(* The requests under way. *)

\* s is the line of connection k.
Placed(s, k) == \A i \in 1 .. Len(s) : /\ at[s[i]] = "asks" /\ sent[s[i]].on = k
                                       /\ \A j \in 1 .. Len(s) : s[j] = s[i] => j = i

\* The part of the invariant about calls and lines.
Calls == /\ line \in [Conns -> Seq(Procs)]
         /\ at \in [Procs -> {"off", "ready", "open", "asks", "closing", "closed", "sleep"}]
         /\ sent \in [Procs -> Request \cup {None}]
         /\ \A p \in Procs : IF at[p] = "asks" THEN sent[p] \in Request ELSE sent[p] = None
         /\ \A k \in Conns : Placed(line[k], k)

LEMMA RemoveAtFacts ==
    ASSUME NEW S, NEW s \in Seq(S), NEW i \in 1 .. Len(s)
    PROVE  /\ RemoveAt(s, i) \in Seq(S) /\ Len(s) \in Nat /\ Len(RemoveAt(s, i)) = Len(s) - 1
           /\ \A j \in 1 .. Len(s) - 1 :
                 RemoveAt(s, i)[j] = IF j < i THEN s[j] ELSE s[j + 1]
  <1>1. Len(s) \in Nat /\ i \in Nat
    BY LenProperties
  <1> DEFINE u == SubSeq(s, 1, i - 1)
             v == SubSeq(s, i + 1, Len(s))
  <1>2. u \in Seq(S) /\ Len(u) = i - 1 /\ \A j \in 1 .. i - 1 : u[j] = s[j]
    <2>1. \A j \in 1 .. i - 1 : s[j] \in S
      BY <1>1, ElementOfSeq
    <2> QED BY <1>1, <2>1, SubSeqProperties
  <1>3. v \in Seq(S) /\ Len(v) = Len(s) - i /\ \A j \in 1 .. Len(s) - i : v[j] = s[i + j]
    <2>1. \A j \in i + 1 .. Len(s) : s[j] \in S
      BY <1>1, ElementOfSeq
    <2>2. /\ v \in Seq(S)
          /\ Len(v) = IF i + 1 <= Len(s) THEN Len(s) - (i + 1) + 1 ELSE 0
          /\ \A j \in 1 .. Len(s) - (i + 1) + 1 : v[j] = s[i + 1 + j - 1]
      BY <1>1, <2>1, SubSeqProperties
    <2>3. Len(v) = Len(s) - i
      BY <1>1, <2>2
    <2>4. ASSUME NEW j \in 1 .. Len(s) - i PROVE v[j] = s[i + j]
      <3>1. j \in 1 .. Len(s) - (i + 1) + 1 /\ i + 1 + j - 1 = i + j
        BY <1>1
      <3> QED BY <2>2, <3>1
    <2> QED BY <2>2, <2>3, <2>4
  <1> HIDE DEF u, v
  <1>4. /\ u \o v \in Seq(S) /\ Len(u \o v) = Len(u) + Len(v)
        /\ \A j \in 1 .. Len(u) + Len(v) : (u \o v)[j] = IF j <= Len(u) THEN u[j] ELSE v[j - Len(u)]
    BY <1>2, <1>3, ConcatProperties
  <1>5. Len(u) + Len(v) = Len(s) - 1
    BY <1>1, <1>2, <1>3
  <1>6. ASSUME NEW j \in 1 .. Len(s) - 1
        PROVE  (u \o v)[j] = IF j < i THEN s[j] ELSE s[j + 1]
    <2>1. (u \o v)[j] = IF j <= i - 1 THEN u[j] ELSE v[j - (i - 1)]
      BY <1>2, <1>4, <1>5
    <2>2. CASE j < i
      <3>1. j \in 1 .. i - 1
        BY <1>1, <2>2
      <3> QED BY <1>1, <1>2, <2>1, <2>2, <3>1
    <2>3. CASE ~(j < i)
      <3>1. j - (i - 1) \in 1 .. Len(s) - i /\ i + (j - (i - 1)) = j + 1
        BY <1>1, <2>3
      <3> QED BY <1>1, <1>3, <2>1, <2>3, <3>1
    <2> QED BY <2>2, <2>3
  <1>7. RemoveAt(s, i) = u \o v
    BY DEF RemoveAt, u, v
  <1> QED BY <1>1, <1>4, <1>5, <1>6, <1>7

\* Without(p) is without p, and leaves the other requests as they are.
LEMMA WithoutFacts ==
    ASSUME Calls, NEW p \in Procs, NEW k \in Conns
    PROVE  /\ Without(p)[k] \in Seq(Procs)
           /\ Placed(Without(p)[k], k)
           /\ \A i \in 1 .. Len(Without(p)[k]) : Without(p)[k][i] # p
  <1> DEFINE places == {i \in DOMAIN line[k] : line[k][i] = p}
  <1>1. line[k] \in Seq(Procs) /\ Placed(line[k], k)
    BY DEF Calls
  <1>2. DOMAIN line[k] = 1 .. Len(line[k]) /\ Len(line[k]) \in Nat
    BY <1>1, LenProperties
  <1>3. Without(p)[k] = IF places = {} THEN line[k]
                        ELSE RemoveAt(line[k], CHOOSE i \in places : TRUE)
    BY DEF Without
  <1>4. CASE places = {}
    BY <1>1, <1>2, <1>3, <1>4
  <1>5. CASE places # {}
    <2>1. PICK s : s = line[k]
      OBVIOUS
    <2>2. PICK c : c = CHOOSE i \in places : TRUE
      OBVIOUS
    <2>3. c \in 1 .. Len(s) /\ s[c] = p /\ s \in Seq(Procs)
      BY <1>1, <1>2, <1>5, <2>1, <2>2
    <2>4. PICK r : r = RemoveAt(s, c)
      OBVIOUS
    <2>5. /\ r \in Seq(Procs) /\ Len(s) \in Nat /\ Len(r) = Len(s) - 1
          /\ \A j \in 1 .. Len(s) - 1 : r[j] = IF j < c THEN s[j] ELSE s[j + 1]
      BY <2>3, <2>4, RemoveAtFacts
    <2>6. \A j \in 1 .. Len(s) : /\ at[s[j]] = "asks" /\ sent[s[j]].on = k
                                 /\ \A i \in 1 .. Len(s) : s[i] = s[j] => i = j
      BY <1>1, <2>1 DEF Placed
    <2>7. ASSUME NEW j \in 1 .. Len(r)
          PROVE  /\ at[r[j]] = "asks" /\ sent[r[j]].on = k /\ r[j] # p
                 /\ \A i \in 1 .. Len(r) : r[i] = r[j] => i = j
      <3>1. PICK m \in 1 .. Len(s) : m = IF j < c THEN j ELSE j + 1
        BY <2>3, <2>5
      <3>2. r[j] = s[m] /\ m # c
        BY <2>3, <2>5, <3>1
      <3>3. ASSUME NEW i \in 1 .. Len(r), r[i] = r[j] PROVE i = j
        <4>1. PICK n \in 1 .. Len(s) : n = IF i < c THEN i ELSE i + 1
          BY <2>3, <2>5
        <4>2. r[i] = s[n]
          BY <2>3, <2>5, <4>1
        <4>3. n = m
          BY <2>6, <3>2, <3>3, <4>2
        <4> QED BY <2>3, <2>5, <3>1, <4>1, <4>3
      <3> QED BY <2>3, <2>6, <3>2, <3>3
    <2>8. Without(p)[k] = r
      BY <1>3, <1>5, <2>1, <2>2, <2>4
    <2>9. Placed(r, k)
      BY <2>7 DEF Placed
    <2> QED BY <2>5, <2>7, <2>8, <2>9
  <1> QED BY <1>4, <1>5

LEMMA LeaveEffect ==
    ASSUME Calls, NEW p \in Procs,
           NEW place \in {"off", "ready", "open", "closing", "closed", "sleep"}, Leave(p, place)
    PROVE  Calls'
  <1>1. /\ at' = [at EXCEPT ![p] = place] /\ sent' = [sent EXCEPT ![p] = None]
        /\ line' = Without(p)
    BY DEF Leave, GoTo
  <1>2. ASSUME NEW q \in Procs, q # p PROVE at'[q] = at[q] /\ sent'[q] = sent[q]
    BY <1>1, <1>2 DEF Calls
  <1>3. at'[p] = place /\ sent'[p] = None
    BY <1>1 DEF Calls
  <1>4. ASSUME NEW k \in Conns PROVE line'[k] \in Seq(Procs) /\ Placed(line[k], k)'
    <2>1. PICK s : s = Without(p)[k] /\ s = line'[k]
      BY <1>1
    <2>2. /\ s \in Seq(Procs) /\ Placed(s, k)
          /\ \A i \in 1 .. Len(s) : s[i] # p
      BY <2>1, WithoutFacts
    <2>3. \A i \in 1 .. Len(s) : at'[s[i]] = at[s[i]] /\ sent'[s[i]] = sent[s[i]]
      BY <1>2, <2>2, ElementOfSeq
    <2> QED BY <2>1, <2>2, <2>3 DEF Placed
  <1>5. line' \in [Conns -> Seq(Procs)]
    BY <1>1, <1>4 DEF Without
  <1>6. /\ at' \in [Procs -> {"off", "ready", "open", "asks", "closing", "closed", "sleep"}]
        /\ sent' \in [Procs -> Request \cup {None}]
    BY <1>1 DEF Calls
  <1>7. \A q \in Procs : IF at'[q] = "asks" THEN sent'[q] \in Request ELSE sent'[q] = None
    BY <1>2, <1>3 DEF Calls
  <1> QED BY <1>4, <1>5, <1>6, <1>7 DEF Calls

\* p sends its request, for the first time or again.
LEMMA SendEffect ==
    ASSUME Calls, NEW p \in Procs, NEW c \in Conns, NEW r \in Request, r.on = c,
           line' = With(p, c), at' = [at EXCEPT ![p] = "asks"], sent' = [sent EXCEPT ![p] = r]
    PROVE  Calls'
  <1>1. ASSUME NEW q \in Procs, q # p PROVE at'[q] = at[q] /\ sent'[q] = sent[q]
    BY <1>1 DEF Calls
  <1>2. at'[p] = "asks" /\ sent'[p] = r
    BY DEF Calls
  <1>3. ASSUME NEW k \in Conns
        PROVE  /\ Without(p)[k] \in Seq(Procs) /\ Len(Without(p)[k]) \in Nat
               /\ \A i \in 1 .. Len(Without(p)[k]) :
                     LET q == Without(p)[k][i] IN
                     /\ q # p /\ q \in Procs
                     /\ at'[q] = "asks" /\ sent'[q].on = k
                     /\ \A j \in 1 .. Len(Without(p)[k]) : Without(p)[k][j] = q => j = i
    <2>1. PICK s : s = Without(p)[k]
      OBVIOUS
    <2>2. /\ s \in Seq(Procs) /\ Placed(s, k)
          /\ \A i \in 1 .. Len(s) : s[i] # p
      BY <2>1, WithoutFacts
    <2>3. \A i \in 1 .. Len(s) : s[i] \in Procs /\ at'[s[i]] = at[s[i]] /\ sent'[s[i]] = sent[s[i]]
      BY <1>1, <2>2, ElementOfSeq
    <2>4. Len(s) \in Nat
      BY <2>2, LenProperties
    <2>5. \A i \in 1 .. Len(s) : /\ s[i] # p /\ s[i] \in Procs
                                 /\ at'[s[i]] = "asks" /\ sent'[s[i]].on = k
                                 /\ \A j \in 1 .. Len(s) : s[j] = s[i] => j = i
      BY <2>2, <2>3 DEF Placed
    <2> QED BY <2>1, <2>2, <2>4, <2>5
  <1>4. ASSUME NEW k \in Conns PROVE line'[k] \in Seq(Procs) /\ Placed(line[k], k)'
    <2>1. PICK s : s = Without(p)[k]
      OBVIOUS
    <2>2. /\ s \in Seq(Procs) /\ Len(s) \in Nat
          /\ \A i \in 1 .. Len(s) : /\ s[i] # p /\ s[i] \in Procs
                                    /\ at'[s[i]] = "asks" /\ sent'[s[i]].on = k
                                    /\ \A j \in 1 .. Len(s) : s[j] = s[i] => j = i
      BY <1>3, <2>1
    <2>3. CASE line'[k] = s
      BY <2>2, <2>3 DEF Placed
    <2>4. CASE k = c /\ line'[k] = Append(s, p)
      <3>1. PICK u : u = Append(s, p)
        OBVIOUS
      <3>2. /\ u \in Seq(Procs) /\ Len(u) = Len(s) + 1 /\ u[Len(s) + 1] = p
            /\ \A i \in 1 .. Len(s) : u[i] = s[i]
        BY <2>2, <3>1, AppendProperties
      <3>3. ASSUME NEW i \in 1 .. Len(u)
            PROVE  /\ at'[u[i]] = "asks" /\ sent'[u[i]].on = k
                   /\ \A j \in 1 .. Len(u) : u[j] = u[i] => j = i
        <4>1. \A j \in 1 .. Len(u) : j \in 1 .. Len(s) \/ j = Len(s) + 1
          BY <2>2, <3>2
        <4>2. CASE i \in 1 .. Len(s)
          <5>1. at'[u[i]] = "asks" /\ sent'[u[i]].on = k /\ u[i] # p
            BY <2>2, <3>2, <4>2
          <5>2. ASSUME NEW j \in 1 .. Len(u), u[j] = u[i] PROVE j = i
            <6>1. j \in 1 .. Len(s)
              BY <3>2, <4>1, <5>1, <5>2
            <6> QED BY <2>2, <3>2, <4>2, <5>2, <6>1
          <5> QED BY <5>1, <5>2
        <4>3. CASE i = Len(s) + 1
          <5>1. ASSUME NEW j \in 1 .. Len(u), u[j] = u[i] PROVE j = i
            BY <2>2, <3>2, <4>1, <4>3, <5>1
          <5> QED BY <1>2, <2>4, <3>2, <4>3, <5>1
        <4> QED BY <4>1, <4>2, <4>3
      <3> QED BY <2>4, <3>1, <3>2, <3>3 DEF Placed
    <2>5. Without(p) = [d \in Conns |-> Without(p)[d]]
      BY DEF Without
    <2> QED BY <2>1, <2>3, <2>4, <2>5 DEF With
  <1>5. line' \in [Conns -> Seq(Procs)]
    <2>1. Without(p) \in [Conns -> Seq(Procs)]
      BY <1>3 DEF Without
    <2>2. line' = [Without(p) EXCEPT ![c] = Append(@, p)] \/ line' = Without(p)
      BY DEF With
    <2> QED BY <1>4, <2>1, <2>2
  <1>6. /\ at' \in [Procs -> {"off", "ready", "open", "asks", "closing", "closed", "sleep"}]
        /\ sent' \in [Procs -> Request \cup {None}]
    BY DEF Calls
  <1>7. \A q \in Procs : IF at'[q] = "asks" THEN sent'[q] \in Request ELSE sent'[q] = None
    BY <1>1, <1>2 DEF Calls
  <1> QED BY <1>4, <1>5, <1>6, <1>7 DEF Calls

LEMMA AskEffect ==
    ASSUME Calls, NEW p \in Procs, NEW kind \in Kinds, NEW t \in Tokens \cup {None},
           writer \in Conns, Ask(p, kind, t)
    PROVE  Calls'
  <1> DEFINE r == [kind |-> kind, token |-> t, on |-> writer, seen |-> FALSE]
  <1>1. r \in Request /\ r.on = writer
    BY DEF Request
  <1>2. line' = With(p, writer) /\ at' = [at EXCEPT ![p] = "asks"] /\ sent' = [sent EXCEPT ![p] = r]
    BY DEF Ask
  <1> HIDE DEF r
  <1> QED BY <1>1, <1>2, SendEffect

LEMMA RetransmitEffect ==
    ASSUME Calls, NEW p \in Procs, Retransmits(p), writer \in Conns
    PROVE  Calls'
  <1>1. at[p] = "asks" /\ line' = With(p, writer) /\ at' = at
        /\ sent' = [sent EXCEPT ![p].on = writer]
    BY DEF Retransmits
  <1>2. sent[p] \in Request
    BY <1>1 DEF Calls
  <1>5. PICK q \in Request : q = sent[p]
    BY <1>2
  <1>6. [q EXCEPT !.on = writer] \in Request /\ [q EXCEPT !.on = writer].on = writer
    BY DEF Request
  <1>3. PICK r \in Request : r = [sent[p] EXCEPT !.on = writer] /\ r.on = writer
    BY <1>5, <1>6
  <1>4. sent' = [sent EXCEPT ![p] = r] /\ at' = [at EXCEPT ![p] = "asks"]
    BY <1>1, <1>3 DEF Calls
  <1> QED BY <1>1, <1>3, <1>4, SendEffect

\* A call moves on that has no request under way.
LEMMA GoToEffect ==
    ASSUME Calls, NEW p \in Procs, at[p] # "asks", UNCHANGED line,
           NEW place \in {"off", "ready", "open", "closing", "closed", "sleep"}, GoTo(p, place)
    PROVE  Calls'
  <1>1. at' = [at EXCEPT ![p] = place] /\ sent' = [sent EXCEPT ![p] = None]
    BY DEF GoTo
  <1>2. \A q \in Procs : at'[q] = (IF q = p THEN place ELSE at[q])
                         /\ sent'[q] = (IF q = p THEN None ELSE sent[q])
    BY <1>1 DEF Calls
  <1>3. ASSUME NEW k \in Conns PROVE Placed(line[k], k)'
    <2>1. PICK s : s = line[k] /\ s = line'[k]
      OBVIOUS
    <2>2. s \in Seq(Procs) /\ Placed(s, k)
      BY <2>1 DEF Calls
    <2>3. \A i \in 1 .. Len(s) : s[i] \in Procs /\ s[i] # p
      BY <2>2, ElementOfSeq DEF Placed
    <2> QED BY <1>2, <2>1, <2>2, <2>3 DEF Placed
  <1> QED BY <1>1, <1>2, <1>3 DEF Calls

\* A line that is cut short.
LEMMA ShorterLine ==
    ASSUME Calls, NEW k \in Conns,
           \/ line[k] # <<>> /\ line' = [line EXCEPT ![k] = Tail(@)]
           \/ line' = [line EXCEPT ![k] = <<>>]
    PROVE  /\ line' \in [Conns -> Seq(Procs)]
           /\ \A d \in Conns : Placed(line'[d], d)
           /\ UNCHANGED <<at, sent>> => Calls'
  <1>1. PICK s : s = line[k]
    OBVIOUS
  <1>2. s \in Seq(Procs) /\ Placed(s, k) /\ Len(s) \in Nat
    BY <1>1, LenProperties DEF Calls
  <1>3. \A d \in Conns : d # k => line'[d] = line[d]
    BY DEF Calls
  <1>4. line'[k] \in Seq(Procs) /\ Placed(line'[k], k)
    <2>1. CASE s # <<>> /\ line'[k] = Tail(s)
      <3>1. Len(s) > 0 /\ Tail(s) \in Seq(Procs) /\ Len(Tail(s)) = Len(s) - 1
            /\ \A i \in 1 .. Len(s) - 1 : Tail(s)[i] = s[i + 1]
        BY <1>2, <2>1, HeadTailProperties
      <3>2. PICK u : u = Tail(s)
        OBVIOUS
      <3>3. ASSUME NEW i \in 1 .. Len(u)
            PROVE  /\ at[u[i]] = "asks" /\ sent[u[i]].on = k
                   /\ \A j \in 1 .. Len(u) : u[j] = u[i] => j = i
        <4>1. i + 1 \in 1 .. Len(s) /\ u[i] = s[i + 1]
          BY <1>2, <3>1, <3>2
        <4>2. ASSUME NEW j \in 1 .. Len(u), u[j] = u[i] PROVE j = i
          <5>1. j + 1 \in 1 .. Len(s) /\ u[j] = s[j + 1]
            BY <1>2, <3>1, <3>2
          <5>2. j + 1 = i + 1
            BY <1>2, <4>1, <4>2, <5>1 DEF Placed
          <5> QED BY <5>2
        <4> QED BY <1>2, <4>1, <4>2 DEF Placed
      <3> QED BY <2>1, <3>1, <3>2, <3>3 DEF Placed
    <2>2. CASE line'[k] = <<>>
      BY <2>2 DEF Placed
    <2> QED BY <1>1, <2>1, <2>2 DEF Calls
  <1>5. \A d \in Conns : line'[d] \in Seq(Procs) /\ Placed(line'[d], d)
    BY <1>3, <1>4 DEF Calls
  <1>6. line' \in [Conns -> Seq(Procs)]
    BY <1>5 DEF Calls
  <1>7. UNCHANGED <<at, sent>> => Calls'
    BY <1>5, <1>6 DEF Calls, Placed
  <1> QED BY <1>5, <1>6, <1>7

\* The first request of a line is one its call waits for.
LEMMA HeadAsks ==
    ASSUME Calls, NEW k \in Conns, line[k] # <<>>
    PROVE  LET p == Head(line[k]) IN
           /\ p \in Procs /\ at[p] = "asks" /\ sent[p] \in Request /\ sent[p].on = k
           /\ sent[p].kind \in Kinds /\ sent[p].token \in Tokens \cup {None}
  <1>1. line[k] \in Seq(Procs) /\ Placed(line[k], k)
    BY DEF Calls
  <1>2. 1 \in 1 .. Len(line[k]) /\ Head(line[k]) = line[k][1] /\ Head(line[k]) \in Procs
    BY <1>1, HeadTailProperties, LenProperties
  <1>3. at[Head(line[k])] = "asks" /\ sent[Head(line[k])].on = k
    BY <1>1, <1>2 DEF Placed
  <1>4. sent[Head(line[k])] \in Request
    BY <1>2, <1>3 DEF Calls
  <1> QED BY <1>2, <1>3, <1>4 DEF Request

\* It is recorded, and remains the request it was.
LEMMA RecordEffect ==
    ASSUME Calls, NEW k \in Conns, line[k] # <<>>, line' = [line EXCEPT ![k] = Tail(@)], at' = at,
           NEW p, p = Head(line[k]), NEW b \in BOOLEAN, sent' = [sent EXCEPT ![p].seen = @ \/ b]
    PROVE  /\ Calls'
           /\ \A q \in Procs : at[q] = "asks" => sent'[q].on = sent[q].on /\ sent'[q].kind = sent[q].kind
  <1>1. p \in Procs /\ at[p] = "asks" /\ sent[p] \in Request
    BY HeadAsks
  <1>2. PICK r \in Request : r = sent[p]
    BY <1>1
  <1>3. /\ [r EXCEPT !.seen = r.seen \/ b] \in Request
        /\ [r EXCEPT !.seen = r.seen \/ b].on = r.on
        /\ [r EXCEPT !.seen = r.seen \/ b].kind = r.kind
    BY <1>2 DEF Request
  <1>4. sent' = [sent EXCEPT ![p] = [r EXCEPT !.seen = r.seen \/ b]]
    BY <1>2
  <1>5. \A q \in Procs : q # p => sent'[q] = sent[q]
    BY <1>4 DEF Calls
  <1>6. sent'[p] \in Request /\ sent'[p].on = sent[p].on /\ sent'[p].kind = sent[p].kind
    BY <1>1, <1>2, <1>3, <1>4 DEF Calls
  <1>7. /\ line' \in [Conns -> Seq(Procs)]
        /\ \A d \in Conns : Placed(line'[d], d)
    BY ShorterLine
  <1>8. ASSUME NEW d \in Conns PROVE Placed(line[d], d)'
    <2>1. PICK s \in Seq(Procs) : s = line'[d]
      BY <1>7
    <2>2. \A i \in 1 .. Len(s) : s[i] \in Procs /\ at[s[i]] = "asks"
      BY <1>7, <2>1, ElementOfSeq DEF Placed
    <2>3. \A i \in 1 .. Len(s) : sent'[s[i]].on = sent[s[i]].on
      BY <1>5, <1>6, <2>2
    <2> QED BY <1>7, <2>1, <2>3 DEF Placed
  <1>9. \A q \in Procs : IF at'[q] = "asks" THEN sent'[q] \in Request ELSE sent'[q] = None
    BY <1>1, <1>5, <1>6 DEF Calls
  <1>10. sent' \in [Procs -> Request \cup {None}]
    BY <1>3, <1>4 DEF Calls
  <1> QED BY <1>5, <1>6, <1>7, <1>8, <1>9, <1>10 DEF Calls

LEMMA OpensEffect ==
    ASSUME Calls, NEW p \in Procs, Opens(p)
    PROVE  Calls'
  <1>1. PICK k \in Conns :
           /\ line' = [line EXCEPT ![k] = <<p>>]
           /\ at' = [at EXCEPT ![p] = "asks"]
           /\ sent' = [sent EXCEPT ![p] = [kind |-> "HELLO", token |-> None, on |-> k, seen |-> FALSE]]
    BY DEF Opens
  <1>2. at[p] = "open"
    BY DEF Opens
  <1>3. \A q \in Procs : q # p => at'[q] = at[q] /\ sent'[q] = sent[q]
    BY <1>1 DEF Calls
  <1>4. /\ at'[p] = "asks" /\ sent'[p] \in Request /\ sent'[p].on = k
        /\ sent' \in [Procs -> Request \cup {None}]
    BY <1>1 DEF Calls, Request, Kinds
  <1>5. ASSUME NEW d \in Conns PROVE line'[d] \in Seq(Procs) /\ Placed(line[d], d)'
    <2>1. CASE d = k
      <3>1. line'[d] = <<p>>
        BY <1>1, <2>1 DEF Calls
      <3>2. <<p>> \in Seq(Procs) /\ Len(<<p>>) = 1 /\ <<p>>[1] = p
        OBVIOUS
      <3>3. \A i \in 1 .. Len(<<p>>) : i = 1
        BY <3>2
      <3> QED BY <1>4, <2>1, <3>1, <3>2, <3>3 DEF Placed
    <2>2. CASE d # k
      <3>1. PICK s : s = line[d] /\ s = line'[d]
        BY <1>1, <2>2 DEF Calls
      <3>2. s \in Seq(Procs) /\ Placed(s, d)
        BY <3>1 DEF Calls
      <3>3. \A i \in 1 .. Len(s) : s[i] \in Procs /\ s[i] # p
        BY <1>2, <3>2, ElementOfSeq DEF Placed
      <3> QED BY <1>3, <3>1, <3>2, <3>3 DEF Placed
    <2> QED BY <2>1, <2>2
  <1>6. line' \in [Conns -> Seq(Procs)]
    BY <1>1, <1>5 DEF Calls
  <1>7. \A q \in Procs : IF at'[q] = "asks" THEN sent'[q] \in Request ELSE sent'[q] = None
    BY <1>3, <1>4 DEF Calls
  <1>8. at' \in [Procs -> {"off", "ready", "open", "asks", "closing", "closed", "sleep"}]
    BY <1>1 DEF Calls
  <1> QED BY <1>4, <1>5, <1>6, <1>7, <1>8 DEF Calls

-----------------------------------------------------------------------------
(* The rest of the state, and what a step may do to it. *)

\* The types of everything but the calls, and that a pause is followed by an attempt.
Rest == /\ up \in [Conns -> BOOLEAN]
        /\ proto \in [Conns -> {"CONNECTED", "AUTHENTICATED", "ACTIVE", "CLOSED"}]
        /\ Server!TypeOK
        /\ writer \in Conns \cup {None}
        /\ connected \in BOOLEAN /\ pings \in BOOLEAN
        /\ hears \in [Conns -> {"off", "reading", "failed", "closing", "closed"}]
        /\ opened \in 0 .. MaxOpened /\ faults \in 0 .. MaxFaults
        /\ state \in {"DISCONNECTED", "CONNECTED", "SESSION_ACTIVE", "SESSION_EXPIRED"}
        /\ stored \in Tokens \cup {None}
        /\ attempt \in 0 .. MaxAttempts
        /\ at["reconnect"] = "sleep" => attempt < MaxAttempts
        /\ screen \in {"login", "dashboard", "dialog", "left"}

LEMMA Parts ==
    /\ ClientInv <=> Calls /\ Rest /\ ConnectedIsHeard /\ DoubtIsSettled
    /\ (ClientInv <=> Calls /\ Rest /\ ConnectedIsHeard /\ DoubtIsSettled)'
  <1>1. TypeOK /\ CallsKnown <=> Calls /\ Rest
    BY DEF TypeOK, CallsKnown, Calls, Rest, Placed
  <1>2. (TypeOK /\ CallsKnown <=> Calls /\ Rest)'
    BY DEF TypeOK, CallsKnown, Calls, Rest, Placed
  <1> QED BY <1>1, <1>2 DEF ClientInv

LEMMA Names ==
    /\ "reconnect" \in Procs /\ "disconnect" \in Procs /\ Clicks \subseteq Procs
    /\ "reconnect" \notin Clicks /\ "disconnect" \notin Clicks
    /\ None \notin Tokens /\ None \notin Conns
    /\ MaxAttempts \in Nat /\ MaxAttempts > 0 /\ MaxOpened \in Nat /\ MaxFaults \in Nat
  BY NamesAssumption, BoundsAssumption DEF Procs

\* q will see to the session of this connection.
Settles(q) == /\ q \in Clicks \cup {"reconnect"}
              /\ at[q] = "asks" /\ sent[q].on = writer
              /\ sent[q].kind = "HELLO" \/ q = "reconnect"

\* The calls of the step do not matter to the session of this connection.
LEMMA Untouched ==
    ASSUME Calls, NEW p \in Procs, NEW x, NEW y,
           at' = [at EXCEPT ![p] = x], sent' = [sent EXCEPT ![p] = y],
           ~Settles(p)
    PROVE  \A q : Settles(q) => at'[q] = at[q] /\ sent'[q] = sent[q]
  <1>1. \A q \in Procs : q # p => at'[q] = at[q] /\ sent'[q] = sent[q]
    BY DEF Calls
  <1> QED BY <1>1, Names DEF Settles

LEMMA HeardStays ==
    ASSUME ConnectedIsHeard, connected' => connected, writer' \in {writer, None},
           \A k \in Conns : hears[k] \in {"reading", "failed"} => hears'[k] \in {"reading", "failed"}
    PROVE  ConnectedIsHeard'
  BY DEF ConnectedIsHeard

LEMMA SettledKept ==
    ASSUME DoubtIsSettled, state' = "SESSION_ACTIVE" => state = "SESSION_ACTIVE",
           connected' => connected, writer' \in {writer, None},
           writer # None => (up'[writer] => up[writer]),
           writer # None /\ proto'[writer] \in {"CONNECTED", "AUTHENTICATED"} =>
              proto[writer] \in {"CONNECTED", "AUTHENTICATED"},
           \A k \in Conns : hears[k] = "failed" => hears'[k] = "failed",
           \A q : Settles(q) => /\ at'[q] = at[q]
                               /\ sent'[q].on = sent[q].on /\ sent'[q].kind = sent[q].kind
    PROVE  DoubtIsSettled'
  <1>1. SUFFICES ASSUME state' = "SESSION_ACTIVE", Sendable', up'[writer'],
                        proto'[writer'] \in {"CONNECTED", "AUTHENTICATED"}
                 PROVE  \/ \E k \in Conns : hears'[k] = "failed"
                        \/ \E p \in Clicks \cup {"reconnect"} :
                              /\ at'[p] = "asks" /\ sent'[p].on = writer'
                              /\ sent'[p].kind = "HELLO" \/ p = "reconnect"
    BY DEF DoubtIsSettled
  <1>2. writer' = writer /\ writer # None /\ Sendable
    BY <1>1 DEF Sendable
  <1>3. state = "SESSION_ACTIVE" /\ up[writer] /\ proto[writer] \in {"CONNECTED", "AUTHENTICATED"}
    BY <1>1, <1>2
  <1>4. (\E k \in Conns : hears[k] = "failed") \/ (\E q : Settles(q))
    BY <1>2, <1>3 DEF DoubtIsSettled, Settles
  <1> QED BY <1>2, <1>4 DEF Settles

LEMMA SettledStays ==
    ASSUME DoubtIsSettled, state' = "SESSION_ACTIVE" => state = "SESSION_ACTIVE",
           connected' => connected, writer' \in {writer, None},
           writer # None => (up'[writer] => up[writer]),
           writer # None /\ proto'[writer] \in {"CONNECTED", "AUTHENTICATED"} =>
              proto[writer] \in {"CONNECTED", "AUTHENTICATED"},
           \A k \in Conns : hears[k] = "failed" => hears'[k] = "failed",
           \A q : Settles(q) => at'[q] = at[q] /\ sent'[q] = sent[q]
    PROVE  DoubtIsSettled'
  <1>1. \A q : Settles(q) => /\ at'[q] = at[q]
                            /\ sent'[q].on = sent[q].on /\ sent'[q].kind = sent[q].kind
    OBVIOUS
  <1> QED BY <1>1, SettledKept

LEMMA WhenDisconnected ==
    ASSUME connected' = FALSE
    PROVE  ConnectedIsHeard' /\ DoubtIsSettled'
  BY DEF ConnectedIsHeard, DoubtIsSettled, Sendable

LEMMA WhenNotActive ==
    ASSUME state' # "SESSION_ACTIVE"
    PROVE  DoubtIsSettled'
  BY DEF DoubtIsSettled

LEMMA FaultsCounted ==
    ASSUME Rest, NEW p, Fault \/ Fails(p) \/ UNCHANGED faults
    PROVE  faults' \in 0 .. MaxFaults
  BY Names DEF Rest, Fault, Fails

LEMMA CloseTypes ==
    ASSUME Rest
    PROVE  /\ BeginClose => connected' = FALSE /\ pings' = FALSE /\ up' \in [Conns -> BOOLEAN]
           /\ \A place : EndClose(place) => writer' \in {writer, None}
           /\ Closing \in {"closing", "closed"}
  BY DEF Rest, BeginClose, EndClose, Closing

LEMMA ContractTypes ==
    ASSUME Server!TypeOK
    PROVE  /\ \A t \in Tokens, c \in Conns : Server!Open(t, c) => Server!TypeOK'
           /\ \A t \in Tokens, c \in Conns : Server!Reclaim(t, c) => Server!TypeOK'
           /\ \A t \in Tokens : Server!Suspend(t) => Server!TypeOK'
           /\ \A S : Server!End(S) => Server!TypeOK'
           /\ UNCHANGED <<phase, holder>> => Server!TypeOK'
  BY DEF Server!TypeOK, Server!Phases, Server!Open, Server!Reclaim, Server!Suspend, Server!End,
         Server!Ended

LEMMA ServesEffect ==
    ASSUME Rest, NEW k \in Conns, NEW kind \in Kinds, NEW t \in Tokens \cup {None}, NEW result,
           Serves(k, kind, t, result)
    PROVE  /\ proto' \in [Conns -> {"CONNECTED", "AUTHENTICATED", "ACTIVE", "CLOSED"}]
           /\ Server!TypeOK'
           /\ \A c \in Conns : proto'[c] \in {"CONNECTED", "AUTHENTICATED"} =>
                                  proto[c] \in {"CONNECTED", "AUTHENTICATED"}
           /\ kind \in {"LOGIN", "RESUME_SESSION"} /\ result = "ok" => proto'[k] = "ACTIVE"
  <1>1. proto \in [Conns -> {"CONNECTED", "AUTHENTICATED", "ACTIVE", "CLOSED"}] /\ Server!TypeOK
    BY DEF Rest
  <1>2. CASE /\ kind = "HELLO" /\ proto[k] = "CONNECTED"
             /\ proto' = [proto EXCEPT ![k] = "AUTHENTICATED"]
             /\ UNCHANGED <<phase, holder>>
    BY <1>1, <1>2, ContractTypes
  <1>3. CASE /\ kind = "LOGIN" /\ proto' = [proto EXCEPT ![k] = "ACTIVE"]
             /\ \E u \in Tokens : Server!Open(u, k)
    BY <1>1, <1>3, ContractTypes
  <1>4. CASE /\ kind = "RESUME_SESSION" /\ proto' = [proto EXCEPT ![k] = "ACTIVE"]
             /\ t \in Tokens /\ Server!Reclaim(t, k)
    BY <1>1, <1>4, ContractTypes
  <1>5. CASE /\ kind = "BYE" /\ proto' = [proto EXCEPT ![k] = "CLOSED"]
             /\ Server!End(HeldBy(k))
    BY <1>1, <1>5, ContractTypes
  <1>6. CASE /\ UNCHANGED proto /\ result # "ok"
             /\ UNCHANGED <<phase, holder>> \/ Server!End({t})
    BY <1>1, <1>6, ContractTypes
  <1> QED
    <2>1. \/ /\ kind = "HELLO" /\ proto[k] = "CONNECTED"
             /\ proto' = [proto EXCEPT ![k] = "AUTHENTICATED"]
             /\ UNCHANGED <<phase, holder>>
          \/ /\ kind = "LOGIN" /\ proto' = [proto EXCEPT ![k] = "ACTIVE"]
             /\ LET fresh == {u \in Tokens : phase[u] = "fresh"} IN
                fresh # {} /\ Server!Open(CHOOSE u \in fresh : TRUE, k)
          \/ /\ kind = "RESUME_SESSION" /\ proto' = [proto EXCEPT ![k] = "ACTIVE"]
             /\ t # None /\ Server!Reclaim(t, k)
          \/ /\ kind = "BYE" /\ proto' = [proto EXCEPT ![k] = "CLOSED"]
             /\ Server!End(HeldBy(k))
          \/ /\ UNCHANGED proto /\ result # "ok"
             /\ UNCHANGED <<phase, holder>> \/ Server!End({t})
      BY DEF Serves, Belongs, server
    <2>2. ASSUME NEW fresh \in SUBSET Tokens, fresh # {}, Server!Open(CHOOSE u \in fresh : TRUE, k)
          PROVE  \E u \in Tokens : Server!Open(u, k)
      <3>1. (CHOOSE u \in fresh : TRUE) \in Tokens
        BY <2>2
      <3> QED BY <2>2, <3>1
    <2>3. {u \in Tokens : phase[u] = "fresh"} \in SUBSET Tokens
      OBVIOUS
    <2> QED BY <1>2, <1>3, <1>4, <1>5, <1>6, <2>1, <2>2, <2>3

-----------------------------------------------------------------------------
(* The steps. *)

\* The call that opens a connection is there to settle what is in doubt on it.
LEMMA OpensStep ==
    ASSUME ClientInv, NEW p \in Clicks \cup {"reconnect"}, Opens(p)
    PROVE  ClientInv'
  <1>1. Calls /\ Rest /\ p \in Procs
    BY Parts, Names
  <1>2. Calls'
    BY <1>1, OpensEffect
  <1>3. opened < MaxOpened /\ opened' = opened + 1
        /\ UNCHANGED <<faults, phase, holder, pings, state, stored, attempt, screen>>
    BY DEF Opens, session
  <1>4. PICK k \in Conns :
           /\ writer' = k /\ connected' = TRUE
           /\ hears' = [hears EXCEPT ![k] = "reading"]
           /\ up' = [up EXCEPT ![k] = TRUE]
           /\ proto' = [proto EXCEPT ![k] = "CONNECTED"]
           /\ at' = [at EXCEPT ![p] = "asks"]
           /\ sent' = [sent EXCEPT ![p] = [kind |-> "HELLO", token |-> None, on |-> k, seen |-> FALSE]]
    BY DEF Opens
  <1>5. Server!TypeOK'
    BY <1>1, <1>3, ContractTypes DEF Rest
  <1>6. Rest'
    BY <1>1, <1>3, <1>4, <1>5, Names DEF Rest, Calls
  <1>7. ConnectedIsHeard'
    BY <1>1, <1>4 DEF ConnectedIsHeard, Rest
  <1>8. at'[p] = "asks" /\ sent'[p].on = writer' /\ sent'[p].kind = "HELLO"
    BY <1>1, <1>4 DEF Calls
  <1>9. DoubtIsSettled'
    BY <1>8 DEF DoubtIsSettled
  <1> QED BY <1>2, <1>6, <1>7, <1>9, Parts

\* An attempt that fails, a connect() that fails, a connection that is closed after it.
LEMMA AttemptFailsStep ==
    ASSUME ClientInv, AttemptFails
    PROVE  ClientInv'
  <1>1. Calls /\ Rest /\ "reconnect" \in Procs
    BY Parts, Names
  <1>2. Leave("reconnect", Closing) /\ BeginClose /\ Fails("reconnect")
        /\ UNCHANGED <<opened, proto, phase, holder, writer, hears, state, stored, attempt, screen>>
    BY DEF AttemptFails, server, session
  <1>3. /\ connected' = FALSE /\ pings' = FALSE /\ up' \in [Conns -> BOOLEAN]
        /\ Closing \in {"closing", "closed"}
    BY <1>1, <1>2, CloseTypes
  <1>4. Calls'
    BY <1>1, <1>2, <1>3, LeaveEffect
  <1>5. faults' \in 0 .. MaxFaults /\ Server!TypeOK'
    BY <1>1, <1>2, FaultsCounted, ContractTypes DEF Rest
  <1>6. at'["reconnect"] # "sleep"
    BY <1>1, <1>2, <1>3 DEF Leave, GoTo, Calls
  <1>7. Rest'
    BY <1>1, <1>2, <1>3, <1>5, <1>6 DEF Rest
  <1> QED BY <1>3, <1>4, <1>7, WhenDisconnected, Parts

LEMMA ConnectFailsStep ==
    ASSUME ClientInv, NEW u \in Clicks, ConnectFails(u)
    PROVE  ClientInv'
  <1>1. Calls /\ Rest /\ u \in Procs /\ u # "reconnect"
    BY Parts, Names
  <1>2. Leave(u, "off") /\ connected' = FALSE /\ Fails(u)
        /\ UNCHANGED <<up, opened, proto, phase, holder, writer, hears, pings, state, stored, attempt, screen>>
    BY DEF ConnectFails, server, session
  <1>3. Calls'
    BY <1>1, <1>2, LeaveEffect
  <1>4. faults' \in 0 .. MaxFaults /\ Server!TypeOK'
    BY <1>1, <1>2, FaultsCounted, ContractTypes DEF Rest
  <1>5. at'["reconnect"] = at["reconnect"]
    BY <1>1, <1>2 DEF Leave, GoTo, Calls
  <1>6. Rest'
    BY <1>1, <1>2, <1>4, <1>5 DEF Rest
  <1> QED BY <1>2, <1>3, <1>6, WhenDisconnected, Parts

LEMMA AttemptOverStep ==
    ASSUME ClientInv, AttemptOver
    PROVE  ClientInv'
  <1>1. Calls /\ Rest /\ ConnectedIsHeard /\ DoubtIsSettled /\ "reconnect" \in Procs
    BY Parts, Names
  <1>2. /\ at["reconnect"] \in {"closing", "closed"}
        /\ EndClose(at["reconnect"])
        /\ \/ attempt < MaxAttempts /\ GoTo("reconnect", "sleep") /\ UNCHANGED <<state, stored>>
           \/ /\ GoTo("reconnect", "off")
              /\ UNCHANGED <<state, stored>> \/ Expire
        /\ UNCHANGED <<up, line, opened, faults, proto, phase, holder, connected, hears, pings,
                       attempt, screen>>
    BY DEF AttemptOver, net, server
  <1>3. writer' \in {writer, None}
    BY <1>1, <1>2, CloseTypes
  <1>4. Calls'
    BY <1>1, <1>2, GoToEffect
  <1>5. Rest'
    <2>1. Server!TypeOK'
      BY <1>1, <1>2, ContractTypes DEF Rest
    <2>2. at'["reconnect"] = "sleep" => attempt < MaxAttempts
      BY <1>1, <1>2 DEF GoTo, Calls
    <2>3. state' \in {state, "SESSION_EXPIRED"} /\ stored' \in {stored, None}
      BY <1>2 DEF Expire
    <2> QED BY <1>1, <1>2, <1>3, <2>1, <2>2, <2>3 DEF Rest
  <1>6. ConnectedIsHeard'
    BY <1>1, <1>2, <1>3, HeardStays
  <1>7. \A q : Settles(q) => at'[q] = at[q] /\ sent'[q] = sent[q]
    BY <1>1, <1>2, Untouched DEF GoTo, Settles
  <1>8. DoubtIsSettled'
    <2>1. state' = "SESSION_ACTIVE" => state = "SESSION_ACTIVE"
      BY <1>2 DEF Expire
    <2> QED BY <1>1, <1>2, <1>3, <1>7, <2>1, SettledStays
  <1> QED BY <1>4, <1>5, <1>6, <1>8, Parts

LEMMA NextAttemptStep ==
    ASSUME ClientInv, NextAttempt
    PROVE  ClientInv'
  <1>1. Calls /\ Rest /\ ConnectedIsHeard /\ DoubtIsSettled /\ "reconnect" \in Procs
    BY Parts, Names
  <1>2. /\ at["reconnect"] = "sleep" /\ GoTo("reconnect", "open") /\ attempt' = attempt + 1
        /\ UNCHANGED <<up, line, opened, faults, proto, phase, holder, writer, connected, hears,
                       pings, state, stored, screen>>
    BY DEF NextAttempt, net, server, manager
  <1>3. Calls'
    BY <1>1, <1>2, GoToEffect
  <1>4. Rest'
    <2>1. Server!TypeOK'
      BY <1>1, <1>2, ContractTypes DEF Rest
    <2>2. at'["reconnect"] = "open"
      BY <1>1, <1>2 DEF GoTo, Calls
    <2>3. attempt' \in 0 .. MaxAttempts
      BY <1>1, <1>2, Names DEF Rest
    <2> QED BY <1>1, <1>2, <2>1, <2>2, <2>3 DEF Rest
  <1>5. ConnectedIsHeard'
    BY <1>1, <1>2, HeardStays
  <1>6. \A q : Settles(q) => at'[q] = at[q] /\ sent'[q] = sent[q]
    BY <1>1, <1>2, Untouched DEF GoTo, Settles
  <1>7. DoubtIsSettled'
    BY <1>1, <1>2, <1>6, SettledStays
  <1> QED BY <1>3, <1>4, <1>5, <1>7, Parts

\* The windows' calls: one is started, sends LOGIN, fails, or closes what it opened.
LEMMA ClickStarts ==
    ASSUME ClientInv, NEW u \in Clicks, Click(u)
    PROVE  ClientInv'
  <1>1. Calls /\ Rest /\ ConnectedIsHeard /\ DoubtIsSettled /\ u \in Procs /\ u # "reconnect"
    BY Parts, Names
  <1>2. PICK place \in {"ready", "open"} : GoTo(u, place)
    BY DEF Click
  <1>3. /\ at[u] = "off"
        /\ UNCHANGED <<up, line, opened, faults, proto, phase, holder, writer, connected, hears,
                       pings, state, stored, attempt, screen>>
    BY DEF Click, net, server, manager, session
  <1>4. Calls'
    BY <1>1, <1>2, <1>3, GoToEffect
  <1>5. Rest'
    <2>1. Server!TypeOK' /\ at'["reconnect"] = at["reconnect"]
      BY <1>1, <1>2, <1>3, ContractTypes DEF Rest, GoTo, Calls
    <2> QED BY <1>1, <1>3, <2>1 DEF Rest
  <1>6. ConnectedIsHeard'
    BY <1>1, <1>3, HeardStays
  <1>7. \A q : Settles(q) => at'[q] = at[q] /\ sent'[q] = sent[q]
    BY <1>1, <1>2, <1>3, Untouched DEF GoTo, Settles
  <1>8. DoubtIsSettled'
    BY <1>1, <1>3, <1>7, SettledStays
  <1> QED BY <1>4, <1>5, <1>6, <1>8, Parts

LEMMA SendLoginStep ==
    ASSUME ClientInv, NEW u \in Clicks, SendLogin(u)
    PROVE  ClientInv'
  <1>1. Calls /\ Rest /\ ConnectedIsHeard /\ DoubtIsSettled /\ u \in Procs /\ u # "reconnect"
    BY Parts, Names
  <1>2. /\ at[u] = "ready" /\ Sendable /\ Ask(u, "LOGIN", None)
        /\ UNCHANGED <<up, opened, faults, proto, phase, holder, writer, connected, hears,
                       pings, state, stored, attempt, screen>>
    BY DEF SendLogin, Ask, server, manager, session
  <1>3. writer \in Conns
    BY <1>1, <1>2 DEF Sendable, Rest
  <1>4. Calls'
    BY <1>1, <1>2, <1>3, AskEffect DEF Kinds
  <1>5. Rest'
    <2>1. Server!TypeOK' /\ at'["reconnect"] = at["reconnect"]
      BY <1>1, <1>2, ContractTypes DEF Rest, Ask, Calls
    <2> QED BY <1>1, <1>2, <2>1 DEF Rest
  <1>6. ConnectedIsHeard'
    BY <1>1, <1>2, HeardStays
  <1>7. \A q : Settles(q) => at'[q] = at[q] /\ sent'[q] = sent[q]
    BY <1>1, <1>2, Untouched DEF Ask, Settles
  <1>8. DoubtIsSettled'
    BY <1>1, <1>2, <1>7, SettledStays
  <1> QED BY <1>4, <1>5, <1>6, <1>8, Parts

LEMMA LoginFailsStep ==
    ASSUME ClientInv, NEW u \in Clicks, LoginFails(u)
    PROVE  ClientInv'
  <1>1. Calls /\ Rest /\ ConnectedIsHeard /\ DoubtIsSettled /\ u \in Procs /\ u # "reconnect"
    BY Parts, Names
  <1>2. /\ at[u] = "ready" \/ sent[u].kind = "LOGIN"
        /\ Fails(u) \/ UNCHANGED faults
        /\ Leave(u, "off")
        /\ UNCHANGED <<up, opened, proto, phase, holder, writer, connected, hears,
                       pings, state, stored, attempt, screen>>
    BY DEF LoginFails, Asks, server, manager, session
  <1>3. Calls'
    BY <1>1, <1>2, LeaveEffect
  <1>4. Rest'
    <2>1. Server!TypeOK' /\ at'["reconnect"] = at["reconnect"] /\ faults' \in 0 .. MaxFaults
      BY <1>1, <1>2, ContractTypes, FaultsCounted DEF Rest, Leave, GoTo, Calls
    <2> QED BY <1>1, <1>2, <2>1 DEF Rest
  <1>5. ConnectedIsHeard'
    BY <1>1, <1>2, HeardStays
  <1>6. \A q : Settles(q) => at'[q] = at[q] /\ sent'[q] = sent[q]
    BY <1>1, <1>2, Untouched DEF Leave, GoTo, Settles
  <1>7. DoubtIsSettled'
    BY <1>1, <1>2, <1>6, SettledStays
  <1> QED BY <1>3, <1>4, <1>5, <1>7, Parts

LEMMA ConnectClosedStep ==
    ASSUME ClientInv, NEW u \in Clicks, ConnectClosed(u)
    PROVE  ClientInv'
  <1>1. Calls /\ Rest /\ ConnectedIsHeard /\ DoubtIsSettled /\ u \in Procs /\ u # "reconnect"
    BY Parts, Names
  <1>2. /\ at[u] \in {"closing", "closed"} /\ EndClose(at[u]) /\ GoTo(u, "off")
        /\ UNCHANGED <<up, line, opened, faults, proto, phase, holder, connected, hears,
                       pings, state, stored, attempt, screen>>
    BY DEF ConnectClosed, net, server, session
  <1>3. writer' \in {writer, None}
    BY <1>1, <1>2, CloseTypes
  <1>4. Calls'
    BY <1>1, <1>2, GoToEffect
  <1>5. Rest'
    <2>1. Server!TypeOK' /\ at'["reconnect"] = at["reconnect"]
      BY <1>1, <1>2, ContractTypes DEF Rest, GoTo, Calls
    <2> QED BY <1>1, <1>2, <1>3, <2>1 DEF Rest
  <1>6. ConnectedIsHeard'
    BY <1>1, <1>2, <1>3, HeardStays
  <1>7. \A q : Settles(q) => at'[q] = at[q] /\ sent'[q] = sent[q]
    BY <1>1, <1>2, Untouched DEF GoTo, Settles
  <1>8. DoubtIsSettled'
    BY <1>1, <1>2, <1>3, <1>7, SettledStays
  <1> QED BY <1>4, <1>5, <1>6, <1>8, Parts

\* The logout: disconnect() sends BYE, fails, or closes and clears the session.
LEMMA LogoutStep ==
    ASSUME ClientInv, Logout
    PROVE  ClientInv'
  <1>1. Calls /\ Rest /\ ConnectedIsHeard /\ DoubtIsSettled /\ "disconnect" \in Procs
    BY Parts, Names
  <1>2. /\ screen' = "left"
        /\ \/ Sendable /\ Ask("disconnect", "BYE", None)
           \/ UNCHANGED <<line, at, sent>>
        /\ UNCHANGED <<up, opened, faults, proto, phase, holder, writer, connected, hears,
                       pings, state, stored, attempt>>
    BY DEF Logout, Ask, server, manager, session, calls
  <1>3. Sendable => writer \in Conns
    BY <1>1 DEF Sendable, Rest
  <1>4. Calls'
    <2>1. CASE UNCHANGED <<line, at, sent>>
      BY <1>1, <2>1 DEF Calls, Placed
    <2> QED BY <1>1, <1>2, <1>3, <2>1, AskEffect DEF Kinds
  <1>5. Rest'
    <2>1. Server!TypeOK' /\ at'["reconnect"] = at["reconnect"]
      BY <1>1, <1>2, Names, ContractTypes DEF Rest, Ask, Calls
    <2> QED BY <1>1, <1>2, <2>1 DEF Rest
  <1>6. ConnectedIsHeard'
    BY <1>1, <1>2, HeardStays
  <1>7. \A q : Settles(q) => at'[q] = at[q] /\ sent'[q] = sent[q]
    BY <1>1, <1>2, Names, Untouched DEF Ask, Settles
  <1>8. DoubtIsSettled'
    BY <1>1, <1>2, <1>7, SettledStays
  <1> QED BY <1>4, <1>5, <1>6, <1>8, Parts

LEMMA DisconnectOverStep ==
    ASSUME ClientInv, DisconnectOver
    PROVE  ClientInv'
  <1>1. Calls /\ Rest /\ ConnectedIsHeard /\ "disconnect" \in Procs
    BY Parts, Names
  <1>2. /\ at["disconnect"] \in {"closing", "closed"}
        /\ EndClose(at["disconnect"]) /\ Clear /\ GoTo("disconnect", "off")
        /\ UNCHANGED <<up, line, opened, faults, proto, phase, holder, connected, hears,
                       pings, attempt, screen>>
    BY DEF DisconnectOver, net, server
  <1>3. writer' \in {writer, None}
    BY <1>1, <1>2, CloseTypes
  <1>4. state' \in {"DISCONNECTED", "SESSION_EXPIRED"} /\ stored' = None
    BY <1>2 DEF Clear
  <1>5. Calls'
    BY <1>1, <1>2, GoToEffect
  <1>6. Rest'
    <2>1. Server!TypeOK' /\ at'["reconnect"] = at["reconnect"]
      BY <1>1, <1>2, ContractTypes DEF Rest, GoTo, Calls
    <2> QED BY <1>1, <1>2, <1>3, <1>4, <2>1 DEF Rest
  <1>7. ConnectedIsHeard'
    BY <1>1, <1>2, <1>3, HeardStays
  <1> QED BY <1>4, <1>5, <1>6, <1>7, WhenNotActive, Parts

LEMMA DisconnectFailsStep ==
    ASSUME ClientInv, DisconnectFails
    PROVE  ClientInv'
  <1>1. Calls /\ Rest /\ ConnectedIsHeard /\ DoubtIsSettled /\ "disconnect" \in Procs
    BY Parts, Names
  <1>2. /\ Fails("disconnect") /\ Leave("disconnect", "off")
        /\ UNCHANGED <<up, opened, proto, phase, holder, writer, connected, hears,
                       pings, state, stored, attempt, screen>>
    BY DEF DisconnectFails, server, manager, session
  <1>3. Calls'
    BY <1>1, <1>2, LeaveEffect
  <1>4. Rest'
    <2>1. Server!TypeOK' /\ at'["reconnect"] = at["reconnect"] /\ faults' \in 0 .. MaxFaults
      BY <1>1, <1>2, ContractTypes, FaultsCounted DEF Rest, Leave, GoTo, Calls
    <2> QED BY <1>1, <1>2, <2>1 DEF Rest
  <1>5. ConnectedIsHeard'
    BY <1>1, <1>2, HeardStays
  <1>6. \A q : Settles(q) => at'[q] = at[q] /\ sent'[q] = sent[q]
    BY <1>1, <1>2, Names, Untouched DEF Leave, GoTo, Settles
  <1>7. DoubtIsSettled'
    BY <1>1, <1>2, <1>6, SettledStays
  <1> QED BY <1>3, <1>4, <1>5, <1>7, Parts

\* A request is sent again on the connection there is now.
LEMMA RetransmitStep ==
    ASSUME ClientInv, NEW p \in Procs, Retransmits(p)
    PROVE  ClientInv'
  <1>1. Calls /\ Rest /\ ConnectedIsHeard /\ DoubtIsSettled
    BY Parts
  <1>2. /\ at[p] = "asks" /\ Sendable /\ sent[p].on # writer
        /\ sent' = [sent EXCEPT ![p].on = writer] /\ at' = at
        /\ UNCHANGED <<up, opened, faults, proto, phase, holder, writer, connected, hears,
                       pings, state, stored, attempt, screen>>
    BY DEF Retransmits, server, manager, session
  <1>3. writer \in Conns
    BY <1>1, <1>2 DEF Sendable, Rest
  <1>4. Calls'
    BY <1>1, <1>3, RetransmitEffect
  <1>5. Rest'
    <2>1. Server!TypeOK'
      BY <1>1, <1>2, ContractTypes DEF Rest
    <2> QED BY <1>1, <1>2, <2>1 DEF Rest
  <1>6. ConnectedIsHeard'
    BY <1>1, <1>2, HeardStays
  <1>7. \A q : Settles(q) => at'[q] = at[q] /\ sent'[q] = sent[q]
    BY <1>1, <1>2, Names DEF Settles, Calls
  <1>8. DoubtIsSettled'
    BY <1>1, <1>2, <1>7, SettledStays
  <1> QED BY <1>4, <1>5, <1>6, <1>8, Parts

\* A loss is reported: the session is given up, or its reconnection begins.
LEMMA ReportEffect ==
    ASSUME Calls, Rest, UNCHANGED line, Report
    PROVE  /\ Calls'
           /\ state' \in {"DISCONNECTED", "CONNECTED", "SESSION_ACTIVE", "SESSION_EXPIRED"}
           /\ stored' \in Tokens \cup {None}
           /\ attempt' \in 0 .. MaxAttempts
           /\ at'["reconnect"] = "sleep" => attempt' < MaxAttempts
           /\ state' # "SESSION_ACTIVE" \/ UNCHANGED <<state, at, sent>>
  <1>1. CASE UNCHANGED <<session, calls>>
    BY <1>1 DEF session, calls, Calls, Placed, Rest
  <1>2. CASE at["reconnect"] = "off" /\ HandleConnectionLoss
    <2>1. CASE Expire /\ UNCHANGED <<calls, attempt>>
      BY <2>1 DEF Expire, calls, Calls, Placed, Rest
    <2>2. CASE /\ state' = "DISCONNECTED" /\ UNCHANGED stored
               /\ GoTo("reconnect", "open")
               /\ attempt' = 1
      <3>1. Calls'
        BY <1>2, <2>2, Names, GoToEffect
      <3>2. at'["reconnect"] = "open"
        BY <2>2, Names DEF GoTo, Calls
      <3> QED BY <2>2, <3>1, <3>2, Names DEF Rest
    <2> QED BY <1>2, <2>1, <2>2 DEF HandleConnectionLoss
  <1> QED BY <1>1, <1>2 DEF Report

LEMMA LossReportedStep ==
    ASSUME ClientInv, NEW k \in Conns, LossReported(k)
    PROVE  ClientInv'
  <1>1. Calls /\ Rest /\ ConnectedIsHeard /\ DoubtIsSettled
    BY Parts
  <1>2. /\ hears[k] \in {"closing", "closed"} /\ EndClose(hears[k])
        /\ hears' = [hears EXCEPT ![k] = "off"] /\ Report
        /\ UNCHANGED <<up, line, opened, faults, proto, phase, holder, connected, pings, screen>>
    BY DEF LossReported, net, server
  <1>3. writer' \in {writer, None}
    BY <1>1, <1>2, CloseTypes
  <1>4. /\ Calls'
        /\ state' \in {"DISCONNECTED", "CONNECTED", "SESSION_ACTIVE", "SESSION_EXPIRED"}
        /\ stored' \in Tokens \cup {None}
        /\ attempt' \in 0 .. MaxAttempts
        /\ at'["reconnect"] = "sleep" => attempt' < MaxAttempts
        /\ state' # "SESSION_ACTIVE" \/ UNCHANGED <<state, at, sent>>
    BY <1>1, <1>2, ReportEffect
  <1>5. Server!TypeOK'
    BY <1>1, <1>2, ContractTypes DEF Rest
  <1>6. Rest'
    BY <1>1, <1>2, <1>3, <1>4, <1>5 DEF Rest
  <1>7. \A c \in Conns : hears[c] \in {"reading", "failed"} => hears'[c] = hears[c]
    BY <1>1, <1>2 DEF Rest
  <1>8. ConnectedIsHeard'
    BY <1>1, <1>2, <1>3, <1>7, HeardStays
  <1>9. CASE state' # "SESSION_ACTIVE"
    BY <1>4, <1>6, <1>8, <1>9, WhenNotActive, Parts
  <1>10. CASE UNCHANGED <<state, at, sent>>
    <2>1. DoubtIsSettled'
      BY <1>1, <1>2, <1>3, <1>7, <1>10, SettledStays
    <2> QED BY <1>4, <1>6, <1>8, <2>1, Parts
  <1> QED BY <1>4, <1>9, <1>10

LEMMA KeepAliveStep ==
    ASSUME ClientInv, KeepAliveGivesUp
    PROVE  ClientInv'
  <1>1. Calls /\ Rest
    BY Parts
  <1>2. /\ Fault /\ BeginClose
        /\ Report \/ UNCHANGED <<state, stored, attempt, at, sent>>
        /\ UNCHANGED <<line, opened, proto, phase, holder, writer, hears, screen>>
    BY DEF KeepAliveGivesUp, server, session, calls
  <1>3. connected' = FALSE /\ pings' = FALSE /\ up' \in [Conns -> BOOLEAN]
    BY <1>1, <1>2, CloseTypes
  <1>4. faults' \in 0 .. MaxFaults /\ Server!TypeOK'
    BY <1>1, <1>2, FaultsCounted, ContractTypes DEF Rest
  <1>5. /\ Calls'
        /\ state' \in {"DISCONNECTED", "CONNECTED", "SESSION_ACTIVE", "SESSION_EXPIRED"}
        /\ stored' \in Tokens \cup {None}
        /\ attempt' \in 0 .. MaxAttempts
        /\ at'["reconnect"] = "sleep" => attempt' < MaxAttempts
    <2>1. CASE Report
      BY <1>1, <1>2, <2>1, ReportEffect
    <2>2. CASE UNCHANGED <<state, stored, attempt, at, sent>>
      BY <1>1, <1>2, <2>2 DEF Calls, Placed, Rest
    <2> QED BY <1>2, <2>1, <2>2
  <1>6. Rest'
    BY <1>1, <1>2, <1>3, <1>4, <1>5 DEF Rest
  <1> QED BY <1>3, <1>5, <1>6, WhenDisconnected, Parts

\* A listening loop ends, and with it whatever connection there is.
LEMMA ListenEndsStep ==
    ASSUME ClientInv, NEW k \in Conns, ListenEnds(k)
    PROVE  ClientInv'
  <1>1. Calls /\ Rest
    BY Parts
  <1>2. /\ UNCHANGED <<line, opened, faults, proto, phase, holder, writer, state, stored, attempt,
                       at, sent, screen>>
        /\ \/ hears' = [hears EXCEPT ![k] = Closing] /\ BeginClose
           \/ hears' = [hears EXCEPT ![k] = "off"] /\ ~connected /\ UNCHANGED <<up, connected, pings>>
    BY DEF ListenEnds, server, session, calls
  <1>3. connected' = FALSE /\ pings' \in BOOLEAN /\ up' \in [Conns -> BOOLEAN]
        /\ hears' \in [Conns -> {"off", "reading", "failed", "closing", "closed"}]
    BY <1>1, <1>2, CloseTypes DEF Rest
  <1>4. Server!TypeOK'
    BY <1>1, <1>2, ContractTypes DEF Rest
  <1>5. Calls' /\ Rest'
    BY <1>1, <1>2, <1>3, <1>4 DEF Calls, Placed, Rest
  <1> QED BY <1>3, <1>5, WhenDisconnected, Parts

\* The steps of the server and the network that the client does not see, the idle
\* timer, and the dialog.
LEMMA UnseenStep ==
    ASSUME ClientInv, UNCHANGED <<writer, connected, hears, pings, attempt, at, sent>>,
           Calls', Server!TypeOK',
           opened' \in 0 .. MaxOpened, faults' \in 0 .. MaxFaults,
           up' \in [Conns -> BOOLEAN], \A c \in Conns : up'[c] => up[c],
           proto' \in [Conns -> {"CONNECTED", "AUTHENTICATED", "ACTIVE", "CLOSED"}],
           \A c \in Conns : proto'[c] \in {"CONNECTED", "AUTHENTICATED"} =>
                               proto[c] \in {"CONNECTED", "AUTHENTICATED"},
           state' \in {state, "SESSION_EXPIRED"}, stored' \in {stored, None},
           screen' \in {"login", "dashboard", "dialog", "left"}
    PROVE  ClientInv'
  <1>1. Calls /\ Rest /\ ConnectedIsHeard /\ DoubtIsSettled
    BY Parts
  <1>2. Rest'
    BY <1>1 DEF Rest
  <1>3. writer # None => writer \in Conns
    BY <1>1 DEF Rest
  <1>4. ConnectedIsHeard'
    BY <1>1, HeardStays
  <1>5. DoubtIsSettled'
    BY <1>1, <1>3, SettledStays
  <1> QED BY <1>2, <1>4, <1>5, Parts

LEMMA UnansweredStep ==
    ASSUME ClientInv, NEW k \in Conns, Unanswered(k)
    PROVE  ClientInv'
  <1>1. Calls /\ Rest /\ ConnectedIsHeard /\ DoubtIsSettled
    BY Parts
  <1>2. PICK p, result :
           /\ p = Head(line[k])
           /\ Serves(k, sent[p].kind, sent[p].token, result)
           /\ Fault \/ UNCHANGED faults
           /\ sent' = [sent EXCEPT ![p].seen = @ \/ (sent[p].kind # "HELLO" /\ Belongs(k, sent[p].kind))]
    BY DEF Unanswered
  <1>3. /\ line[k] # <<>> /\ line' = [line EXCEPT ![k] = Tail(@)]
        /\ UNCHANGED <<up, opened, writer, connected, hears, pings, state, stored, attempt,
                       at, screen>>
    BY DEF Unanswered, manager, session
  <1>4. (sent[p].kind # "HELLO" /\ Belongs(k, sent[p].kind)) \in BOOLEAN
    BY DEF Belongs
  <1>5. /\ Calls'
        /\ \A q \in Procs : at[q] = "asks" => sent'[q].on = sent[q].on /\ sent'[q].kind = sent[q].kind
    BY <1>1, <1>2, <1>3, <1>4, RecordEffect
  <1>6. sent[p].kind \in Kinds /\ sent[p].token \in Tokens \cup {None}
    BY <1>1, <1>2, <1>3, HeadAsks
  <1>7. /\ proto' \in [Conns -> {"CONNECTED", "AUTHENTICATED", "ACTIVE", "CLOSED"}]
        /\ Server!TypeOK'
        /\ \A c \in Conns : proto'[c] \in {"CONNECTED", "AUTHENTICATED"} =>
                               proto[c] \in {"CONNECTED", "AUTHENTICATED"}
    BY <1>1, <1>2, <1>6, ServesEffect
  <1>8. faults' \in 0 .. MaxFaults
    BY <1>1, <1>2, FaultsCounted
  <1>9. Rest'
    BY <1>1, <1>3, <1>7, <1>8 DEF Rest
  <1>10. ConnectedIsHeard'
    BY <1>1, <1>3, HeardStays
  <1>11. \A q : Settles(q) => /\ at'[q] = at[q]
                             /\ sent'[q].on = sent[q].on /\ sent'[q].kind = sent[q].kind
    BY <1>3, <1>5, Names DEF Settles
  <1>12. writer # None => writer \in Conns
    BY <1>1 DEF Rest
  <1>13. DoubtIsSettled'
    BY <1>1, <1>3, <1>7, <1>11, <1>12, SettledKept
  <1> QED BY <1>5, <1>9, <1>10, <1>13, Parts

\* A listening loop that goes on may fail in its next turn, and never forgets that.
LEMMA ReadsOnEffect ==
    ASSUME Rest, NEW k \in Conns, hears[k] = "reading", ReadsOn(k)
    PROVE  /\ hears' \in [Conns -> {"off", "reading", "failed", "closing", "closed"}]
           /\ connected => /\ \A c \in Conns : hears[c] \in {"reading", "failed"} =>
                                                 hears'[c] \in {"reading", "failed"}
                           /\ \A c \in Conns : hears[c] = "failed" => hears'[c] = "failed"
                           /\ writer # k => hears'[k] = "failed"
  BY DEF Rest, ReadsOn

LEMMA RepeatedStep ==
    ASSUME ClientInv, NEW k \in Conns, Repeated(k)
    PROVE  ClientInv'
  <1>1. Calls /\ Rest /\ ConnectedIsHeard /\ DoubtIsSettled
    BY Parts
  <1>2. /\ hears[k] = "reading" /\ ReadsOn(k)
        /\ line[k] # <<>> /\ line' = [line EXCEPT ![k] = Tail(@)]
        /\ UNCHANGED <<up, opened, faults, proto, phase, holder, writer, connected, pings, state, stored,
                       attempt, at, sent, screen>>
    BY DEF Repeated, server, session, calls
  <1>3. Calls'
    BY <1>1, <1>2, ShorterLine
  <1>4. Server!TypeOK'
    BY <1>1, <1>2, ContractTypes DEF Rest
  <1>5. Rest'
    BY <1>1, <1>2, <1>4, ReadsOnEffect DEF Rest
  <1>6. CASE connected' = FALSE
    BY <1>3, <1>5, <1>6, WhenDisconnected, Parts
  <1>7. CASE connected
    <2>1. /\ \A c \in Conns : hears[c] \in {"reading", "failed"} => hears'[c] \in {"reading", "failed"}
          /\ \A c \in Conns : hears[c] = "failed" => hears'[c] = "failed"
      BY <1>1, <1>2, <1>7, ReadsOnEffect
    <2>2. ConnectedIsHeard'
      BY <1>1, <1>2, <2>1, HeardStays
    <2>3. DoubtIsSettled'
      BY <1>1, <1>2, <2>1, SettledStays
    <2> QED BY <1>3, <1>5, <2>2, <2>3, Parts
  <1> QED BY <1>1, <1>2, <1>6, <1>7 DEF Rest

LEMMA ServerClosesStep ==
    ASSUME ClientInv, NEW k \in Conns, ServerCloses(k)
    PROVE  ClientInv'
  <1>1. Calls /\ Rest
    BY Parts
  <1>2. /\ proto' = [proto EXCEPT ![k] = "CLOSED"]
        /\ up' = [up EXCEPT ![k] = FALSE]
        /\ line' = [line EXCEPT ![k] = <<>>]
        /\ Fault \/ UNCHANGED faults
        /\ UNCHANGED <<opened, writer, connected, hears, pings, state, stored, attempt,
                       at, sent, screen>>
    BY DEF ServerCloses, manager, session, calls
  <1>3. Calls'
    BY <1>1, <1>2, ShorterLine
  <1>4. Server!TypeOK'
    <2>1. \/ UNCHANGED <<phase, holder>>
          \/ \E t \in Tokens : Server!Suspend(t) \/ Server!End({t})
      BY DEF ServerCloses, HeldBy
    <2> QED BY <1>1, <2>1, ContractTypes DEF Rest
  <1>5. faults' \in 0 .. MaxFaults
    BY <1>1, <1>2, FaultsCounted
  <1>6. /\ opened' \in 0 .. MaxOpened /\ up' \in [Conns -> BOOLEAN]
        /\ proto' \in [Conns -> {"CONNECTED", "AUTHENTICATED", "ACTIVE", "CLOSED"}]
        /\ \A c \in Conns : up'[c] => up[c]
        /\ \A c \in Conns : proto'[c] \in {"CONNECTED", "AUTHENTICATED"} =>
                               proto[c] \in {"CONNECTED", "AUTHENTICATED"}
        /\ screen' \in {"login", "dashboard", "dialog", "left"}
    BY <1>1, <1>2 DEF Rest
  <1> QED BY <1>2, <1>3, <1>4, <1>5, <1>6, UnseenStep

LEMMA OtherSteps ==
    ASSUME ClientInv,
           \/ \E t \in Tokens : WindowElapses(t)
           \/ \E k \in Conns : Breaks(k)
           \/ IdleTimeout \/ ShowDialog \/ UNCHANGED vars
    PROVE  ClientInv'
  <1>1. Calls /\ Rest
    BY Parts
  <1>2. /\ UNCHANGED <<line, opened, proto, writer, connected, hears, pings, attempt, at, sent>>
        /\ state' \in {state, "SESSION_EXPIRED"} /\ stored' \in {stored, None}
        /\ screen' \in {screen, "dialog"}
        /\ Fault \/ UNCHANGED faults
        /\ UNCHANGED up \/ \E k \in Conns : up' = [up EXCEPT ![k] = FALSE]
        /\ UNCHANGED <<phase, holder>> \/ \E t \in Tokens : Server!End({t})
    BY DEF WindowElapses, Breaks, IdleTimeout, ShowDialog, Expire, vars, net, server, manager,
           session, calls
  <1>3. Server!TypeOK'
    BY <1>1, <1>2, ContractTypes DEF Rest
  <1>4. Calls'
    BY <1>1, <1>2 DEF Calls, Placed
  <1>5. faults' \in 0 .. MaxFaults
    BY <1>1, <1>2, FaultsCounted
  <1>6. /\ opened' \in 0 .. MaxOpened /\ up' \in [Conns -> BOOLEAN]
        /\ proto' \in [Conns -> {"CONNECTED", "AUTHENTICATED", "ACTIVE", "CLOSED"}]
        /\ \A c \in Conns : up'[c] => up[c]
        /\ screen' \in {"login", "dashboard", "dialog", "left"}
    BY <1>1, <1>2 DEF Rest
  <1> QED BY <1>2, <1>3, <1>4, <1>5, <1>6, UnseenStep

\* What an answer makes the client do: it is disconnected, its session is not active,
\* the session was got from this loop, or nothing of this is touched.
AnswerTypes ==
    /\ Calls' /\ up' \in [Conns -> BOOLEAN] /\ connected' \in BOOLEAN /\ pings' \in BOOLEAN
    /\ connected' => connected /\ UNCHANGED up
    /\ state' \in {"DISCONNECTED", "CONNECTED", "SESSION_ACTIVE", "SESSION_EXPIRED"}
    /\ stored' \in Tokens \cup {None}
    /\ attempt' = attempt /\ screen' \in {"login", "dashboard", "dialog", "left"}
    /\ at'["reconnect"] = "sleep" => at["reconnect"] = "sleep"
AnswerEffect(p, result) ==
    /\ AnswerTypes
    /\ \/ connected' = FALSE
       \/ state' # "SESSION_ACTIVE"
       \/ sent[p].kind \in {"LOGIN", "RESUME_SESSION"} /\ result = "ok"
       \/ at'["reconnect"] = "asks" /\ sent'["reconnect"].on = writer
       \/ state' = state /\ \A q : Settles(q) => at'[q] = at[q] /\ sent'[q] = sent[q]

LEMMA ReconnectAnsweredEffect ==
    ASSUME Calls, Rest, NEW result, ReconnectAnswered(result)
    PROVE  AnswerEffect("reconnect", result)
  <1>1. "reconnect" \in Procs /\ UNCHANGED <<attempt, screen>>
    BY Names DEF ReconnectAnswered
  <1>2. CASE /\ Sendable /\ Ask("reconnect", "RESUME_SESSION", stored)
             /\ UNCHANGED <<connected, pings, state, stored>>
    <2>1. writer \in Conns /\ stored \in Tokens \cup {None}
      BY <1>2 DEF Sendable, Rest
    <2>2. Calls'
      BY <1>1, <1>2, <2>1, AskEffect DEF Kinds
    <2>3. at'["reconnect"] = "asks" /\ sent'["reconnect"].on = writer /\ up' = up
      BY <1>1, <1>2 DEF Ask, Calls
    <2> QED BY <1>1, <1>2, <2>2, <2>3 DEF AnswerEffect, AnswerTypes, Rest
  <1>3. CASE /\ Leave("reconnect", Closing) /\ BeginClose
             /\ UNCHANGED <<state, stored>>
    <2>1. /\ connected' = FALSE /\ pings' = FALSE /\ up' \in [Conns -> BOOLEAN]
          /\ Closing \in {"closing", "closed"}
      BY <1>3, CloseTypes
    <2>2. Calls' /\ at'["reconnect"] # "sleep"
      BY <1>1, <1>3, <2>1, LeaveEffect DEF Leave, GoTo, Calls
    <2> QED BY <1>1, <1>3, <2>1, <2>2 DEF AnswerEffect, AnswerTypes, Rest
  <1>4. CASE /\ Asks("reconnect", "RESUME_SESSION")
             /\ Leave("reconnect", "off")
             /\ Resumed(result)
             /\ UNCHANGED <<up, connected>>
    <2>1. Calls' /\ at'["reconnect"] = "off"
      BY <1>1, <1>4, LeaveEffect DEF Leave, GoTo, Calls
    <2>2. \/ result = "ok" /\ state' = "SESSION_ACTIVE" /\ pings' = TRUE /\ UNCHANGED stored
          \/ state' = "SESSION_EXPIRED" /\ stored' = None /\ UNCHANGED pings
      BY <1>4 DEF Resumed, Expire
    <2> QED BY <1>1, <1>4, <2>1, <2>2 DEF AnswerEffect, AnswerTypes, Rest, Asks
  <1> QED BY <1>2, <1>3, <1>4 DEF ReconnectAnswered

LEMMA DisconnectAnsweredEffect ==
    ASSUME Calls, Rest, NEW result, DisconnectAnswered(result)
    PROVE  AnswerEffect("disconnect", result)
  <1>1. /\ "disconnect" \in Procs /\ UNCHANGED <<attempt, screen>>
        /\ Leave("disconnect", Closing) /\ BeginClose
        /\ Clear \/ UNCHANGED <<state, stored>>
    BY Names DEF DisconnectAnswered
  <1>2. /\ connected' = FALSE /\ pings' = FALSE /\ up' \in [Conns -> BOOLEAN]
        /\ Closing \in {"closing", "closed"}
    BY <1>1, CloseTypes
  <1>3. Calls' /\ at'["reconnect"] = at["reconnect"]
    BY <1>1, <1>2, Names, LeaveEffect DEF Leave, GoTo, Calls
  <1>4. /\ state' \in {state, "DISCONNECTED"} /\ stored' \in {stored, None}
    BY <1>1 DEF Clear
  <1> QED BY <1>1, <1>2, <1>3, <1>4 DEF AnswerEffect, AnswerTypes, Rest

LEMMA ClickAnsweredEffect ==
    ASSUME Calls, Rest, NEW u \in Clicks, NEW k, NEW result, ClickAnswered(u, k, result)
    PROVE  AnswerEffect(u, result)
  <1>1. u \in Procs /\ u # "reconnect"
    BY Names
  <1>2. ASSUME NEW place \in {"off", "ready", "closing", "closed"}, Leave(u, place)
        PROVE  Calls' /\ at'["reconnect"] = at["reconnect"]
    <2>1. Calls'
      BY <1>1, <1>2, LeaveEffect
    <2>2. at'["reconnect"] = at["reconnect"]
      BY <1>1, <1>2, Names DEF Leave, GoTo, Calls
    <2> QED BY <2>1, <2>2
  <1>3. CASE /\ \E place \in {"off", "ready"} : Leave(u, place)
             /\ state' = "CONNECTED" /\ pings' = TRUE
             /\ UNCHANGED <<up, connected, stored, attempt, screen>>
    BY <1>2, <1>3 DEF AnswerEffect, AnswerTypes, Rest
  <1>4. CASE /\ Leave(u, Closing) /\ BeginClose
             /\ UNCHANGED <<session, screen>>
    <2>1. /\ connected' = FALSE /\ pings' = FALSE /\ up' \in [Conns -> BOOLEAN]
          /\ Closing \in {"closing", "closed"}
      BY <1>4, CloseTypes
    <2> QED BY <1>2, <1>4, <2>1 DEF AnswerEffect, AnswerTypes, Rest, session
  <1>5. CASE /\ Asks(u, "LOGIN") /\ Leave(u, "off")
             /\ \/ result = "ok" /\ \E t \in Tokens : LoggedIn(u, t)
                \/ Expire /\ UNCHANGED screen
                \/ UNCHANGED <<state, stored, screen>>
             /\ UNCHANGED <<up, connected, pings, attempt>>
    <2>1. /\ Calls' /\ at'["reconnect"] = at["reconnect"] /\ sent[u].kind = "LOGIN"
      BY <1>2, <1>5 DEF Asks
    <2>2. \A q : Settles(q) => at'[q] = at[q] /\ sent'[q] = sent[q]
      BY <1>1, <1>5, <2>1, Untouched DEF Leave, GoTo, Settles
    <2>3. \/ /\ result = "ok" /\ state' = "SESSION_ACTIVE" /\ stored' \in Tokens
             /\ screen' \in {screen, "dashboard"}
          \/ state' = "SESSION_EXPIRED" /\ stored' = None /\ screen' = screen
          \/ UNCHANGED <<state, stored, screen>>
      BY <1>5 DEF LoggedIn, Expire
    <2>4. AnswerTypes
      BY <1>5, <2>1, <2>3 DEF AnswerTypes, Rest
    <2> QED BY <1>5, <2>1, <2>2, <2>3, <2>4 DEF AnswerEffect
  <1> QED BY <1>3, <1>4, <1>5 DEF ClickAnswered

LEMMA AnsweredStep ==
    ASSUME ClientInv, NEW k \in Conns, Answered(k)
    PROVE  ClientInv'
  <1>1. Calls /\ Rest /\ ConnectedIsHeard /\ DoubtIsSettled
    BY Parts
  <1>2. PICK p, result :
           /\ p = Head(line[k])
           /\ Serves(k, sent[p].kind, sent[p].token, result)
           /\ Fault \/ UNCHANGED faults
           /\ \/ p = "reconnect" /\ ReconnectAnswered(result)
              \/ p = "disconnect" /\ DisconnectAnswered(result)
              \/ p \in Clicks /\ ClickAnswered(p, k, result)
    BY DEF Answered
  <1>3. /\ hears[k] = "reading" /\ line[k] # <<>>
        /\ ReadsOn(k)
        /\ UNCHANGED <<opened, writer>>
    BY DEF Answered
  <1>4. sent[p].kind \in Kinds /\ sent[p].token \in Tokens \cup {None}
    BY <1>1, <1>2, <1>3, HeadAsks
  <1>5. /\ proto' \in [Conns -> {"CONNECTED", "AUTHENTICATED", "ACTIVE", "CLOSED"}]
        /\ Server!TypeOK'
        /\ \A c \in Conns : proto'[c] \in {"CONNECTED", "AUTHENTICATED"} =>
                               proto[c] \in {"CONNECTED", "AUTHENTICATED"}
        /\ sent[p].kind \in {"LOGIN", "RESUME_SESSION"} /\ result = "ok" => proto'[k] = "ACTIVE"
    BY <1>1, <1>2, <1>4, ServesEffect
  <1>6. AnswerEffect(p, result)
    BY <1>1, <1>2, ReconnectAnsweredEffect, DisconnectAnsweredEffect, ClickAnsweredEffect
  <1>7. Calls' /\ (connected' => connected /\ UNCHANGED up)
    BY <1>6 DEF AnswerEffect, AnswerTypes
  <1>8. Rest'
    <2>1. faults' \in 0 .. MaxFaults
      BY <1>1, <1>2, FaultsCounted
    <2>2. hears' \in [Conns -> {"off", "reading", "failed", "closing", "closed"}]
      BY <1>1, <1>3, ReadsOnEffect
    <2> QED BY <1>1, <1>3, <1>5, <1>6, <2>1, <2>2 DEF Rest, AnswerEffect, AnswerTypes
  <1>9. CASE connected' = FALSE
    BY <1>7, <1>8, <1>9, WhenDisconnected, Parts
  <1>10. CASE connected' # FALSE
    <2>1. connected /\ connected' /\ up' = up
      BY <1>7, <1>8, <1>10 DEF Rest
    <2>2. /\ \A c \in Conns : hears[c] \in {"reading", "failed"} => hears'[c] \in {"reading", "failed"}
          /\ \A c \in Conns : hears[c] = "failed" => hears'[c] = "failed"
          /\ writer # k => hears'[k] = "failed"
      BY <1>1, <1>3, <2>1, ReadsOnEffect
    <2>3. ConnectedIsHeard'
      BY <1>1, <1>3, <2>1, <2>2, HeardStays
    <2>4. DoubtIsSettled'
      <3>1. CASE state' # "SESSION_ACTIVE"
        BY <3>1, WhenNotActive
      <3>2. CASE proto'[k] = "ACTIVE"
        BY <1>3, <2>2, <3>2 DEF DoubtIsSettled
      <3>3. CASE at'["reconnect"] = "asks" /\ sent'["reconnect"].on = writer
        BY <1>3, <3>3 DEF DoubtIsSettled
      <3>4. CASE state' = state /\ \A q : Settles(q) => at'[q] = at[q] /\ sent'[q] = sent[q]
        <4>1. writer # None => writer \in Conns
          BY <1>1 DEF Rest
        <4> QED BY <1>1, <1>3, <1>5, <2>1, <2>2, <3>4, <4>1, SettledStays
      <3> QED BY <1>5, <1>6, <1>10, <3>1, <3>2, <3>3, <3>4 DEF AnswerEffect
    <2> QED BY <1>7, <1>8, <2>3, <2>4, Parts
  <1> QED BY <1>9, <1>10

LEMMA Initially ==
    ASSUME Init
    PROVE  ClientInv
  <1>1. writer \in Conns
    BY NamesAssumption DEF Init
  <1>2. "reconnect" \in Procs
    BY Names
  <1>3. Server!TypeOK
    BY DEF Init, Server!Init, Server!TypeOK, Server!Phases
  <1>4. Rest
    BY <1>1, <1>2, <1>3, Names DEF Init, Rest
  <1>5. line \in [Conns -> Seq(Procs)] /\ \A k \in Conns : Placed(line[k], k)
    BY DEF Init, Placed
  <1>6. Calls
    BY <1>5 DEF Init, Calls
  <1>7. ConnectedIsHeard
    BY <1>1 DEF Init, ConnectedIsHeard
  <1>8. DoubtIsSettled
    BY DEF Init, DoubtIsSettled
  <1> QED BY <1>4, <1>6, <1>7, <1>8, Parts

LEMMA Inductive ==
    ASSUME ClientInv, [Next]_vars
    PROVE  ClientInv'
  <1>1. CASE ReconnectStep
    BY <1>1, OpensStep, AttemptFailsStep, AttemptOverStep, NextAttemptStep DEF ReconnectStep
  <1>2. CASE DisconnectStep
    BY <1>2, DisconnectOverStep, DisconnectFailsStep DEF DisconnectStep
  <1>3. CASE \E u \in Clicks : Click(u) \/ ClickStep(u)
    BY <1>3, ClickStarts, OpensStep, ConnectFailsStep, ConnectClosedStep, SendLoginStep,
       LoginFailsStep DEF ClickStep
  <1>4. CASE \E k \in Conns : \/ Answered(k) \/ Unanswered(k) \/ Repeated(k)
                              \/ ServerCloses(k) \/ Breaks(k)
                              \/ ListenEnds(k) \/ LossReported(k)
    BY <1>4, AnsweredStep, UnansweredStep, RepeatedStep, ServerClosesStep, ListenEndsStep, LossReportedStep,
       OtherSteps
  <1> QED BY <1>1, <1>2, <1>3, <1>4, LogoutStep, RetransmitStep, KeepAliveStep, OtherSteps DEF Next

-----------------------------------------------------------------------------
(* The results. *)

\* However many windows, connections, tokens and failures there are, the coroutines of
\* session_manager.py and connection.py keep ClientInv.
THEOREM ClientInvariance == Spec => []ClientInv
  <1>1. Init => ClientInv
    BY Initially
  <1>2. ClientInv /\ [Next]_vars => ClientInv'
    BY Inductive
  <1> QED BY <1>1, <1>2, PTL DEF Spec

\* While is_connected is set there is a listening loop that will notice the end of the
\* connection, whichever coroutine opened or closed what.
THEOREM ConnectionIsHeard == Spec => []ConnectedIsHeard
  <1>1. ClientInv => ConnectedIsHeard
    BY DEF ClientInv
  <1> QED BY <1>1, ClientInvariance, PTL

\* A client at rest whose state is SESSION_ACTIVE has a server loop that is ACTIVE, or
\* one that has ended, which its listening loop will notice.
THEOREM QuietClientAgrees == Spec => []AgreesWhenQuiet
  <1>1. ClientInv => AgreesWhenQuiet
    <2>1. SUFFICES ASSUME ClientInv,
                          \A p \in Procs : at[p] = "off",
                          \A k \in Conns : hears[k] \in {"off", "reading"},
                          state = "SESSION_ACTIVE", Sendable, up[writer]
                   PROVE  proto[writer] \in {"ACTIVE", "CLOSED"}
      BY DEF AgreesWhenQuiet
    <2>2. writer \in Conns
      BY <2>1 DEF ClientInv, TypeOK, Sendable
    <2>3. proto[writer] \in {"CONNECTED", "AUTHENTICATED", "ACTIVE", "CLOSED"}
      BY <2>1, <2>2 DEF ClientInv, TypeOK
    <2>4. proto[writer] \notin {"CONNECTED", "AUTHENTICATED"}
      BY <2>1, Names DEF ClientInv, DoubtIsSettled
    <2> QED BY <2>3, <2>4
  <1> QED BY <1>1, ClientInvariance, PTL
=============================================================================
