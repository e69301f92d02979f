----------------------- MODULE ClientConnectionProofs -----------------------
(***************************************************************************)
(* The client's connection manager for every number of calls and pings,    *)
(* every limit on attempts and failures, and any number of reconnections.  *)
(*                                                                         *)
(* Inv is inductive.  A call is woken up only by what was read under its   *)
(* own id while it waited (AnswersAreOwn).  A 301 is sent only for a       *)
(* request that is known, on an ACTIVE connection, and a connection stays  *)
(* ACTIVE until it is closed and everything under way on it is lost; so    *)
(* nothing but 301s can follow a 301 (DuplicatesInOrder), and a call that  *)
(* was told 301 does not send again.                                       *)
(***************************************************************************)
EXTENDS ClientConnection, TLAPS

States == {"idle", "waiting", "pause", "returned", "raised", "broken", "cancelled"}

LEMMA Appended ==
    ASSUME NEW S, NEW q \in Seq(S), NEW e \in S
    PROVE  /\ Append(q, e) \in Seq(S) /\ Len(q) \in Nat
           /\ Len(Append(q, e)) = Len(q) + 1
           /\ Append(q, e)[Len(q) + 1] = e
           /\ \A k \in 1 .. Len(q) : Append(q, e)[k] = q[k]
           /\ \A k \in 1 .. Len(q) + 1 : k \in 1 .. Len(q) \/ k = Len(q) + 1
  OBVIOUS

LEMMA TailFacts ==
    ASSUME NEW S, NEW q \in Seq(S), q # <<>>
    PROVE  /\ Tail(q) \in Seq(S) /\ Head(q) = q[1] /\ Head(q) \in S
           /\ Len(q) \in Nat \ {0} /\ Len(Tail(q)) = Len(q) - 1
           /\ \A k \in 1 .. Len(Tail(q)) : k + 1 \in 1 .. Len(q) /\ Tail(q)[k] = q[k + 1]
  OBVIOUS

LEMMA EmptyFacts == ASSUME NEW S PROVE <<>> \in Seq(S) /\ Len(<<>>) = 0 /\ 1 .. 0 = {}
  OBVIOUS

-----------------------------------------------------------------------------
(* A turn of send_frame changes one call. *)

LEMMA CallChanged ==
    ASSUME Inv, NEW i \in Ids,
           NEW c \in States \ {"idle"}, NEW a \in 0 .. MaxAttempts, NEW p \in {"none", "pending"},
           call' = [call EXCEPT ![i] = c], attempt' = [attempt EXCEPT ![i] = a],
           pending' = [pending EXCEPT ![i] = p],
           p = "pending" <=> c = "waiting",
           c \in {"waiting", "pause"} => a > 0,
           c = "pause" => a < MaxAttempts,
           c = "returned" => i \in answered,
           duplicates' \in SUBSET Ids,
           duplicates' \ {i} = duplicates \ {i},
           i \in duplicates' => /\ i \in duplicates \/ pending[i] = "duplicate"
                                /\ c \in {"waiting", "broken"},
           \/ toServer' = toServer
           \/ toServer' = Append(toServer, i) /\ i \notin duplicates' /\ connected,
           \/ /\ keepAlive' = keepAlive
              /\ c \in {"waiting", "pause"} => call[i] \in {"waiting", "pause"} \/ i \notin Pings
           \/ keepAlive = "sleeping" /\ keepAlive' = i /\ i \in Pings,
           UNCHANGED <<failures, link, toClient, server, answered>>
    PROVE  Inv'
  <1> USE IdsAssumption, BoundsAssumption
  <1>1. /\ TypeOK /\ Bookkeeping
        /\ call' \in [Ids -> States] /\ attempt' \in [Ids -> 0 .. MaxAttempts]
        /\ pending' \in [Ids -> {"none", "pending", "answer", "duplicate"}]
        /\ keepAlive' \in {"off", "sleeping"} \cup Pings
    <2>1. TypeOK /\ Bookkeeping
      BY DEF Inv, Bookkeeping
    <2>2. /\ call \in [Ids -> States] /\ attempt \in [Ids -> 0 .. MaxAttempts]
          /\ pending \in [Ids -> {"none", "pending", "answer", "duplicate"}]
          /\ keepAlive \in {"off", "sleeping"} \cup Pings
      BY <2>1 DEF TypeOK, States
    <2>3. call' \in [Ids -> States]
      BY <2>2
    <2>4. attempt' \in [Ids -> 0 .. MaxAttempts]
      BY <2>2
    <2>5. pending' \in [Ids -> {"none", "pending", "answer", "duplicate"}]
      BY <2>2
    <2>6. keepAlive' \in {"off", "sleeping"} \cup Pings
      BY <2>2
    <2> QED BY <2>1, <2>3, <2>4, <2>5, <2>6
  <1>2. toServer' \in Seq(Ids)
    <2>1. toServer \in Seq(Ids)
      BY <1>1 DEF TypeOK
    <2>2. Append(toServer, i) \in Seq(Ids)
      BY <2>1, Appended
    <2> QED BY <2>1, <2>2
  <1>3. TypeOK'
    BY <1>1, <1>2 DEF TypeOK, States, link, server
  <1>4. /\ call'[i] = c /\ attempt'[i] = a /\ pending'[i] = p
        /\ \A j \in Ids \ {i} : /\ call'[j] = call[j] /\ attempt'[j] = attempt[j]
                                /\ pending'[j] = pending[j]
                                /\ j \in duplicates' <=> j \in duplicates
    BY <1>1 DEF TypeOK
  <1>5. Bookkeeping'
    <2>1. ASSUME NEW j \in Ids
          PROVE  /\ pending'[j] # "none" <=> call'[j] = "waiting"
                 /\ call'[j] = "idle" => attempt'[j] = 0
                 /\ call'[j] \in {"waiting", "pause"} => attempt'[j] > 0
                 /\ call'[j] = "pause" => attempt'[j] < MaxAttempts
                 /\ j \in duplicates' => call'[j] \in {"waiting", "broken"}
      <3>1. CASE j = i
        BY <1>4, <3>1
      <3>2. CASE j # i
        BY <1>1, <1>4, <3>2 DEF Bookkeeping
      <3> QED BY <3>1, <3>2
    <2>2. ASSUME NEW q \in Pings
          PROVE  /\ call'[q] \in {"waiting", "pause"} => keepAlive' = q
                 /\ q \notin duplicates' /\ pending'[q] # "duplicate"
      BY <1>1, <1>4 DEF Bookkeeping, Ids
    <2>3. keepAlive' # "off" => connected'
      BY <1>1 DEF Bookkeeping, link
    <2>4. /\ toServer' # <<>> \/ toClient' # <<>> \/ active' => connected'
          /\ active' => session' = "active"
          /\ session' = "resuming" => keepAlive' = "off"
      BY <1>1 DEF Bookkeeping, link, server
    <2> QED BY <1>3, <2>1, <2>2, <2>3, <2>4 DEF Bookkeeping
  <1>6. (\A j \in Ids : pending[j] = "answer" => j \in answered)' /\ AnswersAreOwn'
    BY <1>4 DEF Inv, AnswersAreOwn
  <1>7. DuplicateIsLast'
    BY <1>4 DEF Inv, DuplicateIsLast, server
  <1>8. DuplicatesInOrder'
    <2>1. \A j \in Ids : j \in duplicates' \/ pending'[j] = "duplicate" =>
                            j \in duplicates \/ pending[j] = "duplicate"
      BY <1>4
    <2>2. ASSUME NEW k \in 1 .. Len(toServer'),
                 toServer'[k] \in duplicates' \/ pending'[toServer'[k]] = "duplicate"
          PROVE  active' /\ toServer'[k] \in known'
      <3>1. CASE toServer' = toServer
        <4>1. toServer[k] \in Ids
          BY <1>1, <3>1 DEF TypeOK
        <4> QED BY <2>1, <2>2, <3>1, <4>1 DEF Inv, DuplicatesInOrder, server
      <3>2. CASE toServer' = Append(toServer, i) /\ i \notin duplicates'
        <4>1. CASE k = Len(toServer) + 1
          BY <1>1, <1>4, <2>2, <3>2, <4>1, Appended DEF TypeOK
        <4>2. CASE k \in 1 .. Len(toServer)
          <5>1. toServer'[k] = toServer[k] /\ toServer[k] \in Ids
            BY <1>1, <3>2, <4>2, Appended DEF TypeOK
          <5> QED BY <2>1, <2>2, <4>2, <5>1 DEF Inv, DuplicatesInOrder, server
        <4> QED BY <1>1, <2>2, <3>2, <4>1, <4>2, Appended DEF TypeOK
      <3> QED BY <3>1, <3>2
    <2>3. \A k \in 1 .. Len(toClient'), j \in Ids : toClient'[k] = <<j, "duplicate">> =>
              /\ active' /\ j \in known'
              /\ \A l \in k + 1 .. Len(toClient') : toClient'[l] # <<j, "answer">>
      BY DEF Inv, DuplicatesInOrder, server
    <2> QED BY <2>2, <2>3 DEF DuplicatesInOrder
  <1> QED BY <1>5, <1>6, <1>7, <1>8 DEF Inv

\* A new future: with the frame, or without it after a 301; or the connection is down.
LEMMA AttemptMade ==
    ASSUME Inv, NEW i \in Ids, Attempt(i, duplicates'), attempt[i] < MaxAttempts,
           \/ duplicates' = duplicates /\ i \notin duplicates
           \/ duplicates' = duplicates \cup {i} /\ pending[i] = "duplicate",
           \/ keepAlive' = keepAlive /\ (call[i] \in {"waiting", "pause"} \/ i \notin Pings)
           \/ keepAlive = "sleeping" /\ keepAlive' = i /\ i \in Pings,
           UNCHANGED <<failures, link, toClient, server, answered>>
    PROVE  Inv'
  <1> USE BoundsAssumption
  <1>1. TypeOK
    BY DEF Inv, Bookkeeping
  <1>2. attempt[i] \in 0 .. MaxAttempts /\ attempt = [attempt EXCEPT ![i] = attempt[i]]
    BY <1>1 DEF TypeOK
  <1>3. duplicates' \in SUBSET Ids /\ duplicates' \ {i} = duplicates \ {i}
    BY <1>1 DEF TypeOK
  <1>4. CASE connected /\ toServer' = IF i \in duplicates' THEN toServer ELSE Append(toServer, i)
    <2>1. CASE call' = [call EXCEPT ![i] = "waiting"]
      <3>1. /\ pending' = [pending EXCEPT ![i] = "pending"]
            /\ attempt' = [attempt EXCEPT ![i] = attempt[i] + 1]
        BY <1>4, <2>1 DEF Attempt, Leave, TypeOK
      <3>2. attempt[i] + 1 \in 0 .. MaxAttempts /\ attempt[i] + 1 > 0
        BY <1>2
      <3>3. "waiting" \in States \ {"idle"}
        BY DEF States
      <3> QED BY <1>3, <1>4, <2>1, <3>1, <3>2, <3>3, CallChanged
    <2> QED BY <1>4, <2>1 DEF Attempt
  <1>5. CASE ~connected
    <2>1. /\ call' = [call EXCEPT ![i] = "broken"] /\ pending' = [pending EXCEPT ![i] = "none"]
          /\ attempt' = attempt /\ toServer' = toServer
      BY <1>5 DEF Attempt, Leave
    <2>2. "broken" \in States \ {"idle"}
      BY DEF States
    <2> QED BY <1>2, <1>3, <2>1, <2>2, CallChanged
  <1> QED BY <1>4, <1>5 DEF Attempt

LEMMA CallStep ==
    ASSUME Inv, NEW i \in Requests, Call(i)
    PROVE  Inv'
  <1>1. /\ i \in Ids /\ attempt[i] < MaxAttempts /\ i \notin duplicates /\ i \notin Pings
        /\ duplicates' = duplicates
    BY IdsAssumption, BoundsAssumption DEF Call, Inv, Bookkeeping, Ids
  <1>2. Attempt(i, duplicates') /\ keepAlive' = keepAlive
    BY <1>1 DEF Call, loop
  <1>3. UNCHANGED <<failures, link, toClient, server, answered>>
    BY DEF Call, loop
  <1> QED BY <1>1, <1>2, <1>3, AttemptMade

LEMMA PingStep ==
    ASSUME Inv, NEW i \in Pings, Ping(i)
    PROVE  Inv'
  <1>1. /\ i \in Ids /\ attempt[i] < MaxAttempts /\ i \notin duplicates
        /\ duplicates' = duplicates
    BY BoundsAssumption DEF Ping, Inv, Bookkeeping, Ids
  <1>2. Attempt(i, duplicates') /\ keepAlive = "sleeping" /\ keepAlive' = i
    BY <1>1 DEF Ping
  <1>3. UNCHANGED <<failures, link, toClient, server, answered>>
    BY DEF Ping
  <1> QED BY <1>1, <1>2, <1>3, AttemptMade

LEMMA RetransmitStep ==
    ASSUME Inv, NEW i \in Ids, Retransmit(i)
    PROVE  Inv'
  <1>1. /\ attempt[i] < MaxAttempts /\ i \notin duplicates /\ duplicates' = duplicates
        /\ call[i] = "pause"
    BY DEF Retransmit, Inv, Bookkeeping
  <1>2. Attempt(i, duplicates') /\ keepAlive' = keepAlive
    BY <1>1 DEF Retransmit, loop
  <1>3. UNCHANGED <<failures, link, toClient, server, answered>>
    BY DEF Retransmit, loop
  <1> QED BY <1>1, <1>2, <1>3, AttemptMade

\* A call that stops waiting and sends nothing.
LEMMA CallLeft ==
    ASSUME Inv, NEW i \in Ids, call[i] = "waiting",
           NEW c \in {"pause", "returned", "raised"}, Leave(i, c),
           c = "pause" => attempt[i] < MaxAttempts,
           c = "returned" => i \in answered,
           duplicates' = duplicates \ {i},
           UNCHANGED <<loop, link, toClient, server, answered>>
    PROVE  Inv'
  <1>1. TypeOK /\ attempt[i] > 0
    BY DEF Inv, Bookkeeping
  <1>2. /\ attempt[i] \in 0 .. MaxAttempts /\ attempt' = [attempt EXCEPT ![i] = attempt[i]]
        /\ call' = [call EXCEPT ![i] = c] /\ pending' = [pending EXCEPT ![i] = "none"]
        /\ toServer' = toServer
    BY <1>1 DEF Leave, TypeOK
  <1>3. /\ c \in States \ {"idle"} /\ c # "waiting" /\ "none" # "pending"
        /\ duplicates' \in SUBSET Ids /\ duplicates' \ {i} = duplicates \ {i}
        /\ i \notin duplicates' /\ keepAlive' = keepAlive
    BY <1>1 DEF States, TypeOK, loop
  <1> QED BY <1>1, <1>2, <1>3, CallChanged DEF loop

LEMMA ReturnStep ==
    ASSUME Inv, NEW i \in Ids, Return(i)
    PROVE  Inv'
  <1>1. call[i] = "waiting" /\ i \in answered
    BY DEF Return, Inv, Bookkeeping
  <1> QED BY <1>1, CallLeft DEF Return

LEMMA TimeoutStep ==
    ASSUME Inv, NEW i \in Ids, Timeout(i)
    PROVE  Inv'
  <1>1. call[i] = "waiting"
    BY DEF Timeout, Inv, Bookkeeping
  <1>2. PICK c : c = IF attempt[i] < MaxAttempts THEN "pause" ELSE "raised"
    OBVIOUS
  <1>3. c \in {"pause", "returned", "raised"} /\ Leave(i, c)
    BY <1>2 DEF Timeout
  <1> QED BY <1>1, <1>2, <1>3, CallLeft DEF Timeout

LEMMA DuplicateStep ==
    ASSUME Inv, NEW i \in Ids, Duplicate(i)
    PROVE  Inv'
  <1>1. call[i] = "waiting"
    BY DEF Duplicate, Inv, Bookkeeping
  <1>2. CASE attempt[i] < MaxAttempts /\ Attempt(i, duplicates') /\ duplicates' = duplicates \cup {i}
    BY <1>1, <1>2, AttemptMade DEF Duplicate, loop
  <1>3. CASE Leave(i, "raised") /\ duplicates' = duplicates \ {i}
    BY <1>1, <1>3, CallLeft DEF Duplicate
  <1> QED BY <1>2, <1>3 DEF Duplicate

-----------------------------------------------------------------------------
(* The frames under way. *)

LEMMA ServeStep ==
    ASSUME Inv, Serve
    PROVE  Inv'
  <1> USE IdsAssumption, BoundsAssumption
  <1>1. PICK i, a : i = Head(toServer) /\ a = Reply(i)
    OBVIOUS
  <1>2. /\ toServer \in Seq(Ids) /\ toClient \in Seq(Ids \X Answers) /\ known \in SUBSET Requests
        /\ toServer # <<>> /\ toServer' = Tail(toServer)
        /\ toClient' = Append(toClient, <<i, a>>)
        /\ known' = IF active THEN known \cup ({i} \cap Requests) ELSE known
        /\ UNCHANGED <<calls, loop, link, active, answered>>
    BY <1>1 DEF Inv, Bookkeeping, TypeOK, Serve
  <1>3. i \in Ids /\ a \in Answers /\ <<i, a>> \in Ids \X Answers
    BY <1>1, <1>2, TailFacts DEF Reply, Answers
  <1>4. /\ a = "duplicate" => active /\ i \in known
        /\ a = "answer" => ~active \/ i \notin known
    BY <1>1 DEF Reply
  <1>5. connected
    BY <1>2 DEF Inv, Bookkeeping
  <1>6. TypeOK'
    <2>1. toServer' \in Seq(Ids) /\ toClient' \in Seq(Ids \X Answers)
      BY <1>2, <1>3, Appended, TailFacts
    <2>2. known' \in SUBSET Requests
      BY <1>2
    <2> QED BY <1>2, <2>1, <2>2 DEF Inv, Bookkeeping, TypeOK, calls, loop, link
  <1>7. Bookkeeping'
    BY <1>2, <1>5, <1>6 DEF Inv, Bookkeeping, calls, loop, link
  <1>8. (\A j \in Ids : pending[j] = "answer" => j \in answered)' /\ AnswersAreOwn'
    BY <1>2 DEF Inv, AnswersAreOwn, calls
  <1>9. /\ Len(toClient) \in Nat /\ Len(toClient') = Len(toClient) + 1
        /\ toClient'[Len(toClient) + 1] = <<i, a>>
        /\ \A m \in 1 .. Len(toClient) : toClient'[m] = toClient[m]
    BY <1>2, <1>3, Appended
  <1>10. ASSUME NEW j \in Ids, i = j => active /\ j \in known, NEW k \in Nat \ {0},
                \A l \in k .. Len(toClient) : toClient[l] # <<j, "answer">>
         PROVE  \A l \in k .. Len(toClient') : toClient'[l] # <<j, "answer">>
    <2> TAKE l \in k .. Len(toClient')
    <2>1. CASE l \in k .. Len(toClient)
      BY <1>9, <1>10, <2>1
    <2>2. CASE l = Len(toClient) + 1
      BY <1>4, <1>9, <1>10, <2>2
    <2> QED BY <1>9, <2>1, <2>2
  <1>11. DuplicateIsLast'
    <2> SUFFICES ASSUME NEW j \in Ids, j \in duplicates' \/ pending'[j] = "duplicate"
                 PROVE  \A l \in 1 .. Len(toClient') : toClient'[l] # <<j, "answer">>
      BY DEF DuplicateIsLast
    <2>1. j \in duplicates \/ pending[j] = "duplicate"
      BY <1>2 DEF calls
    <2>2. \A l \in 1 .. Len(toClient) : toClient[l] # <<j, "answer">>
      BY <2>1 DEF Inv, DuplicateIsLast
    <2>3. i = j => active /\ j \in known
      <3>1. i = toServer[1] /\ 1 \in 1 .. Len(toServer)
        BY <1>1, <1>2, TailFacts
      <3> QED BY <2>1, <3>1 DEF Inv, DuplicatesInOrder
    <2>4. 1 \in Nat \ {0}
      OBVIOUS
    <2> QED BY <1>10, <2>2, <2>3, <2>4
  <1>12. DuplicatesInOrder'
    <2>1. ASSUME NEW k \in 1 .. Len(toClient'), NEW j \in Ids, toClient'[k] = <<j, "duplicate">>
          PROVE  /\ active' /\ j \in known'
                 /\ \A l \in k + 1 .. Len(toClient') : toClient'[l] # <<j, "answer">>
      <3>1. CASE k \in 1 .. Len(toClient)
        <4>1. toClient[k] = <<j, "duplicate">>
          BY <1>9, <2>1, <3>1
        <4>2. /\ active /\ j \in known
              /\ \A l \in k + 1 .. Len(toClient) : toClient[l] # <<j, "answer">>
          BY <3>1, <4>1 DEF Inv, DuplicatesInOrder
        <4>3. k + 1 \in Nat \ {0}
          BY <3>1
        <4>4. \A l \in k + 1 .. Len(toClient') : toClient'[l] # <<j, "answer">>
          BY <1>10, <4>2, <4>3
        <4> QED BY <1>2, <4>2, <4>4
      <3>2. CASE k = Len(toClient) + 1
        <4>1. i = j /\ a = "duplicate"
          BY <1>9, <2>1, <3>2
        <4>2. k + 1 .. Len(toClient') = {}
          BY <1>9, <3>2
        <4> QED BY <1>2, <1>4, <4>1, <4>2
      <3> QED BY <1>9, <3>1, <3>2
    <2>2. ASSUME NEW k \in 1 .. Len(toServer'),
                 toServer'[k] \in duplicates' \/ pending'[toServer'[k]] = "duplicate"
          PROVE  active' /\ toServer'[k] \in known'
      <3>1. k + 1 \in 1 .. Len(toServer) /\ toServer'[k] = toServer[k + 1]
        BY <1>2, TailFacts
      <3>2. toServer[k + 1] \in duplicates \/ pending[toServer[k + 1]] = "duplicate"
        BY <1>2, <2>2, <3>1 DEF calls
      <3> QED BY <1>2, <3>1, <3>2 DEF Inv, DuplicatesInOrder
    <2> QED BY <2>1, <2>2 DEF DuplicatesInOrder
  <1> QED BY <1>7, <1>8, <1>11, <1>12 DEF Inv

LEMMA ListenStep ==
    ASSUME Inv, Listen
    PROVE  Inv'
  <1> USE IdsAssumption, BoundsAssumption
  <1>1. PICK m : m = Head(toClient)
    OBVIOUS
  <1>2. /\ toClient \in Seq(Ids \X Answers) /\ toClient # <<>> /\ toClient' = Tail(toClient)
        /\ IF m[2] = "pong" THEN pending' = pending ELSE Deliver(m)
        /\ answered' = IF m[2] # "duplicate" /\ call[m[1]] \in {"waiting", "pause"}
                       THEN answered \cup {m[1]} ELSE answered
        /\ UNCHANGED <<call, attempt, duplicates, loop, link, toServer, server>>
    BY <1>1 DEF Inv, Bookkeeping, TypeOK, Listen
  <1>3. /\ m \in Ids \X Answers /\ m = toClient[1] /\ 1 \in 1 .. Len(toClient)
        /\ toClient' \in Seq(Ids \X Answers) /\ Len(toClient) \in Nat
        /\ Len(toClient') = Len(toClient) - 1
        /\ \A k \in 1 .. Len(toClient') :
               k + 1 \in 1 .. Len(toClient) /\ toClient'[k] = toClient[k + 1]
    BY <1>1, <1>2, TailFacts
  <1>4. m[1] \in Ids /\ m[2] \in Answers /\ m = <<m[1], m[2]>>
    BY <1>3
  <1>5. TypeOK
    BY DEF Inv, Bookkeeping
  <1>6. \A j \in Ids : \/ pending'[j] = pending[j]
                       \/ /\ j = m[1] /\ pending[j] = "pending" /\ pending'[j] = m[2]
                          /\ m[2] \in {"answer", "duplicate"}
    BY <1>2, <1>4, <1>5 DEF TypeOK, Deliver, Answers
  <1>7. pending' \in [Ids -> {"none", "pending", "answer", "duplicate"}]
    <2>1. CASE m[2] = "pong"
      BY <1>2, <1>5, <2>1 DEF TypeOK
    <2>2. CASE m[2] \in {"answer", "duplicate"}
      <3>1. PICK v : v = IF pending[m[1]] = "pending" THEN m[2] ELSE pending[m[1]]
        OBVIOUS
      <3>2. v \in {"none", "pending", "answer", "duplicate"}
        BY <1>4, <1>5, <2>2, <3>1 DEF TypeOK
      <3>3. pending' = [pending EXCEPT ![m[1]] = v]
        BY <1>2, <2>2, <3>1 DEF Deliver
      <3> QED BY <1>5, <3>2, <3>3 DEF TypeOK
    <2> QED BY <1>4, <2>1, <2>2 DEF Answers
  <1>8. TypeOK'
    BY <1>2, <1>3, <1>4, <1>5, <1>7 DEF TypeOK, loop, link, server
  <1>9. Bookkeeping'
    <2>1. \A j \in Ids : pending'[j] # "none" <=> pending[j] # "none"
      BY <1>6
    <2>2. connected
      BY <1>2 DEF Inv, Bookkeeping
    <2>3. ASSUME NEW q \in Pings PROVE pending'[q] # "duplicate"
      <3>1. q \in Ids /\ pending[q] # "duplicate"
        BY DEF Inv, Bookkeeping, Ids
      <3>2. m # <<q, "duplicate">>
        BY <1>3, <1>5, <3>1 DEF Inv, DuplicatesInOrder, TypeOK
      <3> QED BY <1>4, <1>6, <3>1, <3>2
    <2> QED BY <1>2, <1>8, <2>1, <2>2, <2>3 DEF Inv, Bookkeeping, loop, link, server
  <1>10. (\A j \in Ids : pending[j] = "answer" => j \in answered)'
    <2> SUFFICES ASSUME NEW j \in Ids, pending'[j] = "answer" PROVE j \in answered'
      OBVIOUS
    <2>1. CASE pending'[j] = pending[j]
      BY <1>2, <2>1 DEF Inv
    <2>2. CASE j = m[1] /\ pending[j] = "pending" /\ pending'[j] = m[2]
      <3>1. call[j] = "waiting" /\ m[2] = "answer"
        BY <2>2 DEF Inv, Bookkeeping
      <3> QED BY <1>2, <2>2, <3>1
    <2> QED BY <1>6, <2>1, <2>2
  <1>11. AnswersAreOwn'
    BY <1>2 DEF Inv, AnswersAreOwn
  <1>12. DuplicateIsLast'
    <2> SUFFICES ASSUME NEW j \in Ids, j \in duplicates' \/ pending'[j] = "duplicate"
                 PROVE  \A k \in 1 .. Len(toClient') : toClient'[k] # <<j, "answer">>
      BY DEF DuplicateIsLast
    <2>1. CASE j \in duplicates \/ pending[j] = "duplicate"
      <3>1. \A k \in 1 .. Len(toClient) : toClient[k] # <<j, "answer">>
        BY <2>1 DEF Inv, DuplicateIsLast
      <3> QED BY <1>3, <3>1
    <2>2. CASE j = m[1] /\ m[2] = "duplicate"
      <3>1. /\ toClient[1] = <<j, "duplicate">>
            /\ \A l \in 1 + 1 .. Len(toClient) : toClient[l] # <<j, "answer">>
        BY <1>3, <1>4, <2>2 DEF Inv, DuplicatesInOrder
      <3>2. \A k \in 1 .. Len(toClient') : k + 1 \in 1 + 1 .. Len(toClient)
        BY <1>3
      <3> QED BY <1>3, <3>1, <3>2
    <2> QED BY <1>2, <1>6, <2>1, <2>2
  <1>13. DuplicatesInOrder'
    <2>1. ASSUME NEW k \in 1 .. Len(toClient'), NEW j \in Ids, toClient'[k] = <<j, "duplicate">>
          PROVE  /\ active' /\ j \in known'
                 /\ \A l \in k + 1 .. Len(toClient') : toClient'[l] # <<j, "answer">>
      <3>1. k + 1 \in 1 .. Len(toClient) /\ toClient[k + 1] = <<j, "duplicate">>
        BY <1>3, <2>1
      <3>2. /\ active /\ j \in known
            /\ \A l \in k + 1 + 1 .. Len(toClient) : toClient[l] # <<j, "answer">>
        BY <3>1 DEF Inv, DuplicatesInOrder
      <3>3. \A l \in k + 1 .. Len(toClient') : /\ toClient'[l] = toClient[l + 1]
                                              /\ l + 1 \in k + 1 + 1 .. Len(toClient)
        BY <1>3
      <3> QED BY <1>2, <3>2, <3>3 DEF server
    <2>2. ASSUME NEW k \in 1 .. Len(toServer'),
                 toServer'[k] \in duplicates' \/ pending'[toServer'[k]] = "duplicate"
          PROVE  active' /\ toServer'[k] \in known'
      <3>1. /\ toServer' = toServer /\ duplicates' = duplicates
            /\ active' = active /\ known' = known
        BY <1>2 DEF server
      <3>2. toServer[k] \in Ids
        BY <1>5, <3>1 DEF TypeOK
      <3>3. CASE toServer[k] \in duplicates \/ pending[toServer[k]] = "duplicate"
        BY <3>1, <3>3 DEF Inv, DuplicatesInOrder
      <3>4. CASE toServer[k] = m[1] /\ m[2] = "duplicate"
        BY <1>3, <1>4, <3>1, <3>4 DEF Inv, DuplicatesInOrder
      <3> QED BY <1>6, <2>2, <3>1, <3>2, <3>3, <3>4
    <2> QED BY <2>1, <2>2 DEF DuplicatesInOrder
  <1> QED BY <1>9, <1>10, <1>11, <1>12, <1>13 DEF Inv

-----------------------------------------------------------------------------
(* The connection, the session and the keep-alive loop. *)

LEMMA CloseStep ==
    ASSUME Inv, CloseSockets, session' \in {"none", "active", "resuming"}
    PROVE  Inv'
  <1> USE IdsAssumption, BoundsAssumption
  <1>1. TypeOK /\ Bookkeeping
    BY DEF Inv, Bookkeeping
  <1>2. /\ connected' = FALSE /\ keepAlive' = "off" /\ active' = FALSE
        /\ toServer' = <<>> /\ toClient' = <<>>
        /\ UNCHANGED <<attempt, duplicates, failures, reconnects, known, answered>>
    BY DEF CloseSockets
  <1>3. call' \in [Ids -> States] /\ pending' \in [Ids -> {"none", "pending", "answer", "duplicate"}]
    BY <1>1 DEF CloseSockets, TypeOK, States
  <1>4. TypeOK'
    BY <1>1, <1>2, <1>3, EmptyFacts DEF TypeOK, States
  <1>5. \A i \in Ids : IF i = keepAlive
                       THEN /\ call'[i] = IF call[i] \in {"waiting", "pause"} THEN "cancelled" ELSE call[i]
                            /\ pending'[i] = "none"
                       ELSE call'[i] = call[i] /\ pending'[i] = pending[i]
    BY DEF CloseSockets
  <1>6. keepAlive \notin duplicates
    BY <1>1 DEF TypeOK, Bookkeeping, Ids
  <1>7. Bookkeeping'
    <2>1. ASSUME NEW i \in Ids
          PROVE  /\ pending'[i] # "none" <=> call'[i] = "waiting"
                 /\ call'[i] = "idle" => attempt'[i] = 0
                 /\ call'[i] \in {"waiting", "pause"} => attempt'[i] > 0
                 /\ call'[i] = "pause" => attempt'[i] < MaxAttempts
                 /\ i \in duplicates' => call'[i] \in {"waiting", "broken"}
      <3>1. CASE i = keepAlive
        BY <1>1, <1>2, <1>5, <1>6, <3>1 DEF Bookkeeping
      <3>2. CASE i # keepAlive
        BY <1>1, <1>2, <1>5, <3>2 DEF Bookkeeping
      <3> QED BY <3>1, <3>2
    <2>2. ASSUME NEW p \in Pings
          PROVE  /\ call'[p] \in {"waiting", "pause"} => keepAlive' = p
                 /\ p \notin duplicates' /\ pending'[p] # "duplicate"
      BY <1>1, <1>2, <1>5 DEF Bookkeeping, Ids
    <2> QED BY <1>2, <1>4, <2>1, <2>2 DEF Bookkeeping
  <1>8. (\A i \in Ids : pending[i] = "answer" => i \in answered)' /\ AnswersAreOwn'
    BY <1>2, <1>5 DEF Inv, AnswersAreOwn
  <1>9. DuplicateIsLast'
    BY <1>2, <1>5 DEF Inv, DuplicateIsLast
  <1>10. DuplicatesInOrder'
    BY <1>2 DEF DuplicatesInOrder
  <1> QED BY <1>7, <1>8, <1>9, <1>10 DEF Inv

\* Steps of the session and the keep-alive loop, which touch no call and no frame.
LEMMA LinkChanged ==
    ASSUME Inv, UNCHANGED <<calls, toServer, toClient, answered>>, TypeOK',
           active => active' /\ known' = known,
           connected => connected', active' => connected',
           active' => session' = "active", keepAlive' # "off" => connected',
           session' = "resuming" => keepAlive' = "off",
           \A p \in Pings : call[p] \in {"waiting", "pause"} => keepAlive' = p
    PROVE  Inv'
  <1>1. Bookkeeping'
    BY DEF Inv, Bookkeeping, calls
  <1>2. (\A i \in Ids : pending[i] = "answer" => i \in answered)' /\ AnswersAreOwn'
    BY DEF Inv, AnswersAreOwn, calls
  <1>3. DuplicateIsLast' /\ DuplicatesInOrder'
    BY DEF Inv, DuplicateIsLast, DuplicatesInOrder, calls
  <1> QED BY <1>1, <1>2, <1>3 DEF Inv

LEMMA LinkStep ==
    ASSUME Inv, LoggedIn \/ Reconnect \/ Resumed \/ ResumeRefused
    PROVE  Inv'
  <1> USE IdsAssumption, BoundsAssumption
  <1>1. TypeOK /\ Bookkeeping
    BY DEF Inv, Bookkeeping
  <1>2. CASE LoggedIn
    BY <1>1, <1>2, LinkChanged DEF LoggedIn, Bookkeeping, TypeOK, calls, loop
  <1>3. CASE Reconnect
    BY <1>1, <1>3, LinkChanged DEF Reconnect, Bookkeeping, TypeOK, calls, loop, server
  <1>4. CASE Resumed
    <2>1. \A p \in Pings : call[p] \notin {"waiting", "pause"}
      BY <1>1, <1>4 DEF Resumed, Bookkeeping
    <2> QED BY <1>1, <1>4, <2>1, LinkChanged DEF Resumed, Bookkeeping, TypeOK, calls
  <1>5. CASE ResumeRefused
    BY <1>1, <1>5, LinkChanged DEF ResumeRefused, Bookkeeping, TypeOK, calls, loop, server
  <1> QED BY <1>2, <1>3, <1>4, <1>5

LEMMA LoopStep ==
    ASSUME Inv, Rest \/ PingReturned \/ PingFailed
    PROVE  Inv'
  <1> USE IdsAssumption, BoundsAssumption
  <1>1. TypeOK /\ Bookkeeping
    BY DEF Inv, Bookkeeping
  <1>2. /\ UNCHANGED <<calls, link, toServer, toClient, server, answered>>
        /\ keepAlive # "off" /\ keepAlive' \in {"sleeping", keepAlive}
        /\ keepAlive' = keepAlive \/ call[keepAlive] \notin {"waiting", "pause"}
        /\ failures' \in 0 .. MaxPingFailures
    BY <1>1 DEF Rest, PingReturned, PingFailed, TypeOK
  <1>3. TypeOK'
    BY <1>1, <1>2 DEF TypeOK, calls, link, server
  <1>4. /\ connected /\ session # "resuming"
        /\ \A p \in Pings : call[p] \in {"waiting", "pause"} => keepAlive' = p
    BY <1>1, <1>2 DEF Bookkeeping
  <1> QED BY <1>1, <1>2, <1>3, <1>4, LinkChanged DEF Bookkeeping, link, server

-----------------------------------------------------------------------------
(* The theorems. *)

LEMMA Initially == Init => Inv
  <1> USE IdsAssumption, BoundsAssumption
  <1> SUFFICES ASSUME Init PROVE Inv
    OBVIOUS
  <1>1. TypeOK
    <2>1. toServer \in Seq(Ids) /\ toClient \in Seq(Ids \X Answers)
      BY EmptyFacts DEF Init
    <2>2. /\ call \in [Ids -> {"idle"}] /\ attempt \in [Ids -> {0}] /\ pending \in [Ids -> {"none"}]
          /\ duplicates \in SUBSET Ids /\ known \in SUBSET Requests /\ answered \in SUBSET Ids
      BY DEF Init
    <2>3. 0 \in 0 .. MaxAttempts /\ 0 \in 0 .. MaxPingFailures /\ 0 \in 0 .. MaxReconnects
      OBVIOUS
    <2>4. attempt \in [Ids -> 0 .. MaxAttempts]
      BY <2>2, <2>3
    <2> QED BY <2>1, <2>2, <2>3, <2>4 DEF Init, TypeOK
  <1>2. Bookkeeping
    <2>1. \A i \in Ids : call[i] = "idle" /\ pending[i] = "none" /\ attempt[i] = 0
      BY DEF Init
    <2> QED BY <1>1, <2>1 DEF Init, Bookkeeping, Ids
  <1> QED BY <1>2, EmptyFacts DEF Init, Inv, AnswersAreOwn, DuplicateIsLast, DuplicatesInOrder

LEMMA Inductive == Inv /\ [Next]_vars => Inv'
  <1> SUFFICES ASSUME Inv, [Next]_vars PROVE Inv'
    OBVIOUS
  <1>1. ASSUME NEW i \in Requests, Call(i) PROVE Inv'
    BY <1>1, CallStep
  <1>2. ASSUME NEW i \in Ids, Progress(i) PROVE Inv'
    BY <1>2, ReturnStep, DuplicateStep, TimeoutStep, RetransmitStep DEF Progress
  <1>3. ASSUME NEW p \in Pings, Ping(p) PROVE Inv'
    BY <1>3, PingStep
  <1>4. CASE Listen
    BY <1>4, ListenStep
  <1>5. CASE Serve
    BY <1>5, ServeStep
  <1>6. CASE LoggedIn \/ Reconnect \/ Resumed \/ ResumeRefused
    BY <1>6, LinkStep
  <1>7. CASE Rest \/ PingReturned \/ PingFailed
    BY <1>7, LoopStep
  <1>8. CASE ConnectionLost
    BY <1>8, CloseStep DEF ConnectionLost
  <1>9. CASE GiveUp
    <2>1. session \in {"none", "active", "resuming"}
      BY DEF Inv, Bookkeeping, TypeOK
    <2> QED BY <1>9, <2>1, CloseStep DEF GiveUp
  <1>10. CASE UNCHANGED vars
    <2>1. TypeOK' /\ Bookkeeping'
      BY <1>10 DEF Inv, Bookkeeping, TypeOK, vars, calls, loop, link, server
    <2> QED BY <1>10, <2>1 DEF Inv, AnswersAreOwn, DuplicateIsLast, DuplicatesInOrder,
                               vars, calls, loop, link, server
  <1> QED BY <1>1, <1>2, <1>3, <1>4, <1>5, <1>6, <1>7, <1>8, <1>9, <1>10 DEF Next

\* The futures, the flags and the two loops agree at every await.
THEOREM Invariance == Spec => []Inv
  BY Initially, Inductive, PTL DEF Spec

\* A call returns only what was answered to its own request.
THEOREM OwnAnswers == Spec => []AnswersAreOwn
  BY Invariance, PTL DEF Inv

\* Once a call is told 301, its real answer is not on its way any more.
THEOREM NothingAfterDuplicate == Spec => []DuplicateIsLast
  BY Invariance, PTL DEF Inv
=============================================================================
