----------------------------- MODULE TasksProofs -----------------------------
(***************************************************************************)
(* What the duplicate guard is worth to the tasks, for any number of       *)
(* sessions, users, frames and tasks and whatever fails: no task is made   *)
(* twice or gets back what a late copy wrote, and only its user writes it. *)
(*                                                                         *)
(* A task step is a step of the guard (GuardBehindTasks), so its inductive *)
(* invariant Inv holds here too.  The step of a handler that commits finds *)
(* a request that took no effect yet (Unhandled), while all that the table *)
(* names took effect (Accounted): what is written is new to the table.     *)
(***************************************************************************)
EXTENDS Tasks, RequestGuardProofs

LEMMA StepOfGuard == [TaskNext]_<<vars, taskVars>> => [Next]_vars
  BY DEF TaskNext, MakeTaskFrame, HandleTask, GuardStep, Next, vars, taskVars

\* Behind the task handlers the guard behaves as it does on its own: the theorems
\* about it hold of the tasks.
THEOREM GuardBehindTasks == TaskSpec => Spec
  <1>1. TaskInit => Init
    BY DEF TaskInit
  <1> QED
    BY <1>1, StepOfGuard, PTL DEF TaskSpec, Spec

\* A task request that was refused or cut off is never carried out later.
THEOREM TasksHaveOneChance == TaskSpec => OneChance
  BY GuardBehindTasks, ContractImplemented, PTL

-----------------------------------------------------------------------------
(* The steps. *)

\* A handler that commits is the first for its request.
LEMMA Unhandled ==
    ASSUME Inv, HandleTask
    PROVE  /\ busy.req \in Requests /\ busy.req # None
           /\ busy.req[1] \in Scopes /\ busy.req[2] \in Ids
           /\ effects[busy.req] = 0
           /\ effects'[busy.req] = 1
           /\ \A r \in Requests \ {busy.req} : effects'[r] = effects[r]
  <1>1. At("registered") /\ effects' = [effects EXCEPT ![busy.req] = @ + 1]
    BY DEF HandleTask, TakeEffect
  <1>2. busy # None /\ TypeOK
    BY <1>1 DEF At, Inv
  <1>3. busy.req \in Requests
    BY <1>2, BusyShape
  <1>4. effects[busy.req] = 0 /\ effects \in [Requests -> Nat]
    BY <1>1, <1>2 DEF Inv, Progress, TypeOK
  <1> QED
    BY <1>1, <1>3, <1>4, TaskNoneAssumption DEF Requests

\* Nothing else writes to the table.
LEMMA Otherwise ==
    ASSUME [TaskNext]_<<vars, taskVars>>, ~HandleTask
    PROVE  UNCHANGED <<tasks, owner, effects>>
  <1>1. CASE UNCHANGED <<vars, taskVars>>
    BY <1>1 DEF vars, taskVars
  <1>2. CASE \E i \in Ids : MakeTaskFrame(i)
    BY <1>2 DEF MakeTaskFrame, MakeFrame
  <1>3. CASE GuardStep
    <2>1. UNCHANGED <<tasks, owner>>
      BY <1>3 DEF GuardStep, taskVars
    <2>2. UNCHANGED effects
      BY <1>3 DEF GuardStep, Reject, Check, Limited, Register, HandleWithoutEffect,
                  RecordCode, Crash, Cleanup, Tick, vars
    <2> QED BY <2>1, <2>2
  <1> QED
    BY <1>1, <1>2, <1>3 DEF TaskNext

\* What a handler that commits does to one row, and to no other.
LEMMA RowStep ==
    ASSUME Inv, TasksOK, HandleTask, NEW t \in TaskIds, tasks'[t] # tasks[t]
    PROVE  /\ tasks'[t] \in Task /\ tasks'[t].user = owner[busy.req[1]]
           /\ \/ /\ tasks[t] = None
                 /\ tasks'[t].made = busy.req /\ tasks'[t].wrote = busy.req
              \/ /\ tasks[t] \in Task /\ tasks'[t].user = tasks[t].user
                 /\ tasks'[t].made = tasks[t].made
                 /\ tasks'[t].wrote = busy.req \/ tasks'[t].wrote = tasks[t].wrote
           /\ \A u \in TaskIds \ {t} : tasks'[u] = tasks[u]
  <1>1. PICK r, s : r = busy.req /\ s = owner[busy.req[1]]
    OBVIOUS
  <1>2. s \in Users /\ r \in Requests
    BY <1>1, Unhandled DEF TasksOK
  <1>3. tasks \in [TaskIds -> Task \cup {None}]
    BY DEF TasksOK
  <1>4. \/ CreateTask(r, s)
        \/ UpdateTask(r, s, asks[r[2]].task)
        \/ DeleteTask(s, asks[r[2]].task)
        \/ UNCHANGED tasks
    BY <1>1 DEF HandleTask
  <1>5. CASE CreateTask(r, s)
    <2>1. PICK u \in TaskIds : /\ tasks[u] = None
                               /\ tasks' = [tasks EXCEPT ![u] =
                                     [user |-> s, made |-> r, wrote |-> r, deleted |-> FALSE]]
      BY <1>5 DEF CreateTask
    <2>2. u = t
      BY <1>3, <2>1
    <2>3. /\ tasks'[t] = [user |-> s, made |-> r, wrote |-> r, deleted |-> FALSE]
          /\ tasks[t] = None /\ \A v \in TaskIds \ {t} : tasks'[v] = tasks[v]
      BY <1>3, <2>1, <2>2
    <2> QED BY <1>1, <1>2, <2>3 DEF Task
  <1>6. CASE UpdateTask(r, s, asks[r[2]].task)
    <2>1. PICK u : /\ tasks[u] # None /\ tasks[u].user = s
                   /\ tasks' = [tasks EXCEPT ![u].wrote = r]
      BY <1>6 DEF UpdateTask, Owns, Exists
    <2>2. u = t
      BY <1>3, <2>1
    <2>3. /\ tasks[t] \in Task /\ tasks[t].user = s
          /\ tasks'[t] = [tasks[t] EXCEPT !.wrote = r]
          /\ \A v \in TaskIds \ {t} : tasks'[v] = tasks[v]
      BY <1>3, <2>1, <2>2
    <2> QED BY <1>1, <1>2, <2>3 DEF Task
  <1>7. CASE DeleteTask(s, asks[r[2]].task)
    <2>1. PICK u : /\ tasks[u] # None /\ tasks[u].user = s
                   /\ tasks' = [tasks EXCEPT ![u].deleted = TRUE]
      BY <1>7 DEF DeleteTask, Owns, Exists
    <2>2. u = t
      BY <1>3, <2>1
    <2>3. /\ tasks[t] \in Task /\ tasks[t].user = s
          /\ tasks'[t] = [tasks[t] EXCEPT !.deleted = TRUE]
          /\ \A v \in TaskIds \ {t} : tasks'[v] = tasks[v]
      BY <1>3, <2>1, <2>2
    <2> QED BY <1>1, <1>2, <2>3 DEF Task
  <1> QED
    BY <1>4, <1>5, <1>6, <1>7

-----------------------------------------------------------------------------
(* The inductive invariant. *)

LEMMA TaskInitInv == TaskInit => TaskInv
  <1> SUFFICES ASSUME TaskInit PROVE TaskInv
    OBVIOUS
  <1>1. \A t \in TaskIds : tasks[t] # None => \E u \in Users : tasks[t] = Old(u)
    BY DEF TaskInit
  <1>2. \A t \in TaskIds : tasks[t] # None => tasks[t].made = None /\ tasks[t].wrote = None
    <2> SUFFICES ASSUME NEW t \in TaskIds, tasks[t] # None
                 PROVE  tasks[t].made = None /\ tasks[t].wrote = None
      OBVIOUS
    <2>1. PICK u \in Users : tasks[t] = [user |-> u, made |-> None, wrote |-> None,
                                         deleted |-> FALSE]
      BY <1>1 DEF Old
    <2> QED BY <2>1
  <1>3. TasksOK
    <2>1. \A u \in Users : Old(u) \in Task
      BY DEF Old, Task
    <2>2. tasks \in [TaskIds -> Task \cup {None}]
      BY <2>1 DEF TaskInit
    <2>3. /\ owner \in [Scopes -> Users]
          /\ asks \in [Ids -> Payload \cup {None}]
      BY DEF TaskInit
    <2> QED BY <2>2, <2>3 DEF TasksOK
  <1>4. Accounted
    BY <1>2 DEF Accounted, TaskInit, Init
  <1> QED
    BY <1>2, <1>3, <1>4 DEF TaskInv, OneTaskPerCreate

LEMMA TypesStep ==
    ASSUME Inv, TaskInv, [TaskNext]_<<vars, taskVars>>
    PROVE  TasksOK'
  <1>1. TasksOK
    BY DEF TaskInv
  <1>2. asks' \in [Ids -> Payload \cup {None}]
    BY <1>1 DEF TaskNext, MakeTaskFrame, HandleTask, GuardStep, vars, taskVars, TasksOK, Payload
  <1>3. owner' = owner
    BY DEF TaskNext, MakeTaskFrame, HandleTask, GuardStep, vars, taskVars
  <1>4. CASE HandleTask
    <2>1. tasks' \in [TaskIds -> Task \cup {None}]
      <3>1. DOMAIN tasks' = TaskIds /\ tasks' = [t \in TaskIds |-> tasks'[t]]
        BY <1>1, <1>4 DEF TasksOK, HandleTask, CreateTask, UpdateTask, DeleteTask
      <3>2. \A t \in TaskIds : tasks'[t] \in Task \cup {None}
        BY <1>1, <1>4, RowStep DEF TasksOK
      <3> QED BY <3>1, <3>2
    <2> QED BY <1>1, <1>2, <1>3, <2>1 DEF TasksOK
  <1>5. CASE ~HandleTask
    BY <1>1, <1>2, <1>3, <1>5, Otherwise DEF TasksOK
  <1> QED
    BY <1>4, <1>5

\* Whoever the table names took effect in a session of the task's user.
LEMMA AccountedStep ==
    ASSUME Inv, TaskInv, [TaskNext]_<<vars, taskVars>>
    PROVE  Accounted'
  <1>1. \A i \in Ids : stamp'[i] # None => asks'[i] # None
    <2>1. CASE \E i \in Ids : MakeTaskFrame(i)
      <3>1. PICK i \in Ids : MakeTaskFrame(i)
        BY <2>1
      <3>2. PICK ask \in Payload : asks' = [asks EXCEPT ![i] = ask]
        BY <3>1 DEF MakeTaskFrame, Payload
      <3>3. PICK ts \in 0 .. MaxTime : stamp' = [stamp EXCEPT ![i] = ts]
        BY <3>1 DEF MakeTaskFrame, MakeFrame
      <3> QED
        BY <3>2, <3>3, TaskNoneAssumption DEF TaskInv, TasksOK, Accounted, Inv, TypeOK
    <2>2. CASE UNCHANGED <<stamp, asks>>
      BY <2>2 DEF TaskInv, Accounted
    <2> QED
      BY <2>1, <2>2 DEF TaskNext, HandleTask, TakeEffect, GuardStep, Reject, Check, Limited,
                        Register, HandleWithoutEffect, RecordCode, Crash, Cleanup, Tick,
                        vars, taskVars
  <1>2. owner' = owner
    BY DEF TaskNext, MakeTaskFrame, HandleTask, GuardStep, vars, taskVars
  <1>3. \A r \in Requests : effects[r] > 0 => effects'[r] > 0
    <2>1. CASE HandleTask
      BY <2>1, Unhandled
    <2>2. CASE ~HandleTask
      BY <2>2, Otherwise
    <2> QED BY <2>1, <2>2
  <1>4. SUFFICES ASSUME NEW t \in TaskIds, tasks'[t] # None,
                        NEW r \in {tasks'[t].made, tasks'[t].wrote} \ {None}
                 PROVE  effects'[r] > 0 /\ owner[r[1]] = tasks'[t].user
    BY <1>1, <1>2 DEF Accounted
  <1>5. CASE tasks'[t] = tasks[t]
    <2>1. tasks[t] \in Task /\ r \in Requests
      BY <1>4, <1>5 DEF TaskInv, TasksOK, Task
    <2>2. effects[r] > 0 /\ owner[r[1]] = tasks[t].user
      BY <1>4, <1>5 DEF TaskInv, Accounted
    <2> QED BY <1>3, <1>5, <2>1, <2>2
  <1>6. CASE tasks'[t] # tasks[t]
    <2>1. HandleTask /\ TasksOK
      BY <1>6, Otherwise DEF TaskInv
    <2>2. CASE r = busy.req
      BY <1>6, <2>1, <2>2, RowStep, Unhandled
    <2>3. CASE r # busy.req
      <3>1. /\ tasks[t] \in Task /\ r \in {tasks[t].made, tasks[t].wrote} \ {None}
            /\ tasks'[t].user = tasks[t].user
        BY <1>4, <1>6, <2>1, <2>3, RowStep
      <3>2. r \in Requests /\ tasks[t] # None
        BY <3>1, TaskNoneAssumption DEF Task
      <3>3. effects[r] > 0 /\ owner[r[1]] = tasks[t].user
        BY <3>1, <3>2 DEF TaskInv, Accounted
      <3> QED BY <1>3, <3>1, <3>2, <3>3
    <2> QED BY <2>2, <2>3
  <1> QED
    BY <1>5, <1>6

\* A task that is made is the first of its request: the table names nobody without
\* an effect.
LEMMA OneTaskStep ==
    ASSUME Inv, TaskInv, [TaskNext]_<<vars, taskVars>>
    PROVE  OneTaskPerCreate'
  <1>1. CASE ~HandleTask
    BY <1>1, Otherwise DEF TaskInv, OneTaskPerCreate
  <1>2. CASE HandleTask
    <2>1. TasksOK /\ OneTaskPerCreate /\ Accounted
      BY DEF TaskInv
    <2>2. \A t \in TaskIds : tasks[t] # None => tasks[t].made # busy.req
      BY <1>2, <2>1, Unhandled DEF Accounted
    <2>3. \A t \in TaskIds : tasks'[t] # None =>
             \/ tasks[t] # None /\ tasks'[t].made = tasks[t].made
             \/ /\ tasks[t] = None /\ tasks'[t].made = busy.req
                /\ \A u \in TaskIds \ {t} : tasks'[u] = tasks[u]
      <3> SUFFICES ASSUME NEW t \in TaskIds, tasks'[t] # None
                   PROVE  \/ tasks[t] # None /\ tasks'[t].made = tasks[t].made
                          \/ /\ tasks[t] = None /\ tasks'[t].made = busy.req
                             /\ \A u \in TaskIds \ {t} : tasks'[u] = tasks[u]
        OBVIOUS
      <3>1. CASE tasks'[t] = tasks[t]
        BY <3>1
      <3>2. CASE tasks'[t] # tasks[t]
        BY <1>2, <2>1, <3>2, RowStep, TaskNoneAssumption
      <3> QED BY <3>1, <3>2
    <2> SUFFICES ASSUME NEW t \in TaskIds, NEW u \in TaskIds,
                        tasks'[t] # None, tasks'[u] # None, tasks'[t].made # None,
                        tasks'[t].made = tasks'[u].made, t # u
                 PROVE  FALSE
      BY DEF OneTaskPerCreate
    <2>4. CASE tasks[t] = None
      <3>1. tasks'[t].made = busy.req /\ tasks'[u] = tasks[u]
        BY <2>3, <2>4
      <3> QED BY <2>2, <3>1
    <2>5. CASE tasks[u] = None
      <3>1. tasks'[u].made = busy.req /\ tasks'[t] = tasks[t]
        BY <2>3, <2>5
      <3> QED BY <2>2, <3>1
    <2>6. CASE tasks[t] # None /\ tasks[u] # None
      BY <2>1, <2>3, <2>6 DEF OneTaskPerCreate
    <2> QED BY <2>4, <2>5, <2>6
  <1> QED
    BY <1>1, <1>2

-----------------------------------------------------------------------------
(* The theorems. *)

\* The table, its writers and the guard agree in every reachable state; with it,
\* no CREATE_TASK makes two tasks.
THEOREM TasksInvariance == TaskSpec => []TaskInv
  <1>1. TaskInit => TaskInv
    BY TaskInitInv
  <1>2. Inv /\ TaskInv /\ [TaskNext]_<<vars, taskVars>> => TaskInv'
    BY TypesStep, AccountedStep, OneTaskStep DEF TaskInv
  <1>3. TaskSpec => []Inv
    BY GuardBehindTasks, Invariance, PTL
  <1> QED
    BY <1>1, <1>2, <1>3, PTL DEF TaskSpec

\* One CREATE_TASK makes one task, whatever is retransmitted, delayed or lost.
THEOREM OneTask == TaskSpec => []OneTaskPerCreate
  <1>1. TaskInv => OneTaskPerCreate
    BY DEF TaskInv
  <1> QED
    BY <1>1, TasksInvariance, PTL

\* What a request wrote to a task is never there again once another has written it.
THEOREM NoLateWrite == TaskSpec => NothingComesBack
  <1>1. Inv /\ TaskInv /\ [TaskNext]_<<vars, taskVars>> =>
           [\A t \in TaskIds :
              tasks'[t] # tasks[t] /\ tasks'[t].wrote # None
              => \/ tasks[t] # None /\ tasks'[t].wrote = tasks[t].wrote
                 \/ effects[tasks'[t].wrote] = 0]_<<vars, taskVars>>
    <2> SUFFICES ASSUME Inv, TaskInv, [TaskNext]_<<vars, taskVars>>,
                        NEW t \in TaskIds, tasks'[t] # tasks[t]
                 PROVE  \/ tasks[t] # None /\ tasks'[t].wrote = tasks[t].wrote
                        \/ effects[tasks'[t].wrote] = 0
      OBVIOUS
    <2>1. HandleTask /\ TasksOK
      BY Otherwise DEF TaskInv
    <2> QED
      BY <2>1, RowStep, Unhandled, TaskNoneAssumption
  <1>2. TaskSpec => []Inv
    BY GuardBehindTasks, Invariance, PTL
  <1> QED
    BY <1>1, <1>2, TasksInvariance, PTL DEF TaskSpec, NothingComesBack

\* Whatever a session changes is a task of its user, and stays it.
THEOREM OwnersWrite == TaskSpec => OwnersOnly
  <1>1. Inv /\ TaskInv /\ [TaskNext]_<<vars, taskVars>> =>
           [\A t \in TaskIds :
              tasks'[t] # tasks[t]
              => /\ tasks'[t].user = owner[busy.req[1]]
                 /\ tasks[t] # None => tasks[t].user = tasks'[t].user]_<<vars, taskVars>>
    <2> SUFFICES ASSUME Inv, TaskInv, [TaskNext]_<<vars, taskVars>>,
                        NEW t \in TaskIds, tasks'[t] # tasks[t]
                 PROVE  /\ tasks'[t].user = owner[busy.req[1]]
                        /\ tasks[t] # None => tasks[t].user = tasks'[t].user
      OBVIOUS
    <2>1. HandleTask /\ TasksOK
      BY Otherwise DEF TaskInv
    <2> QED
      BY <2>1, RowStep
  <1>2. TaskSpec => []Inv
    BY GuardBehindTasks, Invariance, PTL
  <1> QED
    BY <1>1, <1>2, TasksInvariance, PTL DEF TaskSpec, OwnersOnly
=============================================================================
