-------------------------------- MODULE Tasks --------------------------------
(***************************************************************************)
(* The task handlers (router.handle_*_task, task_service.py and            *)
(* task_repository.py) behind the duplicate guard: what the copies of the  *)
(* frames of several sessions do to table tasks.                           *)
(*                                                                         *)
(* A handler validates the session in one transaction and reads, checks    *)
(* and writes the task in another.  No other process writes tasks, and     *)
(* dispatch is not interrupted, so the second is one step of the guard:    *)
(* TakeEffect where it commits, HandleWithoutEffect where the session is   *)
(* not valid (SessionServer), the fields are not, the task is not there or *)
(* another user's, or the transaction is rolled back.                      *)
(*                                                                         *)
(* A task's fields are represented by the request that wrote them last.    *)
(***************************************************************************)
EXTENDS RequestGuard

CONSTANTS
    Users,
    TaskIds      \* gen_random_uuid(): no value is drawn twice

\* BYE stands for the messages of a session that touch no task.
Ops == {"CREATE_TASK", "UPDATE_TASK", "DELETE_TASK", "GET_TASK", "BYE"}
\* made, wrote: the requests that created the task and wrote it last, None where
\* that was long ago; a deleted task is kept, so as to say what became of it.
Task == [user : Users, made : Requests \cup {None}, wrote : Requests \cup {None},
         deleted : BOOLEAN]
Payload == [op : Ops, task : TaskIds \cup {None}]

ASSUME TaskNoneAssumption == None \notin Requests \cup Task \cup TaskIds \cup Payload

VARIABLES
    owner,    \* the user of each session
    asks,     \* message type and task_id of a frame, None if not yet made
    tasks     \* table tasks: id -> row, None if not yet drawn

taskVars == <<owner, asks, tasks>>

TasksOK == /\ owner \in [Scopes -> Users]
           /\ asks \in [Ids -> Payload \cup {None}]
           /\ tasks \in [TaskIds -> Task \cup {None}]

Old(u) == [user |-> u, made |-> None, wrote |-> None, deleted |-> FALSE]

TaskInit == /\ Init
            /\ owner \in [Scopes -> Users]
            /\ asks = [i \in Ids |-> None]
            /\ tasks \in [TaskIds -> {Old(u) : u \in Users} \cup {None}]

-----------------------------------------------------------------------------

\* TaskAPI: a client knows the ids of tasks it was shown, which may be deleted by
\* now; the server does not rely on the task being its user's.
MakeTaskFrame(i) ==
    /\ MakeFrame(i)
    /\ \E op \in Ops, t \in TaskIds \cup {None} :
          /\ IF op \in {"UPDATE_TASK", "DELETE_TASK"} THEN t # None /\ tasks[t] # None
             ELSE t = None
          /\ op = "BYE" <=> i \in byes'
          /\ asks' = [asks EXCEPT ![i] = [op |-> op, task |-> t]]
    /\ UNCHANGED <<owner, tasks>>

Exists(t) == tasks[t] # None /\ ~tasks[t].deleted

OwnsAnyTask(u, t) == Exists(t)        \* mutant: 203 is not answered
\* get_task_by_id finds the task (else 300), and it is the user's (else 203).
Owns(u, t) == Exists(t) /\ tasks[t].user = u

CreateTask(r, u) ==
    \E t \in TaskIds :
       /\ tasks[t] = None
       /\ tasks' = [tasks EXCEPT ![t] =
                       [user |-> u, made |-> r, wrote |-> r, deleted |-> FALSE]]

UpdateTask(r, u, t) == Owns(u, t) /\ tasks' = [tasks EXCEPT ![t].wrote = r]

DeleteTask(u, t) == Owns(u, t) /\ tasks' = [tasks EXCEPT ![t].deleted = TRUE]

\* The second transaction of a handler commits.
HandleTask ==
    /\ TakeEffect
    /\ LET r == busy.req
           u == owner[r[1]]
           ask == asks[r[2]] IN
       \/ ask.op = "CREATE_TASK" /\ CreateTask(r, u)
       \/ ask.op = "UPDATE_TASK" /\ UpdateTask(r, u, ask.task)
       \/ ask.op = "DELETE_TASK" /\ DeleteTask(u, ask.task)
       \/ ask.op \in {"GET_TASK", "BYE"} /\ UNCHANGED tasks
    /\ UNCHANGED <<owner, asks>>

\* Every other step of the guard.
GuardStep == /\ \/ \E r \in Requests : Reject(r) \/ Check(r)
                \/ Limited \/ Register \/ HandleWithoutEffect \/ RecordCode
                \/ Crash \/ Cleanup \/ Tick
             /\ UNCHANGED taskVars

TaskNext == (\E i \in Ids : MakeTaskFrame(i)) \/ HandleTask \/ GuardStep

TaskSpec == TaskInit /\ [][TaskNext]_<<vars, taskVars>>

-----------------------------------------------------------------------------
(* Properties. *)

\* One CREATE_TASK makes one task, however often it is retransmitted, and also
\* when the first one was deleted again before the last copy arrives.
OneTaskPerCreate ==
    \A t, u \in TaskIds :
       tasks[t] # None /\ tasks[u] # None /\ tasks[t].made # None /\ tasks[t].made = tasks[u].made
       => t = u

\* A late copy never brings back what it wrote: once another request has written a
\* task, its fields are never again those of an earlier one.  (The bytes of a frame
\* are another request in another session, as they are to the guard.)
NothingComesBack ==
    [][\A t \in TaskIds :
          tasks'[t] # tasks[t] /\ tasks'[t].wrote # None
          => \/ tasks[t] # None /\ tasks'[t].wrote = tasks[t].wrote
             \/ effects[tasks'[t].wrote] = 0]_<<vars, taskVars>>

\* README.md:24, "access control to user-owned tasks only": whatever its session
\* changes of a task, the task is its user's before and after.
OwnersOnly ==
    [][\A t \in TaskIds :
          tasks'[t] # tasks[t]
          => /\ tasks'[t].user = owner[busy.req[1]]
             /\ tasks[t] # None => tasks[t].user = tasks'[t].user]_<<vars, taskVars>>

\* What ties the table to the guard: who made and wrote a task took effect, and in
\* a session of its user; what is in progress has been asked.
Accounted ==
    /\ \A t \in TaskIds : tasks[t] # None =>
          \A r \in {tasks[t].made, tasks[t].wrote} \ {None} :
             effects[r] > 0 /\ owner[r[1]] = tasks[t].user
    /\ \A i \in Ids : stamp[i] # None => asks[i] # None

TaskInv == TasksOK /\ Accounted /\ OneTaskPerCreate
=============================================================================
