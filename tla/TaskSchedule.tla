----------------------------- MODULE TaskSchedule -----------------------------
(***************************************************************************)
(* The task plugin: schedulers in a table, the runtimes that run them, one *)
(* in each process, and the lease under which a write makes the runtime of *)
(* its process load them again (plugins/task/service/service.go and        *)
(* leader.go, repo/gorm.go, and the wiring and the command of module.go).  *)
(*                                                                         *)
(* The runtime itself is a library: a reload reads the table, then puts    *)
(* what it has read in place.  Without Redis there is no lease at all.     *)
(***************************************************************************)
EXTENDS Naturals, FiniteSets

CONSTANTS
  TaskName,    \* names of schedulers, unique in the table
  Process,     \* processes that serve one database
  TaskRequest, \* request handlers, and commands, that may run together
  Home,        \* the process that each of them runs in
  NoHolder,    \* the lease is free
  MaxTasks,    \* bound: schedulers created over time
  MaxChanges   \* bound: requests over time

ASSUME TaskAssumption ==
  /\ NoHolder \notin TaskRequest
  /\ Home \in [TaskRequest -> Process]
  /\ MaxTasks \in Nat \ {0} /\ MaxChanges \in Nat

VARIABLES
  redis,      \* whether there is a Redis, and so a RedisLeaderLease
  schedulers, \* the table
  lastTask,   \* the id given last
  runtime,    \* the schedulers that each process has loaded
  lease,      \* the key in Redis: who set it
  task,       \* where each handler is, with its local variables
  changes,    \* requests so far
  skipped,    \* history: processes that have not loaded the table again since
              \* another process, or a handler that did not reload, wrote it
  overlapped, \* history: processes in which two reloads may have run together
              \* since one ran alone
  flipped,    \* history: schedulers that were toggled an odd number of times
  clashed     \* history: schedulers of which two toggles overlapped

taskVars == <<redis, schedulers, lastTask, runtime, lease, task, changes,
              skipped, overlapped, flipped, clashed>>

-----------------------------------------------------------------------------
TaskId    == 1 .. MaxTasks
Scheduler == [id: TaskId, name: TaskName, enabled: BOOLEAN]

TaskIdle == [pc |-> "idle"]
Write    == [op: {"create"}, name: TaskName]
              \cup [op: {"update"}, id: TaskId, name: TaskName]
              \cup [op: {"toggle", "delete"}, id: TaskId]
TaskHandler ==
  [pc: {"read", "write"}, do: Write, was: BOOLEAN]
    \cup [pc: {"acquire"}]
    \cup [pc: {"reload", "install", "release"}, leased: BOOLEAN,
          seen: SUBSET Scheduler]

Rows(id) == {s \in schedulers : s.id = id}
Taken(name, id) == \E s \in schedulers : s.name = name /\ s.id # id

TaskAt(q, pc)  == task[q].pc = pc
TaskReturn(q)  == task' = [task EXCEPT ![q] = TaskIdle]
TaskGo(q, h)   == task' = [task EXCEPT ![q] = h]

\* Between a reload's start and its end, which is the release of the lease.
Reloading(q) == task[q].pc \in {"reload", "install", "release"}
Near(q)  == {p \in TaskRequest \ {q} : Home[p] = Home[q]}
Alone(q) == \A p \in Near(q) : ~Reloading(p)
Undisturbed(q) == Alone(q) /\ (task[q].leased => lease = q)

TaskInit ==
  /\ redis \in BOOLEAN
  /\ schedulers = {}
  /\ lastTask = 0
  /\ runtime = [n \in Process |-> {}]
  /\ lease = NoHolder
  /\ task = [q \in TaskRequest |-> TaskIdle]
  /\ changes = 0
  /\ skipped = {} /\ overlapped = {}
  /\ flipped = {} /\ clashed = {}

-----------------------------------------------------------------------------
(* Writes.                                                                 *)

TaskStart(q, h) ==
  /\ task[q] = TaskIdle
  /\ changes < MaxChanges
  /\ changes' = changes + 1
  /\ TaskGo(q, h)
  /\ UNCHANGED <<redis, schedulers, lastTask, runtime, lease, skipped, flipped,
                 clashed>>

BeginCreateScheduler(q) ==
  \E name \in TaskName :
    /\ TaskStart(q, [pc |-> "write", was |-> FALSE,
                     do |-> [op |-> "create", name |-> name]])
    /\ UNCHANGED overlapped

\* The service looks for the row first; a toggle is read once more.
BeginWrite(q) ==
  \E s \in schedulers :
    /\ \/ \E name \in TaskName :
            TaskStart(q, [pc |-> "write", was |-> FALSE,
                          do |-> [op |-> "update", id |-> s.id, name |-> name]])
       \/ TaskStart(q, [pc |-> "read", was |-> FALSE,
                        do |-> [op |-> "toggle", id |-> s.id]])
       \/ TaskStart(q, [pc |-> "write", was |-> FALSE,
                        do |-> [op |-> "delete", id |-> s.id]])
    /\ UNCHANGED overlapped

ReadEnabled(q) ==
  /\ TaskAt(q, "read")
  /\ \/ Rows(task[q].do.id) = {} /\ TaskReturn(q)
     \/ \E s \in Rows(task[q].do.id) :
          task' = [task EXCEPT ![q].pc = "write", ![q].was = s.enabled]
  /\ UNCHANGED <<redis, schedulers, lastTask, runtime, lease, changes, skipped,
                 overlapped, flipped, clashed>>

\* The other processes do not hear of a write.
Written(q) ==
  /\ task' = [task EXCEPT ![q] = [pc |-> "acquire"]]
  /\ skipped' = skipped \cup (Process \ {Home[q]})

CreateScheduler(q) ==
  LET do == task[q].do IN
  /\ TaskAt(q, "write") /\ do.op = "create"
  /\ IF Taken(do.name, 0)
     THEN TaskReturn(q) /\ UNCHANGED <<schedulers, lastTask, skipped>>
     ELSE /\ lastTask < MaxTasks
          /\ lastTask' = lastTask + 1
          /\ schedulers' = schedulers \cup
               {[id |-> lastTask + 1, name |-> do.name, enabled |-> TRUE]}
          /\ Written(q)
  /\ UNCHANGED <<redis, runtime, lease, changes, overlapped, flipped, clashed>>

\* Mutant: the row is written as a new one is, that is enabled.
UpdatedAnew(s, name) == [s EXCEPT !.name = name, !.enabled = TRUE]

Updated(s, name) == [s EXCEPT !.name = name]

UpdateScheduler(q) ==
  LET do == task[q].do IN
  /\ TaskAt(q, "write") /\ do.op = "update"
  /\ IF Rows(do.id) = {} \/ Taken(do.name, do.id)
     THEN TaskReturn(q) /\ UNCHANGED <<schedulers, skipped>>
     ELSE /\ schedulers' = {IF s.id = do.id THEN Updated(s, do.name) ELSE s :
                              s \in schedulers}
          /\ Written(q)
  /\ UNCHANGED <<redis, lastTask, runtime, lease, changes, overlapped, flipped,
                 clashed>>

ToggleSchedulerStatus(q) ==
  LET h == task[q]  id == task[q].do.id IN
  /\ TaskAt(q, "write") /\ h.do.op = "toggle"
  /\ IF Rows(id) = {}
     THEN TaskReturn(q) /\ UNCHANGED <<schedulers, skipped, flipped, clashed>>
     ELSE /\ schedulers' = {IF s.id = id THEN [s EXCEPT !.enabled = ~h.was]
                            ELSE s : s \in schedulers}
          /\ flipped' = IF id \in flipped THEN flipped \ {id}
                        ELSE flipped \cup {id}
          /\ clashed' = IF \E s \in Rows(id) : s.enabled # h.was
                        THEN clashed \cup {id} ELSE clashed
          /\ Written(q)
  /\ UNCHANGED <<redis, lastTask, runtime, lease, changes, overlapped>>

DeleteScheduler(q) ==
  LET do == task[q].do IN
  /\ TaskAt(q, "write") /\ do.op = "delete"
  /\ IF Rows(do.id) = {} THEN TaskReturn(q) /\ UNCHANGED skipped
     ELSE Written(q)
  /\ schedulers' = schedulers \ Rows(do.id)
  /\ UNCHANGED <<redis, lastTask, runtime, lease, changes, overlapped, flipped,
                 clashed>>

-----------------------------------------------------------------------------
(* Reloads.                                                                *)

\* Who does not get the lease leaves the reload to the one who has it, and
\* answers that all is well; an error is answered, after the write.  Without
\* Redis (NoopLeaderLease) nothing can be in the way.
NotAcquired(q) ==
  /\ TaskAt(q, "acquire")
  /\ redis
  /\ TaskReturn(q)
  /\ skipped' = skipped \cup {Home[q]}
  /\ UNCHANGED <<redis, schedulers, lastTask, runtime, lease, changes,
                 overlapped, flipped, clashed>>

\* Mutant: the key is set whether it is there or not.
AcquirableAlways == TRUE

\* SETNX; a NoopLeaderLease is always acquired.
Acquirable == redis => lease = NoHolder

\* What reloads without the lease may run together with anything else.
Acquire(q) ==
  /\ TaskAt(q, "acquire")
  /\ Acquirable
  /\ lease' = IF redis THEN q ELSE lease
  /\ TaskGo(q, [pc |-> "reload", leased |-> redis, seen |-> {}])
  /\ overlapped' = IF \E p \in Near(q) : Reloading(p) /\ ~task[p].leased
                   THEN overlapped \cup {Home[q]} ELSE overlapped
  /\ UNCHANGED <<redis, schedulers, lastTask, runtime, changes, skipped, flipped,
                 clashed>>

\* "task reload" does not ask for the lease.
ReloadCommand(q) ==
  /\ TaskStart(q, [pc |-> "reload", leased |-> FALSE, seen |-> {}])
  /\ overlapped' = IF Alone(q) THEN overlapped ELSE overlapped \cup {Home[q]}

ReloadReads(q) ==
  /\ TaskAt(q, "reload")
  /\ task' = [task EXCEPT ![q].pc = "install", ![q].seen = schedulers]
  /\ skipped' = skipped \ {Home[q]}
  /\ overlapped' = IF Undisturbed(q) THEN overlapped \ {Home[q]} ELSE overlapped
  /\ UNCHANGED <<redis, schedulers, lastTask, runtime, lease, changes, flipped,
                 clashed>>

ReloadInstalls(q) ==
  /\ TaskAt(q, "install")
  /\ runtime' = [runtime EXCEPT ![Home[q]] = task[q].seen]
  /\ IF task[q].leased THEN task' = [task EXCEPT ![q].pc = "release"]
     ELSE TaskReturn(q)
  /\ UNCHANGED <<redis, schedulers, lastTask, lease, changes, skipped,
                 overlapped, flipped, clashed>>

ReloadFails(q) ==
  /\ task[q].pc \in {"reload", "install"}
  /\ skipped' = skipped \cup {Home[q]}
  /\ IF task[q].leased THEN task' = [task EXCEPT ![q].pc = "release"]
     ELSE TaskReturn(q)
  /\ UNCHANGED <<redis, schedulers, lastTask, runtime, lease, changes,
                 overlapped, flipped, clashed>>

\* The key is deleted whoever has set it; an error is passed over.
Release(q) ==
  /\ TaskAt(q, "release")
  /\ lease' \in {NoHolder, lease}
  /\ overlapped' = IF lease' # lease /\ lease # q
                   THEN overlapped \cup {Home[lease]} ELSE overlapped
  /\ TaskReturn(q)
  /\ UNCHANGED <<redis, schedulers, lastTask, runtime, changes, skipped, flipped,
                 clashed>>

\* The key's time is over, however long the reload takes.
LeaseExpires ==
  /\ lease # NoHolder
  /\ lease' = NoHolder
  /\ overlapped' = IF Reloading(lease) THEN overlapped \cup {Home[lease]}
                   ELSE overlapped
  /\ UNCHANGED <<redis, schedulers, lastTask, runtime, task, changes, skipped,
                 flipped, clashed>>

TaskStep(q) ==
  \/ BeginCreateScheduler(q) \/ BeginWrite(q) \/ ReadEnabled(q)
  \/ CreateScheduler(q) \/ UpdateScheduler(q) \/ ToggleSchedulerStatus(q)
  \/ DeleteScheduler(q) \/ NotAcquired(q) \/ Acquire(q) \/ ReloadCommand(q)
  \/ ReloadReads(q) \/ ReloadInstalls(q) \/ ReloadFails(q) \/ Release(q)

TaskNext == LeaseExpires \/ \E q \in TaskRequest : TaskStep(q)

-----------------------------------------------------------------------------
TaskTypeOK ==
  /\ redis \in BOOLEAN
  /\ schedulers \subseteq Scheduler /\ runtime \in [Process -> SUBSET Scheduler]
  /\ lastTask \in 0 .. MaxTasks
  /\ lease \in TaskRequest \cup {NoHolder}
  /\ \A q \in TaskRequest : task[q] = TaskIdle \/ task[q] \in TaskHandler
  /\ changes \in 0 .. MaxChanges
  /\ skipped \subseteq Process /\ overlapped \subseteq Process
  /\ flipped \subseteq TaskId /\ clashed \subseteq TaskId

\* With or without Redis, what a process runs is what the table says once no
\* request of that process is under way, unless the table was written since by
\* another process, or without a reload (the lease was taken, or an error), or
\* two reloads ran together in the process: there is no lease, it ran out
\* under its holder, it was deleted by one whose own had run out, or the
\* command was used.  One reload that runs alone puts it right.
RuntimeIsCurrent ==
  \A n \in Process :
    (\A q \in TaskRequest : Home[q] = n => task[q] = TaskIdle)
      => runtime[n] = schedulers \/ n \in skipped \/ n \in overlapped

\* A scheduler is off if it was toggled an odd number of times, whatever else
\* is written to it, unless two toggles read the same status.
TogglesCount ==
  \A s \in schedulers : s.id \in clashed \/ (s.enabled <=> s.id \notin flipped)
=============================================================================
