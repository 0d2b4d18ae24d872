--------------------------- MODULE AutomationEngine ---------------------------
(***************************************************************************)
(* AutomationEngine (src/src/automation_engine.cpp): actions that are run  *)
(* once or again and again, with retries, saved before and after each run. *)
(*                                                                         *)
(* Threads: "ui" gives commands and stops the engine; "timer", the thread  *)
(* of the RuntimeScheduler, fires; executions run on the threads of the    *)
(* BoundedExecutor.  mutation_mutex serializes changes together with their *)
(* saves, but arming, the reconciliation with the action registry and the  *)
(* refresh of calendars take only the inner mutex.  A save may fail, and   *)
(* the process may be killed at any moment and start again.                *)
(*                                                                         *)
(* Time is left out: a scheduled task may start at any moment, and whether *)
(* a calendar rule has a next occurrence is open (AutomationSchedule).     *)
(* The file is what AutomationStore::load() would return.                  *)
(***************************************************************************)
EXTENDS Integers, FiniteSets

CONSTANTS
  Kinds,       \* the kinds of automations that are added
  Policies,    \* the failure policies that are set
  Executions,  \* places for executions, those of the executor that matter here
  MaxAutomations, MaxFires, \* bounds: what is added and fired,
  MaxDisturbances  \* and the commands, failed saves and crashes together

NoRetries == [retries |-> 0, disables |-> FALSE]

ASSUME BoundsAssumption ==
         /\ MaxAutomations \in Nat \ {0} /\ MaxFires \in Nat /\ MaxDisturbances \in Nat
ASSUME KindsAssumption == Kinds \subseteq {"once", "interval", "calendar"}
ASSUME PoliciesAssumption ==
         Policies \subseteq [retries : Nat, disables : BOOLEAN]
ASSUME ExecutorAssumption ==
         {"ui", "timer", "free"} \cap Executions = {} /\ IsFiniteSet(Executions)

Ids == 1..MaxAutomations
Threads == {"ui", "timer"} \cup Executions

(* What is saved of an automation; attempt is retry_attempt.  "none": there *)
(* is no such automation.                                                  *)
Automation == [kind : {"none", "once", "interval", "calendar"}, enabled : BOOLEAN,
               attempt : Nat, policy : Policies \cup {NoRetries}]

None == [kind |-> "none", enabled |-> FALSE, attempt |-> 0, policy |-> NoRetries]

(* What an execution carries: the copy of the automation that fired, what  *)
(* the action returned, whether a failure may be retried, and whether the  *)
(* automation is armed in the end.                                         *)
Job == [id : Ids, fired : Automation, success : BOOLEAN, retryable : BOOLEAN,
        arms : BOOLEAN]
NoJob == [id |-> 1, fired |-> None, success |-> FALSE, retryable |-> FALSE,
          arms |-> FALSE]

(* A task of the scheduler: the automation it fires, the generation it was *)
(* armed with, and a number that tells it from others like it.             *)
NoTask == [id |-> 1, generation |-> 0, number |-> 0]

VARIABLES
  up,         \* the process runs
  stopped,    \* stopped
  automation, \* entries: the automation ...
  generation, \* ... its arm_generation ...
  task,       \* ... and its runtime_task
  next,       \* next_id
  available,  \* the automations whose action is registered
  mutation,   \* holder of mutation_mutex
  inFlight,   \* in_flight
  live,       \* the tasks in the scheduler that were not started
  at,         \* per thread: where it stands
  job,        \* per thread: what it works on
  armed,      \* per thread: the task it fires or arms
  operation,  \* the command of "ui"
  changed, before, \* the automations it changes, and the entries before
  toCancel, toArm, \* tasks it has to cancel, automations it has to arm
  disk, diskNext,  \* the store
  fires, disturbances, \* how much of the bounds is spent
  accepted,   \* ghost: automations whose scheduling was reported
  cancelled,  \* ghost: automations whose cancellation was saved
  cleared,    \* ghost: automations that were there when clear() was saved
  runs,       \* ghost: per one-shot automation, how often its action was invoked
  done,       \* ghost: one-shot automations whose last execution was reported
  succeeded,  \* ghost: one-shot automations whose action succeeded
  doubtful,   \* ghost: a save that failed left file and memory different
  unarmed,    \* ghost: automations left unarmed by a save that failed, or
              \* without a next occurrence
  overtaken,  \* ghost: automations whose task was recorded when it had started
              \* or its action was gone
  rewound     \* ghost: automations whose generation went back while tasks of
              \* theirs were about: a command on them failed, or they were retried

entries == <<automation, generation, task>>
threads == <<at, job, armed>>
command == <<operation, changed, before, toCancel, toArm>>
store == <<disk, diskNext>>
bounds == <<fires, disturbances>>
outcomes == <<accepted, cancelled, cleared, runs, done, succeeded>>
ghosts == <<outcomes, doubtful, unarmed, overtaken, rewound>>
vars == <<up, stopped, entries, next, available, mutation, inFlight, live,
          threads, command, store, bounds, ghosts>>

Nothing == [i \in Ids |-> None]
Zero == [i \in Ids |-> 0]
NoTasks == [i \in Ids |-> NoTask]

NoEntries == [automation |-> Nothing, generation |-> Zero, task |-> NoTasks]

NoCommand ==
  operation = "add" /\ changed = {} /\ before = NoEntries /\ toCancel = {} /\ toArm = {}

Idle ==
  /\ at = [t \in Threads |-> "idle"]
  /\ job = [t \in Threads |-> NoJob]
  /\ armed = [t \in Threads |-> NoTask]

Init ==
  /\ up = TRUE /\ stopped = FALSE
  /\ automation = Nothing /\ generation = Zero /\ task = NoTasks
  /\ next = 1 /\ available = Ids /\ mutation = "free" /\ inFlight = 0
  /\ live = {}
  /\ Idle
  /\ NoCommand
  /\ disk = Nothing /\ diskNext = 1
  /\ fires = 0 /\ disturbances = 0
  /\ accepted = {} /\ cancelled = {} /\ cleared = {} /\ runs = Zero
  /\ done = {} /\ succeeded = {} /\ doubtful = FALSE /\ unarmed = {}
  /\ overtaken = {} /\ rewound = {}

Present == {i \in Ids : automation[i].kind # "none"}
Enabled == {i \in Present : automation[i].enabled}
Calendar == {i \in Present : automation[i].kind = "calendar"}

Recurring(a) == a.kind # "once"

Goto(t, step) == at' = [at EXCEPT ![t] = step]

(* Where a thread goes that has armed, or not, what it had to arm. *)
AfterArm(t) == IF t # "ui" THEN "report" ELSE IF toArm # {} THEN "next" ELSE "idle"

-----------------------------------------------------------------------------
(* Commands *)

(* One more command, failure or crash. *)
Disturb ==
  disturbances < MaxDisturbances /\ disturbances' = disturbances + 1

(* A command takes mutation_mutex and changes the entries of ids; what it  *)
(* schedules or cancels comes after its save.                              *)
Begin(op, ids) ==
  /\ up /\ at["ui"] = "idle" /\ mutation = "free"
  /\ mutation' = "ui"
  /\ operation' = op /\ changed' = ids
  /\ before' = [automation |-> automation, generation |-> generation, task |-> task]
  /\ Goto("ui", "save")
  /\ UNCHANGED <<up, stopped, available, inFlight, live, armed, toArm, store,
                 fires, done, succeeded, cancelled,
                 cleared, doubtful, unarmed, overtaken, rewound>>

(* schedule_at(), schedule_every() and schedule_calendar() *)
Add(kind) ==
  /\ Begin("add", {next})
  /\ ~stopped /\ next <= MaxAutomations /\ next \in available
  /\ next' = next + 1
  /\ automation' = [automation EXCEPT ![next] =
                      [None EXCEPT !.kind = kind, !.enabled = TRUE]]
  /\ generation' = [generation EXCEPT ![next] = 0]
  /\ task' = [task EXCEPT ![next] = NoTask]
  /\ job' = [job EXCEPT !["ui"] = [NoJob EXCEPT !.id = next]]
  /\ toCancel' = {}
  /\ runs' = [runs EXCEPT ![next] = 0]
  /\ UNCHANGED <<disturbances, accepted>>

Tasks(ids) == {task[i] : i \in ids} \ {NoTask}

(* An entry that is erased forgets its generation. *)
Erase(ids) ==
  /\ automation' = [i \in Ids |-> IF i \in ids THEN None ELSE automation[i]]
  /\ generation' = [i \in Ids |-> IF i \in ids THEN 0 ELSE generation[i]]
  /\ task' = [i \in Ids |-> IF i \in ids THEN NoTask ELSE task[i]]

Remove(op, ids) ==
  /\ Disturb
  /\ Begin(op, ids)
  /\ Erase(ids)
  /\ toCancel' = Tasks(ids)
  /\ UNCHANGED <<next, job, accepted, runs>>

Cancel(i) == i \in Present /\ Remove("cancel", {i})

Clear == Remove("clear", Present)

PolicyFits(i, p) == p.retries >= automation[i].attempt

SetPolicy(i, p) ==
  /\ Disturb
  /\ i \in Present /\ PolicyFits(i, p)
  /\ Begin("policy", {i})
  /\ automation' = [automation EXCEPT ![i].policy = p]
  /\ toCancel' = {}
  /\ UNCHANGED <<next, generation, task, job, accepted, runs>>

(* A calendar automation without a next occurrence cannot be enabled. *)
Enable(i) ==
  /\ Disturb
  /\ i \in Present \ Enabled /\ i \in available
  /\ Begin("enable", {i})
  /\ automation' = [automation EXCEPT ![i].enabled = TRUE]
  /\ job' = [job EXCEPT !["ui"] = [NoJob EXCEPT !.id = i]]
  /\ toCancel' = {}
  /\ UNCHANGED <<next, generation, task, accepted, runs>>

Disable(i) ==
  /\ Disturb
  /\ i \in Enabled
  /\ Begin("disable", {i})
  /\ automation' = [automation EXCEPT ![i].enabled = FALSE]
  /\ generation' = [generation EXCEPT ![i] = @ + 1]
  /\ task' = [task EXCEPT ![i] = NoTask]
  /\ toCancel' = Tasks({i})
  /\ UNCHANGED <<next, job, accepted, runs>>

(* persist_state(), which takes a snapshot of the entries as they are. *)
Save == disk' = automation /\ diskNext' = next /\ doubtful' = FALSE

(* A failing save leaves the old file or, when only its flush failed, a    *)
(* complete newer snapshot that load() prefers.                            *)
SaveFails(kept) ==
  /\ Disturb
  /\ IF kept THEN disk' = automation /\ diskNext' = next ELSE UNCHANGED store

UiSave ==
  /\ at["ui"] = "save"
  /\ Save
  /\ mutation' = "free"
  /\ Goto("ui", CASE operation \in {"add", "enable"} -> "arm"
                  [] operation = "policy" -> "idle"
                  [] OTHER -> "unschedule")
  /\ changed' = {} /\ before' = NoEntries
  /\ accepted' = IF operation = "add" THEN accepted \cup changed ELSE accepted
  /\ cancelled' = IF operation = "cancel" THEN cancelled \cup changed ELSE cancelled
  /\ cleared' = IF operation = "clear" THEN cleared \cup accepted ELSE cleared
  /\ unarmed' = IF operation = "enable" THEN unarmed \ changed ELSE unarmed
  /\ UNCHANGED <<up, stopped, entries, next, available, inFlight, live, job,
                 armed, operation, toCancel, toArm, bounds, runs, done, succeeded,
                 overtaken, rewound>>

(* Mutant: the entries stay as the failed command left them. *)
RolledBackMut(field, i, now) == now

RolledBack(field, i, now) == IF i \in changed THEN before[field][i] ELSE now

(* Ghost: an entry that another thread armed while the save went on gets    *)
(* its old generation or task back.                                        *)
Rewound ==
  {i \in changed : /\ operation \in {"policy", "enable"}
                   /\ \/ before.generation[i] # generation[i]
                      \/ before.task[i] # task[i]}

UiSaveFails(kept) ==
  /\ at["ui"] = "save"
  /\ SaveFails(kept)
  /\ doubtful' = (doubtful \/ kept)
  /\ automation' = [i \in Ids |-> RolledBack("automation", i, automation[i])]
  /\ generation' = [i \in Ids |-> RolledBack("generation", i, generation[i])]
  /\ task' = [i \in Ids |-> RolledBack("task", i, task[i])]
  /\ next' = IF operation = "add" THEN next - 1 ELSE next
  /\ mutation' = "free"
  /\ Goto("ui", "idle")
  /\ job' = [job EXCEPT !["ui"] = NoJob]
  /\ operation' = "add" /\ changed' = {} /\ before' = NoEntries /\ toCancel' = {}
  /\ rewound' = rewound \cup Rewound
  /\ UNCHANGED <<up, stopped, available, inFlight, live, armed, toArm, fires,
                 outcomes, unarmed, overtaken>>

Unschedule ==
  /\ at["ui"] = "unschedule"
  /\ live' = live \ toCancel
  /\ Goto("ui", IF operation = "stop" THEN "await" ELSE AfterArm("ui"))
  /\ operation' = "add" /\ toCancel' = {}
  /\ UNCHANGED <<up, stopped, entries, next, available, mutation, inFlight, job,
                 armed, changed, before, toArm, store, bounds, ghosts>>

-----------------------------------------------------------------------------
(* stop(), reconcile_action_availability() and refresh_calendar_schedules(), *)
(* which do not take mutation_mutex                                        *)

(* Entries of ids lose their tasks, and their arm_generation moves on. *)
Disarm(ids) ==
  /\ generation' = [i \in Ids |-> IF i \in ids THEN generation[i] + 1 ELSE generation[i]]
  /\ task' = [i \in Ids |-> IF i \in ids THEN NoTask ELSE task[i]]
  /\ toCancel' = Tasks(ids)

Stop ==
  /\ up /\ at["ui"] = "idle" /\ ~stopped
  /\ stopped' = TRUE
  /\ Disarm(Present)
  /\ operation' = "stop"
  /\ Goto("ui", "unschedule")
  /\ UNCHANGED <<up, automation, next, available, mutation, inFlight, live, job,
                 armed, changed, before, toArm, store, bounds, ghosts>>

NothingInFlight == inFlight = 0

AwaitIdle ==
  /\ at["ui"] = "await" /\ NothingInFlight
  /\ Goto("ui", "idle")
  /\ UNCHANGED <<up, stopped, entries, next, available, mutation, inFlight, live,
                 job, armed, command, store, bounds, ghosts>>

(* A plugin comes or goes, and with it the action of an automation ... *)
PluginChange(i) ==
  /\ up /\ at["ui"] = "idle"
  /\ Disturb
  /\ available' = IF i \in available THEN available \ {i} ELSE available \cup {i}
  /\ Goto("ui", "reconcile")
  /\ UNCHANGED <<up, stopped, entries, next, mutation, inFlight, live, job, armed,
                 command, store, fires, ghosts>>

Parked == {i \in Enabled \ available : task[i] # NoTask}

(* ... and App has the automations looked through: without an occurrence   *)
(* to come a calendar automation is not armed.                             *)
Reconcile(unresolved) ==
  /\ at["ui"] = "reconcile" /\ unresolved \subseteq Calendar
  /\ operation' = "reconcile"
  /\ IF stopped
       THEN Goto("ui", "idle") /\ UNCHANGED <<generation, task, toCancel, toArm, unarmed>>
       ELSE /\ Disarm(Parked)
            /\ toArm' = {i \in (Enabled \cap available) \ unresolved : task[i] = NoTask}
            /\ Goto("ui", "unschedule")
            /\ unarmed' = (unarmed \ toArm')
                 \cup {i \in unresolved \cap Enabled \cap available : task[i] = NoTask}
  /\ UNCHANGED <<up, stopped, automation, next, available, mutation, inFlight, live,
                 job, armed, changed, before, store, bounds, outcomes, doubtful,
                 overtaken, rewound>>

(* The clock was changed: calendar automations move, or are parked.        *)
Refresh(moved, unresolved) ==
  /\ up /\ at["ui"] = "idle" /\ ~stopped
  /\ Disturb
  /\ moved \cup unresolved \subseteq Calendar \cap Enabled
  /\ moved \cap unresolved = {}
  /\ \A i \in moved : automation[i].attempt = 0
  /\ Disarm({i \in moved \cup unresolved : task[i] # NoTask})
  /\ toArm' = moved \cap available
  /\ operation' = "refresh"
  /\ Goto("ui", "unschedule")
  /\ unarmed' = (unarmed \ moved) \cup unresolved
  /\ UNCHANGED <<up, stopped, automation, next, available, mutation, inFlight, live,
                 job, armed, changed, before, store, fires,
                 outcomes, doubtful, overtaken, rewound>>

ArmNext(i) ==
  /\ at["ui"] = "next" /\ i \in toArm
  /\ toArm' = toArm \ {i}
  /\ job' = [job EXCEPT !["ui"] = [NoJob EXCEPT !.id = i]]
  /\ Goto("ui", "arm")
  /\ UNCHANGED <<up, stopped, entries, next, available, mutation, inFlight, live,
                 armed, operation, changed, before, toCancel, store, bounds, ghosts>>

-----------------------------------------------------------------------------
(* arm_automation(), on every thread *)

(* A new task differs from those that are known. *)
Known == live \cup toCancel \cup {armed[t] : t \in Threads}
           \cup {task[i] : i \in Ids} \cup {before.task[i] : i \in Ids}

NewTask(i) ==
  LET Numbered(n) == [id |-> i, generation |-> generation[i] + 1, number |-> n]
      n == CHOOSE n \in 1..Cardinality(Known) + 1 : Numbered(n) \notin Known
  IN Numbered(n)

EndArm(t) ==
  /\ Goto(t, AfterArm(t))
  /\ armed' = [armed EXCEPT ![t] = NoTask]
  /\ job' = IF t = "ui" THEN [job EXCEPT !["ui"] = NoJob] ELSE job

(* Ghost: what the thread did not find while a command saves, or fails to, *)
(* the removal of the automation.                                          *)
Overlooked(t) ==
  IF t # "ui" /\ at["ui"] = "save" /\ job[t].id \in changed THEN {job[t].id} ELSE {}

(* The task is scheduled outside of the mutex. *)
ArmBegin(t) ==
  /\ at[t] = "arm"
  /\ LET i == job[t].id
         new == NewTask(i)
     IN IF stopped \/ i \notin Enabled \cap available
          THEN /\ EndArm(t)
               /\ UNCHANGED <<generation, live>>
               /\ unarmed' = unarmed \cup Overlooked(t)
          ELSE /\ generation' = [generation EXCEPT ![i] = new.generation]
               /\ live' = live \cup {new}
               /\ armed' = [armed EXCEPT ![t] = new]
               /\ Goto(t, "record")
               /\ UNCHANGED <<job, unarmed>>
  /\ UNCHANGED <<up, stopped, automation, task, next, available, mutation,
                 inFlight, command, store, bounds, outcomes, doubtful,
                 overtaken, rewound>>

(* Mutant: the task is kept although the automation was disabled. *)
KeepTaskMut(t) == TRUE

KeepTask(t) ==
  /\ ~stopped /\ job[t].id \in Enabled
  /\ generation[job[t].id] = armed[t].generation

ArmRecord(t) ==
  /\ at[t] = "record"
  /\ LET i == job[t].id
     IN IF KeepTask(t)
          THEN /\ task' = [task EXCEPT ![i] = armed[t]]
               /\ EndArm(t)
               /\ overtaken' = IF i \in available /\ armed[t] \in live
                                 THEN overtaken \ {i} ELSE overtaken \cup {i}
               /\ UNCHANGED unarmed
          ELSE /\ Goto(t, "drop")
               /\ unarmed' = unarmed \cup Overlooked(t)
               /\ UNCHANGED <<task, job, armed, overtaken>>
  /\ UNCHANGED <<up, stopped, automation, generation, next, available, mutation,
                 inFlight, live, command, store, bounds, outcomes, doubtful,
                 rewound>>

ArmDrop(t) ==
  /\ at[t] = "drop"
  /\ live' = live \ {armed[t]}
  /\ EndArm(t)
  /\ UNCHANGED <<up, stopped, entries, next, available, mutation, inFlight, command,
                 store, bounds, ghosts>>

Arm(t) == ArmBegin(t) \/ ArmRecord(t) \/ ArmDrop(t)

-----------------------------------------------------------------------------
(* fire_automation(), on the scheduler's thread *)

StartTask ==
  /\ at["timer"] = "idle"
  /\ fires < MaxFires /\ fires' = fires + 1
  /\ \E task1 \in live :
       /\ live' = live \ {task1}
       /\ armed' = [armed EXCEPT !["timer"] = task1]
  /\ Goto("timer", "fire")
  /\ UNCHANGED <<up, stopped, entries, next, available, mutation, inFlight, job,
                 command, store, disturbances, ghosts>>

MayFire(started) ==
  ~stopped /\ started.id \in Enabled /\ generation[started.id] = started.generation

(* A stale task does nothing. *)
FireNothing ==
  /\ at["timer"] = "fire" /\ mutation = "free"
  /\ ~MayFire(armed["timer"])
  /\ Goto("timer", "idle")
  /\ armed' = [armed EXCEPT !["timer"] = NoTask]
  /\ UNCHANGED <<up, stopped, entries, next, available, mutation, inFlight, live,
                 job, command, store, bounds, ghosts>>

(* Mutant: a one-shot automation stays among the entries. *)
ErasedByFiringMut(a) == FALSE

ErasedByFiring(a) == ~Recurring(a)

(* A one-shot automation is erased; any other goes back to its regular     *)
(* schedule, or is disabled when a calendar rule has no next occurrence.   *)
Fire(resolved) ==
  /\ at["timer"] = "fire" /\ mutation = "free"
  /\ LET i == armed["timer"].id
         a == automation[i]
         b == [a EXCEPT !.attempt = 0, !.enabled = resolved]
     IN /\ MayFire(armed["timer"])
        /\ resolved \/ (a.kind = "calendar" /\ a.attempt = 0)
        /\ IF ErasedByFiring(a)
             THEN Erase({i})
             ELSE /\ automation' = [automation EXCEPT ![i] = b]
                  /\ task' = [task EXCEPT ![i] = NoTask]
                  /\ UNCHANGED generation
        /\ job' = [job EXCEPT !["timer"] = [NoJob EXCEPT !.id = i, !.fired = a]]
  /\ inFlight' = inFlight + 1
  /\ mutation' = "timer"
  /\ Goto("timer", "preflight")
  /\ armed' = [armed EXCEPT !["timer"] = NoTask]
  /\ UNCHANGED <<up, stopped, next, available, live, command, store, bounds, ghosts>>

(* Mutant: the action runs before its firing is saved. *)
PreflightMut == UNCHANGED <<store, doubtful>>

Preflight == Save

FireSave ==
  /\ at["timer"] = "preflight"
  /\ Preflight
  /\ mutation' = "free"
  /\ Goto("timer", "submit")
  /\ UNCHANGED <<up, stopped, entries, next, available, inFlight, live, job, armed,
                 command, bounds, outcomes, unarmed, overtaken, rewound>>

(* The action is skipped, for good. *)
FireSaveFails(kept) ==
  /\ at["timer"] = "preflight"
  /\ SaveFails(kept) /\ doubtful' = ~kept
  /\ mutation' = "free"
  /\ Goto("timer", "complete")
  /\ UNCHANGED <<up, stopped, entries, next, available, inFlight, live, job, armed,
                 command, fires, outcomes, unarmed,
                 overtaken, rewound>>

(* BoundedExecutor::submit(): the automations modelled are some of many,   *)
(* and the executor's queue may be full of others.                         *)
Submit ==
  /\ at["timer"] = "submit"
  /\ \E e \in Executions : at[e] = "idle"
  /\ LET e == CHOOSE e \in Executions : at[e] = "idle"
     IN /\ at' = [at EXCEPT !["timer"] = "idle", ![e] = "queued"]
        /\ job' = [job EXCEPT ![e] = [job["timer"] EXCEPT !.retryable = TRUE],
                              !["timer"] = NoJob]
  /\ UNCHANGED <<up, stopped, entries, next, available, mutation, inFlight, live,
                 armed, command, store, bounds, ghosts>>

Rejected ==
  /\ at["timer"] = "submit"
  /\ job' = [job EXCEPT !["timer"].retryable = TRUE]
  /\ Goto("timer", "complete")
  /\ UNCHANGED <<up, stopped, entries, next, available, mutation, inFlight, live,
                 armed, command, store, bounds, ghosts>>

-----------------------------------------------------------------------------
(* execute_automation(), on the executor's threads *)

(* ActionRegistry::invoke(): an action that is absent fails. *)
Invoke(e, success) ==
  /\ at[e] = "queued"
  /\ success => job[e].id \in available
  /\ job' = [job EXCEPT ![e].success = success]
  /\ Goto(e, "complete")
  /\ runs' = [runs EXCEPT ![job[e].id] = IF Recurring(job[e].fired) THEN @ ELSE @ + 1]
  /\ succeeded' = IF success /\ ~Recurring(job[e].fired)
                    THEN succeeded \cup {job[e].id} ELSE succeeded
  /\ UNCHANGED <<up, stopped, entries, next, available, mutation, inFlight, live,
                 armed, command, store, bounds, accepted, cancelled, cleared, done,
                 doubtful, unarmed, overtaken, rewound>>

-----------------------------------------------------------------------------
(* complete_automation_execution(), on an executor's or the scheduler's    *)
(* thread                                                                  *)

Completes(t) == at[t] = "complete" /\ mutation = "free"

CanRetry(j) ==
  /\ ~j.success /\ j.retryable /\ j.fired.attempt < j.fired.policy.retries

(* Mutant: nobody looks whether the automation was cancelled meanwhile. *)
StillThereMut(i) == TRUE

StillThere(i) == i \in Present

(* Tasks of an automation that are scheduled, or in the hands of a thread. *)
About(i) == {r \in live \cup {armed[t] : t \in Threads} : r.id = i} \ {NoTask}

(* A retry puts the copy that fired back, a one-shot automation as a new   *)
(* entry, whose arm_generation starts over.                                *)
CompleteRetry(t) ==
  /\ Completes(t) /\ CanRetry(job[t])
  /\ LET i == job[t].id
         a == [job[t].fired EXCEPT !.attempt = @ + 1]
     IN \/ /\ ~Recurring(a)
           /\ automation' = [automation EXCEPT ![i] = a]
           /\ generation' = [generation EXCEPT ![i] = 0]
           /\ task' = [task EXCEPT ![i] = NoTask]
           /\ job' = [job EXCEPT ![t].arms = a.enabled]
           /\ rewound' = IF About(i) # {} THEN rewound \cup {i} ELSE rewound
        \/ /\ Recurring(a) /\ StillThere(i)
           /\ automation' =
                [automation EXCEPT ![i] = [a EXCEPT !.enabled = automation[i].enabled]]
           /\ job' = [job EXCEPT ![t].arms = automation[i].enabled]
           /\ UNCHANGED <<generation, task, rewound>>
  /\ mutation' = t
  /\ Goto(t, "persist")
  /\ UNCHANGED <<up, stopped, next, available, inFlight, live, armed, command, store,
                 bounds, outcomes, doubtful, unarmed, overtaken>>

(* A recurring automation that is still there goes on, or is disabled when *)
(* its retries are exhausted, or when it has no next occurrence after them. *)
CompleteRecurring(t, resolved) ==
  /\ Completes(t) /\ ~CanRetry(job[t])
  /\ Recurring(job[t].fired) /\ job[t].id \in Present
  /\ LET i == job[t].id
         f == job[t].fired
         exhausted == ~job[t].success /\ f.policy.disables
         enabled == automation[i].enabled /\ ~exhausted /\ resolved
     IN /\ resolved \/ (f.attempt > 0 /\ f.kind = "calendar" /\ i \in Enabled /\ ~exhausted)
        /\ automation' = [automation EXCEPT ![i].attempt = 0, ![i].enabled = enabled]
        /\ job' = [job EXCEPT ![t].arms = enabled]
  /\ mutation' = t
  /\ Goto(t, "persist")
  /\ UNCHANGED <<up, stopped, generation, task, next, available, inFlight, live,
                 armed, command, store, bounds, ghosts>>

(* The automation is gone; a recurring one is saved all the same. *)
CompleteGone(t) ==
  /\ Completes(t)
  /\ LET f == job[t].fired
     IN IF Recurring(f)
          THEN /\ job[t].id \notin Present
               /\ mutation' = t /\ Goto(t, "persist")
          ELSE /\ ~CanRetry(job[t])
               /\ UNCHANGED mutation /\ Goto(t, "report")
  /\ UNCHANGED <<up, stopped, entries, next, available, inFlight, live, job, armed,
                 command, store, bounds, ghosts>>

CompleteSave(t) ==
  /\ at[t] = "persist"
  /\ Save
  /\ mutation' = "free"
  /\ Goto(t, IF job[t].arms THEN "arm" ELSE "report")
  /\ UNCHANGED <<up, stopped, entries, next, available, inFlight, live, job, armed,
                 command, bounds, outcomes, unarmed, overtaken, rewound>>

(* The automation is not armed. *)
CompleteSaveFails(t, kept) ==
  /\ at[t] = "persist"
  /\ SaveFails(kept) /\ doubtful' = ~kept
  /\ mutation' = "free"
  /\ Goto(t, "report")
  /\ unarmed' = IF job[t].arms THEN unarmed \cup {job[t].id} ELSE unarmed
  /\ UNCHANGED <<up, stopped, entries, next, available, inFlight, live, job, armed,
                 command, fires, outcomes, overtaken, rewound>>

(* Mutant: the lease is not given back. *)
ReturnedMut == inFlight

Returned == inFlight - 1

(* The observer is told, and the lease given back. *)
Report(t) ==
  /\ at[t] = "report"
  /\ inFlight' = Returned
  /\ Goto(t, "idle")
  /\ job' = [job EXCEPT ![t] = NoJob]
  /\ done' = IF Recurring(job[t].fired) \/ job[t].arms THEN done
             ELSE done \cup {job[t].id}
  /\ UNCHANGED <<up, stopped, entries, next, available, mutation, live, armed,
                 command, store, bounds, accepted, cancelled, cleared, runs,
                 succeeded, doubtful, unarmed, overtaken, rewound>>

Complete(t) ==
  \/ CompleteRetry(t) \/ CompleteRecurring(t, TRUE) \/ CompleteGone(t)
  \/ CompleteSave(t) \/ Report(t) \/ Arm(t)

-----------------------------------------------------------------------------
(* The process is killed; an execution it was in is lost, and so is what a *)
(* failed save had left out.                                               *)
Crash ==
  /\ up /\ Disturb
  /\ up' = FALSE /\ stopped' = FALSE
  /\ automation' = Nothing /\ generation' = Zero /\ task' = NoTasks
  /\ next' = 1 /\ mutation' = "free" /\ inFlight' = 0 /\ live' = {}
  /\ at' = [t \in Threads |-> "idle"]
  /\ job' = [t \in Threads |-> NoJob]
  /\ armed' = [t \in Threads |-> NoTask]
  /\ operation' = "add" /\ changed' = {} /\ toCancel' = {} /\ toArm' = {}
  /\ before' = NoEntries
  /\ accepted' = {i \in accepted : disk[i].kind # "none"}
  /\ unarmed' = {} /\ overtaken' = {} /\ rewound' = {}
  /\ UNCHANGED <<available, store, fires, cancelled, cleared,
                 runs, done, succeeded, doubtful>>

(* restore(): a calendar automation without a next occurrence is disabled, *)
(* which is not saved.                                                     *)
Restart(unresolved) ==
  /\ ~up /\ up' = TRUE
  /\ \A i \in unresolved : disk[i].kind = "calendar" /\ disk[i].enabled
  /\ automation' = [i \in Ids |-> [disk[i] EXCEPT !.enabled = @ /\ i \notin unresolved]]
  /\ next' = diskNext
  /\ operation' = "restore"
  /\ toArm' = {i \in available \ unresolved : disk[i].enabled}
  /\ Goto("ui", IF toArm' = {} THEN "idle" ELSE "next")
  /\ doubtful' = (unresolved # {})
  /\ UNCHANGED <<stopped, generation, task, available, mutation, inFlight, live, job,
                 armed, changed, before, toCancel, store, bounds, outcomes, unarmed,
                 overtaken, rewound>>

-----------------------------------------------------------------------------
Commands ==
  \/ \E kind \in Kinds : Add(kind)
  \/ \E i \in Ids : Cancel(i) \/ Enable(i) \/ Disable(i) \/ PluginChange(i)
  \/ \E i \in Ids, p \in Policies : SetPolicy(i, p)
  \/ \E moved, unresolved \in SUBSET Ids : Refresh(moved, unresolved)
  \/ Clear \/ Stop

Ui ==
  \/ UiSave \/ Unschedule \/ AwaitIdle \/ Reconcile({}) \/ Arm("ui")
  \/ \E i \in Ids : ArmNext(i)

Timer ==
  \/ FireNothing \/ Fire(TRUE) \/ FireSave \/ Submit \/ Rejected
  \/ Complete("timer")

Execution(e) ==
  Invoke(e, TRUE) \/ Invoke(e, FALSE) \/ Complete(e)

(* What may go wrong, or otherwise than it mostly does. *)
Mishap ==
  \/ \E kept \in BOOLEAN :
       \/ UiSaveFails(kept) \/ FireSaveFails(kept)
       \/ \E t \in Threads : CompleteSaveFails(t, kept)
  \/ Fire(FALSE)
  \/ \E t \in Threads : CompleteRecurring(t, FALSE)
  \/ \E unresolved \in SUBSET Ids : Reconcile(unresolved) \/ Restart(unresolved)
  \/ Crash

Next == Commands \/ Ui \/ StartTask \/ Timer \/ Mishap
          \/ \E e \in Executions : Execution(e)

Spec == Init /\ [][Next]_vars

(* While stop() waits the threads of the scheduler and of the executor run *)
(* on.  Which of them does, and whether plugins come and go, is open.      *)
Draining ==
  at["ui"] = "await" /\ (AwaitIdle \/ Timer \/ \E e \in Executions : Execution(e))

FairSpec == Spec /\ WF_vars(Draining)

-----------------------------------------------------------------------------
TypeOK ==
  /\ up \in BOOLEAN /\ stopped \in BOOLEAN
  /\ automation \in [Ids -> Automation] /\ disk \in [Ids -> Automation]
  /\ generation \in [Ids -> Nat]
  /\ next \in 1..MaxAutomations + 1 /\ diskNext \in 1..MaxAutomations + 1
  /\ mutation \in {"free"} \cup Threads
  /\ inFlight = Cardinality({e \in Executions : at[e] # "idle"}) +
                  (IF at["timer"] \in {"idle", "fire"} THEN 0 ELSE 1)
  /\ \A t \in Threads : job[t] \in Job
  /\ \A r \in live : r.id \in Ids /\ r.generation > 0 /\ r.number > 0

(* The tasks that will fire automation i. *)
Effective(i) == {r \in live : r.id = i /\ MayFire(r)}

(* When nothing is under way, every enabled automation whose action is     *)
(* registered has one task that will fire it, however commands, plugins,   *)
(* clock changes and executions were interleaved; except for those that a  *)
(* failed save left unarmed, those without a next occurrence, and those    *)
(* that took a task for theirs that had already started, or whose          *)
(* generation went back while tasks of theirs were about: a command on     *)
(* them failed and restored the whole entry, or they were retried.         *)
EnabledIsArmed ==
  up /\ ~stopped /\ at = [t \in Threads |-> "idle"] =>
    \A i \in (Enabled \cap available) \ (unarmed \cup overtaken \cup rewound) : Cardinality(Effective(i)) = 1

(* "Dependent automations remain persisted but parked until the exact      *)
(* action names are available again" (axiom.cpp 3443): with nothing under  *)
(* way no task will fire an automation whose action is gone, except when   *)
(* it went away between the test and the recording of the task, or when    *)
(* its generation went back meanwhile, as above.                           *)
ParkedIsNotArmed ==
  up /\ at = [t \in Threads |-> "idle"] =>
    \A i \in Ids \ (available \cup overtaken \cup rewound) : Effective(i) = {}

(* While nobody holds mutation_mutex the file says what memory says: a     *)
(* change is saved before the next begins, or taken back.                  *)
FileMatchesMemory ==
  up /\ mutation = "free" /\ ~doubtful => disk = automation /\ diskNext = next

InFlight == {job[t].id : t \in {e \in Executions : at[e] # "idle"}}
              \cup (IF at["timer"] \in {"idle", "fire"} THEN {} ELSE {job["timer"].id})

(* An automation whose scheduling was reported stays in the file until it  *)
(* is fired, cancelled or cleared.                                         *)
AcceptedSurvives ==
  up /\ ~doubtful => \A i \in accepted : \/ disk[i].kind # "none"
                                   \/ i \in cancelled \cup cleared \cup done \cup InFlight

(* What was reported to the user is on file. *)
SavedIsKept == FileMatchesMemory /\ AcceptedSurvives

(* An automation whose cancellation was saved never comes back, not     *)
(* even when it was being executed, fails and is retried, or the process   *)
(* is killed.                                                              *)
CancelledStaysCancelled ==
  \A i \in cancelled : automation[i].kind = "none" /\ disk[i].kind = "none"

(* When stop() has returned no action runs or waits to run, and none will. *)
StopIsQuiet ==
  stopped /\ at["ui"] # "await" /\ ~(at["ui"] = "unschedule" /\ operation = "stop") =>
    /\ inFlight = 0 /\ \A e \in Executions : at[e] = "idle"
    /\ at["timer"] \in {"idle", "fire"}

(* The store rejects an automation with more attempts than its policy      *)
(* allows, on save and on load (automation_store.cpp): none ever is.       *)
RetriesStorable ==
  \A i \in Ids : /\ automation[i].attempt <= automation[i].policy.retries
                 /\ disk[i].attempt <= disk[i].policy.retries

(* The action of a one-shot automation never ran more often than the        *)
(* attempts on record, in memory and in the file: kills of the process do  *)
(* not give it more retries than its policy allows.                        *)
AttemptsCounted ==
  \A i \in Ids : /\ automation[i].kind = "once" => runs[i] <= automation[i].attempt
                 /\ disk[i].kind = "once" => runs[i] <= disk[i].attempt

(* Retries are counted, on file as well, and no more than were allowed. *)
RetriesCounted == RetriesStorable /\ AttemptsCounted

(* At rest, exactly the automations that should fire have a task.          *)
AutomationsArmed == TypeOK /\ EnabledIsArmed /\ ParkedIsNotArmed

(* What was reported of an automation holds: a scheduled one is on file, a *)
(* cancelled one is gone for good.                                         *)
AutomationsKept == SavedIsKept /\ CancelledStaysCancelled

(* Every execution is accounted for: stop() leaves none behind, and each   *)
(* attempt is counted in memory and on file.                               *)
RunsAccounted == StopIsQuiet /\ RetriesCounted

(* Once the action of a one-shot automation has succeeded it is not run    *)
(* again.                                                                  *)
OnceSucceedsOnce == [][\A i \in succeeded : runs'[i] = runs[i]]_vars

(* stop() returns. *)
StopReturns == at["ui"] = "await" ~> at["ui"] = "idle"

=============================================================================
