-------------------------- MODULE RuntimeScheduler --------------------------
(***************************************************************************)
(* RuntimeScheduler (src/src/runtime.cpp): timed tasks, run one at a time  *)
(* by a single worker thread.  Reminders, automations and metrics are      *)
(* tasks of one scheduler.                                                 *)
(*                                                                         *)
(* The worker gives up the mutex in two places only, while it sleeps and   *)
(* while it runs a callback.  From one to the other it takes a step, or    *)
(* two after a callback, which only adds interleavings.  Other threads,    *)
(* and the callback itself, schedule, cancel and stop at any moment.       *)
(* Time is counted in ticks.  A callback that throws has returned.         *)
(***************************************************************************)
EXTENDS Integers

CONSTANTS Delays,     \* the delays asked for, negative ones too
          Intervals,  \* their intervals; 0 is a task that runs once
          MaxTasks, MaxTime  \* bounds: tasks created, ticks of the clock

ASSUME DelaysAssumption == Delays \subseteq Int /\ Intervals \subseteq Nat
ASSUME BoundsAssumption == MaxTasks \in Nat /\ MaxTime \in Nat

Ids == 1..MaxTasks

VARIABLES
  now,        \* the steady clock
  next,       \* next_id_ - 1: the task created last
  deadline, interval, cancelled, \* per task: its fields
  queue,      \* queue_, as the set of its tasks
  tasks,      \* tasks_
  worker,     \* "look", "idle" or "sleep", "run", "exited"
  until,      \* the deadline the worker sleeps for
  current,    \* the task it runs
  changed,    \* revision_ # observed_revision
  stopped,    \* stopped_
  stopping,   \* per thread that calls stop(): "no", "join" or "returned"
  started     \* ghost: the tasks whose callback was started

task == <<next, deadline, interval, cancelled>>
sleeping == <<worker, until, current>>
vars == <<now, task, queue, tasks, sleeping, changed, stopped, stopping, started>>

(* A thread that stops the scheduler: the worker itself, or another. *)
Stoppers == {"worker", "owner"}

Init ==
  /\ now = 0 /\ next = 0
  /\ deadline = [t \in Ids |-> 0] /\ interval = [t \in Ids |-> 0]
  /\ cancelled = [t \in Ids |-> FALSE]
  /\ queue = {} /\ tasks = {}
  /\ worker = "look" /\ until = 0 /\ current = 0
  /\ changed = FALSE /\ stopped = FALSE
  /\ stopping = [s \in Stoppers |-> "no"]
  /\ started = {}

-----------------------------------------------------------------------------
Tick ==
  /\ now < MaxTime
  /\ now' = now + 1
  /\ UNCHANGED <<task, queue, tasks, sleeping, changed, stopped, stopping, started>>

Delay(d) == IF d < 0 THEN 0 ELSE d

(* Mutant: a new task does not advance revision_. *)
RevisedMut == changed

Revised == TRUE

(* schedule_after() and schedule_every(), which throw once stopped. *)
Schedule(d, i) ==
  /\ ~stopped
  /\ next < MaxTasks
  /\ next' = next + 1
  /\ deadline' = [deadline EXCEPT ![next'] = now + Delay(d)]
  /\ interval' = [interval EXCEPT ![next'] = i]
  /\ tasks' = tasks \cup {next'}
  /\ queue' = queue \cup {next'}
  /\ changed' = Revised
  /\ UNCHANGED <<now, cancelled, sleeping, stopped, stopping, started>>

MarkCancelled(t) == [cancelled EXCEPT ![t] = TRUE]

Cancel(t) ==
  /\ t \in tasks
  /\ cancelled' = MarkCancelled(t)
  /\ tasks' = tasks \ {t}
  /\ changed' = TRUE
  /\ UNCHANGED <<now, next, deadline, interval, queue, sleeping, stopped,
                 stopping, started>>

(* A callback may stop the scheduler it runs on: that does not join. *)
StopBegin(s) ==
  /\ stopping[s] = "no"
  /\ s = "worker" => worker = "run"
  /\ IF stopped
       THEN stopping' = [stopping EXCEPT ![s] = "returned"]
            /\ UNCHANGED <<cancelled, tasks, changed, stopped>>
       ELSE /\ stopping' = [stopping EXCEPT ![s] = IF s = "worker" THEN "returned"
                                                   ELSE "join"]
            /\ stopped' = TRUE
            /\ cancelled' = [t \in Ids |-> cancelled[t] \/ t \in tasks]
            /\ tasks' = {}
            /\ changed' = TRUE
  /\ UNCHANGED <<now, next, deadline, interval, queue, sleeping, started>>

Joined == worker = "exited"

StopReturn ==
  /\ stopping["owner"] = "join" /\ Joined
  /\ stopping' = [stopping EXCEPT !["owner"] = "returned"]
  /\ UNCHANGED <<now, task, queue, tasks, sleeping, changed, stopped, started>>

-----------------------------------------------------------------------------
(* The worker *)

Before(t, u) ==
  \/ deadline[t] < deadline[u]
  \/ deadline[t] = deadline[u] /\ t <= u

(* Mutant: the older of two tasks goes first, whatever their deadlines. *)
IsTopMut(t, q) == t \in q /\ \A u \in q : t <= u

IsTop(t, q) == t \in q /\ \A u \in q : Before(t, u)

(* prune_cancelled_locked(): cancelled tasks go, as far as they are first. *)
Pruned(q) ==
  {t \in q : \E u \in q : ~cancelled[u] /\ Before(u, t)}

(* From the top of the loop to the next wait. *)
Look ==
  /\ queue' = Pruned(queue)
  /\ IF Pruned(queue) = {}
       THEN worker' = "idle" /\ UNCHANGED <<until, changed>>
       ELSE \E t \in Pruned(queue) :
              /\ IsTop(t, Pruned(queue))
              /\ worker' = "sleep" /\ until' = deadline[t] /\ changed' = FALSE

FirstLook ==
  /\ worker = "look" /\ ~stopped
  /\ Look
  /\ UNCHANGED <<now, task, tasks, current, stopped, stopping, started>>

(* Mutant: an idle worker is not notified. *)
WokenMut == worker = "sleep" /\ changed

(* An idle worker wakes up when there is a task, a sleeping one when the   *)
(* revision moved.                                                         *)
Woken ==
  \/ worker = "idle" /\ queue # {}
  \/ worker = "sleep" /\ changed

LookAgain ==
  /\ ~stopped /\ Woken
  /\ Look
  /\ UNCHANGED <<now, task, tasks, current, stopped, stopping, started>>

(* The deadline has passed: the first task is taken, its callback starts.  *)
RunTask ==
  /\ worker = "sleep" /\ ~stopped /\ ~changed
  /\ now >= until
  /\ \E t \in Pruned(queue) :
       /\ IsTop(t, Pruned(queue)) /\ deadline[t] <= now
       /\ queue' = Pruned(queue) \ {t}
       /\ current' = t
       /\ started' = started \cup {t}
  /\ worker' = "run"
  /\ UNCHANGED <<now, task, tasks, until, changed, stopped, stopping>>

(* The callback has returned or thrown. *)
Repeats(t) == interval[t] > 0 /\ ~cancelled[t] /\ ~stopped

FinishTask ==
  /\ worker = "run"
  /\ deadline' = IF Repeats(current)
                   THEN [deadline EXCEPT ![current] = now + interval[current]]
                   ELSE deadline
  /\ queue' = IF Repeats(current) THEN queue \cup {current} ELSE queue
  /\ tasks' = IF Repeats(current) THEN tasks ELSE tasks \ {current}
  /\ worker' = "look"
  /\ UNCHANGED <<now, next, interval, cancelled, until, current, changed,
                 stopped, stopping, started>>

(* Mutant: an idle worker sleeps through stop(). *)
MayExitMut == worker \in {"look", "sleep"}

MayExit == worker \in {"look", "idle", "sleep"}

Exit ==
  /\ stopped /\ MayExit
  /\ worker' = "exited"
  /\ UNCHANGED <<now, task, queue, tasks, until, current, changed, stopped,
                 stopping, started>>

Worker == FirstLook \/ LookAgain \/ RunTask \/ FinishTask \/ Exit

-----------------------------------------------------------------------------
Next ==
  \/ Tick
  \/ \E d \in Delays, i \in Intervals : Schedule(d, i)
  \/ \E t \in Ids : Cancel(t)
  \/ \E s \in Stoppers : StopBegin(s)
  \/ StopReturn
  \/ Worker

Spec == Init /\ [][Next]_vars

(* Callbacks return, the worker is scheduled, and time goes on. *)
FairSpec == Spec /\ WF_vars(Worker) /\ WF_vars(Tick) /\ WF_vars(StopReturn)

-----------------------------------------------------------------------------
TypeOK ==
  /\ now \in Nat /\ next \in 0..MaxTasks
  /\ deadline \in [Ids -> Nat] /\ interval \in [Ids -> Nat]
  /\ cancelled \in [Ids -> BOOLEAN]
  /\ queue \subseteq Ids /\ tasks \subseteq Ids
  /\ worker \in {"look", "idle", "sleep", "run", "exited"}
  /\ until \in Nat /\ current \in 0..MaxTasks
  /\ changed \in BOOLEAN /\ stopped \in BOOLEAN
  /\ stopping \in [Stoppers -> {"no", "join", "returned"}]
  /\ started \subseteq Ids

(* The table of tasks says exactly which callbacks can still start or come *)
(* back: no cancelled task lingers, and no recurring task falls out.       *)
TableMatchesQueue ==
  tasks = {t \in queue \cup (IF worker = "run" THEN {current} ELSE {}) : ~cancelled[t]}

(* The worker never sleeps past a task: unless it was told of a change, it *)
(* wakes up at the earliest deadline or before.                            *)
NeverSleepsPast ==
  /\ worker = "sleep" /\ ~changed => \A t \in tasks : until <= deadline[t]
  /\ worker = "idle" => tasks \subseteq queue

(* A callback that starts is due, was not cancelled, is the first of all   *)
(* that wait, and was not run before unless it repeats.                    *)
StartsInOrder ==
  [][ worker # "run" /\ worker' = "run" =>
        /\ current' \in tasks /\ deadline[current'] <= now
        /\ \A t \in tasks : Before(current', t)
        /\ interval[current'] = 0 => current' \notin started ]_vars

(* No callback runs, and none will, once stop() has returned to a thread   *)
(* that joins the worker; only a second caller can be back before that.    *)
QuietAfterStop ==
  stopping["owner"] = "returned" /\ stopping["worker"] = "no" => worker = "exited"

(* However callers, callbacks and the worker interleave, the table, the    *)
(* queue and the sleep of the worker agree, and stop() leaves it quiet.    *)
SchedulerSound == TypeOK /\ TableMatchesQueue /\ NeverSleepsPast /\ QuietAfterStop

(* A scheduled task is started or cancelled, and stop() returns. *)
TasksStart ==
  \A t \in Ids : (t \in tasks \ started /\ deadline[t] <= MaxTime)
                   ~> (t \notin tasks \/ t \in started)
StopReturns == (stopping["owner"] = "join") ~> (stopping["owner"] = "returned")
=============================================================================
