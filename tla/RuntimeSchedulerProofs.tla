------------------------ MODULE RuntimeSchedulerProofs ------------------------
(***************************************************************************)
(* Proofs about RuntimeScheduler, for any delays and intervals, any number *)
(* of tasks and any length of time.                                        *)
(***************************************************************************)
EXTENDS RuntimeScheduler, TLAPS

(* The task that runs is not in the queue, and only its own end brings it  *)
(* back.                                                                   *)
Running == IF worker = "run" THEN {current} ELSE {}
RunsAlone == worker = "run" => current \in Ids \ queue

(* Nothing is known of a task before it is created. *)
Created ==
  /\ queue \cup tasks \cup started \subseteq 1..next
  /\ current <= next
  /\ \A t \in Ids : cancelled[t] => t <= next

(* A task that runs once does not wait again after it was started. *)
RunsOnce == \A t \in started : interval[t] = 0 => t \notin queue

(* The scheduler is stopped by the first thread that calls stop(). *)
StoppedBySomeone ==
  /\ stopped <=> stopping["owner"] # "no" \/ stopping["worker"] # "no"
  /\ worker = "exited" => stopped

IInv ==
  /\ TypeOK /\ TableMatchesQueue /\ NeverSleepsPast /\ QuietAfterStop
  /\ RunsAlone /\ Created /\ RunsOnce /\ StoppedBySomeone

-----------------------------------------------------------------------------
LEMMA InitIInv == Init => IInv
<1> SUFFICES ASSUME Init PROVE IInv
  OBVIOUS
<1>1. TypeOK
  <2>1. /\ now \in Nat /\ next \in 0..MaxTasks /\ until \in Nat /\ current \in 0..MaxTasks
        /\ worker \in {"look", "idle", "sleep", "run", "exited"}
    BY BoundsAssumption DEF Init
  <2>2. /\ queue \subseteq Ids /\ tasks \subseteq Ids /\ started \subseteq Ids
        /\ changed \in BOOLEAN /\ stopped \in BOOLEAN
    BY DEF Init
  <2>3. /\ deadline \in [Ids -> Nat] /\ interval \in [Ids -> Nat]
        /\ cancelled \in [Ids -> BOOLEAN]
    BY DEF Init
  <2>4. stopping \in [Stoppers -> {"no", "join", "returned"}]
    BY DEF Init
  <2> QED  BY <2>1, <2>2, <2>3, <2>4 DEF TypeOK
<1>2. TableMatchesQueue /\ NeverSleepsPast /\ RunsAlone /\ RunsOnce
  BY DEF Init, TableMatchesQueue, NeverSleepsPast, RunsAlone, RunsOnce
<1>3. Created
  BY DEF Init, Created
<1>4. QuietAfterStop /\ StoppedBySomeone
  BY DEF Init, QuietAfterStop, StoppedBySomeone, Stoppers
<1> QED  BY <1>1, <1>2, <1>3, <1>4 DEF IInv

(* Pruning loses no task that is not cancelled. *)
LEMMA PrunedKeeps ==
  ASSUME TypeOK
  PROVE  /\ Pruned(queue) \subseteq queue
         /\ \A t \in queue : ~cancelled[t] => t \in Pruned(queue)
<1>1. \A t \in Ids : Before(t, t)
  BY DEF TypeOK, Before, Ids
<1> QED  BY <1>1 DEF Pruned, TypeOK

(* The first of the pruned queue is a task of the table. *)
LEMMA TopIsLive ==
  ASSUME TypeOK, NEW t \in Pruned(queue), IsTop(t, Pruned(queue))
  PROVE  ~cancelled[t]
<1>1. PICK u \in queue : ~cancelled[u] /\ Before(u, t)
  BY DEF Pruned
<1>2. u \in Pruned(queue)
  BY <1>1, PrunedKeeps
<1>3. Before(t, u)
  BY <1>2 DEF IsTop
<1>4. t \in Ids /\ u \in Ids /\ deadline[t] \in Nat /\ deadline[u] \in Nat
  BY <1>1, PrunedKeeps DEF TypeOK
<1>5. t = u
  BY <1>1, <1>3, <1>4 DEF Before, Ids
<1> QED  BY <1>1, <1>5

(* While no callback runs the table is a part of the queue. *)
LEMMA TableInQueue ==
  ASSUME TableMatchesQueue, worker # "run"
  PROVE  tasks \subseteq queue /\ \A t \in tasks : ~cancelled[t]
  BY DEF TableMatchesQueue

-----------------------------------------------------------------------------
LEMMA TickIInv == IInv /\ Tick => IInv'
  BY BoundsAssumption
  DEF IInv, TypeOK, TableMatchesQueue, NeverSleepsPast, QuietAfterStop, RunsAlone,
      Created, RunsOnce, StoppedBySomeone, Tick, task, sleeping, Ids

LEMMA ScheduleIInv ==
  ASSUME IInv, NEW d \in Delays, NEW i \in Intervals, Schedule(d, i)
  PROVE  IInv'
<1> DEFINE n == next + 1
<1>1. /\ next \in Nat /\ next' = n /\ n \in Ids /\ n \notin queue \cup tasks \cup started
      /\ n # current /\ ~cancelled[n] /\ current \in Nat
  BY BoundsAssumption DEF IInv, TypeOK, Created, Schedule, Ids
<1>2. /\ deadline' = [deadline EXCEPT ![n] = now + Delay(d)]
      /\ interval' = [interval EXCEPT ![n] = i]
      /\ tasks' = tasks \cup {n} /\ queue' = queue \cup {n} /\ changed' = TRUE
      /\ now' = now /\ cancelled' = cancelled /\ stopped' = stopped
      /\ stopping' = stopping /\ started' = started
      /\ worker' = worker /\ until' = until /\ current' = current
  BY <1>1 DEF Schedule, sleeping, Revised
<1>3. now + Delay(d) \in Nat /\ i \in Nat
  BY DelaysAssumption DEF IInv, TypeOK, Delay
<1> HIDE DEF n
<1>4. TypeOK'
  BY <1>1, <1>2, <1>3, BoundsAssumption DEF IInv, TypeOK, Ids
<1>5. TableMatchesQueue'
  BY <1>1, <1>2 DEF IInv, TableMatchesQueue
<1>6. NeverSleepsPast'
  BY <1>2 DEF IInv, NeverSleepsPast
<1>7. Created'
  BY <1>1, <1>2 DEF IInv, TypeOK, Created, Ids, n
<1>8. RunsAlone' /\ RunsOnce' /\ QuietAfterStop' /\ StoppedBySomeone'
  BY <1>1, <1>2 DEF IInv, TypeOK, RunsAlone, RunsOnce, QuietAfterStop, StoppedBySomeone
<1> QED  BY <1>4, <1>5, <1>6, <1>7, <1>8 DEF IInv

LEMMA CancelIInv ==
  ASSUME IInv, NEW t \in Ids, Cancel(t)
  PROVE  IInv'
<1>1. /\ t \in tasks /\ tasks' = tasks \ {t} /\ changed' = TRUE
      /\ cancelled' = [cancelled EXCEPT ![t] = TRUE]
      /\ now' = now /\ next' = next /\ deadline' = deadline /\ interval' = interval
      /\ queue' = queue /\ stopped' = stopped /\ stopping' = stopping
      /\ started' = started /\ worker' = worker /\ until' = until /\ current' = current
  BY DEF Cancel, sleeping, MarkCancelled
<1>2. TypeOK'
  BY <1>1 DEF IInv, TypeOK
<1>3. TableMatchesQueue'
  BY <1>1 DEF IInv, TypeOK, TableMatchesQueue
<1>4. NeverSleepsPast'
  BY <1>1 DEF IInv, NeverSleepsPast
<1>5. Created' /\ RunsAlone' /\ RunsOnce' /\ QuietAfterStop' /\ StoppedBySomeone'
  BY <1>1 DEF IInv, TypeOK, Created, RunsAlone, RunsOnce, QuietAfterStop, StoppedBySomeone
<1> QED  BY <1>2, <1>3, <1>4, <1>5 DEF IInv

LEMMA StopBeginIInv ==
  ASSUME IInv, NEW s \in Stoppers, StopBegin(s)
  PROVE  IInv'
<1>1. /\ now' = now /\ next' = next /\ deadline' = deadline /\ interval' = interval
      /\ queue' = queue /\ started' = started
      /\ worker' = worker /\ until' = until /\ current' = current
      /\ stopping[s] = "no" /\ (s = "worker" => worker = "run")
      /\ s \in {"worker", "owner"}
  BY DEF StopBegin, sleeping, Stoppers
<1>2. stopping \in [{"worker", "owner"} -> {"no", "join", "returned"}]
  BY DEF IInv, TypeOK, Stoppers
<1>3. CASE stopped
  <2>1. /\ stopping' = [stopping EXCEPT ![s] = "returned"]
        /\ cancelled' = cancelled /\ tasks' = tasks /\ changed' = changed
        /\ stopped' = stopped
    BY <1>3 DEF StopBegin
  <2>2. TypeOK' /\ TableMatchesQueue' /\ NeverSleepsPast' /\ RunsAlone' /\ Created'
            /\ RunsOnce'
    BY <1>1, <2>1 DEF IInv, TypeOK, Stoppers, TableMatchesQueue, NeverSleepsPast,
                      RunsAlone, Created, RunsOnce
  <2>3. QuietAfterStop' /\ StoppedBySomeone'
    BY <1>1, <1>2, <1>3, <2>1 DEF IInv, QuietAfterStop, StoppedBySomeone
  <2> QED  BY <2>2, <2>3 DEF IInv
<1>4. CASE ~stopped
  <2>1. /\ stopping' = [stopping EXCEPT ![s] = IF s = "worker" THEN "returned" ELSE "join"]
        /\ cancelled' = [t \in Ids |-> cancelled[t] \/ t \in tasks]
        /\ tasks' = {} /\ changed' = TRUE /\ stopped' = TRUE
    BY <1>4 DEF StopBegin
  <2>2. TypeOK'
    BY <1>1, <2>1 DEF IInv, TypeOK, Stoppers
  <2>3. TableMatchesQueue'
    <3>1. \A t \in queue \cup Running : t \in Ids /\ (cancelled[t] \/ t \in tasks)
      BY DEF IInv, TypeOK, TableMatchesQueue, RunsAlone, Running
    <3> QED  BY <1>1, <2>1, <3>1 DEF TableMatchesQueue, Running
  <2>4. NeverSleepsPast' /\ RunsAlone' /\ RunsOnce'
    BY <1>1, <2>1 DEF IInv, NeverSleepsPast, RunsAlone, RunsOnce
  <2>5. Created'
    BY <1>1, <2>1 DEF IInv, TypeOK, Created, Ids
  <2>6. QuietAfterStop' /\ StoppedBySomeone'
    BY <1>1, <1>2, <1>4, <2>1 DEF IInv, QuietAfterStop, StoppedBySomeone
  <2> QED  BY <2>2, <2>3, <2>4, <2>5, <2>6 DEF IInv
<1> QED  BY <1>3, <1>4

LEMMA StopReturnIInv == IInv /\ StopReturn => IInv'
<1> SUFFICES ASSUME IInv, StopReturn PROVE IInv'
  OBVIOUS
<1> USE DEF StopReturn, Joined, task, sleeping
<1>1. TypeOK' /\ TableMatchesQueue' /\ NeverSleepsPast' /\ RunsAlone' /\ Created'
          /\ RunsOnce'
  BY DEF IInv, TypeOK, Stoppers, TableMatchesQueue, NeverSleepsPast, RunsAlone,
         Created, RunsOnce
<1>2. stopping \in [{"worker", "owner"} -> {"no", "join", "returned"}]
  BY DEF IInv, TypeOK, Stoppers
<1>3. QuietAfterStop' /\ StoppedBySomeone'
  BY <1>2 DEF IInv, QuietAfterStop, StoppedBySomeone
<1> QED  BY <1>1, <1>3 DEF IInv

-----------------------------------------------------------------------------
(* The worker *)

LEMMA LookIInv ==
  ASSUME IInv, FirstLook \/ LookAgain
  PROVE  IInv'
<1>1. /\ now' = now /\ next' = next /\ deadline' = deadline /\ interval' = interval
      /\ cancelled' = cancelled /\ tasks' = tasks /\ current' = current
      /\ stopped' = stopped /\ stopping' = stopping /\ started' = started
      /\ queue' = Pruned(queue)
      /\ worker # "run" /\ worker # "exited"
  BY DEF FirstLook, LookAgain, Look, task, Woken
<1>2. /\ Pruned(queue) \subseteq queue
      /\ \A t \in queue : ~cancelled[t] => t \in Pruned(queue)
  BY PrunedKeeps DEF IInv
<1>3. tasks \subseteq Pruned(queue)
  BY <1>1, <1>2, TableInQueue DEF IInv
<1>4. /\ worker' \in {"idle", "sleep"}
      /\ worker' = "idle" => until' = until /\ changed' = changed
      /\ worker' = "sleep" => /\ changed' = FALSE
                             /\ \E t \in Pruned(queue) : /\ IsTop(t, Pruned(queue))
                                                         /\ until' = deadline[t]
  BY DEF FirstLook, LookAgain, Look
<1>5. TypeOK'
  BY <1>1, <1>2, <1>4 DEF IInv, TypeOK
<1>6. TableMatchesQueue'
  BY <1>1, <1>2, <1>4 DEF IInv, TableMatchesQueue
<1>7. NeverSleepsPast'
  <2>1. CASE worker' = "idle"
    BY <1>1, <1>3, <2>1 DEF NeverSleepsPast
  <2>2. CASE worker' = "sleep"
    <3>1. PICK t \in Pruned(queue) : IsTop(t, Pruned(queue)) /\ until' = deadline[t]
      BY <1>4, <2>2
    <3>2. \A u \in tasks : deadline[t] <= deadline[u]
      <4>1. \A u \in tasks : Before(t, u)
        BY <1>3, <3>1 DEF IsTop
      <4>2. deadline[t] \in Nat /\ \A u \in tasks : deadline[u] \in Nat
        BY <1>2, <3>1 DEF IInv, TypeOK
      <4> QED  BY <4>1, <4>2 DEF Before
    <3> QED  BY <1>1, <2>2, <3>1, <3>2 DEF NeverSleepsPast
  <2> QED  BY <1>4, <2>1, <2>2
<1>8. RunsAlone' /\ Created' /\ RunsOnce'
  BY <1>1, <1>2, <1>4 DEF IInv, RunsAlone, Created, RunsOnce
<1>9. QuietAfterStop' /\ StoppedBySomeone'
  BY <1>1, <1>4 DEF IInv, QuietAfterStop, StoppedBySomeone
<1> QED  BY <1>5, <1>6, <1>7, <1>8, <1>9 DEF IInv

LEMMA RunTaskIInv == IInv /\ RunTask => IInv'
<1> SUFFICES ASSUME IInv, RunTask PROVE IInv'
  OBVIOUS
<1>1. /\ now' = now /\ next' = next /\ deadline' = deadline /\ interval' = interval
      /\ cancelled' = cancelled /\ tasks' = tasks /\ until' = until
      /\ changed' = changed /\ stopped' = stopped /\ stopping' = stopping
      /\ worker = "sleep" /\ worker' = "run" /\ ~stopped
  BY DEF RunTask, task
<1>2. PICK t \in Pruned(queue) :
        /\ IsTop(t, Pruned(queue))
        /\ queue' = Pruned(queue) \ {t} /\ current' = t /\ started' = started \cup {t}
  BY DEF RunTask
<1>3. /\ Pruned(queue) \subseteq queue
      /\ \A u \in queue : ~cancelled[u] => u \in Pruned(queue)
      /\ ~cancelled[t] /\ t \in Ids
  BY <1>2, PrunedKeeps, TopIsLive DEF IInv, TypeOK
<1>4. TypeOK'
  <2>1. current' \in 0..MaxTasks
    BY <1>2, <1>3, BoundsAssumption DEF Ids
  <2>2. queue' \subseteq Ids /\ started' \subseteq Ids
    BY <1>2, <1>3 DEF IInv, TypeOK
  <2> QED  BY <1>1, <2>1, <2>2 DEF IInv, TypeOK
<1>5. TableMatchesQueue'
  <2>1. (Pruned(queue) \ {t}) \cup {t} = Pruned(queue)
    OBVIOUS
  <2>2. tasks = {u \in Pruned(queue) : ~cancelled[u]}
    BY <1>1, <1>3 DEF IInv, TableMatchesQueue
  <2> QED  BY <1>1, <1>2, <2>1, <2>2 DEF TableMatchesQueue
<1>6. NeverSleepsPast' /\ RunsAlone' /\ RunsOnce'
  <2>1. NeverSleepsPast'
    BY <1>1 DEF NeverSleepsPast
  <2>2. RunsAlone'
    BY <1>2, <1>3 DEF RunsAlone
  <2>3. RunsOnce'
    BY <1>1, <1>2, <1>3 DEF IInv, RunsOnce
  <2> QED  BY <2>1, <2>2, <2>3
<1>7. Created'
  <2>1. t \in queue /\ queue \cup tasks \cup started \subseteq 1..next
    BY <1>2, <1>3 DEF IInv, Created
  <2>2. t \in 1..next /\ t <= next
    BY <2>1 DEF IInv, TypeOK
  <2>3. queue' \cup tasks' \cup started' \subseteq 1..next
    BY <1>1, <1>2, <1>3, <2>1, <2>2
  <2> QED  BY <1>1, <1>2, <2>2, <2>3 DEF IInv, Created
<1>8. QuietAfterStop' /\ StoppedBySomeone'
  BY <1>1 DEF IInv, QuietAfterStop, StoppedBySomeone
<1> QED  BY <1>4, <1>5, <1>6, <1>7, <1>8 DEF IInv

LEMMA FinishTaskIInv == IInv /\ FinishTask => IInv'
<1> SUFFICES ASSUME IInv, FinishTask PROVE IInv'
  OBVIOUS
<1>1. /\ now' = now /\ next' = next /\ interval' = interval /\ cancelled' = cancelled
      /\ until' = until /\ current' = current /\ changed' = changed
      /\ stopped' = stopped /\ stopping' = stopping /\ started' = started
      /\ worker = "run" /\ worker' = "look"
      /\ current \in Ids \ queue
  BY DEF FinishTask, IInv, RunsAlone
<1>2. CASE Repeats(current)
  <2>1. /\ deadline' = [deadline EXCEPT ![current] = now + interval[current]]
        /\ queue' = queue \cup {current} /\ tasks' = tasks
        /\ interval[current] > 0 /\ ~cancelled[current]
    BY <1>2 DEF FinishTask, Repeats
  <2>2. now + interval[current] \in Nat
    BY <1>1 DEF IInv, TypeOK
  <2>3. TypeOK'
    BY <1>1, <2>1, <2>2 DEF IInv, TypeOK
  <2>4. TableMatchesQueue'
    BY <1>1, <2>1 DEF IInv, TableMatchesQueue
  <2>5. interval[current] # 0
    BY <1>1, <2>1 DEF IInv, TypeOK
  <2>6. NeverSleepsPast' /\ RunsAlone' /\ RunsOnce'
    BY <1>1, <2>1, <2>5 DEF IInv, NeverSleepsPast, RunsAlone, RunsOnce
  <2>7. Created'
    BY <1>1, <2>1 DEF IInv, TypeOK, Created, Ids
  <2>8. QuietAfterStop' /\ StoppedBySomeone'
    BY <1>1 DEF IInv, QuietAfterStop, StoppedBySomeone
  <2> QED  BY <2>3, <2>4, <2>6, <2>7, <2>8 DEF IInv
<1>3. CASE ~Repeats(current)
  <2>1. deadline' = deadline /\ queue' = queue /\ tasks' = tasks \ {current}
    BY <1>3 DEF FinishTask
  <2>2. TypeOK' /\ TableMatchesQueue'
    BY <1>1, <2>1 DEF IInv, TypeOK, TableMatchesQueue
  <2>3. NeverSleepsPast' /\ RunsAlone' /\ RunsOnce' /\ Created'
    BY <1>1, <2>1 DEF IInv, NeverSleepsPast, RunsAlone, RunsOnce, Created
  <2>4. QuietAfterStop' /\ StoppedBySomeone'
    BY <1>1 DEF IInv, QuietAfterStop, StoppedBySomeone
  <2> QED  BY <2>2, <2>3, <2>4 DEF IInv
<1> QED  BY <1>2, <1>3

LEMMA ExitIInv == IInv /\ Exit => IInv'
<1> SUFFICES ASSUME IInv, Exit PROVE IInv'
  OBVIOUS
<1>1. /\ UNCHANGED <<now, task, queue, tasks, until, current, changed, stopped,
                     stopping, started>>
      /\ worker # "run" /\ worker' = "exited" /\ stopped
  BY DEF Exit, MayExit
<1>2. TypeOK' /\ TableMatchesQueue' /\ NeverSleepsPast' /\ RunsAlone'
  BY <1>1 DEF task, IInv, TypeOK, TableMatchesQueue, NeverSleepsPast, RunsAlone
<1>3. Created' /\ RunsOnce'
  BY <1>1 DEF task, IInv, Created, RunsOnce
<1>4. QuietAfterStop' /\ StoppedBySomeone'
  BY <1>1 DEF IInv, QuietAfterStop, StoppedBySomeone
<1> QED  BY <1>2, <1>3, <1>4 DEF IInv

-----------------------------------------------------------------------------
LEMMA NextIInv == IInv /\ [Next]_vars => IInv'
<1> SUFFICES ASSUME IInv, [Next]_vars PROVE IInv'
  OBVIOUS
<1>1. CASE Tick
  BY <1>1, TickIInv
<1>2. CASE \E d \in Delays, i \in Intervals : Schedule(d, i)
  BY <1>2, ScheduleIInv
<1>3. CASE \E t \in Ids : Cancel(t)
  BY <1>3, CancelIInv
<1>4. CASE \E s \in Stoppers : StopBegin(s)
  BY <1>4, StopBeginIInv
<1>5. CASE StopReturn
  BY <1>5, StopReturnIInv
<1>6. CASE Worker
  BY <1>6, LookIInv, RunTaskIInv, FinishTaskIInv, ExitIInv DEF Worker
<1>7. CASE UNCHANGED vars
  BY <1>7 DEF vars, task, sleeping, IInv, TypeOK, TableMatchesQueue, NeverSleepsPast,
              QuietAfterStop, RunsAlone, Created, RunsOnce, StoppedBySomeone
<1> QED  BY <1>1, <1>2, <1>3, <1>4, <1>5, <1>6, <1>7 DEF Next

LEMMA SchedulerInvariant == Spec => []IInv
  BY InitIInv, NextIInv, PTL DEF Spec

-----------------------------------------------------------------------------
(* The state of the scheduler has its type whatever is scheduled, a        *)
(* negative delay included: no deadline lies before the clock's start.     *)
THEOREM SchedulerTypes == Spec => []TypeOK
  BY SchedulerInvariant, PTL DEF IInv

(* tasks_ always names exactly the tasks whose callback can still start or *)
(* come back, however cancel(), stop() and the worker interleave.          *)
THEOREM TableIsTheQueue == Spec => []TableMatchesQueue
  BY SchedulerInvariant, PTL DEF IInv

(* The worker never sleeps past the deadline of a task without having been *)
(* told of a change: scheduling an earlier task is never missed.           *)
THEOREM WakesInTime == Spec => []NeverSleepsPast
  BY SchedulerInvariant, PTL DEF IInv

(* When stop() has returned to the thread that joins, the worker is gone.  *)
THEOREM StopIsQuiet == Spec => []QuietAfterStop
  BY SchedulerInvariant, PTL DEF IInv

(* The table, the queue and the sleep of the worker agree, and stop()      *)
(* leaves it quiet, for any number of tasks and any times.                 *)
THEOREM SchedulerIsSound == Spec => []SchedulerSound
  BY SchedulerInvariant, PTL DEF IInv, SchedulerSound

(* Callbacks start in the order of their deadlines, when they are due, not *)
(* after they were cancelled and not twice unless they repeat.             *)
THEOREM RunsInOrder == Spec => StartsInOrder
<1>1. IInv /\ [Next]_vars =>
        [ worker # "run" /\ worker' = "run" =>
            /\ current' \in tasks /\ deadline[current'] <= now
            /\ \A t \in tasks : Before(current', t)
            /\ interval[current'] = 0 => current' \notin started ]_vars
  <2> SUFFICES ASSUME IInv, Next, worker # "run", worker' = "run"
               PROVE  /\ current' \in tasks /\ deadline[current'] <= now
                      /\ \A t \in tasks : Before(current', t)
                      /\ interval[current'] = 0 => current' \notin started
    OBVIOUS
  <2>1. RunTask
    BY DEF Next, Tick, Schedule, Cancel, StopBegin, StopReturn, sleeping, Worker,
           FirstLook, LookAgain, Look, FinishTask, Exit
  <2>2. PICK t \in Pruned(queue) :
          IsTop(t, Pruned(queue)) /\ deadline[t] <= now /\ current' = t
    BY <2>1 DEF RunTask
  <2>3. t \in queue /\ ~cancelled[t]
    BY <2>2, PrunedKeeps, TopIsLive DEF IInv
  <2>4. tasks \subseteq Pruned(queue)
    BY PrunedKeeps, TableInQueue DEF IInv
  <2>5. t \in tasks
    BY <2>3 DEF IInv, TableMatchesQueue
  <2>6. interval[t] = 0 => t \notin started
    BY <2>3 DEF IInv, RunsOnce
  <2> QED  BY <2>2, <2>4, <2>5, <2>6 DEF IsTop
<1> QED  BY <1>1, SchedulerInvariant, PTL DEF Spec, StartsInOrder
=============================================================================
