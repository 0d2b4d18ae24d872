--------------------------- MODULE BoundedExecutor ---------------------------
(* BoundedExecutor (src/src/runtime.cpp): a bounded queue of callbacks and    *)
(* the threads that run them.  Automations hand their actions to it.          *)
(*                                                                            *)
(* Every method holds the mutex, which a worker gives up while it sleeps and  *)
(* while it runs a callback.  A condition variable is notified after the      *)
(* mutex was released, so a notification and the step it is about are apart.  *)
(* A callback may call every method, stop() too.                              *)
EXTENDS Integers, Sequences, FiniteSets

CONSTANTS
  Pool,           \* workers_: the threads
  Clients,        \* other threads that call the executor
  QueueCapacity,  \* queue_capacity_
  MaxJobs         \* bound: callbacks offered

ASSUME ExecutorAssumption ==
  /\ Pool # {} /\ Pool \cap Clients = {}
  /\ QueueCapacity \in Nat \ {0} /\ MaxJobs \in Nat

VARIABLES
  jobQueue,   \* queue_
  totals,     \* active_workers_ and the counters
  closing,    \* stopped_, drain_on_stop_, and whether request_stop() was called
  thread,     \* per worker: where it is, and its callback
  caller,     \* per thread: what is left of the method it called
  fate        \* ghost: what became of every callback that was offered

executorVars == <<jobQueue, totals, closing, thread, caller, fate>>

NoJob == 0
Offered == Len(fate)
Waiting == [at |-> "waiting", job |-> NoJob]
Asleep == [at |-> "asleep", job |-> NoJob]
Gone == [at |-> "gone", job |-> NoJob]

ExecutorInit ==
  /\ jobQueue = <<>>
  /\ totals = [active |-> 0, submitted |-> 0, completed |-> 0, failed |-> 0, rejected |-> 0]
  /\ closing = [stopped |-> FALSE, drain |-> TRUE, requested |-> FALSE]
  /\ thread = [w \in Pool |-> Waiting]
  /\ caller = [t \in Pool \union Clients |-> "idle"]
  /\ fate = <<>>

Running(w) == thread[w].at = "running"
MayCall(t) == caller[t] \in {"idle", "stopped"} /\ (t \in Pool => Running(t))

-----------------------------------------------------------------------------
(* submit(): accepting_ is cleared together with stopped_ being set.          *)
Accepts == ~closing.stopped /\ Len(jobQueue) < QueueCapacity

Accept(t) ==
  /\ MayCall(t) /\ Offered < MaxJobs /\ Accepts
  /\ jobQueue' = Append(jobQueue, Offered + 1)
  /\ totals' = [totals EXCEPT !.submitted = @ + 1]
  /\ fate' = Append(fate, "accepted")
  /\ caller' = [caller EXCEPT ![t] = "notify"]
  /\ UNCHANGED <<closing, thread>>

Reject(t) ==
  /\ MayCall(t) /\ Offered < MaxJobs /\ ~Accepts
  /\ totals' = [totals EXCEPT !.rejected = @ + 1]
  /\ fate' = Append(fate, "rejected")
  /\ UNCHANGED <<jobQueue, closing, thread, caller>>

(* notify_one(): one worker, if any sleeps.                                   *)
Wake(W) == thread' = [w \in Pool |-> IF w \in W THEN Waiting ELSE thread[w]]
Sleepers == {w \in Pool : thread[w] = Asleep}
NotifyOne(t) ==
  /\ caller[t] = "notify"
  /\ IF Sleepers = {} THEN UNCHANGED thread ELSE \E w \in Sleepers : Wake({w})
  /\ caller' = [caller EXCEPT ![t] = "idle"]
  /\ UNCHANGED <<jobQueue, totals, closing, fate>>

(* stop(): only the first call does anything; a worker that stops the pool    *)
(* does not join itself.                                                      *)
Queued(q) == {q[i] : i \in DOMAIN q}
Stop(t, drain) ==
  /\ MayCall(t) /\ ~closing.stopped
  /\ closing' = [stopped |-> TRUE, drain |-> drain, requested |-> FALSE]
  /\ IF drain THEN UNCHANGED <<jobQueue, totals, fate>>
     ELSE /\ jobQueue' = <<>>
          /\ totals' = [totals EXCEPT !.rejected = @ + Len(jobQueue)]
          /\ fate' = [j \in DOMAIN fate |-> IF j \in Queued(jobQueue) THEN "dropped" ELSE fate[j]]
  /\ caller' = [caller EXCEPT ![t] = "notify all"]
  /\ UNCHANGED thread

NotifyAllMut(t) == caller[t] = "notify all" /\ UNCHANGED thread
NotifyAll(t) == caller[t] = "notify all" /\ Wake(Sleepers)
StopNotifies(t) ==
  /\ NotifyAll(t)
  /\ caller' = [caller EXCEPT ![t] = IF closing.drain THEN "join" ELSE "request"]
  /\ UNCHANGED <<jobQueue, totals, closing, fate>>

(* request_stop() on every worker, which ends their waits.                    *)
RequestStop(t) ==
  /\ caller[t] = "request"
  /\ closing' = [closing EXCEPT !.requested = TRUE] /\ Wake(Sleepers)
  /\ caller' = [caller EXCEPT ![t] = "join"]
  /\ UNCHANGED <<jobQueue, totals, fate>>

AllJoined(t) == \A w \in Pool \ {t} : thread[w] = Gone
Join(t) ==
  /\ caller[t] = "join" /\ AllJoined(t)
  /\ caller' = [caller EXCEPT ![t] = "stopped"]
  /\ UNCHANGED <<jobQueue, totals, closing, thread, fate>>

-----------------------------------------------------------------------------
(* run().                                                                     *)
Ends == closing.stopped \/ closing.requested
LeavesMut == Ends
Leaves ==
  \/ jobQueue = <<>> /\ Ends
  \/ jobQueue # <<>> /\ closing.requested /\ ~closing.drain

Leave(w) ==
  /\ thread[w] = Waiting /\ Leaves
  /\ thread' = [thread EXCEPT ![w] = Gone]
  /\ UNCHANGED <<jobQueue, totals, closing, caller, fate>>

Sleep(w) ==
  /\ thread[w] = Waiting /\ jobQueue = <<>> /\ ~Leaves
  /\ thread' = [thread EXCEPT ![w] = Asleep]
  /\ UNCHANGED <<jobQueue, totals, closing, caller, fate>>

Take(w) ==
  /\ thread[w] = Waiting /\ jobQueue # <<>> /\ ~Leaves
  /\ jobQueue' = Tail(jobQueue)
  /\ thread' = [thread EXCEPT ![w] = [at |-> "running", job |-> Head(jobQueue)]]
  /\ totals' = [totals EXCEPT !.active = @ + 1]
  /\ fate' = [fate EXCEPT ![Head(jobQueue)] = "started"]
  /\ UNCHANGED <<closing, caller>>

(* The callback returns or throws, once what it called has returned.          *)
Finish(w, throws) ==
  /\ Running(w) /\ caller[w] \in {"idle", "stopped"}
  /\ totals' = [totals EXCEPT !.active = @ - 1, !.completed = @ + 1,
                              !.failed = IF throws THEN @ + 1 ELSE @]
  /\ fate' = [fate EXCEPT ![thread[w].job] = "finished"]
  /\ thread' = [u \in Pool |->
                  IF u = w \/ (u \in Sleepers /\ closing.stopped /\ closing.drain
                               /\ jobQueue = <<>> /\ totals.active = 1)
                  THEN Waiting ELSE thread[u]]
  /\ UNCHANGED <<jobQueue, closing, caller>>

Calling(t) == NotifyOne(t) \/ StopNotifies(t) \/ RequestStop(t) \/ Join(t)
Working(w) == Leave(w) \/ Sleep(w) \/ Take(w) \/ \E throws \in BOOLEAN : Finish(w, throws)

ExecutorNext ==
  \/ \E t \in Pool \union Clients :
       \/ Accept(t) \/ Reject(t) \/ Calling(t)
       \/ \E drain \in BOOLEAN : Stop(t, drain)
  \/ \E w \in Pool : Working(w)

(* Callbacks return, and threads that can run do.                             *)
ExecutorFairness ==
  /\ \A t \in Pool \union Clients : WF_executorVars(Calling(t))
  /\ \A w \in Pool : WF_executorVars(Working(w))

ExecutorSpec == ExecutorInit /\ [][ExecutorNext]_executorVars /\ ExecutorFairness

-----------------------------------------------------------------------------
Jobs(f) == {j \in DOMAIN fate : fate[j] = f}
Count(f) == Cardinality(Jobs(f))

ExecutorTypeOK ==
  /\ Queued(jobQueue) \subseteq DOMAIN fate
  /\ totals \in [active : Nat, submitted : Nat, completed : Nat, failed : Nat, rejected : Nat]
  /\ closing \in [stopped : BOOLEAN, drain : BOOLEAN, requested : BOOLEAN]
  /\ thread \in [Pool -> [at : {"waiting", "asleep", "running", "gone"}, job : 0..MaxJobs]]
  /\ caller \in [Pool \union Clients ->
                   {"idle", "notify", "notify all", "request", "join", "stopped"}]

(* A callback that submit() accepted is run, unless stop(false) drops it:     *)
(* when stop() has returned to a thread outside the pool nothing waits and    *)
(* nothing runs, and a stop that drains has dropped nothing.  The statistics  *)
(* say what became of the callbacks all along; only those that stop(false)    *)
(* drops are counted twice, as submitted and as rejected.                     *)
AcceptedAreRun ==
  /\ ExecutorTypeOK
  /\ \A t \in Clients : caller[t] = "stopped" => Jobs("accepted") \union Jobs("started") = {}
  /\ Jobs("accepted") = Queued(jobQueue) /\ Cardinality(Queued(jobQueue)) = Len(jobQueue)
  /\ closing.drain => Jobs("dropped") = {}
  /\ totals.active = Count("started") /\ totals.completed = Count("finished")
  /\ totals.submitted = totals.completed + totals.active + Len(jobQueue) + Count("dropped")
  /\ totals.rejected = Count("rejected") + Count("dropped")

(* A callback does not stay in the queue, and a stop() returns, whoever calls *)
(* it: no worker sleeps through the notification that was meant for it.       *)
QueueEmpties == (jobQueue # <<>>) ~> (jobQueue = <<>>)
PoolStops == \A t \in Pool \union Clients : (caller[t] = "join") ~> (caller[t] = "stopped")
ExecutorGoesOn == QueueEmpties /\ PoolStops
=============================================================================
