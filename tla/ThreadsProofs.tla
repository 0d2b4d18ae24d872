----------------------------- MODULE ThreadsProofs -----------------------------
(* What threads share and wait for, proved part by part for any number of     *)
(* threads and any limits: the callbacks of the executor, the verdicts of the *)
(* gate of the index scans, the order of the notifications, the modules of    *)
(* the host of the plugins and the entries of the clipboard.                  *)
EXTENDS BoundedExecutor, IndexScanGate, NotificationCenter, PluginHost, ClipboardStore,
        SequenceTheorems, FiniteSetTheorems, WellFoundedInduction, TLAPS

-----------------------------------------------------------------------------
(* The executor.                                                            *)
-----------------------------------------------------------------------------

Fates == {"accepted", "rejected", "dropped", "started", "finished"}

PoolShape ==
  /\ ExecutorTypeOK
  /\ fate \in Seq(Fates) /\ Len(fate) <= MaxJobs /\ jobQueue \in Seq(Nat)
  /\ \A w \in Pool : thread[w] \in {Waiting, Asleep, Gone} \/ Running(w)

(* The queue holds what was accepted and not yet taken or dropped, once each. *)
QueueIsAccepted ==
  /\ \A i, k \in DOMAIN jobQueue : i # k => jobQueue[i] # jobQueue[k]
  /\ Jobs("accepted") = Queued(jobQueue) /\ Cardinality(Queued(jobQueue)) = Len(jobQueue)

(* What was started and did not finish is in the hands of one worker.         *)
Handed ==
  /\ \A w \in Pool : Running(w) => thread[w].job \in Jobs("started")
  /\ \A w, u \in Pool : Running(w) /\ Running(u) /\ thread[w].job = thread[u].job => w = u
  /\ \A j \in Jobs("started") : \E w \in Pool : Running(w) /\ thread[w].job = j

(* A worker leaves only when nothing is left and nothing more is accepted.    *)
Closed ==
  /\ ~closing.stopped => closing.drain /\ ~closing.requested
  /\ ~closing.drain => jobQueue = <<>>
  /\ closing.drain => Jobs("dropped") = {}
  /\ \A w \in Pool : thread[w] = Gone => closing.stopped /\ jobQueue = <<>>
  /\ \A t \in Pool \union Clients :
       /\ caller[t] \notin {"idle", "notify"} => closing.stopped
       /\ caller[t] = "stopped" => AllJoined(t)

Counted ==
  /\ totals.active = Count("started") /\ totals.completed = Count("finished")
  /\ totals.submitted = totals.completed + totals.active + Len(jobQueue) + Count("dropped")
  /\ totals.rejected = Count("rejected") + Count("dropped")

ExecutorInv == PoolShape /\ QueueIsAccepted /\ Handed /\ Closed /\ Counted

-----------------------------------------------------------------------------
LEMMA JobsFinite ==
  ASSUME PoolShape, NEW f
  PROVE  /\ IsFiniteSet(Jobs(f)) /\ Count(f) \in Nat
         /\ Jobs(f) \subseteq 1..Len(fate) /\ DOMAIN fate = 1..Len(fate) /\ Len(fate) \in Nat
         /\ Jobs(f) = {} => Count(f) = 0
<1>1. Len(fate) \in Nat /\ DOMAIN fate = 1..Len(fate)
  BY DEF PoolShape
<1>2. Jobs(f) \subseteq 1..Len(fate)
  BY <1>1 DEF Jobs
<1>3. IsFiniteSet(1..Len(fate))
  BY <1>1, FS_Interval
<1>4. IsFiniteSet(Jobs(f)) /\ Cardinality(Jobs(f)) \in Nat
  BY <1>2, <1>3, FS_Subset, FS_CardinalityType
<1> QED  BY <1>1, <1>2, <1>4, FS_EmptySet DEF Count

Totals == [active : Nat, submitted : Nat, completed : Nat, failed : Nat, rejected : Nat]

LEMMA EmptyQueue ==
  Queued(<<>>) = {} /\ DOMAIN <<>> = {} /\ Len(<<>>) = 0 /\ <<>> \in Seq(Nat)
<1>1. DOMAIN <<>> = {} /\ Len(<<>>) = 0 /\ <<>> \in Seq(Nat)
  OBVIOUS
<1> QED  BY <1>1 DEF Queued

LEMMA TotalsType ==
  ASSUME PoolShape
  PROVE  /\ totals \in Totals
         /\ totals.active \in Nat /\ totals.completed \in Nat /\ totals.submitted \in Nat
         /\ totals.rejected \in Nat /\ totals.failed \in Nat
         /\ totals = [active |-> totals.active, submitted |-> totals.submitted,
                      completed |-> totals.completed, failed |-> totals.failed,
                      rejected |-> totals.rejected]
<1>1. totals \in Totals
  BY DEF PoolShape, ExecutorTypeOK, Totals
<1> QED  BY <1>1 DEF Totals

(* The counters after a step.                                                 *)
LEMMA TotalsMove ==
  ASSUME NEW r \in Totals, NEW n \in Nat, NEW k \in Nat, NEW l \in Nat
  PROVE  /\ [r EXCEPT !.submitted = n] = [active |-> r.active, submitted |-> n,
              completed |-> r.completed, failed |-> r.failed, rejected |-> r.rejected]
         /\ [r EXCEPT !.rejected = n] = [active |-> r.active, submitted |-> r.submitted,
              completed |-> r.completed, failed |-> r.failed, rejected |-> n]
         /\ [r EXCEPT !.active = n] = [active |-> n, submitted |-> r.submitted,
              completed |-> r.completed, failed |-> r.failed, rejected |-> r.rejected]
<1>1. r = [active |-> r.active, submitted |-> r.submitted, completed |-> r.completed,
           failed |-> r.failed, rejected |-> r.rejected]
  BY DEF Totals
<1>2. [r EXCEPT !.submitted = n] = [active |-> r.active, submitted |-> n,
              completed |-> r.completed, failed |-> r.failed, rejected |-> r.rejected]
  BY <1>1
<1>3. [r EXCEPT !.rejected = n] = [active |-> r.active, submitted |-> r.submitted,
              completed |-> r.completed, failed |-> r.failed, rejected |-> n]
  BY <1>1
<1>4. [r EXCEPT !.active = n] = [active |-> n, submitted |-> r.submitted,
              completed |-> r.completed, failed |-> r.failed, rejected |-> r.rejected]
  BY <1>1
<1> QED  BY <1>2, <1>3, <1>4

TotalsFinished(r, n, k, l) == [r EXCEPT !.active = n, !.completed = k, !.failed = l]

LEMMA TotalsFinish ==
  ASSUME NEW r \in Totals, NEW n \in Nat, NEW k \in Nat, NEW l \in Nat
  PROVE  TotalsFinished(r, n, k, l) \in Totals
  BY DEF Totals, TotalsFinished

(* One callback changes its fate.                                             *)
LEMMA Recast ==
  ASSUME PoolShape, NEW j \in DOMAIN fate, NEW f \in Fates, NEW g \in Fates,
         fate[j] = g, g # f, fate' = [fate EXCEPT ![j] = f]
  PROVE  /\ fate' \in Seq(Fates) /\ Len(fate') = Len(fate) /\ DOMAIN fate' = DOMAIN fate
         /\ Jobs(f)' = Jobs(f) \union {j} /\ Count(f)' = Count(f) + 1
         /\ Jobs(g)' = Jobs(g) \ {j} /\ j \in Jobs(g) /\ Count(g)' = Count(g) - 1
         /\ \A h \in Fates : h # f /\ h # g => Jobs(h)' = Jobs(h) /\ Count(h)' = Count(h)
<1>1. fate' \in Seq(Fates) /\ Len(fate') = Len(fate) /\ DOMAIN fate' = DOMAIN fate
  BY DEF PoolShape
<1>2. /\ Jobs(f)' = Jobs(f) \union {j} /\ j \notin Jobs(f)
      /\ Jobs(g)' = Jobs(g) \ {j} /\ j \in Jobs(g)
  BY <1>1 DEF Jobs, PoolShape
<1>3. Count(f)' = Count(f) + 1
  BY <1>2, JobsFinite, FS_AddElement DEF Count
<1>4. Count(g)' = Count(g) - 1
  <2>1. IsFiniteSet(Jobs(g))
    BY JobsFinite
  <2>2. Cardinality(Jobs(g) \ {j}) = Cardinality(Jobs(g)) - 1
    BY <1>2, <2>1, FS_RemoveElement
  <2> QED  BY <1>2, <2>2 DEF Count
<1>5. \A h \in Fates : h # f /\ h # g => Jobs(h)' = Jobs(h) /\ Count(h)' = Count(h)
  BY <1>1 DEF Jobs, Count, PoolShape
<1> QED  BY <1>1, <1>2, <1>3, <1>4, <1>5

(* A callback is offered.                                                     *)
LEMMA Offer ==
  ASSUME PoolShape, NEW f \in Fates, fate' = Append(fate, f)
  PROVE  /\ fate' \in Seq(Fates) /\ Len(fate') = Len(fate) + 1
         /\ DOMAIN fate' = DOMAIN fate \union {Len(fate) + 1}
         /\ Len(fate) + 1 \notin DOMAIN fate
         /\ Jobs(f)' = Jobs(f) \union {Len(fate) + 1} /\ Count(f)' = Count(f) + 1
         /\ \A h \in Fates : h # f => Jobs(h)' = Jobs(h) /\ Count(h)' = Count(h)
<1>1. /\ fate' \in Seq(Fates) /\ Len(fate') = Len(fate) + 1 /\ Len(fate) \in Nat
      /\ DOMAIN fate' = DOMAIN fate \union {Len(fate) + 1}
      /\ Len(fate) + 1 \notin DOMAIN fate
  BY DEF PoolShape
<1>2. Jobs(f)' = Jobs(f) \union {Len(fate) + 1} /\ Len(fate) + 1 \notin Jobs(f)
  BY <1>1 DEF Jobs, PoolShape
<1>3. Count(f)' = Count(f) + 1
  BY <1>2, JobsFinite, FS_AddElement DEF Count
<1>4. \A h \in Fates : h # f => Jobs(h)' = Jobs(h) /\ Count(h)' = Count(h)
  <2> SUFFICES ASSUME NEW h \in Fates, h # f PROVE Jobs(h)' = Jobs(h)
    BY DEF Count
  <2>1. fate'[Len(fate) + 1] = f /\ \A j \in DOMAIN fate : fate'[j] = fate[j]
    BY DEF PoolShape
  <2> QED  BY <1>1, <2>1 DEF Jobs
<1> QED  BY <1>1, <1>2, <1>3, <1>4

LEMMA InitExecutorInv == ExecutorInit => ExecutorInv
<1> SUFFICES ASSUME ExecutorInit PROVE ExecutorInv
  OBVIOUS
<1> USE DEF ExecutorInit
<1>1. PoolShape
  BY ExecutorAssumption DEF PoolShape, ExecutorTypeOK, Queued, Waiting, NoJob, Fates
<1>2. \A f : Jobs(f) = {} /\ Count(f) = 0
  BY FS_EmptySet DEF Jobs, Count
<1>3. Queued(jobQueue) = {}
  BY DEF Queued
<1>4. QueueIsAccepted
  <2>1. DOMAIN jobQueue = {} /\ Len(jobQueue) = 0
    OBVIOUS
  <2>2. Cardinality(Queued(jobQueue)) = 0
    BY <1>3, FS_EmptySet
  <2> QED  BY <1>2, <1>3, <2>1, <2>2 DEF QueueIsAccepted
<1>5. Handed /\ Closed
  BY <1>2 DEF Handed, Closed, Running, Waiting, Gone
<1>6. Counted
  BY <1>2 DEF Counted
<1> QED  BY <1>1, <1>4, <1>5, <1>6 DEF ExecutorInv

-----------------------------------------------------------------------------
(* Steps of a caller, and of a worker that only waits, sleeps or leaves.      *)
LEMMA NothingMoves ==
  ASSUME ExecutorInv, UNCHANGED <<jobQueue, totals, fate>>,
         \A w \in Pool : thread'[w] = thread[w] \/ (~Running(w) /\ ~Running(w)')
  PROVE  QueueIsAccepted' /\ Handed' /\ Counted' /\ \A f : Jobs(f)' = Jobs(f)
<1>1. \A f : Jobs(f)' = Jobs(f) /\ Count(f)' = Count(f)
  BY DEF Jobs, Count
<1>2. \A w \in Pool : Running(w)' <=> Running(w)
  BY DEF Running
<1>3. Handed'
  BY <1>1, <1>2 DEF ExecutorInv, Handed, Running
<1>4. QueueIsAccepted' /\ Counted'
  BY <1>1 DEF ExecutorInv, QueueIsAccepted, Counted, Queued
<1> QED  BY <1>1, <1>3, <1>4

LEMMA WakeMoves ==
  ASSUME PoolShape, NEW W \in SUBSET Sleepers, Wake(W)
  PROVE  /\ \A w \in Pool : thread'[w] = thread[w] \/ (~Running(w) /\ ~Running(w)')
         /\ \A w \in Pool : thread'[w] = Gone <=> thread[w] = Gone
         /\ \A w \in Pool : thread'[w] \in {Waiting, Asleep, Gone} \/ Running(w)'
         /\ thread' \in [Pool -> [at : {"waiting", "asleep", "running", "gone"},
                                  job : 0..MaxJobs]]
<1>1. thread' = [w \in Pool |-> IF w \in W THEN Waiting ELSE thread[w]]
  BY DEF Wake
<1>2. \A w \in W : w \in Pool /\ thread[w] = Asleep
  BY DEF Sleepers
<1>3. Waiting \in [at : {"waiting", "asleep", "running", "gone"}, job : 0..MaxJobs]
  BY ExecutorAssumption DEF Waiting, NoJob
<1>4. \A w \in Pool : thread'[w] = IF w \in W THEN Waiting ELSE thread[w]
  BY <1>1
<1>5. \A w \in W : ~Running(w) /\ ~Running(w)' /\ thread[w] # Gone /\ thread'[w] = Waiting
  BY <1>2, <1>4 DEF Running, Waiting, Asleep, Gone
<1>6. \A w \in Pool \ W : thread'[w] = thread[w] /\ (Running(w)' <=> Running(w))
  BY <1>4 DEF Running
<1>7. thread' \in [Pool -> [at : {"waiting", "asleep", "running", "gone"}, job : 0..MaxJobs]]
  BY <1>1, <1>3 DEF PoolShape, ExecutorTypeOK
<1>8. Waiting # Gone
  BY DEF Waiting, Gone
<1> QED  BY <1>5, <1>6, <1>7, <1>8 DEF PoolShape

LEMMA SleepersWake == ASSUME NEW w \in Sleepers PROVE {w} \in SUBSET Sleepers
  OBVIOUS

LEMMA AcceptInv ==
  ASSUME ExecutorInv, NEW t \in Pool \union Clients, Accept(t)
  PROVE  ExecutorInv'
<1> USE DEF ExecutorInv
<1> DEFINE n == Len(fate) + 1
<1>1. /\ ~closing.stopped /\ Len(fate) < MaxJobs
      /\ jobQueue' = Append(jobQueue, n) /\ fate' = Append(fate, "accepted")
      /\ totals' = [totals EXCEPT !.submitted = totals.submitted + 1]
      /\ caller' = [caller EXCEPT ![t] = "notify"] /\ UNCHANGED <<closing, thread>>
  BY DEF Accept, Accepts, Offered
<1>2. /\ fate' \in Seq(Fates) /\ Len(fate') = n /\ DOMAIN fate' = DOMAIN fate \union {n}
      /\ n \notin DOMAIN fate /\ Jobs("accepted")' = Jobs("accepted") \union {n}
      /\ \A h \in Fates : h # "accepted" => Jobs(h)' = Jobs(h) /\ Count(h)' = Count(h)
  BY <1>1, Offer DEF Fates
<1>3. /\ n \in Nat /\ n <= MaxJobs /\ Len(jobQueue) \in Nat
      /\ jobQueue' \in Seq(Nat) /\ Len(jobQueue') = Len(jobQueue) + 1
      /\ Queued(jobQueue)' = Queued(jobQueue) \union {n} /\ n \notin Queued(jobQueue)
      /\ Queued(jobQueue) \subseteq DOMAIN fate
  <2>1. n \in Nat /\ n <= MaxJobs
    BY <1>1, ExecutorAssumption DEF PoolShape
  <2>2. /\ Len(jobQueue) \in Nat /\ jobQueue' \in Seq(Nat) /\ Len(jobQueue') = Len(jobQueue) + 1
        /\ DOMAIN jobQueue' = DOMAIN jobQueue \union {Len(jobQueue) + 1}
        /\ \A i \in DOMAIN jobQueue : jobQueue'[i] = jobQueue[i]
        /\ jobQueue'[Len(jobQueue) + 1] = n
    BY <1>1, <2>1 DEF PoolShape
  <2>3. Queued(jobQueue) \subseteq DOMAIN fate
    BY DEF PoolShape, ExecutorTypeOK
  <2>4. Queued(jobQueue)' = Queued(jobQueue) \union {n}
    BY <2>2 DEF Queued
  <2> QED  BY <2>1, <2>2, <2>3, <2>4, <1>2
<1> HIDE DEF n
<1>4. PoolShape'
  <2>1. totals' = [active |-> totals.active, submitted |-> totals.submitted + 1,
                    completed |-> totals.completed, failed |-> totals.failed,
                    rejected |-> totals.rejected]
    <3>1. totals \in Totals /\ totals.submitted + 1 \in Nat
      BY TotalsType
    <3> QED  BY <3>1, <1>1, TotalsMove
  <2>2. caller' \in [Pool \union Clients ->
                       {"idle", "notify", "notify all", "request", "join", "stopped"}]
    BY <1>1 DEF PoolShape, ExecutorTypeOK
  <2>3. totals' \in Totals
    BY <2>1, TotalsType DEF Totals
  <2> QED  BY <2>2, <2>3, <1>1, <1>2, <1>3 DEF PoolShape, ExecutorTypeOK, Running, Totals
<1>5. QueueIsAccepted'
  <2>1. \A i, k \in DOMAIN jobQueue' : i # k => jobQueue'[i] # jobQueue'[k]
    <3>1. \A i \in DOMAIN jobQueue : jobQueue[i] # n
      BY <1>3 DEF Queued
    <3> QED  BY <3>1, <1>1, <1>3 DEF QueueIsAccepted, PoolShape
  <2>2. Cardinality(Queued(jobQueue)') = Cardinality(Queued(jobQueue)) + 1
    <3>1. IsFiniteSet(Queued(jobQueue))
      BY JobsFinite DEF QueueIsAccepted
    <3> QED  BY <3>1, <1>3, FS_AddElement
  <2> QED  BY <2>1, <2>2, <1>2, <1>3 DEF QueueIsAccepted
<1>6. Handed'
  BY <1>1, <1>2 DEF Handed, Running, Fates
<1>7. Closed'
  <2>1. caller[t] \in {"idle", "stopped"} /\ closing.drain
    BY <1>1 DEF Accept, MayCall, Closed
  <2> QED  BY <2>1, <1>1, <1>2 DEF Closed, AllJoined, Fates, PoolShape, ExecutorTypeOK
<1>8. Counted'
  <2>1. /\ totals'.submitted = totals.submitted + 1 /\ totals'.active = totals.active
        /\ totals'.completed = totals.completed /\ totals'.rejected = totals.rejected
    BY <1>1 DEF PoolShape, ExecutorTypeOK
  <2>2. /\ Count("started")' = Count("started") /\ Count("finished")' = Count("finished")
        /\ Count("dropped")' = Count("dropped") /\ Count("rejected")' = Count("rejected")
    BY <1>2 DEF Fates
  <2>3. Count("dropped") \in Nat
    BY JobsFinite
  <2>4. /\ totals.submitted = totals.completed + totals.active + Len(jobQueue) + Count("dropped")
        /\ totals.active = Count("started") /\ totals.completed = Count("finished")
        /\ totals.rejected = Count("rejected") + Count("dropped")
    BY DEF Counted
  <2>5. totals'.submitted = totals'.completed + totals'.active + Len(jobQueue') + Count("dropped")'
    BY <2>1, <2>2, <2>3, <2>4, <1>3, TotalsType
  <2> QED  BY <2>1, <2>2, <2>4, <2>5 DEF Counted
<1> QED  BY <1>4, <1>5, <1>6, <1>7, <1>8

LEMMA RejectInv ==
  ASSUME ExecutorInv, NEW t \in Pool \union Clients, Reject(t)
  PROVE  ExecutorInv'
<1> USE DEF ExecutorInv
<1>1. /\ Len(fate) < MaxJobs /\ fate' = Append(fate, "rejected")
      /\ totals' = [totals EXCEPT !.rejected = totals.rejected + 1]
      /\ UNCHANGED <<jobQueue, closing, thread, caller>>
  BY DEF Reject, Offered
<1>2. /\ fate' \in Seq(Fates) /\ Len(fate') = Len(fate) + 1
      /\ DOMAIN fate' = DOMAIN fate \union {Len(fate) + 1}
      /\ Count("rejected")' = Count("rejected") + 1
      /\ \A h \in Fates : h # "rejected" => Jobs(h)' = Jobs(h) /\ Count(h)' = Count(h)
  BY <1>1, Offer DEF Fates
<1>3. PoolShape'
  <2>1. totals' = [active |-> totals.active, submitted |-> totals.submitted,
                    completed |-> totals.completed, failed |-> totals.failed,
                    rejected |-> totals.rejected + 1]
    <3>1. totals \in Totals /\ totals.rejected + 1 \in Nat
      BY TotalsType
    <3> QED  BY <3>1, <1>1, TotalsMove
  <2>2. Len(fate') <= MaxJobs
    BY <1>1, <1>2, ExecutorAssumption DEF PoolShape
  <2>3. totals' \in Totals
    BY <2>1, TotalsType DEF Totals
  <2>4. Queued(jobQueue)' \subseteq DOMAIN fate'
    <3>1. Queued(jobQueue)' = Queued(jobQueue)
      BY <1>1 DEF Queued
    <3>2. Queued(jobQueue) \subseteq DOMAIN fate
      BY DEF PoolShape, ExecutorTypeOK
    <3> QED  BY <3>1, <3>2, <1>2
  <2> QED  BY <2>2, <2>3, <2>4, <1>1, <1>2 DEF PoolShape, ExecutorTypeOK, Running, Totals
<1>4. QueueIsAccepted' /\ Handed' /\ Closed'
  BY <1>1, <1>2 DEF QueueIsAccepted, Handed, Closed, Running, AllJoined, Queued, Fates
<1>5. Counted'
  <2>1. /\ totals'.submitted = totals.submitted /\ totals'.active = totals.active
        /\ totals'.completed = totals.completed /\ totals'.rejected = totals.rejected + 1
    BY <1>1 DEF PoolShape, ExecutorTypeOK
  <2>2. /\ Count("started")' = Count("started") /\ Count("finished")' = Count("finished")
        /\ Count("dropped")' = Count("dropped") /\ Count("rejected")' = Count("rejected") + 1
    BY <1>2 DEF Fates
  <2>3. Count("dropped") \in Nat /\ Count("rejected") \in Nat
    BY JobsFinite
  <2> QED  BY <2>1, <2>2, <2>3, <1>1, TotalsType DEF Counted
<1> QED  BY <1>3, <1>4, <1>5

(* A notification wakes workers, and its caller goes on to c.                 *)
GoesOn(t, c) ==
  /\ c \in {"idle", "request", "join"} /\ (c = "idle" \/ closing.stopped)
  /\ UNCHANGED <<jobQueue, totals, fate>>
  /\ UNCHANGED thread \/ \E W \in SUBSET Sleepers : Wake(W)
  /\ caller' = [caller EXCEPT ![t] = c]
  /\ UNCHANGED closing
       \/ (closing.stopped /\ closing' = [closing EXCEPT !.requested = TRUE])

LEMMA GoesOnInv ==
  ASSUME ExecutorInv, NEW t \in Pool \union Clients, NEW c, GoesOn(t, c)
  PROVE  ExecutorInv'
<1> USE DEF ExecutorInv
<1>1. /\ \A w \in Pool : thread'[w] = thread[w] \/ (~Running(w) /\ ~Running(w)')
      /\ \A w \in Pool : thread'[w] = Gone <=> thread[w] = Gone
      /\ \A w \in Pool : thread'[w] \in {Waiting, Asleep, Gone} \/ Running(w)'
      /\ thread' \in [Pool -> [at : {"waiting", "asleep", "running", "gone"},
                               job : 0..MaxJobs]]
  <2>1. CASE UNCHANGED thread
    BY <2>1 DEF PoolShape, ExecutorTypeOK, Running
  <2>2. ASSUME NEW W \in SUBSET Sleepers, Wake(W) PROVE <1>1!1 /\ <1>1!2 /\ <1>1!3 /\ <1>1!4
    BY <2>2, WakeMoves
  <2> QED  BY <2>1, <2>2 DEF GoesOn
<1>2. QueueIsAccepted' /\ Handed' /\ Counted' /\ \A f : Jobs(f)' = Jobs(f)
  BY <1>1, NothingMoves DEF GoesOn
<1>3. /\ closing' \in [stopped : BOOLEAN, drain : BOOLEAN, requested : BOOLEAN]
      /\ closing'.stopped = closing.stopped /\ closing'.drain = closing.drain
      /\ ~closing.stopped => ~closing'.requested
  BY DEF PoolShape, ExecutorTypeOK, Closed, GoesOn
<1>4. /\ caller' \in [Pool \union Clients ->
                       {"idle", "notify", "notify all", "request", "join", "stopped"}]
      /\ \A u \in Pool \union Clients : caller'[u] = IF u = t THEN c ELSE caller[u]
  BY DEF PoolShape, ExecutorTypeOK, GoesOn
<1>5. PoolShape'
  <2>1. Queued(jobQueue)' \subseteq DOMAIN fate'
    <3>1. Queued(jobQueue)' = Queued(jobQueue)
      BY DEF Queued, GoesOn
    <3> QED  BY <3>1 DEF PoolShape, ExecutorTypeOK, GoesOn
  <2> QED  BY <2>1, <1>1, <1>3, <1>4 DEF PoolShape, ExecutorTypeOK, GoesOn
<1>6. Closed'
  <2>1. \A u \in Pool \union Clients : AllJoined(u)' <=> AllJoined(u)
    BY <1>1 DEF AllJoined
  <2>2. \A u \in Pool \union Clients :
          /\ caller'[u] \notin {"idle", "notify"} => closing'.stopped
          /\ caller'[u] = "stopped" => AllJoined(u)'
    BY <2>1, <1>3, <1>4 DEF Closed, GoesOn
  <2>3. \A w \in Pool : thread'[w] = Gone => closing'.stopped /\ jobQueue' = <<>>
    BY <1>1, <1>3 DEF Closed, GoesOn
  <2>4. closing'.drain => Jobs("dropped")' = {}
    BY <1>2, <1>3 DEF Closed
  <2>5. ~closing'.drain => jobQueue' = <<>>
    BY <1>3 DEF Closed, GoesOn
  <2>6. ~closing'.stopped => closing'.drain /\ ~closing'.requested
    BY <1>3 DEF Closed, GoesOn
  <2> QED  BY <2>2, <2>3, <2>4, <2>5, <2>6 DEF Closed
<1> QED  BY <1>2, <1>5, <1>6

LEMMA NotifyOneInv ==
  ASSUME ExecutorInv, NEW t \in Pool \union Clients, NotifyOne(t)
  PROVE  ExecutorInv'
<1>1. UNCHANGED thread \/ \E W \in SUBSET Sleepers : Wake(W)
  <2>1. CASE \E w \in Sleepers : Wake({w})
    BY <2>1, SleepersWake
  <2> QED  BY <2>1 DEF NotifyOne
<1>2. GoesOn(t, "idle")
  BY <1>1 DEF NotifyOne, GoesOn
<1> QED  BY <1>2, GoesOnInv

LEMMA StopNotifiesInv ==
  ASSUME ExecutorInv, NEW t \in Pool \union Clients, StopNotifies(t)
  PROVE  ExecutorInv'
<1>1. closing.stopped
  BY DEF StopNotifies, NotifyAll, ExecutorInv, Closed
<1>2. GoesOn(t, IF closing.drain THEN "join" ELSE "request")
  BY <1>1 DEF StopNotifies, NotifyAll, GoesOn
<1> QED  BY <1>2, GoesOnInv

LEMMA RequestStopInv ==
  ASSUME ExecutorInv, NEW t \in Pool \union Clients, RequestStop(t)
  PROVE  ExecutorInv'
<1>1. closing.stopped
  BY DEF RequestStop, ExecutorInv, Closed
<1>2. GoesOn(t, "join")
  BY <1>1 DEF RequestStop, GoesOn
<1> QED  BY <1>2, GoesOnInv

LEMMA JoinInv ==
  ASSUME ExecutorInv, NEW t \in Pool \union Clients, Join(t)
  PROVE  ExecutorInv'
<1> USE DEF ExecutorInv
<1>1. /\ caller' = [caller EXCEPT ![t] = "stopped"] /\ caller[t] = "join" /\ AllJoined(t)
      /\ UNCHANGED <<jobQueue, totals, closing, thread, fate>>
  BY DEF Join
<1>2. QueueIsAccepted' /\ Handed' /\ Counted' /\ \A f : Jobs(f)' = Jobs(f)
  BY <1>1, NothingMoves
<1>3. /\ caller' \in [Pool \union Clients ->
                       {"idle", "notify", "notify all", "request", "join", "stopped"}]
      /\ \A u \in Pool \union Clients : caller'[u] = IF u = t THEN "stopped" ELSE caller[u]
  BY <1>1 DEF PoolShape, ExecutorTypeOK
<1>4. PoolShape'
  <2>1. Queued(jobQueue)' = Queued(jobQueue) /\ \A w \in Pool : Running(w)' <=> Running(w)
    BY <1>1 DEF Queued, Running
  <2> QED  BY <2>1, <1>1, <1>3 DEF PoolShape, ExecutorTypeOK
<1>5. Closed'
  <2>1. \A u \in Pool \union Clients : AllJoined(u)' <=> AllJoined(u)
    BY <1>1 DEF AllJoined
  <2>2. \A u \in Pool \union Clients :
          /\ caller'[u] \notin {"idle", "notify"} => closing'.stopped
          /\ caller'[u] = "stopped" => AllJoined(u)'
    BY <2>1, <1>1, <1>3 DEF Closed
  <2> QED  BY <2>2, <1>1, <1>2 DEF Closed
<1> QED  BY <1>2, <1>4, <1>5

(* The first stop() closes the pool; without draining it drops what waits.    *)
LEMMA DrainInv ==
  ASSUME ExecutorInv, NEW t \in Pool \union Clients, Stop(t, TRUE)
  PROVE  ExecutorInv'
<1> USE DEF ExecutorInv
<1>1. /\ closing' = [stopped |-> TRUE, drain |-> TRUE, requested |-> FALSE]
      /\ caller' = [caller EXCEPT ![t] = "notify all"] /\ ~closing.stopped
      /\ UNCHANGED <<jobQueue, totals, fate, thread>>
  BY DEF Stop
<1>2. QueueIsAccepted' /\ Handed' /\ Counted' /\ \A f : Jobs(f)' = Jobs(f)
  BY <1>1, NothingMoves
<1>3. /\ caller' \in [Pool \union Clients ->
                       {"idle", "notify", "notify all", "request", "join", "stopped"}]
      /\ \A u \in Pool \union Clients : caller'[u] = IF u = t THEN "notify all" ELSE caller[u]
  BY <1>1 DEF PoolShape, ExecutorTypeOK
<1>4. PoolShape'
  <2>1. Queued(jobQueue)' = Queued(jobQueue) /\ \A w \in Pool : Running(w)' <=> Running(w)
    BY <1>1 DEF Queued, Running
  <2> QED  BY <2>1, <1>1, <1>3 DEF PoolShape, ExecutorTypeOK
<1>5. Closed'
  <2>1. \A u \in Pool \union Clients : AllJoined(u)' <=> AllJoined(u)
    BY <1>1 DEF AllJoined
  <2>2. \A u \in Pool \union Clients : caller'[u] = "stopped" => AllJoined(u)'
    BY <2>1, <1>3 DEF Closed
  <2> QED  BY <2>2, <1>1, <1>2 DEF Closed
<1> QED  BY <1>2, <1>4, <1>5

LEMMA DropInv ==
  ASSUME ExecutorInv, NEW t \in Pool \union Clients, Stop(t, FALSE)
  PROVE  ExecutorInv'
<1> USE DEF ExecutorInv
<1> DEFINE n == Len(jobQueue)
<1>1. /\ closing' = [stopped |-> TRUE, drain |-> FALSE, requested |-> FALSE]
      /\ caller' = [caller EXCEPT ![t] = "notify all"] /\ ~closing.stopped
      /\ jobQueue' = <<>> /\ UNCHANGED thread
      /\ totals' = [totals EXCEPT !.rejected = totals.rejected + n]
      /\ fate' = [j \in DOMAIN fate |-> IF j \in Jobs("accepted") THEN "dropped" ELSE fate[j]]
  BY DEF Stop, QueueIsAccepted
<1>2. n \in Nat /\ n = Count("accepted")
  BY DEF QueueIsAccepted, PoolShape, Count
<1>3. /\ fate' \in Seq(Fates) /\ Len(fate') = Len(fate) /\ DOMAIN fate' = DOMAIN fate
      /\ \A j \in DOMAIN fate :
           fate'[j] = IF fate[j] = "accepted" THEN "dropped" ELSE fate[j]
  <2>1. Len(fate) \in Nat /\ DOMAIN fate = 1..Len(fate) /\ \A j \in DOMAIN fate : fate[j] \in Fates
    BY DEF PoolShape
  <2>2. fate' \in [1..Len(fate) -> Fates]
    BY <2>1, <1>1 DEF Fates
  <2>3. fate' \in Seq(Fates) /\ Len(fate') = Len(fate) /\ DOMAIN fate' = DOMAIN fate
    BY <2>1, <2>2
  <2> QED  BY <2>1, <2>3, <1>1 DEF Jobs
<1>4. /\ Jobs("accepted")' = {} /\ Jobs("dropped")' = Jobs("dropped") \union Jobs("accepted")
      /\ \A f \in {"started", "finished", "rejected"} : Jobs(f)' = Jobs(f)
  <2>1. Jobs("accepted")' = {}
    BY <1>3 DEF Jobs
  <2>2. Jobs("dropped")' = Jobs("dropped") \union Jobs("accepted")
    BY <1>3 DEF Jobs
  <2>3. ASSUME NEW f \in {"started", "finished", "rejected"} PROVE Jobs(f)' = Jobs(f)
    BY <1>3 DEF Jobs
  <2> QED  BY <2>1, <2>2, <2>3
<1>5. /\ Jobs("dropped") = {} /\ Count("dropped") = 0 /\ Count("dropped")' = n
      /\ \A f \in {"started", "finished", "rejected"} : Count(f)' = Count(f)
  BY <1>1, <1>2, <1>4, JobsFinite DEF Closed, Count
<1> HIDE DEF n
<1>6. totals' = [active |-> totals.active, submitted |-> totals.submitted,
                 completed |-> totals.completed, failed |-> totals.failed,
                 rejected |-> totals.rejected + n] /\ totals' \in Totals
  <2>1. totals \in Totals /\ totals.rejected + n \in Nat
    BY <1>2, TotalsType
  <2>2. totals' = [active |-> totals.active, submitted |-> totals.submitted,
                 completed |-> totals.completed, failed |-> totals.failed,
                 rejected |-> totals.rejected + n]
    BY <2>1, <1>1, TotalsMove
  <2> QED  BY <2>1, <2>2, TotalsType DEF Totals
<1>7. /\ Queued(jobQueue)' = {} /\ DOMAIN jobQueue' = {} /\ Len(jobQueue') = 0
      /\ jobQueue' \in Seq(Nat)
  <2>1. /\ Queued(<<>>) = {} /\ DOMAIN <<>> = {} /\ Len(<<>>) = 0 /\ <<>> \in Seq(Nat)
    BY EmptyQueue
  <2>2. Queued(jobQueue)' = Queued(jobQueue')
    BY DEF Queued
  <2> QED  BY <2>1, <2>2, <1>1
<1>8. /\ caller' \in [Pool \union Clients ->
                       {"idle", "notify", "notify all", "request", "join", "stopped"}]
      /\ \A u \in Pool \union Clients : caller'[u] = IF u = t THEN "notify all" ELSE caller[u]
  BY <1>1 DEF PoolShape, ExecutorTypeOK
<1>9. PoolShape'
  <2>1. \A w \in Pool : Running(w)' <=> Running(w)
    BY <1>1 DEF Running
  <2> QED  BY <2>1, <1>1, <1>3, <1>6, <1>7, <1>8 DEF PoolShape, ExecutorTypeOK, Totals
<1>10. QueueIsAccepted'
  BY <1>4, <1>7, FS_EmptySet DEF QueueIsAccepted
<1>11. Handed'
  BY <1>1, <1>4 DEF Handed, Running
<1>12. Closed'
  <2>1. \A u \in Pool \union Clients : AllJoined(u)' <=> AllJoined(u)
    BY <1>1 DEF AllJoined
  <2>2. \A u \in Pool \union Clients : caller'[u] = "stopped" => AllJoined(u)'
    BY <2>1, <1>8 DEF Closed
  <2> QED  BY <2>2, <1>1 DEF Closed
<1>13. Counted'
  <2>1. totals.submitted = totals.completed + totals.active + n + Count("dropped")
    BY DEF Counted, n
  <2>2. totals.submitted = totals.completed + totals.active + 0 + n
    BY <2>1, <1>2, <1>5, TotalsType
  <2>3. totals'.submitted = totals'.completed + totals'.active + Len(jobQueue') + Count("dropped")'
    BY <2>2, <1>2, <1>5, <1>6, <1>7, TotalsType
  <2>4. totals'.rejected = Count("rejected")' + Count("dropped")'
    <3>1. totals.rejected = Count("rejected") + 0 /\ Count("rejected") \in Nat
      BY <1>5, JobsFinite DEF Counted
    <3> QED  BY <3>1, <1>2, <1>5, <1>6
  <2>5. totals'.active = Count("started")' /\ totals'.completed = Count("finished")'
    BY <1>5, <1>6 DEF Counted
  <2> QED  BY <2>3, <2>4, <2>5 DEF Counted
<1> QED  BY <1>9, <1>10, <1>11, <1>12, <1>13

-----------------------------------------------------------------------------
(* Steps of a worker.  It leaves only when the pool was stopped and the queue *)
(* is empty: without draining stop() has emptied it.                          *)
LEMMA RestInv ==
  ASSUME ExecutorInv, NEW w \in Pool, Leave(w) \/ Sleep(w)
  PROVE  ExecutorInv'
<1> USE DEF ExecutorInv
<1>1. PICK s \in {Asleep, Gone} :
        /\ thread' = [thread EXCEPT ![w] = s] /\ thread[w] = Waiting
        /\ UNCHANGED <<jobQueue, totals, closing, caller, fate>>
        /\ s = Gone => closing.stopped /\ jobQueue = <<>>
  BY DEF Leave, Sleep, Leaves, Ends, Closed, Asleep, Gone
<1>2. /\ \A u \in Pool : thread'[u] = IF u = w THEN s ELSE thread[u]
      /\ thread' \in [Pool -> [at : {"waiting", "asleep", "running", "gone"}, job : 0..MaxJobs]]
  <2>1. s \in [at : {"waiting", "asleep", "running", "gone"}, job : 0..MaxJobs]
    BY ExecutorAssumption DEF Asleep, Gone, NoJob
  <2> QED  BY <2>1, <1>1 DEF PoolShape, ExecutorTypeOK
<1>3. /\ ~Running(w) /\ s.at # "running" /\ Waiting # Gone
  BY <1>1 DEF Running, Waiting, Asleep, Gone
<1>4. /\ \A u \in Pool : thread'[u] = thread[u] \/ (~Running(u) /\ ~Running(u)')
      /\ \A u \in Pool : thread[u] = Gone => thread'[u] = Gone
      /\ \A u \in Pool : thread'[u] \in {Waiting, Asleep, Gone} \/ Running(u)'
  <2>1. \A u \in Pool : thread'[u] = thread[u] \/ (~Running(u) /\ ~Running(u)')
    BY <1>2, <1>3 DEF Running
  <2>2. \A u \in Pool : thread[u] = Gone => thread'[u] = Gone
    BY <1>1, <1>2, <1>3
  <2>3. \A u \in Pool : thread'[u] \in {Waiting, Asleep, Gone} \/ Running(u)'
    BY <1>1, <1>2 DEF PoolShape, Running
  <2> QED  BY <2>1, <2>2, <2>3
<1>5. QueueIsAccepted' /\ Handed' /\ Counted' /\ \A f : Jobs(f)' = Jobs(f)
  BY <1>1, <1>4, NothingMoves
<1>6. PoolShape'
  <2>1. Queued(jobQueue)' = Queued(jobQueue)
    BY <1>1 DEF Queued
  <2> QED  BY <2>1, <1>1, <1>2, <1>4 DEF PoolShape, ExecutorTypeOK
<1>7. Closed'
  <2>1. \A u \in Pool \union Clients : AllJoined(u) => AllJoined(u)'
    BY <1>4 DEF AllJoined
  <2>2. \A u \in Pool : thread'[u] = Gone => closing.stopped /\ jobQueue = <<>>
    BY <1>1, <1>2 DEF Closed
  <2> QED  BY <2>1, <2>2, <1>1, <1>5 DEF Closed
<1> QED  BY <1>5, <1>6, <1>7

LEMMA TakeInv ==
  ASSUME ExecutorInv, NEW w \in Pool, Take(w)
  PROVE  ExecutorInv'
<1> USE DEF ExecutorInv
<1>1. PICK j : j = Head(jobQueue)
  OBVIOUS
<1>2. /\ thread[w] = Waiting /\ jobQueue # <<>> /\ jobQueue' = Tail(jobQueue)
      /\ thread' = [thread EXCEPT ![w] = [at |-> "running", job |-> j]]
      /\ totals' = [totals EXCEPT !.active = totals.active + 1]
      /\ fate' = [fate EXCEPT ![j] = "started"] /\ UNCHANGED <<closing, caller>>
  BY <1>1 DEF Take
<1>3. /\ jobQueue' \in Seq(Nat) /\ Len(jobQueue) \in Nat /\ Len(jobQueue') = Len(jobQueue) - 1
      /\ DOMAIN jobQueue = 1..Len(jobQueue) /\ DOMAIN jobQueue' = 1..(Len(jobQueue) - 1)
      /\ \A i \in DOMAIN jobQueue' : jobQueue'[i] = jobQueue[i + 1] /\ i + 1 \in DOMAIN jobQueue
      /\ 1 \in DOMAIN jobQueue /\ jobQueue[1] = j
  BY <1>1, <1>2 DEF PoolShape
<1>4. /\ \A i, k \in DOMAIN jobQueue' : i # k => jobQueue'[i] # jobQueue'[k]
      /\ \A i \in DOMAIN jobQueue' : jobQueue'[i] # j
  <2>1. \A i, k \in DOMAIN jobQueue : i # k => jobQueue[i] # jobQueue[k]
    BY DEF QueueIsAccepted
  <2>2. \A i, k \in DOMAIN jobQueue' : i # k => i + 1 # k + 1
    BY <1>3
  <2>3. \A i \in DOMAIN jobQueue' : i + 1 # 1
    BY <1>3
  <2> QED  BY <2>1, <2>2, <2>3, <1>3
<1>5. Queued(jobQueue)' = Queued(jobQueue) \ {j} /\ j \in Queued(jobQueue)
  <2>1. \A i \in DOMAIN jobQueue : i # 1 => i - 1 \in DOMAIN jobQueue' /\ (i - 1) + 1 = i
    BY <1>3
  <2>2. Queued(jobQueue') = Queued(jobQueue) \ {j}
    <3>1. ASSUME NEW x \in Queued(jobQueue') PROVE x \in Queued(jobQueue) /\ x # j
      BY <1>3, <1>4 DEF Queued
    <3>2. ASSUME NEW x \in Queued(jobQueue), x # j PROVE x \in Queued(jobQueue')
      <4>1. PICK i \in DOMAIN jobQueue : x = jobQueue[i]
        BY DEF Queued
      <4>2. i # 1
        BY <4>1, <1>3, <3>2
      <4> QED  BY <4>1, <4>2, <2>1, <1>3 DEF Queued
    <3> QED  BY <3>1, <3>2
  <2>3. j \in Queued(jobQueue)
    BY <1>3 DEF Queued
  <2> QED  BY <2>2, <2>3 DEF Queued
<1>6. j \in DOMAIN fate /\ fate[j] = "accepted" /\ j \in 0..MaxJobs
  <2>1. j \in Jobs("accepted")
    BY <1>5 DEF QueueIsAccepted
  <2> QED  BY <2>1, ExecutorAssumption DEF Jobs, PoolShape
<1>7. /\ fate' \in Seq(Fates) /\ Len(fate') = Len(fate) /\ DOMAIN fate' = DOMAIN fate
      /\ Jobs("started")' = Jobs("started") \union {j} /\ Count("started")' = Count("started") + 1
      /\ Jobs("accepted")' = Jobs("accepted") \ {j}
      /\ \A h \in Fates : h # "started" /\ h # "accepted" => Jobs(h)' = Jobs(h) /\ Count(h)' = Count(h)
  BY <1>2, <1>6, Recast DEF Fates
<1>8. totals' = [active |-> totals.active + 1, submitted |-> totals.submitted,
                 completed |-> totals.completed, failed |-> totals.failed,
                 rejected |-> totals.rejected] /\ totals' \in Totals
  <2>1. totals \in Totals /\ totals.active + 1 \in Nat
    BY TotalsType
  <2>2. totals' = [active |-> totals.active + 1, submitted |-> totals.submitted,
                 completed |-> totals.completed, failed |-> totals.failed,
                 rejected |-> totals.rejected]
    BY <2>1, <1>2, TotalsMove
  <2> QED  BY <2>1, <2>2, TotalsType DEF Totals
<1>9. /\ \A u \in Pool : thread'[u] = IF u = w THEN [at |-> "running", job |-> j] ELSE thread[u]
      /\ thread' \in [Pool -> [at : {"waiting", "asleep", "running", "gone"}, job : 0..MaxJobs]]
  BY <1>2, <1>6 DEF PoolShape, ExecutorTypeOK
<1>10. /\ ~Running(w) /\ Running(w)' /\ thread'[w].job = j /\ thread'[w] # Gone /\ thread[w] # Gone
       /\ \A u \in Pool \ {w} : thread'[u] = thread[u] /\ (Running(u)' <=> Running(u))
  BY <1>2, <1>9 DEF Running, Waiting, Gone
<1>11. PoolShape'
  <2>1. Queued(jobQueue)' \subseteq DOMAIN fate'
    BY <1>5, <1>7 DEF PoolShape, ExecutorTypeOK
  <2> QED  BY <2>1, <1>2, <1>3, <1>7, <1>8, <1>9, <1>10 DEF PoolShape, ExecutorTypeOK, Totals
<1>12. QueueIsAccepted'
  <2>1. Cardinality(Queued(jobQueue)') = Cardinality(Queued(jobQueue)) - 1
    <3>1. IsFiniteSet(Queued(jobQueue))
      BY JobsFinite DEF QueueIsAccepted
    <3> QED  BY <3>1, <1>5, FS_RemoveElement
  <2> QED  BY <2>1, <1>3, <1>4, <1>5, <1>7 DEF QueueIsAccepted
<1>13. Handed'
  <2>1. j \notin Jobs("started")
    BY <1>6 DEF Jobs
  <2> QED  BY <2>1, <1>7, <1>10 DEF Handed
<1>14. Closed'
  <2>1. \A u \in Pool : thread[u] # Gone
    BY <1>2 DEF Closed
  <2>2. \A u \in Pool : thread'[u] # Gone
    BY <2>1, <1>10
  <2>3. \A u \in Pool \union Clients : AllJoined(u) => AllJoined(u)'
    BY <2>1, <1>10 DEF AllJoined
  <2>4. Jobs("dropped")' = Jobs("dropped")
    BY <1>7 DEF Fates
  <2> QED  BY <2>2, <2>3, <2>4, <1>2 DEF Closed
<1>15. Counted'
  <2>1. /\ Count("finished")' = Count("finished") /\ Count("dropped")' = Count("dropped")
        /\ Count("rejected")' = Count("rejected")
    BY <1>7 DEF Fates
  <2>2. totals.submitted = totals.completed + totals.active + Len(jobQueue) + Count("dropped")
    BY DEF Counted
  <2>3. totals'.submitted = totals'.completed + totals'.active + Len(jobQueue') + Count("dropped")'
    BY <2>1, <2>2, <1>3, <1>8, TotalsType, JobsFinite
  <2> QED  BY <2>1, <2>3, <1>7, <1>8 DEF Counted
<1> QED  BY <1>11, <1>12, <1>13, <1>14, <1>15

LEMMA FinishInv ==
  ASSUME ExecutorInv, NEW w \in Pool, NEW throws \in BOOLEAN, Finish(w, throws)
  PROVE  ExecutorInv'
<1> USE DEF ExecutorInv
<1>1. PICK j, W, l : /\ j = thread[w].job /\ l = (IF throws THEN totals.failed + 1 ELSE totals.failed)
                     /\ W = {u \in Sleepers : /\ closing.stopped /\ closing.drain
                                              /\ jobQueue = <<>> /\ totals.active = 1}
  OBVIOUS
<1>2. /\ Running(w) /\ fate' = [fate EXCEPT ![j] = "finished"] /\ UNCHANGED <<jobQueue, closing, caller>>
      /\ thread' = [u \in Pool |-> IF u = w \/ u \in W THEN Waiting ELSE thread[u]]
      /\ totals' = [totals EXCEPT !.active = totals.active - 1, !.completed = totals.completed + 1,
                                  !.failed = l]
  BY <1>1 DEF Finish
<1>3. j \in DOMAIN fate /\ fate[j] = "started" /\ j \in Jobs("started")
  BY <1>1, <1>2 DEF Handed, Jobs
<1>4. /\ fate' \in Seq(Fates) /\ Len(fate') = Len(fate) /\ DOMAIN fate' = DOMAIN fate
      /\ Jobs("finished")' = Jobs("finished") \union {j}
      /\ Count("finished")' = Count("finished") + 1
      /\ Jobs("started")' = Jobs("started") \ {j} /\ Count("started")' = Count("started") - 1
      /\ \A h \in Fates : h # "finished" /\ h # "started" => Jobs(h)' = Jobs(h) /\ Count(h)' = Count(h)
  BY <1>2, <1>3, Recast DEF Fates
<1>5. totals.active \in Nat /\ totals.active - 1 \in Nat
  <2>1. Count("started") \in Nat /\ Count("started") # 0
    <3>1. IsFiniteSet(Jobs("started"))
      BY JobsFinite
    <3> QED  BY <3>1, <1>3, FS_EmptySet, JobsFinite DEF Count
  <2> QED  BY <2>1 DEF Counted
<1>6. /\ totals' \in Totals /\ totals'.active = totals.active - 1
      /\ totals'.completed = totals.completed + 1
      /\ totals'.submitted = totals.submitted /\ totals'.rejected = totals.rejected
  <2>1. totals \in Totals /\ l \in Nat /\ totals.completed + 1 \in Nat
    BY <1>1, TotalsType
  <2>2. PICK a, c : a = totals.active - 1 /\ c = totals.completed + 1
    OBVIOUS
  <2>3. a \in Nat /\ c \in Nat
    BY <2>1, <2>2, <1>5
  <2>4. totals' = TotalsFinished(totals, a, c, l)
    BY <2>2, <1>2 DEF TotalsFinished
  <2>5. PICK s : s = TotalsFinished(totals, a, c, l)
    OBVIOUS
  <2>6. s \in Totals
    BY <2>1, <2>3, <2>5, TotalsFinish
  <2>7. s.active = a /\ s.completed = c /\ s.submitted = totals.submitted
        /\ s.rejected = totals.rejected
    BY <2>1, <2>3, <2>5 DEF Totals, TotalsFinished
  <2> QED  BY <2>2, <2>4, <2>5, <2>6, <2>7
<1>7. /\ \A u \in Pool : thread'[u] = IF u = w \/ u \in W THEN Waiting ELSE thread[u]
      /\ \A u \in W : u \in Pool /\ thread[u] = Asleep
  BY <1>1, <1>2 DEF Sleepers
<1>8. /\ ~Running(w)' /\ thread'[w] = Waiting /\ thread[w] # Gone /\ Waiting # Gone
      /\ \A u \in Pool \ {w} : /\ Running(u)' <=> Running(u)
                               /\ Running(u) => thread'[u] = thread[u]
                               /\ thread'[u] = Gone <=> thread[u] = Gone
                               /\ thread'[u] \in {Waiting, Asleep, Gone} \/ Running(u)'
  <2>1. /\ thread'[w] = Waiting /\ ~Running(w)' /\ thread[w] # Gone /\ Waiting # Gone
    BY <1>2, <1>7 DEF Running, Waiting, Gone
  <2>2. ASSUME NEW u \in Pool \ {w}, u \in W
        PROVE  ~Running(u) /\ ~Running(u)' /\ thread'[u] = Waiting /\ thread[u] # Gone
    BY <2>2, <1>7 DEF Running, Waiting, Asleep, Gone
  <2>3. ASSUME NEW u \in Pool \ {w}, u \notin W
        PROVE  (Running(u)' <=> Running(u)) /\ thread'[u] = thread[u]
    BY <2>3, <1>7 DEF Running
  <2> QED  BY <2>1, <2>2, <2>3 DEF PoolShape
<1>9. thread' \in [Pool -> [at : {"waiting", "asleep", "running", "gone"}, job : 0..MaxJobs]]
  <2>1. Waiting \in [at : {"waiting", "asleep", "running", "gone"}, job : 0..MaxJobs]
    BY ExecutorAssumption DEF Waiting, NoJob
  <2> QED  BY <2>1, <1>2 DEF PoolShape, ExecutorTypeOK
<1>10. Queued(jobQueue)' = Queued(jobQueue) /\ Len(jobQueue') = Len(jobQueue)
  BY <1>2 DEF Queued
<1>11. PoolShape'
  BY <1>2, <1>4, <1>6, <1>8, <1>9, <1>10 DEF PoolShape, ExecutorTypeOK, Totals
<1>12. QueueIsAccepted'
  <2>1. Jobs("accepted")' = Jobs("accepted")
    BY <1>4 DEF Fates
  <2> QED  BY <2>1, <1>2, <1>10 DEF QueueIsAccepted
<1>13. Handed'
  <2>1. \A u \in Pool \ {w} : Running(u) => thread[u].job # j
    BY <1>1, <1>2 DEF Handed
  <2>2. \A u \in Pool : Running(u)' => /\ u # w /\ Running(u) /\ thread'[u].job = thread[u].job
                                       /\ thread'[u].job # j
    BY <2>1, <1>8
  <2>3. \A i \in Jobs("started")' : \E u \in Pool : Running(u)' /\ thread'[u].job = i
    BY <1>1, <1>4, <1>8 DEF Handed
  <2> QED  BY <2>2, <2>3, <1>4 DEF Handed
<1>14. Closed'
  <2>1. \A u \in Pool : thread'[u] = Gone <=> thread[u] = Gone
    BY <1>8
  <2>2. \A u \in Pool \union Clients : AllJoined(u) => AllJoined(u)'
    BY <2>1 DEF AllJoined
  <2>3. Jobs("dropped")' = Jobs("dropped")
    BY <1>4 DEF Fates
  <2> QED  BY <2>1, <2>2, <2>3, <1>2 DEF Closed
<1>15. Counted'
  <2>1. Count("dropped")' = Count("dropped") /\ Count("rejected")' = Count("rejected")
    BY <1>4 DEF Fates
  <2>2. totals.submitted = totals.completed + totals.active + Len(jobQueue) + Count("dropped")
    BY DEF Counted
  <2>3. totals'.submitted = totals'.completed + totals'.active + Len(jobQueue') + Count("dropped")'
    BY <2>1, <2>2, <1>5, <1>6, <1>10, TotalsType, JobsFinite DEF PoolShape
  <2> QED  BY <2>1, <2>3, <1>4, <1>6 DEF Counted
<1> QED  BY <1>11, <1>12, <1>13, <1>14, <1>15

LEMMA StutterInv == ASSUME ExecutorInv, UNCHANGED executorVars PROVE ExecutorInv'
<1>1. UNCHANGED <<jobQueue, totals, closing, thread, caller, fate>>
  BY DEF executorVars
<1>2. QueueIsAccepted' /\ Handed' /\ Counted' /\ \A f : Jobs(f)' = Jobs(f)
  BY <1>1, NothingMoves
<1>3. PoolShape'
  <2>1. Queued(jobQueue)' = Queued(jobQueue) /\ \A w \in Pool : Running(w)' <=> Running(w)
    BY <1>1 DEF Queued, Running
  <2> QED  BY <2>1, <1>1 DEF ExecutorInv, PoolShape, ExecutorTypeOK
<1>4. Closed'
  BY <1>1, <1>2 DEF ExecutorInv, Closed, AllJoined
<1> QED  BY <1>2, <1>3, <1>4 DEF ExecutorInv

LEMMA NextExecutorInv == ASSUME ExecutorInv, [ExecutorNext]_executorVars PROVE ExecutorInv'
<1>1. ASSUME NEW t \in Pool \union Clients, Accept(t) \/ Reject(t) \/ Calling(t) PROVE ExecutorInv'
  BY <1>1, AcceptInv, RejectInv, NotifyOneInv, StopNotifiesInv, RequestStopInv, JoinInv DEF Calling
<1>2. ASSUME NEW t \in Pool \union Clients, NEW drain \in BOOLEAN, Stop(t, drain) PROVE ExecutorInv'
  <2>1. CASE drain = TRUE
    BY <2>1, <1>2, DrainInv
  <2>2. CASE drain = FALSE
    BY <2>2, <1>2, DropInv
  <2> QED  BY <2>1, <2>2
<1>3. ASSUME NEW w \in Pool, Working(w) PROVE ExecutorInv'
  BY <1>3, RestInv, TakeInv, FinishInv DEF Working
<1>4. CASE UNCHANGED executorVars
  BY <1>4, StutterInv
<1> QED  BY <1>1, <1>2, <1>3, <1>4 DEF ExecutorNext

-----------------------------------------------------------------------------
(* The invariant that the theorem below draws on: who holds each callback,    *)
(* what stop() has closed by then, and what the statistics count.             *)
THEOREM ExecutorInvariant == ExecutorSpec => []ExecutorInv
<1>1. ExecutorInit => ExecutorInv
  BY InitExecutorInv
<1>2. ExecutorInv /\ [ExecutorNext]_executorVars => ExecutorInv'
  BY NextExecutorInv
<1> QED  BY <1>1, <1>2, PTL DEF ExecutorSpec

(* Every callback that submit() accepted is run, unless stop(false) dropped   *)
(* it: when stop() returned to a thread outside the pool no worker is left    *)
(* that could hold one, and none waits.                                       *)
THEOREM NoneIsForgotten == ExecutorSpec => []AcceptedAreRun
<1>1. ExecutorInv => AcceptedAreRun
  <2> SUFFICES ASSUME ExecutorInv PROVE AcceptedAreRun
    OBVIOUS
  <2> USE DEF ExecutorInv
  <2>1. ASSUME NEW t \in Clients, caller[t] = "stopped"
        PROVE  Jobs("accepted") \union Jobs("started") = {}
    <3>1. \A w \in Pool : thread[w] = Gone
      BY <2>1, ExecutorAssumption DEF Closed, AllJoined
    <3>2. Jobs("started") = {}
      BY <3>1 DEF Handed, Running, Gone
    <3>3. jobQueue = <<>>
      BY <3>1, ExecutorAssumption DEF Closed
    <3>4. Jobs("accepted") = {}
      BY <3>3, EmptyQueue DEF QueueIsAccepted
    <3> QED  BY <3>2, <3>4
  <2>2. ExecutorTypeOK
    BY DEF PoolShape
  <2>3. Jobs("accepted") = Queued(jobQueue) /\ Cardinality(Queued(jobQueue)) = Len(jobQueue)
    BY DEF QueueIsAccepted
  <2>4. closing.drain => Jobs("dropped") = {}
    BY DEF Closed
  <2> QED  BY <2>1, <2>2, <2>3, <2>4 DEF AcceptedAreRun, Counted
<1> QED  BY <1>1, ExecutorInvariant, PTL

-----------------------------------------------------------------------------
(* The gate of the index scans.                                             *)
-----------------------------------------------------------------------------

Superseded(o) == [o EXCEPT !.state = "superseded"]

(* How many outcomes are held: all of them, until the limit is reached. *)
Filled ==
  /\ Len(outcomes) <= begun
  /\ Len(outcomes) = begun \/ Len(outcomes) = Retained

(* A verdict stands unless it is that of the newest scan. *)
Settled == \A g \in 1..begun : verdict[g] = "pending" => g = begun

(* Threads wait for scans that were begun. *)
Asked ==
  \A w \in Waiters : /\ waiting[w] <= begun
                     /\ answer[w] = "none" => waiting[w] # 0

GateInv ==
  /\ GateTypeOK /\ NewestRetained /\ OnlyNewestPending /\ OutcomesTruthful
  /\ AnswersTruthful /\ UnknownMeansOld
  /\ Filled /\ Settled /\ Asked

-----------------------------------------------------------------------------
(* Of a list in which only the last may be pending, superseding leaves a   *)
(* list of the same generations in which none is.                          *)
LEMMA SupersedeShape ==
  ASSUME NEW s \in Seq(Outcome),
         \A i \in 1..Len(s) : s[i].state = "pending" => i = Len(s)
  PROVE  /\ Supersede(s) \in Seq(Outcome)
         /\ Len(Supersede(s)) = Len(s)
         /\ \A i \in 1..Len(s) :
              Supersede(s)[i] = IF s[i].state = "pending" THEN Superseded(s[i]) ELSE s[i]
<1>1. CASE s = <<>>
  BY <1>1, EmptySeq DEF Supersede
<1>2. CASE s # <<>>
  <2>1. Len(s) \in 1..Len(s) /\ DOMAIN s = 1..Len(s)
    BY <1>2, EmptySeq, LenProperties
  <2>2. s[Len(s)] \in Outcome
    BY <2>1, ElementOfSeq
  <2>3. CASE s[Len(s)].state = "pending"
    <3> DEFINE e == Superseded(s[Len(s)])
    <3>1. e \in Outcome
      BY <2>2 DEF Superseded, Outcome, State, Resolved
    <3>2. Supersede(s) = [s EXCEPT ![Len(s)] = e]
      BY <1>2, <2>1, <2>3 DEF Supersede, Last, Superseded
    <3> HIDE DEF e
    <3>3. /\ [s EXCEPT ![Len(s)] = e] \in Seq(Outcome)
          /\ Len([s EXCEPT ![Len(s)] = e]) = Len(s)
          /\ \A j \in 1..Len(s) :
               [s EXCEPT ![Len(s)] = e][j] = IF j = Len(s) THEN e ELSE s[j]
      BY <2>1, <3>1, ExceptSeq
    <3> QED  BY <2>3, <3>2, <3>3 DEF e
  <2>4. CASE s[Len(s)].state # "pending"
    BY <1>2, <2>4 DEF Supersede, Last
  <2> QED  BY <2>3, <2>4
<1> QED  BY <1>1, <1>2

(* Trimming takes at most the oldest. *)
LEMMA TrimShape ==
  ASSUME NEW s \in Seq(Outcome), s # <<>>
  PROVE  \/ Trim(s) = s
         \/ /\ Trim(s) \in Seq(Outcome) /\ Len(Trim(s)) = Len(s) - 1
            /\ \A i \in 1..Len(s) - 1 : Trim(s)[i] = s[i + 1]
  BY HeadTailProperties DEF Trim

-----------------------------------------------------------------------------
LEMMA InitIInv == GateInit => GateInv
  BY RetainedAssumption
  DEF GateInit, GateInv, GateTypeOK, NewestRetained, OnlyNewestPending, OutcomesTruthful,
      AnswersTruthful, UnknownMeansOld, Filled, Settled, Asked, Answer, Resolved

LEMMA FunctionIsSeq ==
  ASSUME NEW S, NEW n \in Nat, NEW f \in [1..n -> S]
  PROVE  f \in Seq(S) /\ Len(f) = n
<1>1. f \in Seq(S)
  BY SeqDef
<1>2. Len(f) \in Nat /\ DOMAIN f = 1..Len(f)
  BY <1>1, LenProperties
<1>3. 1..Len(f) = 1..n
  BY <1>2
<1> QED  BY <1>1, <1>2, <1>3

LEMMA BeginIInv == GateInv /\ Begin => GateInv'
<1> SUFFICES ASSUME GateInv, Begin PROVE GateInv'
  OBVIOUS
<1> DEFINE L == Len(outcomes)
           o == [generation |-> begun + 1, state |-> "pending"]
           S == Append(Supersede(outcomes), o)
           old == [g \in DOMAIN verdict |->
                     IF verdict[g] = "pending" THEN "superseded" ELSE verdict[g]]
<1>1. /\ begun \in Nat /\ L \in Nat /\ begun' = begun + 1
      /\ outcomes \in Seq(Outcome) /\ DOMAIN outcomes = 1..L
      /\ waiting' = waiting /\ answer' = answer
      /\ Retained \in Nat \ {0}
  BY LenProperties, RetainedAssumption DEF GateInv, GateTypeOK, Begin
<1>2. /\ \A i \in 1..L : outcomes[i] \in Outcome
      /\ \A i \in 1..L : outcomes[i].generation = begun - L + i
      /\ \A i \in 1..L : outcomes[i].state = verdict[begun - L + i]
      /\ \A i \in 1..L : outcomes[i].state = "pending" => i = L
      /\ L <= Retained /\ L <= begun /\ (L = begun \/ L = Retained)
  BY <1>1, ElementOfSeq
  DEF GateInv, NewestRetained, OnlyNewestPending, OutcomesTruthful, Filled
<1>3. /\ S \in Seq(Outcome) /\ Len(S) = L + 1 /\ S[L + 1] = o
      /\ \A i \in 1..L :
           S[i] = IF outcomes[i].state = "pending" THEN Superseded(outcomes[i])
                  ELSE outcomes[i]
  <2>1. o \in Outcome
    BY <1>1 DEF Outcome, State
  <2> DEFINE u == Supersede(outcomes)
  <2>2. /\ u \in Seq(Outcome) /\ Len(u) = L
        /\ \A i \in 1..L :
             u[i] = IF outcomes[i].state = "pending" THEN Superseded(outcomes[i])
                    ELSE outcomes[i]
    BY <1>1, <1>2, SupersedeShape
  <2>3. S = Append(u, o)
    OBVIOUS
  <2> HIDE DEF u, o, S, L
  <2>4. S \in Seq(Outcome) /\ Len(S) = L + 1
    BY <2>1, <2>2, <2>3, AppendProperties
  <2>5. \A i \in 1..L : S[i] = u[i]
    BY <1>1, <2>1, <2>2, <2>3, AppendProperties
  <2>6. S[L + 1] = o
    BY <2>1, <2>2, <2>3, AppendProperties
  <2> QED  BY <2>2, <2>4, <2>5, <2>6
<1>4. \A i \in 1..L : /\ S[i].generation = begun - L + i
                      /\ S[i].state = IF verdict[begun - L + i] = "pending"
                                         THEN "superseded" ELSE verdict[begun - L + i]
  BY <1>2, <1>3 DEF Superseded, Outcome
<1>5. /\ verdict' \in Seq(State) /\ Len(verdict') = begun + 1
      /\ verdict'[begun + 1] = "pending"
      /\ \A g \in 1..begun :
           verdict'[g] = IF verdict[g] = "pending" THEN "superseded" ELSE verdict[g]
  <2>1. verdict \in Seq(State) /\ Len(verdict) = begun
    BY DEF GateInv, GateTypeOK
  <2>2. DOMAIN verdict = 1..begun /\ \A g \in 1..begun : verdict[g] \in State
    BY <2>1, LenProperties, ElementOfSeq
  <2>3. old \in [1..begun -> State]
    BY <2>2 DEF State, Resolved
  <2>4. old \in Seq(State) /\ Len(old) = begun
    BY <1>1, <2>3, FunctionIsSeq
  <2>5. verdict' = Append(old, "pending") /\ "pending" \in State
    BY DEF Begin, State
  <2>6. \A g \in 1..begun : old[g] = IF verdict[g] = "pending" THEN "superseded" ELSE verdict[g]
    BY <2>2
  <2> HIDE DEF old
  <2> QED  BY <1>1, <2>4, <2>5, <2>6
<1>6. \E k \in {0, 1} :
        /\ outcomes' \in Seq(Outcome) /\ Len(outcomes') = L + 1 - k
        /\ k = 1 <=> L + 1 > Retained
        /\ \A i \in 1..L + 1 - k : outcomes'[i] = S[i + k]
  <2>1. outcomes' = Trim(S)
    BY DEF Begin
  <2>2. L > 0 => Head(S).state # "pending"
    <3>1. S # <<>> => Head(S) = S[1]
      BY <1>3
    <3>2. L > 0 => S[1].state # "pending"
      <4>1. L > 0 => 1 \in 1..L
        BY <1>1
      <4> QED  BY <1>4, <4>1
    <3> QED  BY <1>1, <1>3, <3>1, <3>2, EmptySeq
  <2> HIDE DEF S, o
  <2>3. CASE L + 1 > Retained
    <3>1. Trim(S) = Tail(S)
      <4>1. L > 0 /\ Len(S) > Retained
        BY <1>1, <1>3, <2>3
      <4> QED  BY <2>2, <4>1 DEF Trim
    <3>2. S # <<>>
      BY <1>1, <1>3, EmptySeq
    <3>3. /\ Tail(S) \in Seq(Outcome) /\ Len(Tail(S)) = L + 1 - 1
          /\ \A i \in 1..L + 1 - 1 : Tail(S)[i] = S[i + 1]
      BY <1>1, <1>3, <3>2, HeadTailProperties
    <3> QED  BY <2>1, <2>3, <3>1, <3>3
  <2>4. CASE ~(L + 1 > Retained)
    <3>1. Trim(S) = S
      BY <1>3, <2>4 DEF Trim
    <3> QED  BY <1>1, <1>3, <2>1, <2>4, <3>1
  <2> QED  BY <2>3, <2>4
<1> HIDE DEF S, o, old, L
<1>7. PICK k \in {0, 1} :
        /\ outcomes' \in Seq(Outcome) /\ Len(outcomes') = L + 1 - k
        /\ k = 1 <=> L + 1 > Retained
        /\ \A i \in 1..L + 1 - k : outcomes'[i] = S[i + k]
  BY <1>6
<1>8. DOMAIN outcomes' = 1..L + 1 - k
  BY <1>7, LenProperties
<1>9. \A i \in 1..L + 1 - k :
        /\ outcomes'[i].generation = begun - L + i + k
        /\ outcomes'[i].state = verdict'[begun - L + i + k]
        /\ outcomes'[i].state = "pending" => i = L + 1 - k
  <2> TAKE i \in 1..L + 1 - k
  <2>1. CASE i + k = L + 1
    BY <1>1, <1>3, <1>5, <1>7, <2>1 DEF o
  <2>2. CASE i + k \in 1..L
    <3>1. begun - L + i + k \in 1..begun
      BY <1>1, <1>2, <1>7, <2>2
    <3>2. S[i + k].state = verdict'[begun - L + i + k] /\ S[i + k].state # "pending"
      <4>1. begun - L + (i + k) = begun - L + i + k
        BY <1>1
      <4> QED  BY <1>4, <1>5, <2>2, <3>1, <4>1
    <3> QED  BY <1>1, <1>4, <1>7, <2>2, <3>2
  <2> QED  BY <1>1, <2>1, <2>2
<1>10. GateTypeOK'
  BY <1>1, <1>5, <1>7 DEF GateInv, GateTypeOK
<1>11. NewestRetained' /\ OnlyNewestPending' /\ Filled'
  <2>1. Len(outcomes') = L + 1 - k /\ L + 1 - k <= Retained /\ L + 1 - k \in Nat
    BY <1>1, <1>2, <1>7
  <2>2. NewestRetained'
    <3>1. \A i \in 1..L + 1 - k :
            outcomes'[i].generation = (begun + 1) - (L + 1 - k) + i
      <4> TAKE i \in 1..L + 1 - k
      <4>1. begun - L + i + k = (begun + 1) - (L + 1 - k) + i
        BY <1>1
      <4> QED  BY <1>9, <4>1
    <3> QED  BY <1>1, <1>8, <2>1, <3>1 DEF NewestRetained
  <2>3. OnlyNewestPending'
    BY <1>8, <1>9, <2>1 DEF OnlyNewestPending
  <2>4. Filled'
    <3>1. L + 1 - k <= begun + 1 /\ (L + 1 - k = begun + 1 \/ L + 1 - k = Retained)
      BY <1>1, <1>2, <1>7
    <3> QED  BY <1>1, <2>1, <3>1 DEF Filled
  <2> QED  BY <2>2, <2>3, <2>4
<1>12. OutcomesTruthful'
  BY <1>1, <1>8, <1>9 DEF OutcomesTruthful
<1>13. Settled'
  BY <1>1, <1>5 DEF GateInv, Settled
<1>14. \A w \in Waiters : waiting[w] \in Nat
  BY DEF GateInv, GateTypeOK
<1>15. AnswersTruthful' /\ UnknownMeansOld' /\ Asked'
  BY <1>1, <1>5, <1>14
  DEF GateInv, AnswersTruthful, UnknownMeansOld, Asked, Resolved
<1> QED  BY <1>10, <1>11, <1>12, <1>13, <1>15 DEF GateInv

(* What is found of a generation is its verdict. *)
LEMMA StateOfIsVerdict ==
  ASSUME GateInv, NEW g \in Nat, Known(g)
  PROVE  StateOf(g) = verdict[g] /\ g \in 1..begun
<1> DEFINE i == CHOOSE j \in DOMAIN outcomes : outcomes[j].generation = g
<1>1. i \in DOMAIN outcomes /\ outcomes[i].generation = g
  BY DEF Known
<1>2. StateOf(g) = outcomes[i].state
  BY DEF StateOf
<1> HIDE DEF i
<1>3. outcomes[i].state = verdict[g]
  BY <1>1 DEF GateInv, OutcomesTruthful
<1>4. /\ DOMAIN outcomes = 1..Len(outcomes) /\ Len(outcomes) \in Nat /\ begun \in Nat
      /\ g = begun - Len(outcomes) + i /\ Len(outcomes) <= begun
  BY <1>1, LenProperties DEF GateInv, GateTypeOK, NewestRetained, Filled
<1> QED  BY <1>1, <1>2, <1>3, <1>4

LEMMA ResolveIInv ==
  ASSUME GateInv, NEW g \in 1..begun, NEW s \in Resolved, Decide(g, s)
  PROVE  GateInv'
<1> DEFINE L == Len(outcomes)
<1>1. /\ begun \in Nat /\ L \in Nat /\ DOMAIN outcomes = 1..L
      /\ outcomes \in Seq(Outcome) /\ L <= begun
      /\ verdict \in Seq(State) /\ Len(verdict) = begun /\ DOMAIN verdict = 1..begun
      /\ \A i \in 1..L : outcomes[i] \in Outcome
  BY LenProperties, ElementOfSeq DEF GateInv, GateTypeOK, Filled
<1>2. verdict[g] = "pending" /\ g = begun
  BY StateOfIsVerdict DEF Decide, MayResolve, GateInv, Settled
<1>3. s \in State /\ s # "pending"
  BY DEF State, Resolved
<1>4. /\ verdict' \in Seq(State) /\ Len(verdict') = begun
      /\ \A h \in 1..begun : verdict'[h] = IF h = g THEN s ELSE verdict[h]
  BY <1>1, <1>2, <1>3, ExceptSeq DEF Decide
<1>5. \A i \in 1..L :
        /\ outcomes'[i].generation = outcomes[i].generation
        /\ outcomes'[i].state = IF outcomes[i].generation = g THEN s ELSE outcomes[i].state
        /\ outcomes'[i] \in Outcome
  BY <1>1, <1>3 DEF Decide, Settle, Outcome
<1>6. outcomes' \in Seq(Outcome) /\ Len(outcomes') = L
  <2>1. outcomes' \in [1..L -> Outcome]
    BY <1>1, <1>5 DEF Decide, Settle
  <2> QED  BY <1>1, <2>1, FunctionIsSeq
<1>7. DOMAIN outcomes' = 1..L /\ begun' = begun /\ waiting' = waiting /\ answer' = answer
  BY <1>6, LenProperties DEF Decide
<1> HIDE DEF L
<1>8. GateTypeOK'
  BY <1>4, <1>6, <1>7 DEF GateInv, GateTypeOK
<1>9. \A i \in 1..L : /\ outcomes[i].generation = begun - L + i
                      /\ outcomes[i].state = verdict[begun - L + i]
                      /\ outcomes[i].state = "pending" => i = L
                      /\ begun - L + i \in 1..begun
  <2> TAKE i \in 1..L
  <2>1. i \in DOMAIN outcomes /\ begun - L + i \in 1..begun
    BY <1>1
  <2>2. outcomes[i].generation = begun - L + i
    BY <2>1 DEF GateInv, NewestRetained, L
  <2>3. outcomes[i].state = verdict[begun - L + i]
    BY <2>1, <2>2 DEF GateInv, OutcomesTruthful
  <2>4. outcomes[i].state = "pending" => i = L
    BY <2>1 DEF GateInv, OnlyNewestPending, L
  <2> QED  BY <2>1, <2>2, <2>3, <2>4
<1>10. L <= Retained /\ (L = begun \/ L = Retained)
  BY DEF GateInv, OnlyNewestPending, Filled, L
<1>11. NewestRetained' /\ Filled'
  BY <1>1, <1>5, <1>6, <1>7, <1>9, <1>10 DEF NewestRetained, Filled
<1>12. OnlyNewestPending'
  BY <1>3, <1>5, <1>6, <1>7, <1>9, <1>10 DEF OnlyNewestPending
<1>13. OutcomesTruthful'
  BY <1>4, <1>5, <1>7, <1>9 DEF OutcomesTruthful
<1>14. Settled'
  BY <1>2, <1>3, <1>4, <1>7 DEF GateInv, Settled
<1>15. \A w \in Waiters : waiting[w] \in Nat /\ waiting[w] <= begun
  BY DEF GateInv, GateTypeOK, Asked
<1>16. AnswersTruthful'
  <2> SUFFICES ASSUME NEW w \in Waiters, answer[w] \in Resolved, waiting[w] # 0
               PROVE  verdict'[waiting[w]] = answer[w]
    BY <1>7 DEF AnswersTruthful
  <2>1. verdict[waiting[w]] = answer[w] /\ waiting[w] \in 1..begun
    BY <1>1, <1>15 DEF GateInv, AnswersTruthful
  <2>2. answer[w] # "pending"
    BY DEF Resolved
  <2> QED  BY <1>2, <1>4, <2>1, <2>2
<1>17. UnknownMeansOld' /\ Asked'
  BY <1>7 DEF GateInv, UnknownMeansOld, Asked
<1> QED  BY <1>8, <1>11, <1>12, <1>13, <1>14, <1>16, <1>17 DEF GateInv

LEMMA WaitIInv ==
  ASSUME GateInv, NEW w \in Waiters,
         \/ \E g \in 1..begun : WaitBegin(w, g)
         \/ WaitReturn(w)
         \/ WaitStopped(w)
  PROVE  GateInv'
<1>1. begun' = begun /\ outcomes' = outcomes /\ verdict' = verdict
  BY DEF WaitBegin, WaitReturn, WaitStopped
<1>2. /\ begun \in Nat /\ Retained \in Nat \ {0}
      /\ waiting \in [Waiters -> Nat] /\ answer \in [Waiters -> Answer \cup {"none"}]
  BY RetainedAssumption DEF GateInv, GateTypeOK
<1>3. /\ NewestRetained' /\ OnlyNewestPending' /\ OutcomesTruthful' /\ Filled' /\ Settled'
  BY <1>1 DEF GateInv, NewestRetained, OnlyNewestPending, OutcomesTruthful, Filled, Settled
<1>4. CASE \E g \in 1..begun : WaitBegin(w, g)
  <2>1. PICK g \in 1..begun : /\ waiting' = [waiting EXCEPT ![w] = g]
                             /\ answer' = [answer EXCEPT ![w] = "none"]
    BY <1>4 DEF WaitBegin
  <2>2. GateTypeOK'
    BY <1>1, <1>2, <2>1 DEF GateInv, GateTypeOK
  <2>3. AnswersTruthful' /\ UnknownMeansOld' /\ Asked'
    BY <1>1, <1>2, <2>1
    DEF GateInv, AnswersTruthful, UnknownMeansOld, Asked, Resolved
  <2> QED  BY <1>3, <2>2, <2>3 DEF GateInv
<1>5. CASE WaitReturn(w) \/ WaitStopped(w)
  <2>1. waiting' = waiting /\ answer[w] = "none" /\ waiting[w] \in 1..begun
    BY <1>2, <1>5 DEF WaitReturn, WaitStopped, GateInv, Asked
  <2>2. PICK a : answer' = [answer EXCEPT ![w] = a]
    BY <1>5 DEF WaitReturn, WaitStopped
  <2>3. /\ a \in Answer
        /\ a \in Resolved => a = verdict[waiting[w]]
        /\ a = "unknown_generation" => waiting[w] <= begun - Retained
    <3>1. CASE a = "stopped"
      BY <3>1 DEF Answer, Resolved
    <3>2. CASE WaitReturn(w) /\ Known(waiting[w])
      <4>1. a = StateOf(waiting[w]) /\ StateOf(waiting[w]) # "pending"
        BY <1>2, <2>2, <3>2 DEF WaitReturn, AnswerFor, Decided
      <4>2. StateOf(waiting[w]) = verdict[waiting[w]]
        BY <2>1, <3>2, StateOfIsVerdict
      <4>3. verdict[waiting[w]] \in State
        BY <2>1, ElementOfSeq DEF GateInv, GateTypeOK
      <4> QED  BY <4>1, <4>2, <4>3 DEF State, Answer, Resolved
    <3>3. CASE WaitReturn(w) /\ ~Known(waiting[w])
      <4>1. a = "unknown_generation"
        BY <1>2, <2>2, <3>3 DEF WaitReturn, AnswerFor
      <4>2. Len(outcomes) \in Nat /\ DOMAIN outcomes = 1..Len(outcomes)
        BY LenProperties DEF GateInv, GateTypeOK
      <4>3. ~(waiting[w] > begun - Len(outcomes))
        <5> SUFFICES ASSUME waiting[w] > begun - Len(outcomes) PROVE FALSE
          OBVIOUS
        <5> DEFINE i == waiting[w] - begun + Len(outcomes)
        <5>1. i \in 1..Len(outcomes) /\ begun - Len(outcomes) + i = waiting[w]
          BY <1>2, <2>1, <4>2
        <5>2. outcomes[i].generation = waiting[w]
          BY <4>2, <5>1 DEF GateInv, NewestRetained
        <5> QED  BY <3>3, <4>2, <5>1, <5>2 DEF Known
      <4>4. Len(outcomes) = begun \/ Len(outcomes) = Retained
        BY DEF GateInv, Filled
      <4>5. waiting[w] <= begun - Retained
        <5>1. Len(outcomes) # begun
          BY <1>2, <2>1, <4>3
        <5> QED  BY <1>2, <2>1, <4>3, <4>4, <5>1
      <4> QED  BY <4>1, <4>5 DEF Answer, Resolved
    <3>4. CASE WaitStopped(w)
      <4>1. a = "stopped"
        BY <1>2, <2>2, <3>4 DEF WaitStopped
      <4> QED  BY <3>1, <4>1
    <3> QED  BY <1>5, <3>2, <3>3, <3>4
  <2>4. GateTypeOK'
    BY <1>1, <1>2, <2>1, <2>2, <2>3 DEF GateInv, GateTypeOK
  <2>5. AnswersTruthful' /\ UnknownMeansOld' /\ Asked'
    <3>1. a # "none"
      BY <2>3 DEF Answer, Resolved
    <3> QED  BY <1>1, <1>2, <2>1, <2>2, <2>3, <3>1
             DEF GateInv, AnswersTruthful, UnknownMeansOld, Asked
  <2> QED  BY <1>3, <2>4, <2>5 DEF GateInv
<1> QED  BY <1>4, <1>5

LEMMA NextIInv == GateInv /\ [GateNext]_gateVars => GateInv'
<1> SUFFICES ASSUME GateInv, [GateNext]_gateVars PROVE GateInv'
  OBVIOUS
<1>1. CASE Begin
  BY <1>1, BeginIInv
<1>2. CASE \E g \in 1..begun : (\E success \in BOOLEAN : Complete(g, success)) \/ CancelScan(g)
  <2>1. PICK g \in 1..begun, s \in Resolved : Decide(g, s)
    BY <1>2 DEF Complete, CancelScan, Resolved
  <2> QED  BY <2>1, ResolveIInv
<1>3. CASE \E w \in Waiters : \/ \E g \in 1..begun : WaitBegin(w, g)
                              \/ WaitReturn(w)
                              \/ WaitStopped(w)
  BY <1>3, WaitIInv
<1>4. CASE UNCHANGED gateVars
  BY <1>4 DEF gateVars, GateInv, GateTypeOK, NewestRetained, OnlyNewestPending, OutcomesTruthful,
              AnswersTruthful, UnknownMeansOld, Filled, Settled, Asked
<1> QED  BY <1>1, <1>2, <1>3, <1>4 DEF GateNext

LEMMA GateInvariant == GateSpec => []GateInv
  BY InitIInv, NextIInv, PTL DEF GateSpec

-----------------------------------------------------------------------------
(* The list of outcomes holds the newest scans, without a gap, and stays   *)
(* within its limit: find_locked() finds every scan that is young enough   *)
(* and no other, and trim_locked() never stops short.                      *)
THEOREM GateRetention == GateSpec => []Retention
  BY GateInvariant, PTL DEF GateInv, Retention

(* Neither a late complete() nor pruning makes the gate hold an outcome    *)
(* that is not what became of the scan.                                    *)
THEOREM GateIsTruthful == GateSpec => []OutcomesTruthful
  BY GateInvariant, PTL DEF GateInv

(* What wait() told a thread is and stays what became of the scan, and it  *)
(* says "unknown" only of scans that newer ones pushed out.                *)
THEOREM WaitersAreToldTruth == GateSpec => []WaitersToldTruth
  BY GateInvariant, PTL DEF GateInv, WaitersToldTruth

(* The gate remembers and tells the truth, for any number of scans and     *)
(* waiters and any limit of what it retains.                               *)
THEOREM GateIsTrue == GateSpec => []GateTruthful
  BY GateRetention, GateIsTruthful, WaitersAreToldTruth, PTL DEF GateTruthful

-----------------------------------------------------------------------------
(* The notifications.                                                       *)
-----------------------------------------------------------------------------

GoneBy == ToSet(seen.shown) \union seen.discarded \union seen.overrun

NoticeShape ==
  /\ unseen \in Seq(Nat) /\ history \in Seq(Nat)
  /\ tally \in [published : Nat, dropped : Nat]
  /\ seen \in [shown : Seq(Nat), discarded : SUBSET Nat, overrun : SUBSET Nat,
               quiet : SUBSET Nat]
  /\ IsFiniteSet(seen.overrun)

(* What is pending and what is gone are all that was published, and whatever  *)
(* is pending is newer than whatever is gone: only so is the order in which   *)
(* notifications are shown the order of their ids.                            *)
Split ==
  /\ Ascending(unseen) /\ Ascending(seen.shown)
  /\ ToSet(unseen) \union GoneBy = Published
  /\ \A i \in ToSet(unseen), k \in GoneBy : k < i

Recent ==
  /\ \A i \in DOMAIN history : history[i] = tally.published + 1 - i
  /\ Len(unseen) <= RetentionLimit /\ Len(history) <= RetentionLimit

Dropped ==
  /\ tally.dropped >= Cardinality(seen.overrun) /\ tally.dropped <= 2 * tally.published

NoticeInv == NoticeShape /\ Split /\ Recent /\ Dropped

-----------------------------------------------------------------------------
LEMMA AscendingAppend ==
  ASSUME NEW s \in Seq(Nat), Ascending(s), NEW n \in Nat, \A i \in ToSet(s) : i < n
  PROVE  /\ Append(s, n) \in Seq(Nat) /\ Ascending(Append(s, n))
         /\ ToSet(Append(s, n)) = ToSet(s) \union {n} /\ Len(Append(s, n)) = Len(s) + 1
<1> DEFINE a == Append(s, n)
<1>1. /\ a \in Seq(Nat) /\ Len(a) = Len(s) + 1 /\ Len(s) \in Nat
      /\ DOMAIN a = 1..(Len(s) + 1) /\ DOMAIN s = 1..Len(s)
      /\ \A i \in DOMAIN s : a[i] = s[i]
      /\ a[Len(s) + 1] = n
  OBVIOUS
<1> HIDE DEF a
<1>2. ToSet(a) = ToSet(s) \union {n}
  <2>1. ToSet(a) = {a[i] : i \in DOMAIN s} \union {a[Len(s) + 1]}
    BY <1>1 DEF ToSet
  <2> QED  BY <1>1, <2>1 DEF ToSet
<1>3. Ascending(a)
  <2> SUFFICES ASSUME NEW i \in DOMAIN a, NEW k \in DOMAIN a, i < k PROVE a[i] < a[k]
    BY DEF Ascending
  <2>1. i \in DOMAIN s
    BY <1>1
  <2>2. CASE k \in DOMAIN s
    BY <1>1, <2>1, <2>2 DEF Ascending
  <2>3. CASE k = Len(s) + 1
    BY <1>1, <2>1, <2>3 DEF ToSet
  <2> QED  BY <1>1, <2>2, <2>3
<1> QED  BY <1>1, <1>2, <1>3 DEF a

LEMMA AscendingTail ==
  ASSUME NEW s \in Seq(Nat), Ascending(s), s # <<>>
  PROVE  /\ Tail(s) \in Seq(Nat) /\ Ascending(Tail(s)) /\ Len(Tail(s)) = Len(s) - 1
         /\ ToSet(Tail(s)) = ToSet(s) \ {Head(s)}
         /\ Head(s) \in ToSet(s) /\ Head(s) \in Nat /\ Len(s) \in Nat
         /\ \A i \in ToSet(Tail(s)) : Head(s) < i
<1> DEFINE t == Tail(s)
<1>1. /\ t \in Seq(Nat) /\ Len(s) \in Nat /\ Len(t) = Len(s) - 1
      /\ DOMAIN s = 1..Len(s) /\ DOMAIN t = 1..(Len(s) - 1)
      /\ \A i \in DOMAIN t : t[i] = s[i + 1] /\ i + 1 \in DOMAIN s /\ 1 < i + 1
      /\ 1 \in DOMAIN s /\ Head(s) = s[1] /\ Head(s) \in Nat
  OBVIOUS
<1>2. Head(s) \in ToSet(s)
  BY <1>1 DEF ToSet
<1> HIDE DEF t
<1>3. \A i \in ToSet(t) : Head(s) < i /\ i \in ToSet(s)
  BY <1>1 DEF Ascending, ToSet
<1>4. \A i \in ToSet(s) : i # Head(s) => i \in ToSet(t)
  <2> SUFFICES ASSUME NEW k \in DOMAIN s, s[k] # Head(s) PROVE s[k] \in ToSet(t)
    BY DEF ToSet
  <2>1. k - 1 \in DOMAIN t /\ (k - 1) + 1 = k
    BY <1>1
  <2> QED  BY <2>1, <1>1 DEF ToSet
<1>5. ToSet(t) = ToSet(s) \ {Head(s)}
  BY <1>1, <1>3, <1>4
<1>6. Ascending(t)
  <2> SUFFICES ASSUME NEW i \in DOMAIN t, NEW k \in DOMAIN t, i < k PROVE t[i] < t[k]
    BY DEF Ascending
  <2>1. i + 1 \in DOMAIN s /\ k + 1 \in DOMAIN s /\ i + 1 < k + 1
    BY <1>1
  <2> QED  BY <1>1, <2>1 DEF Ascending
<1> QED  BY <1>1, <1>2, <1>3, <1>5, <1>6 DEF t

LEMMA EmptyNotices ==
  /\ ToSet(<<>>) = {} /\ Ascending(<<>>) /\ <<>> \in Seq(Nat) /\ Len(<<>>) = 0
  /\ DOMAIN <<>> = {}
<1>1. <<>> \in Seq(Nat) /\ Len(<<>>) = 0 /\ DOMAIN <<>> = {}
  OBVIOUS
<1> QED  BY <1>1 DEF ToSet, Ascending

LEMMA InitNoticeInv == NoticeInit => NoticeInv
<1> SUFFICES ASSUME NoticeInit PROVE NoticeInv
  OBVIOUS
<1>1. /\ unseen = <<>> /\ history = <<>> /\ tally = [published |-> 0, dropped |-> 0]
      /\ seen = [shown |-> <<>>, discarded |-> {}, overrun |-> {}, quiet |-> {}]
  BY DEF NoticeInit
<1>2. NoticeShape
  BY <1>1, EmptyNotices, FS_EmptySet DEF NoticeShape
<1>3. GoneBy = {} /\ Published = {} /\ ToSet(unseen) = {}
  BY <1>1, EmptyNotices DEF GoneBy, Published
<1>4. Split
  BY <1>1, <1>3, EmptyNotices DEF Split
<1>5. Recent
  BY <1>1, EmptyNotices, NotificationAssumption DEF Recent
<1>6. Dropped
  BY <1>1, FS_EmptySet DEF Dropped
<1> QED  BY <1>2, <1>4, <1>5, <1>6 DEF NoticeInv

-----------------------------------------------------------------------------
LEMMA NotifyInv ==
  ASSUME NoticeInv, NEW t \in Publishers, NEW posts \in BOOLEAN, Notify(t, posts)
  PROVE  NoticeInv'
<1> USE DEF NoticeInv
<1>1. PICK id, pending, recent, quiet, over :
        /\ id = tally.published + 1 /\ pending = Append(unseen, id) /\ recent = <<id>> \o history
        /\ quiet = (IF posts THEN seen.quiet ELSE seen.quiet \union {id})
        /\ over = ToSet(pending) \ ToSet(KeptPending(pending))
  OBVIOUS
<1>2. /\ unseen' = KeptPending(pending) /\ history' = KeptHistory(recent)
      /\ tally' = [published |-> id,
                   dropped |-> tally.dropped + Surplus(pending) + Surplus(recent)]
      /\ seen' = [seen EXCEPT !.overrun = seen.overrun \union over, !.quiet = quiet]
  BY <1>1 DEF Notify
<1>3. /\ id \in Nat /\ tally.published \in Nat /\ tally.dropped \in Nat
      /\ \A i \in Published : i < id
      /\ Published' = Published \union {id} /\ id \notin Published
  BY <1>1, <1>2 DEF Published, NoticeShape
<1>4. /\ pending \in Seq(Nat) /\ Ascending(pending) /\ ToSet(pending) = ToSet(unseen) \union {id}
      /\ Len(pending) = Len(unseen) + 1 /\ Len(unseen) \in Nat
  <2>1. unseen \in Seq(Nat) /\ Ascending(unseen) /\ \A i \in ToSet(unseen) : i < id
    BY <1>3 DEF NoticeShape, Split
  <2> QED  BY <2>1, <1>1, <1>3, AscendingAppend
<1>5. /\ unseen' \in Seq(Nat) /\ Ascending(unseen') /\ Len(unseen') <= RetentionLimit
      /\ ToSet(unseen') \union over = ToSet(pending)
      /\ \A i \in ToSet(unseen'), k \in over : k < i
      /\ IsFiniteSet(over) /\ Cardinality(over) <= Surplus(pending) /\ over \subseteq Nat
      /\ Surplus(pending) \in {0, 1}
  <2>1. CASE Len(pending) > RetentionLimit
    <3>1. pending # <<>>
      BY <1>4, EmptyNotices
    <3>2. unseen' = Tail(pending) /\ Surplus(pending) = 1
      BY <2>1, <1>2 DEF KeptPending, Surplus
    <3>3. over = {Head(pending)} /\ Head(pending) \in Nat
      <4>1. over = ToSet(pending) \ ToSet(Tail(pending))
        BY <3>2, <1>1, <1>2
      <4>2. /\ ToSet(Tail(pending)) = ToSet(pending) \ {Head(pending)}
            /\ Head(pending) \in ToSet(pending) /\ Head(pending) \in Nat
        BY <3>1, <1>4, AscendingTail
      <4> QED  BY <4>1, <4>2
    <3>4. IsFiniteSet(over) /\ Cardinality(over) = 1
      BY <3>3, FS_Singleton
    <3>5. Len(unseen') <= RetentionLimit
      BY <3>1, <3>2, <1>4, AscendingTail, NotificationAssumption DEF Recent
    <3>6. /\ unseen' \in Seq(Nat) /\ Ascending(unseen') /\ ToSet(unseen') = ToSet(pending) \ {Head(pending)}
          /\ Head(pending) \in ToSet(pending) /\ \A i \in ToSet(unseen') : Head(pending) < i
      BY <3>1, <3>2, <1>4, AscendingTail
    <3> QED  BY <3>2, <3>3, <3>4, <3>5, <3>6
  <2>2. CASE ~(Len(pending) > RetentionLimit)
    <3>1. unseen' = pending /\ Surplus(pending) = 0 /\ over = {}
      BY <2>2, <1>1, <1>2 DEF KeptPending, Surplus
    <3>2. IsFiniteSet(over) /\ Cardinality(over) = 0
      BY <3>1, FS_EmptySet
    <3> QED  BY <3>1, <3>2, <2>2, <1>4, NotificationAssumption
  <2> QED  BY <2>1, <2>2
<1>6. /\ history' \in Seq(Nat) /\ Len(history') <= RetentionLimit
      /\ \A i \in DOMAIN history' : history'[i] = id + 1 - i
      /\ Surplus(recent) \in {0, 1}
  <2>1. /\ recent \in Seq(Nat) /\ Len(recent) = Len(history) + 1 /\ Len(history) \in Nat
        /\ DOMAIN recent = 1..(Len(history) + 1) /\ recent[1] = id
        /\ \A i \in DOMAIN recent : i # 1 => recent[i] = history[i - 1] /\ i - 1 \in DOMAIN history
    BY <1>1, <1>3 DEF NoticeShape
  <2>2. \A i \in DOMAIN recent : recent[i] = id + 1 - i
    <3> SUFFICES ASSUME NEW i \in DOMAIN recent PROVE recent[i] = id + 1 - i
      OBVIOUS
    <3>1. CASE i = 1
      BY <3>1, <2>1, <1>3
    <3>2. CASE i # 1
      <4>1. recent[i] = tally.published + 1 - (i - 1)
        BY <3>2, <2>1 DEF Recent
      <4>2. i \in Int /\ id = tally.published + 1
        BY <2>1, <1>1
      <4> QED  BY <4>1, <4>2, <1>3
    <3> QED  BY <3>1, <3>2
  <2>3. CASE Len(recent) > RetentionLimit
    <3>1. history' = SubSeq(recent, 1, Len(recent) - 1) /\ Surplus(recent) = 1
      BY <2>3, <1>2 DEF KeptHistory, Front, Surplus
    <3>2. /\ history' \in Seq(Nat) /\ Len(history') = Len(history)
          /\ \A i \in DOMAIN history' : i \in DOMAIN recent /\ history'[i] = recent[i]
      BY <3>1, <2>1
    <3> QED  BY <3>1, <3>2, <2>2 DEF Recent
  <2>4. CASE ~(Len(recent) > RetentionLimit)
    BY <2>4, <2>1, <2>2, <1>2, NotificationAssumption DEF KeptHistory, Surplus
  <2> QED  BY <2>3, <2>4
<1>7. NoticeShape' /\ seen'.overrun = seen.overrun \union over /\ seen'.shown = seen.shown
        /\ seen'.discarded = seen.discarded
  <2>1. seen.overrun \union over \in SUBSET Nat /\ IsFiniteSet(seen.overrun \union over)
    BY <1>5, FS_Union DEF NoticeShape
  <2>2. quiet \in SUBSET Nat
    BY <1>1, <1>3 DEF NoticeShape
  <2>3. /\ seen' \in [shown : Seq(Nat), discarded : SUBSET Nat, overrun : SUBSET Nat,
                     quiet : SUBSET Nat]
        /\ seen'.overrun = seen.overrun \union over /\ seen'.shown = seen.shown
        /\ seen'.discarded = seen.discarded
    BY <2>1, <2>2, <1>2 DEF NoticeShape
  <2>4. tally' \in [published : Nat, dropped : Nat]
    BY <1>2, <1>3, <1>5, <1>6
  <2> QED  BY <2>1, <2>3, <2>4, <1>5, <1>6 DEF NoticeShape
<1>8. Split'
  <2>1. GoneBy' = GoneBy \union over
    BY <1>7 DEF GoneBy
  <2>2. ToSet(unseen') \union over = ToSet(unseen) \union {id}
    BY <1>4, <1>5
  <2>3. \A i \in ToSet(unseen'), k \in GoneBy : k < i
    BY <2>2, <1>3 DEF Split
  <2> QED  BY <2>1, <2>2, <2>3, <1>3, <1>5, <1>7 DEF Split
<1>9. Recent'
  BY <1>2, <1>5, <1>6 DEF Recent
<1>10. Dropped'
  <2>1. Cardinality(seen.overrun \union over) <= Cardinality(seen.overrun) + Cardinality(over)
    <3>1. Cardinality(seen.overrun \cap over) \in Nat
      BY <1>5, FS_Intersection, FS_CardinalityType DEF NoticeShape
    <3>2. Cardinality(seen.overrun) \in Nat /\ Cardinality(over) \in Nat
      BY <1>5, FS_CardinalityType DEF NoticeShape
    <3>3. Cardinality(seen.overrun \union over)
            = Cardinality(seen.overrun) + Cardinality(over) - Cardinality(seen.overrun \cap over)
      BY <1>5, FS_Union DEF NoticeShape
    <3> QED  BY <3>1, <3>2, <3>3
  <2>2. /\ Cardinality(seen.overrun) \in Nat /\ Cardinality(over) \in Nat
        /\ Cardinality(seen.overrun \union over) \in Nat
    BY <1>5, FS_Union, FS_CardinalityType DEF NoticeShape
  <2>3. /\ tally'.dropped = tally.dropped + Surplus(pending) + Surplus(recent)
        /\ tally'.published = tally.published + 1
    BY <1>1, <1>2
  <2>4. tally'.dropped >= Cardinality(seen.overrun \union over)
    BY <2>1, <2>2, <2>3, <1>3, <1>5, <1>6 DEF Dropped
  <2>5. tally'.dropped <= 2 * tally'.published
    BY <2>3, <1>3, <1>5, <1>6 DEF Dropped
  <2> QED  BY <2>4, <2>5, <1>7 DEF Dropped
<1> QED  BY <1>7, <1>8, <1>9, <1>10

(* Most steps leave what is pending, what is gone and what is counted alone.  *)
LEMMA OtherNoticeStep ==
  ASSUME NoticeInv, UNCHANGED <<unseen, tally, seen>>, history' \in {history, <<>>}
  PROVE  NoticeInv'
<1> USE DEF NoticeInv
<1>1. NoticeShape' /\ Dropped'
  BY EmptyNotices DEF NoticeShape, Dropped
<1>2. Split'
  BY DEF Split, GoneBy, Published, ToSet, Ascending
<1>3. Recent'
  <2>1. CASE history' = history
    BY <2>1 DEF Recent
  <2>2. CASE history' = <<>>
    BY <2>2, EmptyNotices, NotificationAssumption DEF Recent
  <2> QED  BY <2>1, <2>2
<1> QED  BY <1>1, <1>2, <1>3

(* A notification that is taken is older than all that stay.                  *)
LEMMA PumpInv == ASSUME NoticeInv, Pump PROVE NoticeInv'
<1> USE DEF NoticeInv
<1>1. UNCHANGED <<history, tally>>
  BY DEF Pump
<1>2. CASE unseen = <<>>
  <2>1. UNCHANGED <<unseen, history, tally, seen>>
    BY <1>1, <1>2 DEF Pump
  <2> QED  BY <2>1, OtherNoticeStep
<1>3. CASE unseen # <<>>
  <2>1. PICK id : id = Head(unseen)
    OBVIOUS
  <2>2. /\ unseen' = Tail(unseen)
        /\ \/ seen' = [seen EXCEPT !.shown = Append(seen.shown, id)]
           \/ seen' = [seen EXCEPT !.discarded = seen.discarded \union {id}]
    BY <1>3, <2>1 DEF Pump
  <2>3. /\ unseen' \in Seq(Nat) /\ Ascending(unseen') /\ Len(unseen') <= Len(unseen)
        /\ ToSet(unseen') = ToSet(unseen) \ {id} /\ id \in ToSet(unseen) /\ id \in Nat
        /\ \A i \in ToSet(unseen') : id < i
    BY <1>3, <2>1, <2>2, AscendingTail DEF NoticeShape, Split
  <2>4. \A k \in GoneBy : k < id
    BY <2>3 DEF Split
  <2>5. /\ Append(seen.shown, id) \in Seq(Nat) /\ Ascending(Append(seen.shown, id))
        /\ ToSet(Append(seen.shown, id)) = ToSet(seen.shown) \union {id}
    <3>1. seen.shown \in Seq(Nat) /\ Ascending(seen.shown) /\ \A i \in ToSet(seen.shown) : i < id
      BY <2>4 DEF NoticeShape, Split, GoneBy
    <3> QED  BY <3>1, <2>3, AscendingAppend
  <2>6. /\ seen' \in [shown : Seq(Nat), discarded : SUBSET Nat, overrun : SUBSET Nat,
                     quiet : SUBSET Nat]
        /\ seen'.overrun = seen.overrun /\ Ascending(seen'.shown) /\ GoneBy' = GoneBy \union {id}
    <3>1. CASE seen' = [seen EXCEPT !.shown = Append(seen.shown, id)]
      <4>1. /\ seen' \in [shown : Seq(Nat), discarded : SUBSET Nat, overrun : SUBSET Nat,
                         quiet : SUBSET Nat]
            /\ seen'.shown = Append(seen.shown, id) /\ seen'.overrun = seen.overrun
            /\ seen'.discarded = seen.discarded
        BY <3>1, <2>5 DEF NoticeShape
      <4> QED  BY <4>1, <2>5 DEF GoneBy
    <3>2. CASE seen' = [seen EXCEPT !.discarded = seen.discarded \union {id}]
      <4>1. /\ seen' \in [shown : Seq(Nat), discarded : SUBSET Nat, overrun : SUBSET Nat,
                         quiet : SUBSET Nat]
            /\ seen'.shown = seen.shown /\ seen'.overrun = seen.overrun
            /\ seen'.discarded = seen.discarded \union {id}
        BY <3>2, <2>3 DEF NoticeShape
      <4> QED  BY <4>1 DEF GoneBy, Split
    <3> QED  BY <2>2, <3>1, <3>2
  <2>7. NoticeShape'
    BY <1>1, <2>3, <2>6 DEF NoticeShape
  <2>8. Split'
    <3>1. Published' = Published
      BY <1>1 DEF Published
    <3> QED  BY <3>1, <2>3, <2>4, <2>6 DEF Split
  <2>9. Recent'
    <3>1. Len(unseen') <= RetentionLimit
      BY <2>3, NotificationAssumption DEF Recent, NoticeShape
    <3> QED  BY <3>1, <1>1 DEF Recent
  <2>10. Dropped'
    BY <1>1, <2>6 DEF Dropped
  <2> QED  BY <2>7, <2>8, <2>9, <2>10
<1> QED  BY <1>2, <1>3

LEMMA NextNoticeInv == ASSUME NoticeInv, [NoticeNext]_noticeVars PROVE NoticeInv'
<1>1. ASSUME NEW t \in Publishers, NEW posts \in BOOLEAN, Notify(t, posts) PROVE NoticeInv'
  BY <1>1, NotifyInv
<1>2. ASSUME NEW t \in Publishers, PostReady(t) PROVE NoticeInv'
  BY <1>2, OtherNoticeStep DEF PostReady
<1>3. CASE OnReady \/ OnTimer
  BY <1>3, PumpInv DEF OnReady, OnTimer
<1>4. CASE LookForMore
  BY <1>4, OtherNoticeStep DEF LookForMore
<1>5. ASSUME NEW on \in BOOLEAN, Toggle(on) PROVE NoticeInv'
  BY <1>5, OtherNoticeStep DEF Toggle
<1>6. CASE ClearHistory
  BY <1>6, OtherNoticeStep DEF ClearHistory
<1>7. CASE UNCHANGED noticeVars
  BY <1>7, OtherNoticeStep DEF noticeVars
<1> QED  BY <1>1, <1>2, <1>3, <1>4, <1>5, <1>6, <1>7 DEF NoticeNext

-----------------------------------------------------------------------------
(* Whatever threads publish, and whenever the window pumps: a notification is *)
(* pending, shown once and in order, taken while none are shown, or overrun   *)
(* by newer ones and counted.                                                 *)
THEOREM NoticesAreAccounted == NoticeSpec => []NoticesAccounted
<1>1. NoticeInit => NoticeInv
  BY InitNoticeInv
<1>2. NoticeInv /\ [NoticeNext]_noticeVars => NoticeInv'
  BY NextNoticeInv
<1>3. NoticeInv => NoticesAccounted
  <2> SUFFICES ASSUME NoticeInv PROVE NoticesAccounted
    OBVIOUS
  <2>1. ToSet(unseen) = Published \ GoneBy
    <3>1. \A i \in ToSet(unseen) : i \notin GoneBy
      <4> SUFFICES ASSUME NEW i \in ToSet(unseen), i \in GoneBy PROVE FALSE
        OBVIOUS
      <4>1. i < i /\ i \in Nat
        BY DEF NoticeInv, Split, Published, NoticeShape
      <4> QED  BY <4>1
    <3> QED  BY <3>1 DEF NoticeInv, Split
  <2> QED  BY <2>1 DEF NoticeInv, Split, Recent, Dropped, GoneBy, NoticesAccounted
<1> QED  BY <1>1, <1>2, <1>3, PTL DEF NoticeSpec

-----------------------------------------------------------------------------
(* The host of the plugins: proved for any number of plugins, names, threads  *)
(* and loads.                                                                 *)
-----------------------------------------------------------------------------

(* The modules that were mapped so far, and the handlers that were made of    *)
(* them: each with a gate of its own.                                         *)
Made == 1..Len(loads)
MadeHandlers == {h \in Handlers : h.gate = h.inst /\ h.inst \in Made}
Owner(i) == loads[i]

(* Types, and: nothing is held that was not made of a mapped module.         *)
HostShape ==
  /\ HostTypeOK
  /\ loads \in Seq(Plugins) /\ Len(loads) <= MaxLoads /\ mapped \subseteq Made
  /\ entries \in [Names -> MadeHandlers \union {Axiom, None}]
  /\ commands \in [Names -> MadeHandlers \union {None}]

UiShape ==
  \/ ui = NotCalling
  \/ ui \in [pc : {"mapped"}, plugin : Plugins, inst : Made]
  \/ ui \in [pc : {"loading"}, plugin : Plugins, handler : MadeHandlers]
  \/ ui \in [pc : {"noting"}, plugin : Plugins, handler : MadeHandlers, name : Names]
  \/ ui \in [pc : {"leaving", "removing", "freeing"}, plugin : Plugins, inst : Made,
             names : SUBSET Names]

CallShape ==
  call \in [Threads -> {NotCalling} \union
                       [pc : {"resolved", "running", "returned"}, handler : MadeHandlers]]

(* The module the loader works on.                                            *)
InHand == IF ui.pc \in {"loading", "noting"} THEN ui.handler.inst ELSE ui.inst

(* A gate is on record for a plugin from before its load function runs until  *)
(* nothing of it is left to be called; the module it belongs to is in memory. *)
GateOfPlugin ==
  /\ \A p \in Plugins : callbackGates[p] # NoGate =>
       /\ callbackGates[p] \in mapped /\ Owner(callbackGates[p]) = p
       /\ modules[p] \in {0, callbackGates[p]}
       /\ modules[p] = 0 => ui.pc # "idle" /\ ui.plugin = p
  /\ \A p \in Plugins : modules[p] # 0 =>
       modules[p] = callbackGates[p] \/ (ui.pc = "freeing" /\ ui.plugin = p)
  /\ ui.pc # "idle" =>
       /\ InHand \in mapped /\ Owner(InHand) = ui.plugin
       /\ callbackGates[ui.plugin] = IF ui.pc \in {"mapped", "freeing"} THEN NoGate ELSE InHand
       /\ ui.pc = "mapped" => modules[ui.plugin] = 0

(* The names on record for a plugin, and those that are being removed, are    *)
(* entries of its module.                                                     *)
NamesAreOwn ==
  /\ \A p \in Plugins : \A n \in actionNames[p] :
       entries[n] \in MadeHandlers /\ entries[n].inst = callbackGates[p]
  /\ \A p \in Plugins : \A n \in commandNames[p] :
       commands[n] \in MadeHandlers /\ commands[n].inst = callbackGates[p]
  /\ ui.pc = "noting" => entries[ui.name] = ui.handler
  /\ ui.pc = "removing" => \A n \in ui.names :
       entries[n] \in MadeHandlers /\ entries[n].inst = ui.inst

(* Conversely, every entry of a plugin is on record, but for the moment       *)
(* before it is noted and while it is being removed.                          *)
AllAreNoted ==
  /\ \A n \in Names : commands[n] # None => n \in commandNames[Owner(commands[n].inst)]
  /\ \A n \in Names : entries[n] \in MadeHandlers =>
       \/ n \in actionNames[Owner(entries[n].inst)]
       \/ ui.pc = "noting" /\ ui.name = n
       \/ ui.pc = "removing" /\ n \in ui.names
  /\ ui.pc \in {"leaving", "freeing"} => ui.names = {}
  /\ ui.pc \in {"removing", "freeing"} =>
       actionNames[ui.plugin] = {} /\ commandNames[ui.plugin] = {}

(* A gate counts the callbacks that run.  It is shut before its module goes,  *)
(* so that what was looked up in time but not yet invoked finds it shut.      *)
Runs(g) == {t \in Threads : call[t].pc = "running" /\ call[t].handler.gate = g}
Leases ==
  /\ \A g \in Modules : gate[g].active = Cardinality(Runs(g))
  /\ \A t \in Threads : call[t].pc = "running" => call[t].handler.inst \in mapped
  /\ \A t \in Threads : call[t].pc = "resolved" /\ gate[call[t].handler.inst].accepting
       => call[t].handler.inst \in mapped
  /\ ui.pc = "mapped" => \A t \in Threads : call[t] # NotCalling => call[t].handler.inst # ui.inst
  /\ ui.pc \in {"removing", "freeing"} => ~gate[ui.inst].accepting
  /\ ui.pc = "freeing" => gate[ui.inst].active = 0

HostInv ==
  HostShape /\ UiShape /\ CallShape /\ GateOfPlugin /\ NamesAreOwn /\ AllAreNoted /\ Leases

(* The bound on loads is above none.                                          *)
LEMMA LoadsBound == MaxLoads \in Nat /\ NoGate \in 0..MaxLoads /\ 0 \in 0..MaxLoads
  BY HostAssumption DEF NoGate

(* Only a load makes new handlers.                                            *)
LEMMA SameLoads ==
  ASSUME loads' = loads
  PROVE  Made' = Made /\ MadeHandlers' = MadeHandlers /\ \A i \in Made : Owner(i)' = Owner(i)
  BY DEF Made, MadeHandlers, Owner

LEMMA HandlerFacts ==
  ASSUME HostInv, NEW h \in MadeHandlers
  PROVE  /\ h.inst \in Made /\ h.gate = h.inst /\ h.inst \in Modules /\ h.inst \in Nat \ {0}
         /\ h \in Handlers /\ h # None /\ h # Axiom /\ Owner(h.inst) \in Plugins
<1>1. h \in Handlers /\ h.gate = h.inst /\ h.inst \in Made
  BY DEF MadeHandlers
<1>2. h.inst \in Modules /\ h.inst \in Nat \ {0} /\ Owner(h.inst) \in Plugins
  BY <1>1, HostAssumption DEF Made, Modules, HostInv, HostShape, Owner
<1>3. h # None /\ h # Axiom
  BY <1>1, HostAssumption DEF Handlers, Modules
<1> QED  BY <1>1, <1>2, <1>3

LEMMA FiniteThreads == IsFiniteSet(Threads)
  BY FS_AddElement, HostAssumption DEF Threads

LEMMA RunsFinite ==
  ASSUME NEW g
  PROVE  /\ IsFiniteSet(Runs(g)) /\ Cardinality(Runs(g)) \in 0..Cardinality(Threads)
         /\ IsFiniteSet(Runs(g)') /\ Cardinality(Runs(g)') \in 0..Cardinality(Threads)
<1>1. Runs(g) \subseteq Threads /\ Runs(g)' \subseteq Threads
  BY DEF Runs
<1> QED  BY <1>1, FiniteThreads, FS_Subset, FS_CardinalityType

(* What the registry and the commands hold is in memory.                      *)
LEMMA EntriesMapped ==
  ASSUME HostInv, NEW n \in Names
  PROVE  /\ entries[n] \in Handlers => entries[n] \in MadeHandlers /\ entries[n].inst \in mapped
         /\ commands[n] # None => commands[n] \in MadeHandlers /\ commands[n].inst \in mapped
<1>1. ASSUME entries[n] \in Handlers
      PROVE  entries[n] \in MadeHandlers /\ entries[n].inst \in mapped
  <2>1. entries[n] \in MadeHandlers
    BY <1>1, HostAssumption DEF HostInv, HostShape, Handlers, Modules
  <2>2. entries[n].inst \in Nat \ {0} /\ Owner(entries[n].inst) \in Plugins
    BY <2>1, HandlerFacts
  <2>3. CASE n \in actionNames[Owner(entries[n].inst)]
    BY <2>2, <2>3 DEF HostInv, NamesAreOwn, GateOfPlugin, NoGate
  <2>4. CASE ui.pc = "noting" /\ ui.name = n
    <3>1. entries[n] = ui.handler /\ InHand = ui.handler.inst
      BY <2>4 DEF HostInv, NamesAreOwn, InHand
    <3> QED  BY <3>1, <2>1, <2>4 DEF HostInv, GateOfPlugin
  <2>5. CASE ui.pc = "removing" /\ n \in ui.names
    BY <2>5 DEF HostInv, NamesAreOwn, GateOfPlugin, InHand
  <2> QED  BY <2>1, <2>3, <2>4, <2>5 DEF HostInv, AllAreNoted
<1>2. ASSUME commands[n] # None
      PROVE  commands[n] \in MadeHandlers /\ commands[n].inst \in mapped
  <2>1. commands[n] \in MadeHandlers
    BY <1>2 DEF HostInv, HostShape
  <2>2. commands[n].inst \in Nat \ {0} /\ Owner(commands[n].inst) \in Plugins
    BY <2>1, HandlerFacts
  <2>3. n \in commandNames[Owner(commands[n].inst)]
    BY <1>2 DEF HostInv, AllAreNoted
  <2> QED  BY <2>1, <2>2, <2>3 DEF HostInv, NamesAreOwn, GateOfPlugin, NoGate
<1> QED  BY <1>1, <1>2

-----------------------------------------------------------------------------
LEMMA InitHostInv == HostInit => HostInv
<1> SUFFICES ASSUME HostInit PROVE HostInv
  OBVIOUS
<1> USE DEF HostInit
<1>0. Len(loads) = 0 /\ Made = {} /\ \A n : commands[n] = None \/ n \notin Names
  BY DEF Made
<1>1. MadeHandlers = {}
  BY <1>0 DEF MadeHandlers
<1>2. HostShape
  <2>1. entries \in [Names -> {Axiom, None}] /\ commands \in [Names -> {None}]
    BY DEF HostInit
  <2>2. gate \in [Modules -> [accepting : BOOLEAN, active : 0..Cardinality(Threads)]]
    BY FiniteThreads, FS_CardinalityType
  <2>3. callbackGates \in [Plugins -> 0..MaxLoads] /\ modules \in [Plugins -> 0..MaxLoads]
    BY HostAssumption DEF NoGate
  <2> QED  BY <2>1, <2>2, <2>3, <1>1, HostAssumption DEF HostShape, HostTypeOK, Made
<1>3. UiShape /\ CallShape /\ GateOfPlugin
  BY DEF UiShape, CallShape, GateOfPlugin, NotCalling
<1>4. NamesAreOwn
  BY DEF NamesAreOwn, NotCalling
<1>5. AllAreNoted
  BY <1>1 DEF AllAreNoted, NotCalling
<1>6. Leases
  <2>1. \A g \in Modules : Runs(g) = {}
    BY DEF Runs, NotCalling
  <2> QED  BY <2>1, FS_EmptySet DEF Leases, NotCalling
<1> QED  BY <1>2, <1>3, <1>4, <1>5, <1>6 DEF HostInv

-----------------------------------------------------------------------------
(* The loader.                                                                *)
LEMMA LoadLibraryInv ==
  ASSUME HostInv, NEW p \in Plugins, LoadLibrary(p)
  PROVE  HostInv'
<1> USE DEF HostInv
<1> DEFINE new == Len(loads) + 1
<1>1. /\ ui = NotCalling /\ ui.pc = "idle" /\ modules[p] = 0 /\ callbackGates[p] = NoGate
  BY DEF LoadLibrary, UiFree, UiShape, GateOfPlugin, NotCalling
<1>2. /\ loads' = Append(loads, p) /\ mapped' = mapped \union {new}
      /\ ui' = [pc |-> "mapped", plugin |-> p, inst |-> new]
      /\ UNCHANGED <<entries, commands, actionNames, commandNames, callbackGates, gate,
                     modules, call>>
  BY DEF LoadLibrary, registered
<1>3. /\ Len(loads) \in Nat /\ new <= MaxLoads /\ loads' \in Seq(Plugins)
      /\ Made' = Made \union {new} /\ new \notin Made /\ new \in Modules /\ new \in Nat \ {0}
      /\ Len(loads') = new
  BY <1>2, HostAssumption DEF LoadLibrary, HostShape, Made, Modules
<1>4. /\ \A i \in Made : loads'[i] = loads[i]
      /\ loads'[new] = p
  BY <1>2 DEF HostShape, Made
<1>5. MadeHandlers \subseteq MadeHandlers'
  BY <1>3 DEF MadeHandlers
<1>6. \A n \in Names : entries[n] \in MadeHandlers' => entries[n] \in MadeHandlers
  BY EntriesMapped DEF MadeHandlers
<1>7. InHand' = new
  BY <1>2 DEF InHand
<1> HIDE DEF new
<1>8. HostShape'
  BY <1>2, <1>3, <1>5 DEF HostShape, HostTypeOK
<1>9. UiShape'
  BY <1>2, <1>3 DEF UiShape
<1>10. CallShape'
  BY <1>2, <1>5 DEF CallShape
<1>11. GateOfPlugin'
  <2>1. \A q \in Plugins : callbackGates[q] # NoGate => callbackGates[q] \in Made
    BY DEF GateOfPlugin, HostShape
  <2> QED  BY <2>1, <1>1, <1>2, <1>3, <1>4, <1>7 DEF GateOfPlugin, Owner
<1>12. NamesAreOwn'
  BY <1>2, <1>5 DEF NamesAreOwn
<1>13. AllAreNoted'
  <2>1. \A n \in Names : commands[n] # None => commands[n].inst \in Made
    BY EntriesMapped, HandlerFacts
  <2>2. \A n \in Names : entries[n] \in MadeHandlers => entries[n].inst \in Made
    BY HandlerFacts
  <2> QED  BY <2>1, <2>2, <1>4, <1>1, <1>2, <1>6 DEF AllAreNoted, Owner
<1>14. Leases'
  <2>1. \A t \in Threads : call[t] # NotCalling => call[t].handler.inst \in Made
    BY HandlerFacts DEF CallShape
  <2> QED  BY <2>1, <1>2, <1>3 DEF Leases, Runs
<1> QED  BY <1>8, <1>9, <1>10, <1>11, <1>12, <1>13, <1>14

LEMMA DescriptorRejectedInv == HostInv /\ DescriptorRejected => HostInv'
<1> SUFFICES ASSUME HostInv, DescriptorRejected PROVE HostInv'
  OBVIOUS
<1> USE DEF HostInv
<1>1. /\ ui.pc = "mapped" /\ ui.plugin \in Plugins /\ ui.inst \in Made /\ InHand = ui.inst
  BY DEF DescriptorRejected, UiShape, NotCalling, InHand
<1>2. /\ mapped' = mapped \ {ui.inst} /\ ui' = NotCalling /\ ui'.pc = "idle"
      /\ UNCHANGED <<loads, entries, commands, actionNames, commandNames, callbackGates, gate,
                     modules, call>>
      /\ Made' = Made /\ MadeHandlers' = MadeHandlers
  BY SameLoads DEF DescriptorRejected, registered, NotCalling
<1>3. HostShape'
  BY <1>2 DEF HostShape, HostTypeOK
<1>4. UiShape' /\ CallShape'
  BY <1>2 DEF UiShape, CallShape
<1>5. \A p \in Plugins : callbackGates[p] # NoGate => callbackGates[p] # ui.inst /\ p # ui.plugin
  BY <1>1 DEF GateOfPlugin
<1>6. GateOfPlugin'
  BY <1>1, <1>2, <1>5 DEF GateOfPlugin, Owner
<1>7. NamesAreOwn' /\ AllAreNoted'
  BY <1>1, <1>2 DEF NamesAreOwn, AllAreNoted, Owner
<1>8. Leases'
  BY <1>1, <1>2 DEF Leases, Runs, NotCalling
<1> QED  BY <1>3, <1>4, <1>6, <1>7, <1>8

LEMMA OpenScopeInv == HostInv /\ OpenScope => HostInv'
<1> SUFFICES ASSUME HostInv, OpenScope PROVE HostInv'
  OBVIOUS
<1> USE DEF HostInv
<1> DEFINE h == [inst |-> ui.inst, gate |-> ui.inst]
<1>1. /\ ui.pc = "mapped" /\ ui.plugin \in Plugins /\ ui.inst \in Made /\ InHand = ui.inst
      /\ callbackGates[ui.plugin] = NoGate /\ modules[ui.plugin] = 0
      /\ ui.inst \in mapped /\ Owner(ui.inst) = ui.plugin
  BY DEF OpenScope, UiShape, NotCalling, InHand, GateOfPlugin
<1>2. /\ callbackGates' = [callbackGates EXCEPT ![ui.plugin] = ui.inst]
      /\ gate' = [gate EXCEPT ![ui.inst].accepting = TRUE]
      /\ ui' = [pc |-> "loading", plugin |-> ui.plugin, handler |-> h]
      /\ UNCHANGED <<loads, mapped, entries, commands, actionNames, commandNames, modules, call>>
      /\ Made' = Made /\ MadeHandlers' = MadeHandlers /\ InHand' = ui.inst
  BY <1>1, SameLoads DEF OpenScope, registered, GateFor, InHand
<1>3. h \in MadeHandlers /\ h.inst = ui.inst /\ ui.inst \in Modules /\ ui.inst \in Nat \ {0}
      /\ ui.inst \in 0..MaxLoads
  BY <1>1, HostAssumption DEF MadeHandlers, Handlers, Made, Modules, HostShape
<1> HIDE DEF h
<1>4. HostShape'
  BY <1>1, <1>2, <1>3 DEF HostShape, HostTypeOK
<1>5. UiShape' /\ CallShape'
  BY <1>1, <1>2, <1>3 DEF UiShape, CallShape
<1>6. GateOfPlugin'
  BY <1>1, <1>2, <1>3 DEF GateOfPlugin, Owner, HostShape, HostTypeOK, NoGate
<1>7. NamesAreOwn'
  <2>1. actionNames[ui.plugin] = {} /\ commandNames[ui.plugin] = {}
    BY <1>1, HandlerFacts DEF NamesAreOwn, NoGate
  <2> QED  BY <2>1, <1>1, <1>2 DEF NamesAreOwn, HostShape, HostTypeOK
<1>8. AllAreNoted'
  BY <1>1, <1>2 DEF AllAreNoted, Owner
<1>9. Leases'
  <2>1. \A g \in Modules : gate'[g].active = gate[g].active
    BY <1>2, <1>3 DEF HostShape, HostTypeOK
  <2>2. \A g \in Modules : g # ui.inst => gate'[g] = gate[g]
    BY <1>2, <1>3 DEF HostShape, HostTypeOK
  <2>3. \A t \in Threads : call[t].pc = "resolved" =>
          call[t].handler.inst \in Modules /\ call[t].handler.inst # ui.inst
    BY <1>1, HandlerFacts DEF Leases, CallShape, NotCalling
  <2> QED  BY <2>1, <2>2, <2>3, <1>1, <1>2 DEF Leases, Runs
<1> QED  BY <1>4, <1>5, <1>6, <1>7, <1>8, <1>9

LEMMA RegisterActionInv ==
  ASSUME HostInv, NEW n \in Names, RegisterAction(n)
  PROVE  HostInv'
<1> USE DEF HostInv
<1>1. /\ ui.pc = "loading" /\ ui.plugin \in Plugins /\ ui.handler \in MadeHandlers
      /\ InHand = ui.handler.inst /\ entries[n] = None
  BY DEF RegisterAction, UiShape, NotCalling, InHand, Unregistered
<1>2. /\ entries' = [entries EXCEPT ![n] = ui.handler]
      /\ ui' = [pc |-> "noting", plugin |-> ui.plugin, handler |-> ui.handler, name |-> n]
      /\ UNCHANGED <<loads, mapped, commands, actionNames, commandNames, callbackGates, gate,
                     modules, call>>
      /\ Made' = Made /\ MadeHandlers' = MadeHandlers /\ InHand' = InHand
  BY <1>1, SameLoads DEF RegisterAction, InHand
<1>3. None \notin MadeHandlers
  BY HandlerFacts
<1>4. HostShape'
  BY <1>1, <1>2 DEF HostShape, HostTypeOK, MadeHandlers
<1>5. UiShape' /\ CallShape'
  BY <1>1, <1>2 DEF UiShape, CallShape
<1>6. GateOfPlugin'
  BY <1>1, <1>2 DEF GateOfPlugin, Owner
<1>7. NamesAreOwn'
  <2>1. \A p \in Plugins : \A m \in actionNames[p] : m \in Names /\ m # n
    BY <1>1, <1>3 DEF NamesAreOwn, HostShape, HostTypeOK
  <2> QED  BY <2>1, <1>1, <1>2 DEF NamesAreOwn, HostShape, HostTypeOK
<1>8. AllAreNoted'
  BY <1>1, <1>2 DEF AllAreNoted, Owner, HostShape, HostTypeOK
<1>9. Leases'
  BY <1>1, <1>2 DEF Leases, Runs
<1> QED  BY <1>4, <1>5, <1>6, <1>7, <1>8, <1>9

LEMMA NoteActionInv == HostInv /\ NoteAction => HostInv'
<1> SUFFICES ASSUME HostInv, NoteAction PROVE HostInv'
  OBVIOUS
<1> USE DEF HostInv
<1>1. /\ ui.plugin \in Plugins /\ ui.handler \in MadeHandlers /\ ui.name \in Names
      /\ ui.pc = "noting" /\ InHand = ui.handler.inst
  BY DEF NoteAction, UiShape, NotCalling, InHand
<1>2. /\ ui' = [pc |-> "loading", plugin |-> ui.plugin, handler |-> ui.handler]
      /\ InHand' = InHand /\ Made' = Made /\ MadeHandlers' = MadeHandlers
      /\ actionNames' = [actionNames EXCEPT ![ui.plugin] = @ \union {ui.name}]
      /\ UNCHANGED <<loads, mapped, entries, commands, commandNames, callbackGates, gate,
                     modules, call>>
  BY <1>1, SameLoads DEF NoteAction, InHand
<1>3. HostShape'
  BY <1>1, <1>2 DEF HostShape, HostTypeOK
<1>4. UiShape' /\ CallShape'
  BY <1>1, <1>2 DEF UiShape, CallShape
<1>5. GateOfPlugin'
  BY <1>1, <1>2 DEF GateOfPlugin, Owner
<1>6. actionNames \in [Plugins -> SUBSET Names]
  BY DEF HostShape, HostTypeOK
<1>7. /\ callbackGates[ui.plugin] = ui.handler.inst /\ entries[ui.name] = ui.handler
      /\ Owner(ui.handler.inst) = ui.plugin
  BY <1>1 DEF GateOfPlugin, NamesAreOwn
<1>8. NamesAreOwn'
  BY <1>1, <1>2, <1>6, <1>7 DEF NamesAreOwn
<1>9. AllAreNoted'
  BY <1>1, <1>2, <1>6, <1>7 DEF AllAreNoted, Owner
<1>10. Leases'
  BY <1>1, <1>2 DEF Leases, Runs
<1> QED  BY <1>3, <1>4, <1>5, <1>8, <1>9, <1>10

LEMMA RegisterCommandInv ==
  ASSUME HostInv, NEW n \in Names, RegisterCommand(n)
  PROVE  HostInv'
<1> USE DEF HostInv
<1>1. /\ ui.pc = "loading" /\ ui.plugin \in Plugins /\ ui.handler \in MadeHandlers
      /\ InHand = ui.handler.inst /\ commands[n] = None
  BY DEF RegisterCommand, UiShape, NotCalling, InHand
<1>2. /\ commands' = [commands EXCEPT ![n] = ui.handler]
      /\ commandNames' = [commandNames EXCEPT ![ui.plugin] = @ \union {n}]
      /\ UNCHANGED <<loads, mapped, entries, actionNames, callbackGates, gate, modules, ui, call>>
      /\ Made' = Made /\ MadeHandlers' = MadeHandlers /\ InHand' = InHand
  BY <1>1, SameLoads DEF RegisterCommand, InHand
<1>3. None \notin MadeHandlers
  BY HandlerFacts
<1>4. HostShape'
  BY <1>1, <1>2 DEF HostShape, HostTypeOK, MadeHandlers
<1>5. UiShape' /\ CallShape'
  BY <1>1, <1>2 DEF UiShape, CallShape
<1>6. GateOfPlugin'
  BY <1>1, <1>2 DEF GateOfPlugin, Owner
<1>7. callbackGates[ui.plugin] = ui.handler.inst /\ Owner(ui.handler.inst) = ui.plugin
  BY <1>1 DEF GateOfPlugin
<1>8. NamesAreOwn'
  <2>1. \A p \in Plugins : \A m \in commandNames[p] : m \in Names /\ m # n
    BY <1>1, <1>3 DEF NamesAreOwn, HostShape, HostTypeOK
  <2> QED  BY <2>1, <1>1, <1>2, <1>7 DEF NamesAreOwn, HostShape, HostTypeOK
<1>9. AllAreNoted'
  BY <1>1, <1>2, <1>7 DEF AllAreNoted, Owner, HostShape, HostTypeOK
<1>10. Leases'
  BY <1>1, <1>2 DEF Leases, Runs
<1> QED  BY <1>4, <1>5, <1>6, <1>8, <1>9, <1>10

LEMMA LoadAcceptedInv == HostInv /\ LoadAccepted => HostInv'
<1> SUFFICES ASSUME HostInv, LoadAccepted PROVE HostInv'
  OBVIOUS
<1> USE DEF HostInv
<1>1. /\ ui.pc = "loading" /\ ui.plugin \in Plugins /\ ui.handler \in MadeHandlers
      /\ InHand = ui.handler.inst
  BY DEF LoadAccepted, UiShape, NotCalling, InHand
<1>2. /\ modules' = [modules EXCEPT ![ui.plugin] = ui.handler.inst]
      /\ ui' = NotCalling /\ ui'.pc = "idle"
      /\ UNCHANGED <<loads, mapped, entries, commands, actionNames, commandNames,
                     callbackGates, gate, call>>
      /\ Made' = Made /\ MadeHandlers' = MadeHandlers
  BY <1>1, SameLoads DEF LoadAccepted, registered, NotCalling
<1>3. ui.handler.inst \in 0..MaxLoads /\ callbackGates[ui.plugin] = ui.handler.inst
  BY <1>1, HandlerFacts, HostAssumption DEF GateOfPlugin, Modules
<1>4. HostShape'
  BY <1>1, <1>2, <1>3 DEF HostShape, HostTypeOK
<1>5. UiShape' /\ CallShape'
  BY <1>2 DEF UiShape, CallShape
<1>6. GateOfPlugin'
  BY <1>1, <1>2, <1>3 DEF GateOfPlugin, Owner, HostShape, HostTypeOK, NoGate
<1>7. NamesAreOwn' /\ AllAreNoted'
  BY <1>1, <1>2 DEF NamesAreOwn, AllAreNoted, Owner
<1>8. Leases'
  BY <1>1, <1>2 DEF Leases, Runs
<1> QED  BY <1>4, <1>5, <1>6, <1>7, <1>8

(* A rejected load and an unload begin alike.                                 *)
BeginsToLeave(p, i) ==
  /\ \/ ui.pc = "idle" /\ modules[p] = i
     \/ ui.pc = "loading" /\ ui.plugin = p /\ InHand = i
  /\ ui' = Leaving(p, i)
  /\ UNCHANGED <<loads, mapped, registered, callbackGates, gate, modules, call>>

LEMMA LeavingInv ==
  ASSUME HostInv, NEW p \in Plugins, NEW i \in Made, BeginsToLeave(p, i)
  PROVE  HostInv'
<1> USE DEF HostInv, BeginsToLeave
<1>1. /\ ui'.pc = "leaving" /\ ui'.plugin = p /\ ui'.inst = i /\ ui'.names = {}
      /\ InHand' = i /\ Made' = Made /\ MadeHandlers' = MadeHandlers
      /\ UNCHANGED <<loads, mapped, entries, commands, actionNames, commandNames,
                     callbackGates, gate, modules, call>>
  BY SameLoads DEF Leaving, InHand, registered
<1>2. HostShape' /\ CallShape'
  BY <1>1 DEF HostShape, HostTypeOK, CallShape
<1>3. UiShape'
  BY <1>1 DEF UiShape, Leaving
<1>4. GateOfPlugin'
  <2>1. callbackGates[p] = i /\ i # NoGate /\ callbackGates[p] \in mapped /\ Owner(i) = p
    BY DEF GateOfPlugin, Made, NoGate
  <2> QED  BY <2>1, <1>1 DEF GateOfPlugin, Owner
<1>5. NamesAreOwn' /\ AllAreNoted'
  BY <1>1 DEF NamesAreOwn, AllAreNoted, Owner
<1>6. Leases'
  BY <1>1 DEF Leases, Runs
<1> QED  BY <1>2, <1>3, <1>4, <1>5, <1>6

LEMMA LoadRejectedInv == HostInv /\ LoadRejected => HostInv'
<1> SUFFICES ASSUME HostInv, LoadRejected PROVE HostInv'
  OBVIOUS
<1>1. /\ ui.pc = "loading" /\ ui.plugin \in Plugins /\ ui.handler.inst \in Made
      /\ InHand = ui.handler.inst
  BY HandlerFacts DEF HostInv, LoadRejected, UiShape, NotCalling, InHand
<1>2. BeginsToLeave(ui.plugin, ui.handler.inst)
  BY <1>1 DEF LoadRejected, BeginsToLeave
<1> QED  BY <1>1, <1>2, LeavingInv

LEMMA UnloadInv ==
  ASSUME HostInv, NEW p \in Plugins, Unload(p)
  PROVE  HostInv'
<1>1. ui.pc = "idle" /\ modules[p] # 0
  BY DEF Unload, UiFree
<1>2. modules[p] \in Made
  BY <1>1 DEF HostInv, GateOfPlugin, HostShape, HostTypeOK, NoGate
<1>3. BeginsToLeave(p, modules[p])
  BY <1>1 DEF Unload, BeginsToLeave
<1> QED  BY <1>2, <1>3, LeavingInv

(* What is known of a plugin that leaves.                                     *)
LEMMA LeavingFacts ==
  ASSUME HostInv, ui.pc \in {"leaving", "removing", "freeing"}
  PROVE  /\ ui \in [pc : {"leaving", "removing", "freeing"}, plugin : Plugins, inst : Made,
                    names : SUBSET Names]
         /\ InHand = ui.inst /\ ui.inst \in mapped /\ Owner(ui.inst) = ui.plugin
         /\ ui.inst \in Modules /\ ui.inst # NoGate
         /\ ui.pc # "freeing" => callbackGates[ui.plugin] = ui.inst
         /\ \A p \in Plugins : callbackGates[p] = ui.inst => p = ui.plugin
<1>1. /\ ui \in [pc : {"leaving", "removing", "freeing"}, plugin : Plugins, inst : Made,
                 names : SUBSET Names]
      /\ InHand = ui.inst
  BY DEF HostInv, UiShape, NotCalling, InHand
<1>2. ui.inst \in Modules /\ ui.inst # NoGate
  BY <1>1, HostAssumption DEF HostInv, HostShape, Made, Modules, NoGate
<1> QED  BY <1>1, <1>2 DEF HostInv, GateOfPlugin

LEMMA CloseGateInv == HostInv /\ CloseGate => HostInv'
<1> SUFFICES ASSUME HostInv, CloseGate PROVE HostInv'
  OBVIOUS
<1> USE DEF HostInv
<1> DEFINE p == ui.plugin  i == ui.inst
<1>1. /\ ui.pc = "leaving" /\ p \in Plugins /\ i \in Made /\ i \in Modules /\ i # NoGate
      /\ callbackGates[p] = i /\ Owner(i) = p /\ i \in mapped /\ InHand = i
  BY LeavingFacts DEF CloseGate
<1>2. /\ gate' = [gate EXCEPT ![i].accepting = FALSE]
      /\ commands' = [n \in Names |-> IF n \in commandNames[p] THEN None ELSE commands[n]]
      /\ commandNames' = [commandNames EXCEPT ![p] = {}]
      /\ actionNames' = [actionNames EXCEPT ![p] = {}]
      /\ UNCHANGED <<loads, mapped, entries, callbackGates, modules, call>>
      /\ Made' = Made /\ MadeHandlers' = MadeHandlers
  BY <1>1, SameLoads DEF CloseGate
<1>3. /\ ui' \in [pc : {"removing"}, plugin : Plugins, inst : Made, names : SUBSET Names]
      /\ ui'.plugin = p /\ ui'.inst = i /\ ui'.names = actionNames[p] /\ InHand' = i
  BY <1>1, LeavingFacts DEF CloseGate, InHand, HostShape, HostTypeOK
<1>4. HostShape'
  BY <1>1, <1>2 DEF HostShape, HostTypeOK
<1>5. UiShape' /\ CallShape'
  BY <1>2, <1>3 DEF UiShape, CallShape
<1>6. GateOfPlugin'
  BY <1>1, <1>2, <1>3 DEF GateOfPlugin, Owner
<1>7. NamesAreOwn'
  <2>1. \A q \in Plugins : q # p => callbackGates[q] # i
    BY <1>1, LeavingFacts
  <2>2. \A q \in Plugins : q # p => \A n \in commandNames[q] :
          n \in Names /\ n \notin commandNames[p]
    BY <2>1, <1>1 DEF NamesAreOwn, HostShape, HostTypeOK
  <2> QED  BY <2>1, <2>2, <1>1, <1>2, <1>3 DEF NamesAreOwn, HostShape, HostTypeOK
<1>8. AllAreNoted'
  <2>1. \A n \in Names : commands'[n] # None =>
          commands'[n] = commands[n] /\ n \in commandNames[Owner(commands[n].inst)]
          /\ n \notin commandNames[p]
    BY <1>2 DEF AllAreNoted
  <2>2. \A n \in Names : commands'[n] # None =>
          n \in commandNames'[Owner(commands[n].inst)]
    BY <2>1, <1>2 DEF HostShape, HostTypeOK
  <2>3. \A n \in Names : entries[n] \in MadeHandlers =>
          n \in actionNames'[Owner(entries[n].inst)] \/ n \in actionNames[p]
    BY <1>1, <1>2 DEF AllAreNoted, HostShape, HostTypeOK
  <2> QED  BY <2>1, <2>2, <2>3, <1>1, <1>2, <1>3 DEF AllAreNoted, Owner, HostShape, HostTypeOK
<1>9. Leases'
  <2>1. /\ \A g \in Modules : gate'[g].active = gate[g].active
        /\ \A g \in Modules : gate'[g].accepting => gate[g].accepting
        /\ ~gate'[i].accepting
    BY <1>1, <1>2 DEF HostShape, HostTypeOK
  <2>2. \A t \in Threads : call[t].pc = "resolved" => call[t].handler.inst \in Modules
    BY HandlerFacts DEF CallShape, NotCalling
  <2> QED  BY <2>1, <2>2, <1>1, <1>2, <1>3 DEF Leases, Runs
<1> QED  BY <1>4, <1>5, <1>6, <1>7, <1>8, <1>9

LEMMA RemoveActionInv == HostInv /\ RemoveAction => HostInv'
<1> SUFFICES ASSUME HostInv, RemoveAction PROVE HostInv'
  OBVIOUS
<1> USE DEF HostInv
<1>1. /\ ui.pc = "removing" /\ ui.plugin \in Plugins /\ ui.inst \in Made /\ InHand = ui.inst
      /\ callbackGates[ui.plugin] = ui.inst
  BY LeavingFacts DEF RemoveAction
<1>2. PICK n \in ui.names : /\ entries' = [entries EXCEPT ![n] = None]
                            /\ ui' = [ui EXCEPT !.names = @ \ {n}]
  BY DEF RemoveAction
<1>3. /\ UNCHANGED <<loads, mapped, commands, actionNames, commandNames, callbackGates, gate,
                     modules, call>>
      /\ Made' = Made /\ MadeHandlers' = MadeHandlers /\ n \in Names
  BY <1>1, SameLoads, LeavingFacts DEF RemoveAction
<1>4. /\ ui' \in [pc : {"removing"}, plugin : Plugins, inst : Made, names : SUBSET Names]
      /\ ui'.plugin = ui.plugin /\ ui'.inst = ui.inst /\ ui'.names = ui.names \ {n}
      /\ InHand' = ui.inst
  BY <1>1, <1>2, LeavingFacts DEF InHand
<1>5. None \notin MadeHandlers
  BY HandlerFacts
<1>6. HostShape'
  BY <1>2, <1>3 DEF HostShape, HostTypeOK
<1>7. UiShape' /\ CallShape'
  BY <1>3, <1>4 DEF UiShape, CallShape
<1>8. GateOfPlugin'
  BY <1>1, <1>3, <1>4 DEF GateOfPlugin, Owner
<1>9. NamesAreOwn'
  <2>1. entries[n].inst = ui.inst
    BY <1>1 DEF NamesAreOwn
  <2>2. \A p \in Plugins : n \notin actionNames[p]
    BY <2>1, <1>1, LeavingFacts DEF NamesAreOwn, AllAreNoted
  <2>3. \A m \in Names : m # n => entries'[m] = entries[m]
    BY <1>2 DEF HostShape
  <2>4. \A p \in Plugins : \A m \in actionNames[p] : entries'[m] = entries[m]
    BY <2>2, <2>3 DEF HostShape, HostTypeOK
  <2>5. \A m \in ui'.names : m \in ui.names /\ entries'[m] = entries[m]
    BY <2>3, <1>4
  <2> QED  BY <2>4, <2>5, <1>1, <1>3, <1>4 DEF NamesAreOwn
<1>10. AllAreNoted'
  BY <1>1, <1>2, <1>3, <1>4, <1>5 DEF AllAreNoted, Owner, HostShape
<1>11. Leases'
  BY <1>1, <1>3, <1>4 DEF Leases, Runs
<1> QED  BY <1>6, <1>7, <1>8, <1>9, <1>10, <1>11

LEMMA AwaitCallbacksInv == HostInv /\ AwaitCallbacks => HostInv'
<1> SUFFICES ASSUME HostInv, AwaitCallbacks PROVE HostInv'
  OBVIOUS
<1> USE DEF HostInv
<1>1. /\ ui.pc = "removing" /\ ui.plugin \in Plugins /\ ui.inst \in Made /\ InHand = ui.inst
      /\ callbackGates[ui.plugin] = ui.inst /\ ui.names = {} /\ gate[ui.inst].active = 0
  BY LeavingFacts DEF AwaitCallbacks, NoLease
<1>2. /\ callbackGates' = [callbackGates EXCEPT ![ui.plugin] = NoGate]
      /\ UNCHANGED <<loads, mapped, entries, commands, actionNames, commandNames, gate,
                     modules, call>>
      /\ Made' = Made /\ MadeHandlers' = MadeHandlers
  BY SameLoads DEF AwaitCallbacks, registered
<1>3. /\ ui' \in [pc : {"freeing"}, plugin : Plugins, inst : Made, names : SUBSET Names]
      /\ ui'.plugin = ui.plugin /\ ui'.inst = ui.inst /\ ui'.names = {} /\ InHand' = ui.inst
  BY <1>1, LeavingFacts DEF AwaitCallbacks, InHand
<1>4. HostShape'
  <2>1. callbackGates' \in [Plugins -> 0..MaxLoads]
    BY <1>2, LoadsBound DEF HostShape, HostTypeOK
  <2> QED  BY <2>1, <1>2 DEF HostShape, HostTypeOK
<1>5. UiShape' /\ CallShape'
  BY <1>2, <1>3 DEF UiShape, CallShape
<1>6. GateOfPlugin'
  BY <1>1, <1>2, <1>3 DEF GateOfPlugin, Owner, HostShape, HostTypeOK
<1>7. NamesAreOwn'
  BY <1>1, <1>2, <1>3 DEF NamesAreOwn, AllAreNoted, HostShape, HostTypeOK
<1>8. AllAreNoted'
  BY <1>1, <1>2, <1>3 DEF AllAreNoted, Owner
<1>9. Leases'
  BY <1>1, <1>2, <1>3 DEF Leases, Runs
<1> QED  BY <1>4, <1>5, <1>6, <1>7, <1>8, <1>9

(* Nothing runs, waits to run or is registered of a module that is freed.     *)
LEMMA NothingOfIt ==
  ASSUME HostInv, ui.pc = "freeing"
  PROVE  /\ \A t \in Threads : call[t].pc = "running" => call[t].handler.inst # ui.inst
         /\ \A t \in Threads : call[t].pc = "resolved" /\ gate[call[t].handler.inst].accepting
              => call[t].handler.inst # ui.inst
         /\ \A p \in Plugins : callbackGates[p] # ui.inst
         /\ \A n \in Names : entries[n] \in Handlers => entries[n].inst # ui.inst
<1> USE DEF HostInv
<1>1. /\ callbackGates[ui.plugin] = NoGate /\ ui.plugin \in Plugins /\ ui.inst # NoGate
      /\ ui.inst \in Modules
  BY LeavingFacts DEF GateOfPlugin
<1>2. \A p \in Plugins : callbackGates[p] # ui.inst
  BY <1>1, LeavingFacts
<1>3. Runs(ui.inst) = {}
  BY <1>1, RunsFinite, FS_EmptySet DEF Leases
<1>4. \A t \in Threads : call[t].pc = "running" => call[t].handler.inst # ui.inst
  BY <1>3, HandlerFacts DEF Runs, CallShape, NotCalling
<1>5. \A t \in Threads : call[t].pc = "resolved" /\ gate[call[t].handler.inst].accepting
        => call[t].handler.inst # ui.inst
  BY DEF Leases
<1>6. \A n \in Names : entries[n] \in Handlers => entries[n].inst # ui.inst
  <2> SUFFICES ASSUME NEW n \in Names, entries[n] \in Handlers
               PROVE  entries[n].inst # ui.inst
    OBVIOUS
  <2>1. entries[n] \in MadeHandlers /\ Owner(entries[n].inst) \in Plugins
    BY EntriesMapped, HandlerFacts
  <2>2. entries[n].inst = callbackGates[Owner(entries[n].inst)]
    BY <2>1 DEF AllAreNoted, NamesAreOwn
  <2> QED  BY <2>1, <2>2, <1>2
<1> QED  BY <1>2, <1>4, <1>5, <1>6

LEMMA FreeLibraryInv == HostInv /\ FreeLibrary => HostInv'
<1> SUFFICES ASSUME HostInv, FreeLibrary PROVE HostInv'
  OBVIOUS
<1> USE DEF HostInv
<1>1. ui.pc = "freeing" /\ ui.plugin \in Plugins /\ callbackGates[ui.plugin] = NoGate
  BY LeavingFacts DEF FreeLibrary, GateOfPlugin
<1>2. /\ mapped' = mapped \ {ui.inst} /\ modules' = [modules EXCEPT ![ui.plugin] = 0]
      /\ ui' = NotCalling /\ ui'.pc = "idle"
      /\ UNCHANGED <<loads, entries, commands, actionNames, commandNames, callbackGates, gate,
                     call>>
      /\ Made' = Made /\ MadeHandlers' = MadeHandlers
  BY SameLoads DEF FreeLibrary, registered, NotCalling
<1>3. HostShape'
  <2>1. modules' \in [Plugins -> 0..MaxLoads]
    BY <1>2, LoadsBound DEF HostShape, HostTypeOK
  <2> QED  BY <2>1, <1>2 DEF HostShape, HostTypeOK
<1>4. UiShape' /\ CallShape'
  BY <1>2 DEF UiShape, CallShape
<1>5. GateOfPlugin'
  BY <1>1, <1>2, NothingOfIt DEF GateOfPlugin, Owner, HostShape, HostTypeOK
<1>6. NamesAreOwn' /\ AllAreNoted'
  BY <1>1, <1>2 DEF NamesAreOwn, AllAreNoted, Owner
<1>7. Leases'
  BY <1>1, <1>2, NothingOfIt DEF Leases, Runs
<1> QED  BY <1>3, <1>4, <1>5, <1>6, <1>7

-----------------------------------------------------------------------------
(* The calls into plugins, which the loader does not see.                     *)
LEMMA CallsOnly ==
  ASSUME HostInv, UNCHANGED <<loads, mapped, registered, callbackGates, modules, ui>>
  PROVE  /\ UiShape' /\ GateOfPlugin' /\ NamesAreOwn' /\ AllAreNoted'
         /\ MadeHandlers' = MadeHandlers
         /\ gate' \in [Modules -> [accepting : BOOLEAN, active : 0..Cardinality(Threads)]]
              => HostShape'
<1>1. /\ UNCHANGED <<loads, mapped, entries, commands, actionNames, commandNames,
                     callbackGates, modules, ui>>
      /\ Made' = Made /\ MadeHandlers' = MadeHandlers
  BY SameLoads DEF registered
<1>2. UiShape'
  BY <1>1 DEF HostInv, UiShape
<1>3. GateOfPlugin'
  BY <1>1 DEF HostInv, GateOfPlugin, Owner, InHand
<1>4. NamesAreOwn' /\ AllAreNoted'
  BY <1>1 DEF HostInv, NamesAreOwn, AllAreNoted, Owner
<1>5. gate' \in [Modules -> [accepting : BOOLEAN, active : 0..Cardinality(Threads)]]
        => HostShape'
  BY <1>1 DEF HostInv, HostShape, HostTypeOK
<1> QED  BY <1>1, <1>2, <1>3, <1>4, <1>5

LEMMA ResolveInv ==
  ASSUME HostInv, NEW t \in Threads, NEW h \in MadeHandlers, h.inst \in mapped,
         ui.pc = "mapped" => h.inst # ui.inst,
         call' = [call EXCEPT ![t] = [pc |-> "resolved", handler |-> h]],
         call[t].pc = "idle", UNCHANGED gate,
         UNCHANGED <<loads, mapped, registered, callbackGates, modules, ui>>
  PROVE  HostInv'
<1> USE DEF HostInv
<1>1. UNCHANGED <<mapped, ui>> /\ MadeHandlers' = MadeHandlers
  BY CallsOnly
<1>2. HostShape'
  BY CallsOnly DEF HostShape, HostTypeOK
<1>3. CallShape'
  BY <1>1 DEF CallShape
<1>4. Leases'
  <2>1. /\ call'[t].pc = "resolved" /\ call'[t].handler = h
        /\ \A u \in Threads : u # t => call'[u] = call[u]
    BY DEF CallShape
  <2>2. \A g \in Modules : Runs(g)' = Runs(g)
    BY <2>1 DEF Runs
  <2> QED  BY <2>1, <2>2, <1>1 DEF Leases
<1> QED  BY <1>2, <1>3, <1>4, CallsOnly

(* A module that was just mapped has no entry yet.                            *)
LEMMA NewHasNone ==
  ASSUME HostInv, ui.pc = "mapped", NEW n \in Names
  PROVE  /\ entries[n] \in Handlers => entries[n].inst # ui.inst
         /\ commands[n] # None => commands[n].inst # ui.inst
<1>1. callbackGates[ui.plugin] = NoGate /\ Owner(ui.inst) = ui.plugin
  BY DEF HostInv, GateOfPlugin, InHand
<1>2. ASSUME entries[n] \in Handlers
      PROVE  entries[n].inst # ui.inst
  <2>1. entries[n] \in MadeHandlers /\ n \in actionNames[Owner(entries[n].inst)]
    BY <1>2, EntriesMapped DEF HostInv, AllAreNoted
  <2>2. entries[n].inst = callbackGates[Owner(entries[n].inst)] /\ entries[n].inst # NoGate
    BY <2>1, HandlerFacts DEF HostInv, NamesAreOwn, NoGate
  <2> QED  BY <2>2, <1>1
<1>3. ASSUME commands[n] # None
      PROVE  commands[n].inst # ui.inst
  <2>1. commands[n] \in MadeHandlers /\ n \in commandNames[Owner(commands[n].inst)]
    BY <1>3, EntriesMapped DEF HostInv, AllAreNoted
  <2>2. commands[n].inst = callbackGates[Owner(commands[n].inst)] /\ commands[n].inst # NoGate
    BY <2>1, HandlerFacts DEF HostInv, NamesAreOwn, NoGate
  <2> QED  BY <2>2, <1>1
<1> QED  BY <1>2, <1>3

LEMMA LookUpInv ==
  ASSUME HostInv, NEW t \in Threads, NEW n \in Names, LookUp(t, n)
  PROVE  HostInv'
<1>1. entries[n] \in MadeHandlers /\ entries[n].inst \in mapped
  BY EntriesMapped DEF LookUp
<1>2. ui.pc = "mapped" => entries[n].inst # ui.inst
  BY NewHasNone DEF LookUp
<1> QED  BY <1>1, <1>2, ResolveInv DEF LookUp

LEMMA LookUpCommandInv ==
  ASSUME HostInv, NEW n \in Names, LookUpCommand(n)
  PROVE  HostInv'
<1>1. commands[n] \in MadeHandlers /\ commands[n].inst \in mapped
  BY EntriesMapped DEF LookUpCommand
<1>2. ui.pc = "idle" /\ call["ui"].pc = "idle" /\ "ui" \in Threads
  BY DEF LookUpCommand, UiFree, Threads
<1> QED  BY <1>1, <1>2, ResolveInv DEF LookUpCommand

(* A call takes one step, with or without its lease.                          *)
CallMoves(t, to) ==
  /\ call' = [call EXCEPT ![t] = to]
  /\ UNCHANGED <<loads, mapped, registered, callbackGates, modules, ui>>

LEMMA MoveShape ==
  ASSUME HostInv, NEW t \in Threads, NEW to, CallMoves(t, to), call[t] # NotCalling,
         to \in {NotCalling} \union [pc : {"running", "returned"}, handler : {call[t].handler}]
  PROVE  /\ call[t].handler \in MadeHandlers /\ CallShape'
         /\ call'[t] = to /\ \A u \in Threads : u # t => call'[u] = call[u]
<1>1. call[t].handler \in MadeHandlers /\ MadeHandlers' = MadeHandlers
  BY CallsOnly DEF HostInv, CallShape, CallMoves
<1>2. to \in {NotCalling} \union [pc : {"running", "returned"}, handler : MadeHandlers]
  BY <1>1
<1> QED  BY <1>1, <1>2 DEF HostInv, CallShape, CallMoves

(* ... without a lease taken or given back.                                   *)
LEMMA QuietMoveInv ==
  ASSUME HostInv, NEW t \in Threads, CallMoves(t, NotCalling), UNCHANGED gate,
         call[t].pc \in {"resolved", "returned"}
  PROVE  HostInv'
<1> USE DEF HostInv
<1>1. /\ CallShape' /\ call'[t] = NotCalling /\ call'[t].pc = "idle"
      /\ \A u \in Threads : u # t => call'[u] = call[u]
  BY MoveShape DEF NotCalling
<1>2. HostShape' /\ UNCHANGED <<mapped, ui>>
  BY CallsOnly DEF HostShape, HostTypeOK, CallMoves
<1>3. Leases'
  <2>1. \A g \in Modules : Runs(g)' = Runs(g)
    BY <1>1 DEF Runs
  <2> QED  BY <2>1, <1>1, <1>2 DEF Leases
<1> QED  BY <1>1, <1>2, <1>3, CallsOnly DEF CallMoves

(* ... and with one.                                                          *)
LEMMA LeaseInv ==
  ASSUME HostInv, NEW t \in Threads, NEW to, NEW n \in Int, CallMoves(t, to),
         to \in [pc : {"running", "returned"}, handler : {call[t].handler}],
         gate' = [gate EXCEPT ![call[t].handler.gate].active = n],
         \/ /\ call[t].pc = "resolved" /\ gate[call[t].handler.gate].accepting
            /\ to.pc = "running" /\ n = gate[call[t].handler.gate].active + 1
         \/ /\ call[t].pc = "running"
            /\ to.pc = "returned" /\ n = gate[call[t].handler.gate].active - 1
  PROVE  HostInv'
<1> USE DEF HostInv
<1> DEFINE h == call[t].handler
<1>1. call[t] # NotCalling
  BY DEF NotCalling
<1>2. PICK i \in Modules : i = h.inst /\ i = h.gate
  BY <1>1, MoveShape, HandlerFacts
<1>3. /\ CallShape' /\ call'[t] = to /\ to.handler = h
      /\ \A u \in Threads : u # t => call'[u] = call[u]
  BY <1>1, MoveShape
<1>4. UNCHANGED <<mapped, ui>>
  BY DEF CallMoves
<1>5. /\ \A g \in Modules : gate'[g].accepting = gate[g].accepting
      /\ \A g \in Modules : g # i => gate'[g] = gate[g]
      /\ gate'[i].active = n
  BY <1>2 DEF HostShape, HostTypeOK
<1>6. n = Cardinality(Runs(i)')
  <2>1. /\ gate[i].active = Cardinality(Runs(i)) /\ IsFiniteSet(Runs(i))
        /\ Cardinality(Runs(i)) \in Int
    BY RunsFinite DEF Leases
  <2>2. CASE to.pc = "running"
    <3>1. Runs(i)' = Runs(i) \union {t} /\ t \notin Runs(i)
      BY <2>2, <1>2, <1>3 DEF Runs
    <3>2. Cardinality(Runs(i) \union {t}) = Cardinality(Runs(i)) + 1
      BY <3>1, <2>1, FS_AddElement
    <3> QED  BY <3>1, <3>2, <2>1, <2>2, <1>2
  <2>3. CASE to.pc = "returned"
    <3>1. Runs(i)' = Runs(i) \ {t} /\ t \in Runs(i)
      BY <2>3, <1>2, <1>3 DEF Runs
    <3>2. Cardinality(Runs(i) \ {t}) = Cardinality(Runs(i)) - 1
      BY <3>1, <2>1, FS_RemoveElement
    <3> QED  BY <3>1, <3>2, <2>1, <2>3, <1>2
  <2> QED  BY <2>2, <2>3
<1>7. \A g \in Modules : gate'[g].active = Cardinality(Runs(g)')
  <2>1. ASSUME NEW g \in Modules, g # i
        PROVE  gate'[g].active = Cardinality(Runs(g)')
    <3>1. Runs(g)' = Runs(g)
      BY <2>1, <1>2, <1>3 DEF Runs
    <3> QED  BY <3>1, <2>1, <1>5 DEF Leases
  <2> QED  BY <2>1, <1>5, <1>6
<1>8. HostShape'
  <2>1. n \in 0..Cardinality(Threads)
    BY <1>6, RunsFinite
  <2>2. gate' \in [Modules -> [accepting : BOOLEAN, active : 0..Cardinality(Threads)]]
    BY <2>1, <1>2 DEF HostShape, HostTypeOK
  <2> QED  BY <2>2, CallsOnly DEF CallMoves
<1>9. Leases'
  <2>1. i \in mapped
    BY <1>2 DEF Leases
  <2>2. \A u \in Threads : call'[u].pc = "running" => call'[u].handler.inst \in mapped'
    BY <2>1, <1>2, <1>3, <1>4 DEF Leases
  <2>3. \A u \in Threads : call'[u].pc = "resolved" =>
          call[u].pc = "resolved" /\ call'[u] = call[u] /\ call[u].handler.inst \in Modules
    BY <1>3, HandlerFacts DEF CallShape, NotCalling
  <2>4. \A u \in Threads : call'[u].pc = "resolved" /\ gate'[call'[u].handler.inst].accepting
          => call'[u].handler.inst \in mapped'
    BY <2>3, <1>4, <1>5 DEF Leases
  <2>5. ui.pc = "mapped" => \A u \in Threads :
          call'[u] # NotCalling => call'[u].handler.inst # ui.inst
    BY <1>1, <1>3 DEF Leases
  <2>6. ui.pc \in {"removing", "freeing"} => ~gate'[ui.inst].accepting
    BY LeavingFacts, <1>5 DEF Leases
  <2>7. ui.pc = "freeing" => gate'[ui.inst].active = 0
    <3>1. ui.pc = "freeing" => ui.inst # i /\ ui.inst \in Modules
      BY <1>2, NothingOfIt, LeavingFacts
    <3> QED  BY <3>1, <1>5 DEF Leases
  <2> QED  BY <2>2, <2>4, <2>5, <2>6, <2>7, <1>4, <1>7 DEF Leases
<1> QED  BY <1>3, <1>8, <1>9, CallsOnly DEF CallMoves

LEMMA EnterInv ==
  ASSUME HostInv, NEW t \in Threads, Enter(t)
  PROVE  HostInv'
<1> DEFINE g == call[t].handler.gate
<1>1. call[t] \in [pc : {"resolved"}, handler : MadeHandlers] /\ g \in Modules
  BY HandlerFacts DEF HostInv, Enter, CallShape, NotCalling
<1>2. CASE gate[g].accepting
  <2>1. CallMoves(t, [pc |-> "running", handler |-> call[t].handler])
    BY <1>1, <1>2 DEF Enter, CallMoves
  <2>2. gate' = [gate EXCEPT ![g].active = gate[g].active + 1]
    BY <1>2 DEF Enter
  <2>3. gate[g].active + 1 \in Int
    BY <1>1 DEF HostInv, HostShape, HostTypeOK
  <2> QED  BY <2>1, <2>2, <2>3, <1>1, <1>2, LeaseInv
<1>3. CASE ~gate[g].accepting
  BY <1>1, <1>3, QuietMoveInv DEF Enter, CallMoves
<1> QED  BY <1>2, <1>3

LEMMA ReturnInv ==
  ASSUME HostInv, NEW t \in Threads, Return(t)
  PROVE  HostInv'
<1> DEFINE g == call[t].handler.gate
<1>1. call[t] \in [pc : {"running"}, handler : MadeHandlers] /\ g \in Modules
  BY HandlerFacts DEF HostInv, Return, CallShape, NotCalling
<1>2. CallMoves(t, [pc |-> "returned", handler |-> call[t].handler])
  <2>1. /\ call' = [call EXCEPT ![t].pc = "returned"]
        /\ UNCHANGED <<loads, mapped, registered, callbackGates, modules, ui>>
    BY DEF Return
  <2>2. [call[t] EXCEPT !.pc = "returned"] = [pc |-> "returned", handler |-> call[t].handler]
    BY <1>1
  <2> QED  BY <2>1, <2>2 DEF CallMoves
<1>3. gate' = [gate EXCEPT ![g].active = gate[g].active - 1]
  BY DEF Return
<1>4. gate[g].active - 1 \in Int
  BY <1>1 DEF HostInv, HostShape, HostTypeOK
<1> QED  BY <1>1, <1>2, <1>3, <1>4, LeaseInv

LEMMA ReadMessageInv ==
  ASSUME HostInv, NEW t \in Threads, ReadMessage(t)
  PROVE  HostInv'
  BY QuietMoveInv DEF ReadMessage, CallMoves

-----------------------------------------------------------------------------
LEMMA NextHostInv == HostInv /\ [HostNext]_hostVars => HostInv'
<1> SUFFICES ASSUME HostInv, [HostNext]_hostVars PROVE HostInv'
  OBVIOUS
<1>1. CASE Loader
  BY <1>1, LoadLibraryInv, UnloadInv, RegisterActionInv, RegisterCommandInv,
     DescriptorRejectedInv, OpenScopeInv, NoteActionInv, LoadAcceptedInv, LoadRejectedInv,
     CloseGateInv, RemoveActionInv, AwaitCallbacksInv, FreeLibraryInv DEF Loader
<1>2. CASE \E t \in Threads : Answering(t)
  BY <1>2, EnterInv, ReturnInv, ReadMessageInv DEF Answering
<1>3. CASE \E n \in Names : LookUpCommand(n) \/ \E t \in Threads : LookUp(t, n)
  BY <1>3, LookUpInv, LookUpCommandInv
<1>4. CASE UNCHANGED hostVars
  BY <1>4 DEF HostInv, HostShape, HostTypeOK, UiShape, CallShape, GateOfPlugin, NamesAreOwn,
              AllAreNoted, Leases, Runs, InHand, Owner, Made, MadeHandlers, hostVars
<1> QED  BY <1>1, <1>2, <1>3, <1>4 DEF HostNext

LEMMA HostInvariant == HostSpec => []HostInv
  BY InitHostInv, NextHostInv, PTL DEF HostSpec

(* A callback never runs, and is never found in the registry or among the     *)
(* commands, of a module that was freed: for any number of plugins, names,    *)
(* threads and reloads, and whatever falls between looking up a handler and   *)
(* invoking it.                                                               *)
THEOREM NoCallAfterFree == HostSpec => []OnlyMappedCodeRuns
<1>1. HostInv => OnlyMappedCodeRuns
  BY EntriesMapped DEF HostInv, HostShape, Leases, OnlyMappedCodeRuns
<1> QED  BY <1>1, HostInvariant, PTL

(* Unloading takes away the entries of the plugin that goes, all of them, and *)
(* none of Axiom or of another plugin.                                        *)
THEOREM TakesOwnEntries == HostSpec => OwnEntriesOnly
<1>1. HostInv /\ [HostNext]_hostVars =>
        [ /\ \A n \in Names : entries[n] # None /\ entries'[n] = None
               => entries[n] # Axiom /\ entries[n].inst = ui.inst
          /\ ui.pc = "freeing" => \A n \in Names :
               entries[n] \in Handlers => entries[n].inst # ui.inst ]_hostVars
  <2> SUFFICES ASSUME HostInv, HostNext
               PROVE  /\ \A n \in Names : entries[n] # None /\ entries'[n] = None
                           => entries[n] # Axiom /\ entries[n].inst = ui.inst
                      /\ ui.pc = "freeing" => \A n \in Names :
                           entries[n] \in Handlers => entries[n].inst # ui.inst
    OBVIOUS
  <2>1. ASSUME NEW n \in Names, entries[n] # None, entries'[n] = None
        PROVE  entries[n] # Axiom /\ entries[n].inst = ui.inst
    <3>1. CASE RemoveAction
      <4>1. ui.pc = "removing" /\ n \in ui.names
        BY <3>1, <2>1 DEF RemoveAction, HostInv, HostShape
      <4> QED  BY <4>1, HandlerFacts DEF HostInv, NamesAreOwn
    <3>2. CASE \E m \in Names : RegisterAction(m)
      <4>1. PICK m \in Names : RegisterAction(m)
        BY <3>2
      <4>2. ui.handler \in MadeHandlers
        BY <4>1 DEF RegisterAction, HostInv, UiShape, NotCalling
      <4>3. entries'[n] = ui.handler \/ entries'[n] = entries[n]
        BY <4>1 DEF RegisterAction, HostInv, HostShape
      <4> QED  BY <4>2, <4>3, <2>1, HandlerFacts
    <3>3. CASE UNCHANGED entries
      BY <3>3, <2>1
    <3> QED
      BY <3>1, <3>2, <3>3
      DEF HostNext, Loader, LoadLibrary, Unload, RegisterCommand, DescriptorRejected, OpenScope,
          NoteAction, LoadAccepted, LoadRejected, CloseGate, AwaitCallbacks, FreeLibrary,
          Answering, Enter, Return, ReadMessage, LookUp, LookUpCommand, registered
  <2> QED  BY <2>1, NothingOfIt
<1> QED  BY <1>1, HostInvariant, PTL DEF HostSpec, OwnEntriesOnly

-----------------------------------------------------------------------------
(* The clipboard.                                                           *)
-----------------------------------------------------------------------------

(* Induction up to n, said of a set.                                         *)
LEMMA UpTo ==
  ASSUME NEW n \in Nat, NEW S, 0 \in S, \A k \in 0..n - 1 : k \in S => k + 1 \in S
  PROVE  0..n \subseteq S
<1> DEFINE T == (0..n) \ S
<1>1. SUFFICES ASSUME T # {} PROVE FALSE
  OBVIOUS
<1>2. T \subseteq Nat
  OBVIOUS
<1>3. PICK x \in T : \A y \in T : ~(<<y, x>> \in OpToRel(<, Nat))
  <2> HIDE DEF T
  <2> QED  BY <1>1, <1>2, NatLessThanWellFounded, WFMin
<1>4. x # 0 /\ x \in 1..n
  OBVIOUS
<1>5. x - 1 \in T
  BY <1>4
<1>6. <<x - 1, x>> \in OpToRel(<, Nat)
  BY <1>4 DEF OpToRel
<1> QED  BY <1>3, <1>5, <1>6

Iterates(f, n, v, step) == f[0] = v /\ \A k \in 1..n : f[k] = step[k][f[k - 1]]

(* What is computed step by step exists.                                     *)
LEMMA Steps ==
  ASSUME NEW n \in Nat, NEW V, NEW v \in V, NEW step \in [1..n -> [V -> V]]
  PROVE  \E f \in [0..n -> V] : Iterates(f, n, v, step)
<1> DEFINE Good(m, f) == f[0] = v /\ \A k \in 1..m : f[k] = step[k][f[k - 1]]
           S == {m \in 0..n : \E f \in [0..m -> V] : Good(m, f)}
<1>1. 0 \in S
  <2>1. [k \in 0..0 |-> v] \in [0..0 -> V] /\ Good(0, [k \in 0..0 |-> v])
    OBVIOUS
  <2>2. 0 \in 0..n
    OBVIOUS
  <2> HIDE DEF Good
  <2> QED  BY <2>1, <2>2
<1>2. ASSUME NEW m \in 0..n - 1, m \in S PROVE m + 1 \in S
  <2>1. PICK f \in [0..m -> V] : Good(m, f)
    BY <1>2
  <2> DEFINE g == [k \in 0..m + 1 |-> IF k <= m THEN f[k] ELSE step[m + 1][f[m]]]
  <2>2. step[m + 1][f[m]] \in V
    <3>1. m + 1 \in 1..n /\ f[m] \in V
      OBVIOUS
    <3> QED  BY <3>1
  <2>3. g \in [0..m + 1 -> V]
    BY <2>2
  <2>4. g[0] = v
    BY <2>1
  <2>5. ASSUME NEW k \in 1..m + 1 PROVE g[k] = step[k][g[k - 1]]
    <3>1. CASE k <= m
      <4>1. k \in 1..m /\ k \in 0..m + 1 /\ k - 1 \in 0..m + 1 /\ k - 1 <= m
        BY <3>1
      <4> QED  BY <2>1, <4>1
    <3>2. CASE k = m + 1
      BY <3>2
    <3> QED  BY <3>1, <3>2
  <2>6. Good(m + 1, g)
    BY <2>4, <2>5
  <2>7. m + 1 \in 0..n
    OBVIOUS
  <2> HIDE DEF g, Good
  <2> QED  BY <2>3, <2>6, <2>7
<1>3. n \in S
  <2> HIDE DEF S
  <2>1. 0..n \subseteq S
    BY <1>1, <1>2, UpTo
  <2> QED  BY <2>1
<1> QED  BY <1>3 DEF Iterates

(* Sizes.                                                                    *)

Clip == [id : Nat, text : Texts, pinned : BOOLEAN]

(* Every text has a size.                                                    *)
LEMMA BytesOfClip == \A e \in Clip : Bytes[e.text] \in Nat
<1> SUFFICES ASSUME NEW e \in Clip PROVE Bytes[e.text] \in Nat
  OBVIOUS
<1>1. e.text \in Texts
  BY DEF Clip
<1> QED  BY <1>1, ClipboardAssumption

Adds(s, f) == f[0] = 0 /\ \A k \in 1..Len(s) : f[k] = f[k - 1] + Bytes[s[k].text]

(* SizeOf is the end of a running count.                                     *)
LEMMA SizeAdds ==
  ASSUME NEW s \in Seq(Clip)
  PROVE  \E f \in [0..Len(s) -> Nat] : Adds(s, f) /\ SizeOf(s) = f[Len(s)]
<1> DEFINE step == [k \in 1..Len(s) |-> [v \in Nat |-> v + Bytes[s[k].text]]]
           Sum(f) == [n \in 0..Len(s) |-> IF n = 0 THEN 0 ELSE f[n - 1] + Bytes[s[n].text]]
           size == CHOOSE f : f = Sum(f)
<1>1. Len(s) \in Nat /\ \A k \in 1..Len(s) : s[k] \in Clip
  BY ElementOfSeq
<1>2. \A k \in 1..Len(s) : Bytes[s[k].text] \in Nat
  BY <1>1, BytesOfClip
<1>3. step \in [1..Len(s) -> [Nat -> Nat]]
  BY <1>2
<1>4. PICK f \in [0..Len(s) -> Nat] : Iterates(f, Len(s), 0, step)
  <2> HIDE DEF step
  <2>1. 0 \in Nat
    OBVIOUS
  <2> QED  BY <1>1, <1>3, <2>1, Steps
<1>5. \A k \in 1..Len(s) : f[k] = f[k - 1] + Bytes[s[k].text]
  <2> SUFFICES ASSUME NEW k \in 1..Len(s) PROVE f[k] = f[k - 1] + Bytes[s[k].text]
    OBVIOUS
  <2>1. k - 1 \in 0..Len(s)
    BY <1>1
  <2> QED  BY <1>4, <2>1 DEF Iterates
<1>6. f = Sum(f)
  <2> HIDE DEF step
  <2>1. ASSUME NEW n \in 0..Len(s)
        PROVE  f[n] = IF n = 0 THEN 0 ELSE f[n - 1] + Bytes[s[n].text]
    <3>1. n = 0 \/ n \in 1..Len(s)
      BY <1>1
    <3> QED  BY <1>4, <1>5, <3>1 DEF Iterates
  <2> QED  BY <2>1
<1>7. size = Sum(size)
  <2> HIDE DEF step, Sum
  <2> QED  BY <1>6
<1>8. SizeOf(s) = size[Len(s)]
  BY DEF SizeOf
<1>9. size \in [0..Len(s) -> Nat] /\ Adds(s, size)
  <2> DEFINE S == {n \in 0..Len(s) : size[n] = f[n]}
  <2>1. 0 \in S
    <3>1. 0 \in 0..Len(s)
      BY <1>1
    <3> HIDE DEF size
    <3>2. size[0] = 0
      BY <1>7, <3>1
    <3> QED  BY <1>4, <3>1, <3>2 DEF Iterates
  <2>2. ASSUME NEW k \in 0..Len(s) - 1, k \in S PROVE k + 1 \in S
    <3>1. k + 1 \in 1..Len(s) /\ k + 1 \in 0..Len(s) /\ (k + 1) - 1 = k /\ k + 1 # 0
      BY <1>1
    <3>2. size[k + 1] = size[k] + Bytes[s[k + 1].text]
      <4> HIDE DEF size
      <4> QED  BY <1>7, <3>1
    <3>3. f[k + 1] = f[k] + Bytes[s[k + 1].text]
      BY <1>5, <3>1
    <3> HIDE DEF size
    <3> QED  BY <2>2, <3>1, <3>2, <3>3
  <2>3. \A k \in 0..Len(s) : size[k] = f[k]
    <3>1. 0..Len(s) \subseteq S
      <4> HIDE DEF S
      <4> QED  BY <1>1, <2>1, <2>2, UpTo
    <3> QED  BY <3>1
  <2>4. size = f
    <3> HIDE DEF size
    <3>1. size = [k \in 0..Len(s) |-> size[k]]
      BY <1>7
    <3> QED  BY <2>3, <3>1
  <2> HIDE DEF size, Sum, step
  <2> QED  BY <1>4, <1>5, <2>4 DEF Adds, Iterates
<1> HIDE DEF size
<1> QED  BY <1>8, <1>9

(* The size is what any such count comes to.                                 *)
LEMMA SizeIs ==
  ASSUME NEW s \in Seq(Clip), NEW f, Adds(s, f)
  PROVE  SizeOf(s) = f[Len(s)]
<1>1. PICK g \in [0..Len(s) -> Nat] : Adds(s, g) /\ SizeOf(s) = g[Len(s)]
  BY SizeAdds
<1> DEFINE S == {n \in 0..Len(s) : f[n] = g[n]}
<1>2. Len(s) \in Nat
  OBVIOUS
<1>3. 0 \in S
  BY <1>1, <1>2 DEF Adds
<1>4. ASSUME NEW k \in 0..Len(s) - 1, k \in S PROVE k + 1 \in S
  <2>1. k + 1 \in 1..Len(s) /\ k + 1 \in 0..Len(s) /\ (k + 1) - 1 = k
    BY <1>2
  <2> QED  BY <1>1, <1>4, <2>1 DEF Adds
<1>5. 0..Len(s) \subseteq S
  <2> HIDE DEF S
  <2> QED  BY <1>2, <1>3, <1>4, UpTo
<1> QED  BY <1>1, <1>2, <1>5

(* Nothing has no size.                                                      *)
LEMMA SizeOfNone == SizeOf(<<>>) = 0
<1>1. <<>> \in Seq(Clip) /\ Len(<<>>) = 0
  OBVIOUS
<1>2. Adds(<<>>, [k \in 0..0 |-> 0])
  BY DEF Adds
<1> QED  BY <1>1, <1>2, SizeIs

(* An entry at the end adds its size.                                        *)
LEMMA SizeOfAppend ==
  ASSUME NEW s \in Seq(Clip), NEW e \in Clip
  PROVE  SizeOf(Append(s, e)) = SizeOf(s) + Bytes[e.text]
<1> DEFINE n == Len(s)
           t == Append(s, e)
<1>1. PICK g \in [0..n -> Nat] : Adds(s, g) /\ SizeOf(s) = g[n]
  BY SizeAdds
<1> DEFINE f == [k \in 0..n + 1 |-> IF k <= n THEN g[k] ELSE g[n] + Bytes[e.text]]
<1>2. n \in Nat /\ t \in Seq(Clip) /\ Len(t) = n + 1 /\ t[n + 1] = e /\ \A k \in 1..n : t[k] = s[k]
  OBVIOUS
<1>3. ASSUME NEW k \in 1..n + 1 PROVE f[k] = f[k - 1] + Bytes[t[k].text]
  <2> HIDE DEF n, t
  <2>1. CASE k \in 1..n
    <3>1. k - 1 \in 0..n + 1 /\ k - 1 <= n /\ k <= n
      BY <1>2, <2>1
    <3>2. g[k] = g[k - 1] + Bytes[s[k].text]
      BY <1>1, <2>1 DEF Adds, n
    <3> QED  BY <1>2, <2>1, <3>1, <3>2
  <2>2. CASE k = n + 1
    BY <1>2, <2>2
  <2> QED  BY <1>2, <2>1, <2>2
<1>4. Adds(t, f)
  <2>1. f[0] = 0
    BY <1>1, <1>2 DEF Adds
  <2> HIDE DEF f, n, t
  <2> QED  BY <1>2, <1>3, <2>1 DEF Adds
<1>5. f[n + 1] = g[n] + Bytes[e.text]
  BY <1>2
<1>6. SizeOf(t) = f[Len(t)]
  <2> HIDE DEF f, n, t
  <2> QED  BY <1>2, <1>4, SizeIs
<1> QED  BY <1>1, <1>2, <1>5, <1>6

(* An entry at the front adds its size.                                      *)
LEMMA SizeOfFront ==
  ASSUME NEW s \in Seq(Clip), NEW e \in Clip
  PROVE  SizeOf(<<e>> \o s) = Bytes[e.text] + SizeOf(s)
<1> DEFINE n == Len(s)
           t == <<e>> \o s
<1>1. PICK g \in [0..n -> Nat] : Adds(s, g) /\ SizeOf(s) = g[n]
  BY SizeAdds
<1> DEFINE f == [k \in 0..n + 1 |-> IF k = 0 THEN 0 ELSE Bytes[e.text] + g[k - 1]]
<1>2. n \in Nat /\ t \in Seq(Clip) /\ Len(t) = n + 1 /\ t[1] = e /\ \A k \in 1..n : t[k + 1] = s[k]
  OBVIOUS
<1>3. ASSUME NEW k \in 1..n + 1 PROVE f[k] = f[k - 1] + Bytes[t[k].text]
  <2> HIDE DEF n, t
  <2>1. CASE k \in 2..n + 1
    <3>1. k - 1 \in 1..n /\ (k - 1) + 1 = k /\ k \in 0..n + 1 /\ k - 1 \in 0..n + 1 /\ k # 0 /\ k - 1 # 0
      BY <1>2, <2>1
    <3>2. g[k - 1] = g[(k - 1) - 1] + Bytes[s[k - 1].text]
      BY <1>1, <3>1 DEF Adds, n
    <3>3. t[k] = s[k - 1] /\ s[k - 1] \in Clip
      BY <1>2, <3>1, ElementOfSeq DEF n
    <3>4. Bytes[s[k - 1].text] \in Nat /\ Bytes[e.text] \in Nat /\ g[(k - 1) - 1] \in Nat
      <4>1. (k - 1) - 1 \in 0..n
        BY <1>2, <3>1
      <4> QED  BY <3>3, <4>1, BytesOfClip
    <3> QED  BY <3>1, <3>2, <3>3, <3>4
  <2>2. CASE k = 1
    <3>1. g[0] = 0 /\ Bytes[e.text] \in Nat /\ 1 \in 0..n + 1 /\ 0 \in 0..n + 1
      BY <1>1, <1>2, BytesOfClip DEF Adds
    <3> QED  BY <1>2, <2>2, <3>1
  <2> QED  BY <1>2, <2>1, <2>2
<1>4. Adds(t, f)
  <2>1. f[0] = 0
    BY <1>2
  <2> HIDE DEF f, n, t
  <2> QED  BY <1>2, <1>3, <2>1 DEF Adds
<1>5. f[n + 1] = Bytes[e.text] + g[n]
  BY <1>2
<1>6. SizeOf(t) = f[Len(t)]
  <2> HIDE DEF f, n, t
  <2> QED  BY <1>2, <1>4, SizeIs
<1> QED  BY <1>1, <1>2, <1>5, <1>6

(* Only the texts count.                                                     *)
LEMMA SizeOfTexts ==
  ASSUME NEW s \in Seq(Clip), NEW r \in Seq(Clip), Len(s) = Len(r),
         \A i \in 1..Len(s) : s[i].text = r[i].text
  PROVE  SizeOf(s) = SizeOf(r)
<1>1. PICK g \in [0..Len(s) -> Nat] : Adds(s, g) /\ SizeOf(s) = g[Len(s)]
  BY SizeAdds
<1>2. Adds(r, g)
  BY <1>1 DEF Adds
<1> QED  BY <1>1, <1>2, SizeIs

Keeps(s, ids, f) ==
  /\ f[0] = <<>>
  /\ \A k \in 1..Len(s) :
       f[k] = IF s[k].id \in ids THEN Append(f[k - 1], s[k]) ELSE f[k - 1]

(* Among goes through the entries one by one.                                *)
LEMMA AmongKeeps ==
  ASSUME NEW s \in Seq(Clip), NEW ids
  PROVE  \E f \in [0..Len(s) -> Seq(Clip)] : Keeps(s, ids, f) /\ Among(s, ids) = f[Len(s)]
<1> DEFINE step == [k \in 1..Len(s) |->
                      [q \in Seq(Clip) |-> IF s[k].id \in ids THEN Append(q, s[k]) ELSE q]]
           Rest(f) == [n \in 0..Len(s) |->
                         IF n = 0 THEN <<>>
                         ELSE IF s[n].id \in ids THEN Append(f[n - 1], s[n]) ELSE f[n - 1]]
           kept == CHOOSE f : f = Rest(f)
<1>1. Len(s) \in Nat /\ (\A k \in 1..Len(s) : s[k] \in Clip) /\ <<>> \in Seq(Clip)
  BY ElementOfSeq
<1>2. \A k \in 1..Len(s), q \in Seq(Clip) : Append(q, s[k]) \in Seq(Clip)
  BY <1>1, AppendProperties
<1>3. step \in [1..Len(s) -> [Seq(Clip) -> Seq(Clip)]]
  BY <1>2
<1>4. PICK f \in [0..Len(s) -> Seq(Clip)] : Iterates(f, Len(s), <<>>, step)
  <2> HIDE DEF step
  <2> QED  BY <1>1, <1>3, Steps
<1>5. Keeps(s, ids, f)
  <2>1. f[0] = <<>>
    BY <1>4 DEF Iterates
  <2>2. ASSUME NEW k \in 1..Len(s)
        PROVE  f[k] = IF s[k].id \in ids THEN Append(f[k - 1], s[k]) ELSE f[k - 1]
    <3>1. k - 1 \in 0..Len(s)
      BY <1>1
    <3>2. f[k] = step[k][f[k - 1]] /\ f[k - 1] \in Seq(Clip)
      <4> HIDE DEF step
      <4> QED  BY <1>4, <3>1 DEF Iterates
    <3> QED  BY <3>2
  <2> HIDE DEF step
  <2> QED  BY <2>1, <2>2 DEF Keeps
<1>6. f = Rest(f)
  <2> HIDE DEF step
  <2>1. ASSUME NEW n \in 0..Len(s)
        PROVE  f[n] = IF n = 0 THEN <<>>
                      ELSE IF s[n].id \in ids THEN Append(f[n - 1], s[n]) ELSE f[n - 1]
    <3>1. n = 0 \/ (n # 0 /\ n \in 1..Len(s))
      BY <1>1
    <3> QED  BY <1>5, <3>1 DEF Keeps
  <2> QED  BY <2>1
<1>7. kept = Rest(kept)
  <2> HIDE DEF step, Rest
  <2> QED  BY <1>6
<1>8. Among(s, ids) = kept[Len(s)]
  BY DEF Among
<1>9. kept = f
  <2> DEFINE S == {n \in 0..Len(s) : kept[n] = f[n]}
  <2> HIDE DEF kept, step
  <2>1. 0 \in S
    <3>1. 0 \in 0..Len(s)
      BY <1>1
    <3>2. kept[0] = <<>>
      BY <1>7, <3>1
    <3> QED  BY <1>5, <3>1, <3>2 DEF Keeps
  <2>2. ASSUME NEW k \in 0..Len(s) - 1, k \in S PROVE k + 1 \in S
    <3>1. k + 1 \in 1..Len(s) /\ k + 1 \in 0..Len(s) /\ (k + 1) - 1 = k /\ k + 1 # 0
      BY <1>1
    <3>2. kept[k + 1] = IF s[k + 1].id \in ids THEN Append(kept[k], s[k + 1]) ELSE kept[k]
      BY <1>7, <3>1
    <3>3. f[k + 1] = IF s[k + 1].id \in ids THEN Append(f[k], s[k + 1]) ELSE f[k]
      BY <1>5, <3>1 DEF Keeps
    <3> QED  BY <2>2, <3>1, <3>2, <3>3
  <2>3. \A k \in 0..Len(s) : kept[k] = f[k]
    <3>1. 0..Len(s) \subseteq S
      <4> HIDE DEF S
      <4> QED  BY <1>1, <2>1, <2>2, UpTo
    <3> QED  BY <3>1
  <2>4. kept = [k \in 0..Len(s) |-> kept[k]]
    BY <1>7
  <2> QED  BY <2>3, <2>4
<1> HIDE DEF kept, step
<1> QED  BY <1>5, <1>8, <1>9

(* r is made of the first n of s with these numbers, each once.              *)
Drawn(r, s, n, ids) ==
  /\ \A i \in DOMAIN r : \E j \in 1..n : s[j] = r[i] /\ s[j].id \in ids
  /\ \A j \in 1..n : s[j].id \in ids => \E i \in DOMAIN r : r[i] = s[j]
  /\ \A i, k \in DOMAIN r : i # k => \E j, l \in 1..n : j # l /\ r[i] = s[j] /\ r[k] = s[l]

(* Among is made of the entries with these numbers, each once.               *)
LEMMA AmongDraws ==
  ASSUME NEW s \in Seq(Clip), NEW ids
  PROVE  Among(s, ids) \in Seq(Clip) /\ Drawn(Among(s, ids), s, Len(s), ids)
<1>1. PICK f \in [0..Len(s) -> Seq(Clip)] : Keeps(s, ids, f) /\ Among(s, ids) = f[Len(s)]
  BY AmongKeeps
<1>2. Len(s) \in Nat /\ \A k \in 1..Len(s) : s[k] \in Clip
  BY ElementOfSeq
<1> DEFINE S == {n \in 0..Len(s) : Drawn(f[n], s, n, ids)}
<1>3. 0 \in S
  BY <1>1, <1>2 DEF Keeps, Drawn
<1>4. ASSUME NEW n \in 0..Len(s) - 1, n \in S PROVE n + 1 \in S
  <2>1. n + 1 \in 1..Len(s) /\ n + 1 \in 0..Len(s) /\ (n + 1) - 1 = n /\ n \in 0..Len(s)
        /\ 1..n \subseteq 1..n + 1 /\ n + 1 \notin 1..n /\ 1..n + 1 = 1..n \union {n + 1}
    BY <1>2
  <2>2. Drawn(f[n], s, n, ids) /\ f[n] \in Seq(Clip) /\ s[n + 1] \in Clip
    BY <1>2, <1>4, <2>1
  <2>3. CASE s[n + 1].id \notin ids
    <3>1. f[n + 1] = f[n]
      BY <1>1, <2>1, <2>3 DEF Keeps
    <3> DEFINE r == f[n]
    <3>2. Drawn(r, s, n, ids)
      BY <2>2
    <3> HIDE DEF r
    <3>3. \A i \in DOMAIN r : \E j \in 1..n + 1 : s[j] = r[i] /\ s[j].id \in ids
      BY <2>1, <3>2 DEF Drawn
    <3>4. \A j \in 1..n + 1 : s[j].id \in ids => \E i \in DOMAIN r : r[i] = s[j]
      BY <2>1, <2>3, <3>2 DEF Drawn
    <3>5. \A i, k \in DOMAIN r : i # k => \E j, l \in 1..n + 1 : j # l /\ r[i] = s[j] /\ r[k] = s[l]
      BY <2>1, <3>2 DEF Drawn
    <3>6. Drawn(r, s, n + 1, ids)
      BY <3>3, <3>4, <3>5 DEF Drawn
    <3> QED  BY <2>1, <3>1, <3>6 DEF r
  <2>4. CASE s[n + 1].id \in ids
    <3> DEFINE r == f[n]
               t == f[n + 1]
               m == Len(r) + 1
    <3>1. t = Append(r, s[n + 1])
      BY <1>1, <2>1, <2>4 DEF Keeps
    <3>2. /\ DOMAIN t = DOMAIN r \union {m} /\ m \notin DOMAIN r
          /\ t[m] = s[n + 1] /\ \A i \in DOMAIN r : t[i] = r[i]
      <4> HIDE DEF r
      <4> QED  BY <2>2, <3>1 DEF r
    <3> HIDE DEF r, t, m
    <3>3. Drawn(r, s, n, ids)
      BY <2>2 DEF r
    <3>4. Drawn(t, s, n + 1, ids)
      <4>1. ASSUME NEW i \in DOMAIN t PROVE \E j \in 1..n + 1 : s[j] = t[i] /\ s[j].id \in ids
        <5>1. CASE i \in DOMAIN r
          <6>1. PICK j \in 1..n : s[j] = r[i] /\ s[j].id \in ids
            BY <3>3, <5>1 DEF Drawn
          <6> QED  BY <2>1, <3>2, <5>1, <6>1
        <5>2. CASE i = m
          BY <2>1, <2>4, <3>2, <5>2
        <5> QED  BY <3>2, <5>1, <5>2
      <4>2. \A j \in 1..n + 1 : s[j].id \in ids => \E i \in DOMAIN t : t[i] = s[j]
        BY <2>1, <2>4, <3>2, <3>3 DEF Drawn
      <4>3. ASSUME NEW i \in DOMAIN t, NEW k \in DOMAIN t, i # k
            PROVE  \E j, l \in 1..n + 1 : j # l /\ t[i] = s[j] /\ t[k] = s[l]
        <5>1. CASE i \in DOMAIN r /\ k \in DOMAIN r
          BY <2>1, <3>2, <3>3, <4>3, <5>1 DEF Drawn
        <5>2. CASE i = m
          <6>1. PICK l \in 1..n : r[k] = s[l]
            BY <3>2, <3>3, <4>3, <5>2 DEF Drawn
          <6> QED  BY <2>1, <3>2, <4>3, <5>2, <6>1
        <5>3. CASE k = m
          <6>1. PICK j \in 1..n : r[i] = s[j]
            BY <3>2, <3>3, <4>3, <5>3 DEF Drawn
          <6> QED  BY <2>1, <3>2, <4>3, <5>3, <6>1
        <5> QED  BY <3>2, <5>1, <5>2, <5>3
      <4> QED  BY <4>1, <4>2, <4>3 DEF Drawn
    <3> QED  BY <2>1, <3>4 DEF t
  <2> QED  BY <2>3, <2>4
<1>5. Len(s) \in S
  <2> HIDE DEF S
  <2>1. 0..Len(s) \subseteq S
    BY <1>2, <1>3, <1>4, UpTo
  <2> QED  BY <1>2, <2>1
<1> QED  BY <1>1, <1>2, <1>5

(* What is taken and what is left make up the size.                          *)
LEMMA SizesAdd ==
  ASSUME NEW s \in Seq(Clip), NEW A, NEW B,
         \A k \in 1..Len(s) : s[k].id \in A <=> s[k].id \notin B
  PROVE  /\ SizeOf(s) = SizeOf(Among(s, A)) + SizeOf(Among(s, B))
         /\ Len(s) = Len(Among(s, A)) + Len(Among(s, B))
         /\ SizeOf(s) \in Nat /\ SizeOf(Among(s, A)) \in Nat /\ SizeOf(Among(s, B)) \in Nat
<1>1. PICK f \in [0..Len(s) -> Seq(Clip)] : Keeps(s, A, f) /\ Among(s, A) = f[Len(s)]
  BY AmongKeeps
<1>2. PICK g \in [0..Len(s) -> Seq(Clip)] : Keeps(s, B, g) /\ Among(s, B) = g[Len(s)]
  BY AmongKeeps
<1>3. PICK h \in [0..Len(s) -> Nat] : Adds(s, h) /\ SizeOf(s) = h[Len(s)]
  BY SizeAdds
<1>4. Len(s) \in Nat /\ (\A k \in 1..Len(s) : s[k] \in Clip) /\ \A r \in Seq(Clip) : SizeOf(r) \in Nat
  <2>1. ASSUME NEW r \in Seq(Clip) PROVE SizeOf(r) \in Nat
    <3>1. Len(r) \in 0..Len(r)
      OBVIOUS
    <3> QED  BY <3>1, SizeAdds
  <2> QED  BY <2>1, ElementOfSeq
<1> DEFINE S == {n \in 0..Len(s) : h[n] = SizeOf(f[n]) + SizeOf(g[n]) /\ n = Len(f[n]) + Len(g[n])}
<1>5. 0 \in S
  BY <1>1, <1>2, <1>3, <1>4, SizeOfNone DEF Keeps, Adds
<1>6. ASSUME NEW n \in 0..Len(s) - 1, n \in S PROVE n + 1 \in S
  <2>1. n + 1 \in 1..Len(s) /\ n + 1 \in 0..Len(s) /\ (n + 1) - 1 = n /\ n \in 0..Len(s)
    BY <1>4
  <2>2. f[n] \in Seq(Clip) /\ g[n] \in Seq(Clip) /\ s[n + 1] \in Clip /\ Bytes[s[n + 1].text] \in Nat
    BY <1>4, <2>1, BytesOfClip
  <2>3. /\ SizeOf(Append(f[n], s[n + 1])) = SizeOf(f[n]) + Bytes[s[n + 1].text]
        /\ SizeOf(Append(g[n], s[n + 1])) = SizeOf(g[n]) + Bytes[s[n + 1].text]
    BY <2>2, SizeOfAppend
  <2>4. h[n + 1] = h[n] + Bytes[s[n + 1].text]
    BY <1>3, <2>1 DEF Adds
  <2>5. /\ f[n + 1] = IF s[n + 1].id \in A THEN Append(f[n], s[n + 1]) ELSE f[n]
        /\ g[n + 1] = IF s[n + 1].id \in B THEN Append(g[n], s[n + 1]) ELSE g[n]
    BY <1>1, <1>2, <2>1 DEF Keeps
  <2>6. h[n] = SizeOf(f[n]) + SizeOf(g[n]) /\ SizeOf(f[n]) \in Nat /\ SizeOf(g[n]) \in Nat
    BY <1>4, <1>6, <2>2
  <2>7. s[n + 1].id \in A <=> s[n + 1].id \notin B
    BY <2>1
  <2>8. h[n + 1] = SizeOf(f[n + 1]) + SizeOf(g[n + 1])
    <3>1. CASE s[n + 1].id \in A
      BY <2>2, <2>3, <2>4, <2>5, <2>6, <2>7, <3>1
    <3>2. CASE s[n + 1].id \notin A
      BY <2>2, <2>3, <2>4, <2>5, <2>6, <2>7, <3>2
    <3> QED  BY <3>1, <3>2
  <2>9. n + 1 = Len(f[n + 1]) + Len(g[n + 1])
    <3>1. /\ Len(Append(f[n], s[n + 1])) = Len(f[n]) + 1 /\ Len(Append(g[n], s[n + 1])) = Len(g[n]) + 1
          /\ n = Len(f[n]) + Len(g[n]) /\ Len(f[n]) \in Nat /\ Len(g[n]) \in Nat
      BY <1>6, <2>2
    <3>2. CASE s[n + 1].id \in A
      <4>1. f[n + 1] = Append(f[n], s[n + 1]) /\ g[n + 1] = g[n]
        BY <2>5, <2>7, <3>2
      <4> DEFINE x == Len(f[n])
                 y == Len(g[n])
      <4>2. Len(f[n + 1]) = x + 1 /\ Len(g[n + 1]) = y /\ n = x + y /\ x \in Nat /\ y \in Nat
        BY <3>1, <4>1
      <4> HIDE DEF x, y
      <4> QED  BY <4>2
    <3>3. CASE s[n + 1].id \notin A
      <4>1. f[n + 1] = f[n] /\ g[n + 1] = Append(g[n], s[n + 1])
        BY <2>5, <2>7, <3>3
      <4> QED  BY <3>1, <4>1
    <3> QED  BY <3>2, <3>3
  <2> QED  BY <2>1, <2>8, <2>9
<1>7. Len(s) \in S
  <2> HIDE DEF S
  <2>1. 0..Len(s) \subseteq S
    BY <1>4, <1>5, <1>6, UpTo
  <2> QED  BY <1>4, <2>1
<1>8. f[Len(s)] \in Seq(Clip) /\ g[Len(s)] \in Seq(Clip)
  BY <1>4
<1> QED  BY <1>1, <1>2, <1>3, <1>4, <1>7, <1>8

Distinct(s) ==
  \A i, k \in DOMAIN s : i # k => s[i].id # s[k].id /\ s[i].text # s[k].text
PinnedIds(s) == {s[i].id : i \in {k \in DOMAIN s : s[k].pinned}}

(* What is left when entries go.                                             *)
LEMMA RemovedLeaves ==
  ASSUME NEW s \in Seq(Clip), Distinct(s), NEW ids
  PROVE  LET r == Removed(s, ids)
         IN  /\ r \in Seq(Clip) /\ Distinct(r) /\ Len(r) <= Len(s)
             /\ \A i \in DOMAIN r : \E j \in DOMAIN s : r[i] = s[j] /\ s[j].id \notin ids
             /\ PinnedIds(r) = PinnedIds(s) \ ids
             /\ SizeOf(r) = SizeOf(s) - SizeOf(Among(s, ids)) /\ SizeOf(r) <= SizeOf(s)
             /\ Len(r) = Len(s) - Len(Among(s, ids))
             /\ SizeOf(s) \in Nat /\ SizeOf(r) \in Nat
<1> DEFINE r == Removed(s, ids)
           others == ClipIds(s) \ ids
<1>1. Len(s) \in Nat /\ DOMAIN s = 1..Len(s)
  OBVIOUS
<1>2. r \in Seq(Clip) /\ Drawn(r, s, Len(s), others)
  BY AmongDraws DEF Removed
<1>3. \A k \in 1..Len(s) : s[k].id \in others <=> s[k].id \notin ids
  BY <1>1 DEF ClipIds
<1>4. /\ SizeOf(s) = SizeOf(r) + SizeOf(Among(s, ids)) /\ Len(s) = Len(r) + Len(Among(s, ids))
      /\ SizeOf(s) \in Nat /\ SizeOf(r) \in Nat /\ SizeOf(Among(s, ids)) \in Nat
  <2> HIDE DEF others
  <2> QED  BY <1>3, SizesAdd DEF Removed, others
<1>5. Len(r) \in Nat /\ Len(Among(s, ids)) \in Nat
  BY <1>2, AmongDraws
<1> HIDE DEF r
<1>6. \A i \in DOMAIN r : \E j \in DOMAIN s : r[i] = s[j] /\ s[j].id \notin ids
  BY <1>1, <1>2, <1>3 DEF Drawn
<1>7. Distinct(r)
  <2> SUFFICES ASSUME NEW i \in DOMAIN r, NEW k \in DOMAIN r, i # k
               PROVE  r[i].id # r[k].id /\ r[i].text # r[k].text
    BY DEF Distinct
  <2>1. PICK j \in DOMAIN s, l \in DOMAIN s : j # l /\ r[i] = s[j] /\ r[k] = s[l]
    <3>1. \E j, l \in 1..Len(s) : j # l /\ r[i] = s[j] /\ r[k] = s[l]
      BY <1>2 DEF Drawn
    <3> QED  BY <1>1, <3>1
  <2> QED  BY <2>1 DEF Distinct
<1>8. PinnedIds(r) = PinnedIds(s) \ ids
  <2>1. ASSUME NEW x \in PinnedIds(r) PROVE x \in PinnedIds(s) \ ids
    <3>1. PICK i \in DOMAIN r : r[i].pinned /\ x = r[i].id
      BY <2>1 DEF PinnedIds
    <3>2. PICK j \in DOMAIN s : r[i] = s[j] /\ s[j].id \notin ids
      BY <1>6
    <3> QED  BY <3>1, <3>2 DEF PinnedIds
  <2>2. ASSUME NEW x \in PinnedIds(s) \ ids PROVE x \in PinnedIds(r)
    <3>1. PICK j \in DOMAIN s : s[j].pinned /\ x = s[j].id
      BY <2>2 DEF PinnedIds
    <3>2. PICK i \in DOMAIN r : r[i] = s[j]
      BY <1>1, <1>2, <1>3, <2>2, <3>1 DEF Drawn
    <3> QED  BY <3>1, <3>2 DEF PinnedIds
  <2> QED  BY <2>1, <2>2
<1> QED  BY <1>2, <1>4, <1>5, <1>6, <1>7, <1>8 DEF r

(* Among some natural numbers one is the least.                              *)
LEMMA MinIsIn ==
  ASSUME NEW n \in Nat, NEW S \in SUBSET (0..n), S # {}
  PROVE  Min(S) \in S
<1>1. \E x \in S : \A y \in S : x <= y
  <2>1. S \subseteq Nat
    OBVIOUS
  <2>2. PICK x \in S : \A y \in S : ~(<<y, x>> \in OpToRel(<, Nat))
    BY <2>1, NatLessThanWellFounded, WFMin
  <2>3. ASSUME NEW y \in S PROVE x <= y
    <3>1. y \in Nat /\ x \in Nat
      BY <2>1
    <3>2. <<y, x>> \notin OpToRel(<, Nat)
      BY <2>2
    <3>3. y < x => <<y, x>> \in OpToRel(<, Nat)
      BY <3>1 DEF OpToRel
    <3>4. ~(y < x)
      BY <3>2, <3>3
    <3> QED  BY <3>1, <3>4
  <2> QED  BY <2>3
<1> QED  BY <1>1 DEF Min

(* The limits hold afterwards, or everything that is left is pinned.         *)
LEMMA EnforceKeeps ==
  ASSUME NEW s \in Seq(Clip), Distinct(s), Enforce(s, SizeOf(s))
  PROVE  /\ clips' \in Seq(Clip) /\ Distinct(clips') /\ ClipIds(clips') \subseteq ClipIds(s)
         /\ textBytes' = SizeOf(clips')
         /\ OverLimits(clips', textBytes') => \A i \in DOMAIN clips' : clips'[i].pinned
         /\ PinnedIds(clips') = PinnedIds(s)
<1> DEFINE left(n) == Removed(s, Oldest(s, n))
           size(n) == SizeOf(s) - SizeOf(Among(s, Oldest(s, n)))
           all == Cardinality(Loose(s))
           enough(n) == ~OverLimits(left(n), size(n)) \/ n = all
           count == Min({n \in 0..all : enough(n)})
<1>1. clips' = left(count) /\ textBytes' = size(count)
  BY DEF Enforce
<1>2. Len(s) \in Nat /\ DOMAIN s = 1..Len(s) /\ \A i \in DOMAIN s : s[i] \in Clip
  BY ElementOfSeq
<1>3. IsFiniteSet(Loose(s)) /\ all \in Nat
  <2>1. IsFiniteSet(1..Len(s)) /\ Loose(s) \subseteq 1..Len(s)
    BY <1>2, FS_Interval DEF Loose
  <2> QED  BY <2>1, FS_Subset, FS_CardinalityType
<1>4. count \in 0..all /\ enough(count)
  <2> DEFINE S == {n \in 0..all : enough(n)}
  <2>1. S \in SUBSET (0..all) /\ all \in S
    BY <1>3
  <2> HIDE DEF S
  <2>2. Min(S) \in S
    <3> HIDE DEF all
    <3> QED  BY <1>3, <2>1, MinIsIn DEF all
  <2> QED  BY <2>2 DEF S
<1> HIDE DEF count
<1> DEFINE ids == Oldest(s, count)
           r == Removed(s, ids)
<1>5. /\ r \in Seq(Clip) /\ Distinct(r)
      /\ \A i \in DOMAIN r : \E j \in DOMAIN s : r[i] = s[j] /\ s[j].id \notin ids
      /\ PinnedIds(r) = PinnedIds(s) \ ids
      /\ SizeOf(r) = SizeOf(s) - SizeOf(Among(s, ids))
  <2> HIDE DEF ids
  <2> QED  BY RemovedLeaves
<1>6. clips' = r /\ textBytes' = SizeOf(r)
  BY <1>1, <1>5
<1>7. PinnedIds(s) \cap ids = {}
  <2> SUFFICES ASSUME NEW i \in DOMAIN s, NEW k \in Loose(s), s[i].pinned, s[i].id = s[k].id
               PROVE  FALSE
    BY DEF PinnedIds, Oldest
  <2>1. k \in DOMAIN s /\ ~s[k].pinned
    BY DEF Loose, Removable
  <2> QED  BY <2>1 DEF Distinct
<1>8. ASSUME OverLimits(r, SizeOf(r)), NEW i \in DOMAIN r PROVE r[i].pinned
  <2>1. count = all
    BY <1>1, <1>4, <1>6, <1>8
  <2>2. PICK j \in DOMAIN s : r[i] = s[j] /\ s[j].id \notin ids
    BY <1>5
  <2>3. ASSUME j \in Loose(s) PROVE FALSE
    <3> DEFINE L == {l \in Loose(s) : l >= j}
    <3>1. Cardinality(L) <= all
      <4>1. L \subseteq Loose(s)
        OBVIOUS
      <4> HIDE DEF L
      <4> QED  BY <1>3, <4>1, FS_Subset
    <3>2. s[j].id \in ids
      BY <2>1, <2>3, <3>1 DEF Oldest
    <3> QED  BY <2>2, <3>2
  <2> QED  BY <2>2, <2>3 DEF Loose, Removable
<1>9. ClipIds(r) \subseteq ClipIds(s)
  BY <1>5 DEF ClipIds
<1> HIDE DEF ids, r
<1> QED  BY <1>5, <1>6, <1>7, <1>8, <1>9

(* The inductive invariant: the property, and that numbers are new.           *)
ClipboardInv ==
  /\ clips \in Seq(Clip) /\ Distinct(clips)
  /\ nextClip \in Nat /\ \A id \in ClipIds(clips) : id < nextClip
  /\ textBytes = SizeOf(clips)
  /\ OverLimits(clips, textBytes) => \A i \in DOMAIN clips : clips[i].pinned
  /\ pins = PinnedIds(clips)

(* A text that is known comes to the front and nothing else changes.         *)
LEMMA RecordKnownKeeps ==
  ASSUME ClipboardInv, NEW text \in Texts, RecordKnown(text)
  PROVE  ClipboardInv'
<1>1. PICK i \in Holding(text) : clips' = <<clips[i]>> \o Removed(clips, {clips[i].id})
  BY DEF RecordKnown
<1> DEFINE e == clips[i]
           r == Removed(clips, {e.id})
           a == Among(clips, {e.id})
<1>2. /\ clips \in Seq(Clip) /\ Distinct(clips) /\ Len(clips) \in Nat /\ DOMAIN clips = 1..Len(clips)
      /\ i \in DOMAIN clips /\ Len(clips) >= 1 /\ e \in Clip /\ Bytes[e.text] \in Nat
  <2>1. clips \in Seq(Clip) /\ Distinct(clips) /\ i \in DOMAIN clips
    BY DEF ClipboardInv, Holding
  <2>2. Len(clips) \in Nat /\ DOMAIN clips = 1..Len(clips)
    BY <2>1
  <2>3. e \in Clip
    BY <2>1, <2>2, ElementOfSeq
  <2>4. Bytes[e.text] \in Nat
    BY <2>3, BytesOfClip
  <2> QED  BY <2>1, <2>2, <2>3, <2>4
<1>3. /\ r \in Seq(Clip) /\ Distinct(r)
      /\ \A k \in DOMAIN r : \E j \in DOMAIN clips : r[k] = clips[j] /\ clips[j].id # e.id
      /\ PinnedIds(r) = PinnedIds(clips) \ {e.id}
      /\ SizeOf(r) = SizeOf(clips) - SizeOf(a)
      /\ Len(r) = Len(clips) - Len(a)
      /\ SizeOf(clips) \in Nat
  <2> HIDE DEF e
  <2>1. \A x : x \notin {e.id} <=> x # e.id
    OBVIOUS
  <2> QED  BY <1>2, <2>1, RemovedLeaves
<1>4. a = <<e>>
  <2>1. a \in Seq(Clip) /\ Drawn(a, clips, Len(clips), {e.id})
    BY <1>2, AmongDraws
  <2> HIDE DEF a
  <2>2. Len(a) \in Nat /\ DOMAIN a = 1..Len(a)
    BY <2>1
  <2>3. \A k \in DOMAIN a : a[k] = e
    <3> SUFFICES ASSUME NEW k \in DOMAIN a PROVE a[k] = e
      OBVIOUS
    <3>1. PICK j \in 1..Len(clips) : clips[j] = a[k] /\ clips[j].id \in {e.id}
      BY <2>1 DEF Drawn
    <3> QED  BY <1>2, <3>1 DEF Distinct
  <2>4. Len(a) # 0
    <3>1. \E k \in DOMAIN a : a[k] = e
      BY <1>2, <2>1 DEF Drawn
    <3> QED  BY <2>2, <3>1
  <2>5. ASSUME Len(a) > 1 PROVE FALSE
    <3>1. 1 \in DOMAIN a /\ 2 \in DOMAIN a
      BY <2>2, <2>5
    <3>2. PICK j \in DOMAIN clips, l \in DOMAIN clips : j # l /\ a[1] = clips[j] /\ a[2] = clips[l]
      <4>1. \E j, l \in 1..Len(clips) : j # l /\ a[1] = clips[j] /\ a[2] = clips[l]
        <5>1. \A x, y \in DOMAIN a :
                x # y => \E j, l \in 1..Len(clips) : j # l /\ a[x] = clips[j] /\ a[y] = clips[l]
          BY <2>1 DEF Drawn
        <5> QED  BY <3>1, <5>1
      <4> QED  BY <1>2, <4>1
    <3> QED  BY <1>2, <2>3, <3>1, <3>2 DEF Distinct
  <2>6. Len(a) = 1 /\ a[1] = e
    BY <2>2, <2>3, <2>4, <2>5
  <2> QED  BY <2>1, <2>6
<1>5. SizeOf(a) = Bytes[e.text] /\ Len(a) = 1
  <2>1. /\ Append(<<>>, e) = <<e>> /\ <<>> \in Seq(Clip)
    OBVIOUS
  <2>2. SizeOf(<<e>>) = SizeOf(<<>>) + Bytes[e.text]
    BY <1>2, <2>1, SizeOfAppend
  <2> QED  BY <1>2, <1>4, <2>2, SizeOfNone
<1> HIDE DEF e, r, a
<1>6. /\ clips' = <<e>> \o r /\ clips' \in Seq(Clip) /\ Len(clips') = Len(clips)
      /\ DOMAIN clips' = 1..Len(clips) /\ clips'[1] = e
      /\ \A k \in DOMAIN clips' : k # 1 => k - 1 \in DOMAIN r /\ clips'[k] = r[k - 1]
      /\ \A k \in DOMAIN r : k + 1 \in DOMAIN clips' /\ clips'[k + 1] = r[k]
  <2>1. clips' = <<e>> \o r
    BY <1>1 DEF e, r
  <2>2. Len(r) = Len(clips) - 1 /\ Len(r) \in Nat
    BY <1>2, <1>3, <1>5
  <2>3. <<e>> \in Seq(Clip) /\ Len(<<e>>) = 1 /\ <<e>>[1] = e
    BY <1>2
  <2>4. /\ clips' \in Seq(Clip) /\ Len(clips') = 1 + Len(r) /\ DOMAIN r = 1..Len(r)
        /\ \A k \in 1..1 + Len(r) : clips'[k] = IF k <= 1 THEN <<e>>[k] ELSE r[k - 1]
    BY <1>3, <2>1, <2>3, ConcatProperties
  <2>5. Len(clips') = Len(clips) /\ DOMAIN clips' = 1..Len(clips)
    BY <1>2, <2>2, <2>4
  <2>6. clips'[1] = e
    BY <2>2, <2>3, <2>4
  <2>7. \A k \in DOMAIN clips' : k # 1 => k - 1 \in DOMAIN r /\ clips'[k] = r[k - 1]
    BY <1>2, <2>2, <2>4, <2>5
  <2>8. \A k \in DOMAIN r : k + 1 \in DOMAIN clips' /\ clips'[k + 1] = r[k]
    BY <1>2, <2>2, <2>4, <2>5
  <2> QED  BY <2>1, <2>4, <2>5, <2>6, <2>7, <2>8
<1>7. SizeOf(clips') = SizeOf(clips)
  <2>1. SizeOf(clips') = Bytes[e.text] + SizeOf(r)
    BY <1>2, <1>3, <1>6, SizeOfFront
  <2> QED  BY <1>2, <1>3, <1>5, <2>1
<1>8. ASSUME NEW k \in DOMAIN clips'
      PROVE  \E j \in DOMAIN clips : clips'[k] = clips[j]
  <2>1. CASE k = 1
    BY <1>2, <1>6, <2>1 DEF e
  <2>2. CASE k # 1
    BY <1>3, <1>6, <2>2
  <2> QED  BY <2>1, <2>2
<1>9. Distinct(clips')
  <2>1. ASSUME NEW k \in DOMAIN r PROVE r[k].id # e.id /\ r[k].text # e.text
    <3>1. PICK j \in DOMAIN clips : r[k] = clips[j] /\ clips[j].id # e.id
      BY <1>3
    <3> QED  BY <1>2, <3>1 DEF Distinct, e
  <2> SUFFICES ASSUME NEW k \in DOMAIN clips', NEW l \in DOMAIN clips', k # l
               PROVE  clips'[k].id # clips'[l].id /\ clips'[k].text # clips'[l].text
    BY DEF Distinct
  <2>2. CASE k = 1
    BY <1>6, <2>1, <2>2
  <2>3. CASE l = 1
    BY <1>6, <2>1, <2>3
  <2>4. CASE k # 1 /\ l # 1
    <3>1. /\ k - 1 \in DOMAIN r /\ clips'[k] = r[k - 1]
          /\ l - 1 \in DOMAIN r /\ clips'[l] = r[l - 1]
      BY <1>6, <2>4
    <3>2. k - 1 # l - 1
      <4>1. k \in 1..Len(clips) /\ l \in 1..Len(clips)
        BY <1>6, Zenon
      <4> QED  BY <4>1
    <3> QED  BY <1>3, <3>1, <3>2 DEF Distinct
  <2> QED  BY <2>2, <2>3, <2>4
<1>10. PinnedIds(clips') = PinnedIds(clips)
  <2>1. ASSUME NEW x \in PinnedIds(clips') PROVE x \in PinnedIds(clips)
    BY <1>8, <2>1 DEF PinnedIds
  <2>2. ASSUME NEW x \in PinnedIds(clips) PROVE x \in PinnedIds(clips')
    <3>1. PICK j \in DOMAIN clips : clips[j].pinned /\ x = clips[j].id
      BY <2>2 DEF PinnedIds
    <3>2. CASE x = e.id
      <4>1. clips[j] = e
        BY <1>2, <3>1, <3>2 DEF Distinct, e
      <4>2. 1 \in DOMAIN clips'
        <5>1. 1 \in 1..Len(clips)
          BY <1>2
        <5> QED  BY <1>6, <5>1, Zenon
      <4> QED  BY <1>6, <3>1, <4>1, <4>2 DEF PinnedIds
    <3>3. CASE x # e.id
      <4>1. x \in PinnedIds(r)
        BY <1>3, <2>2, <3>3
      <4>2. PICK k \in DOMAIN r : r[k].pinned /\ x = r[k].id
        BY <4>1 DEF PinnedIds
      <4> QED  BY <1>6, <4>2 DEF PinnedIds
    <3> QED  BY <3>2, <3>3
  <2> QED  BY <2>1, <2>2
<1>11. textBytes' = textBytes /\ nextClip' = nextClip /\ pins' = pins
  BY DEF RecordKnown
<1>12. ClipIds(clips') \subseteq ClipIds(clips)
  BY <1>8 DEF ClipIds
<1>13. OverLimits(clips', textBytes') => \A k \in DOMAIN clips' : clips'[k].pinned
  BY <1>6, <1>8, <1>11 DEF OverLimits, ClipboardInv
<1> QED  BY <1>6, <1>7, <1>9, <1>10, <1>11, <1>12, <1>13 DEF ClipboardInv

(* A new text.                                                               *)
LEMMA RecordNewKeeps ==
  ASSUME ClipboardInv, NEW text \in Texts, RecordNew(text)
  PROVE  ClipboardInv'
<1> DEFINE e == [id |-> nextClip, text |-> text, pinned |-> FALSE]
           s == <<e>> \o clips
<1>1. /\ clips \in Seq(Clip) /\ Distinct(clips) /\ Len(clips) \in Nat /\ DOMAIN clips = 1..Len(clips)
      /\ e \in Clip /\ \A i \in DOMAIN clips : clips[i] \in Clip
  <2>1. clips \in Seq(Clip) /\ Distinct(clips) /\ nextClip \in Nat
    BY DEF ClipboardInv
  <2>2. Len(clips) \in Nat /\ DOMAIN clips = 1..Len(clips)
    BY <2>1
  <2>3. e \in Clip
    BY <2>1, ClipboardAssumption DEF Clip
  <2>4. \A i \in DOMAIN clips : clips[i] \in Clip
    BY <2>1, <2>2, ElementOfSeq
  <2> QED  BY <2>1, <2>2, <2>3, <2>4
<1>2. /\ \A i \in DOMAIN clips : clips[i].id # e.id /\ clips[i].text # e.text
      /\ Enforce(s, textBytes + Bytes[text]) /\ nextClip' = nextClip + 1 /\ pins' = pins
  <2>1. ASSUME NEW i \in DOMAIN clips PROVE clips[i].id < nextClip /\ clips[i].text # text
    BY DEF ClipboardInv, ClipIds, RecordNew, Holding
  <2>2. \A i \in DOMAIN clips : clips[i].id # nextClip
    BY <1>1, <2>1 DEF ClipboardInv, Clip
  <2> QED  BY <2>1, <2>2 DEF RecordNew
<1>3. e.id = nextClip /\ e.text = text /\ e.pinned = FALSE
  OBVIOUS
<1> HIDE DEF e
<1>4. /\ s \in Seq(Clip) /\ DOMAIN s = 1..Len(clips) + 1 /\ s[1] = e
      /\ \A k \in DOMAIN s : k # 1 => k - 1 \in DOMAIN clips /\ s[k] = clips[k - 1]
      /\ \A k \in DOMAIN clips : k + 1 \in DOMAIN s /\ s[k + 1] = clips[k]
  BY <1>1
<1>5. SizeOf(s) = textBytes + Bytes[text]
  <2>1. SizeOf(s) = Bytes[text] + SizeOf(clips) /\ SizeOf(clips) \in Nat /\ Bytes[text] \in Nat
    <3>1. SizeOf(clips) \in Nat
      BY <1>1, RemovedLeaves
    <3> QED  BY <1>1, <1>3, <3>1, SizeOfFront, BytesOfClip
  <2> QED  BY <2>1 DEF ClipboardInv
<1> HIDE DEF s
<1>6. Distinct(s)
  <2> SUFFICES ASSUME NEW k \in DOMAIN s, NEW l \in DOMAIN s, k # l
               PROVE  s[k].id # s[l].id /\ s[k].text # s[l].text
    BY DEF Distinct
  <2>1. CASE k = 1
    BY <1>2, <1>4, <2>1
  <2>2. CASE l = 1
    BY <1>2, <1>4, <2>2
  <2>3. CASE k # 1 /\ l # 1
    <3>1. /\ k - 1 \in DOMAIN clips /\ s[k] = clips[k - 1]
          /\ l - 1 \in DOMAIN clips /\ s[l] = clips[l - 1]
      BY <1>4, <2>3
    <3>2. k - 1 # l - 1
      BY <1>1, <1>4
    <3> QED  BY <1>1, <3>1, <3>2 DEF Distinct
  <2> QED  BY <2>1, <2>2, <2>3
<1>7. PinnedIds(s) = PinnedIds(clips)
  <2>1. ASSUME NEW x \in PinnedIds(s) PROVE x \in PinnedIds(clips)
    <3>1. PICK k \in DOMAIN s : s[k].pinned /\ x = s[k].id
      BY <2>1 DEF PinnedIds
    <3>2. k # 1
      BY <1>3, <1>4, <3>1
    <3> QED  BY <1>4, <3>1, <3>2 DEF PinnedIds
  <2>2. ASSUME NEW x \in PinnedIds(clips) PROVE x \in PinnedIds(s)
    <3>1. PICK k \in DOMAIN clips : clips[k].pinned /\ x = clips[k].id
      BY <2>2 DEF PinnedIds
    <3> QED  BY <1>4, <3>1 DEF PinnedIds
  <2> QED  BY <2>1, <2>2
<1>8. \A id \in ClipIds(s) : id < nextClip + 1
  <2> SUFFICES ASSUME NEW k \in DOMAIN s PROVE s[k].id < nextClip + 1
    BY DEF ClipIds
  <2>1. CASE k = 1
    BY <1>3, <1>4, <2>1 DEF ClipboardInv
  <2>2. CASE k # 1
    <3>1. k - 1 \in DOMAIN clips /\ s[k] = clips[k - 1]
      BY <1>4, <2>2
    <3>2. s[k].id \in Nat /\ s[k].id < nextClip
      BY <1>1, <3>1 DEF ClipboardInv, ClipIds, Clip
    <3> QED  BY <3>2 DEF ClipboardInv
  <2> QED  BY <2>1, <2>2
<1>9. /\ clips' \in Seq(Clip) /\ Distinct(clips') /\ ClipIds(clips') \subseteq ClipIds(s)
      /\ textBytes' = SizeOf(clips')
      /\ OverLimits(clips', textBytes') => \A i \in DOMAIN clips' : clips'[i].pinned
      /\ PinnedIds(clips') = PinnedIds(s)
  <2>1. Enforce(s, SizeOf(s))
    BY <1>2, <1>5
  <2> QED  BY <1>4, <1>6, <2>1, EnforceKeeps
<1> QED  BY <1>2, <1>7, <1>8, <1>9 DEF ClipboardInv

(* An entry is pinned or unpinned.                                           *)
LEMMA SetPinnedKeeps ==
  ASSUME ClipboardInv, NEW id, NEW pinned \in BOOLEAN, SetPinned(id, pinned)
  PROVE  ClipboardInv'
<1> DEFINE s == [i \in DOMAIN clips |->
                   IF clips[i].id = id THEN [clips[i] EXCEPT !.pinned = pinned] ELSE clips[i]]
<1>1. /\ clips \in Seq(Clip) /\ Distinct(clips) /\ Len(clips) \in Nat /\ DOMAIN clips = 1..Len(clips)
      /\ \A i \in DOMAIN clips : clips[i] \in Clip
  BY ElementOfSeq DEF ClipboardInv
<1>2. /\ id \in ClipIds(clips) /\ Enforce(s, textBytes) /\ nextClip' = nextClip
      /\ pins' = IF pinned THEN pins \union {id} ELSE pins \ {id}
  BY DEF SetPinned
<1>3. \A i \in DOMAIN clips :
        /\ s[i] \in Clip /\ s[i].id = clips[i].id /\ s[i].text = clips[i].text
        /\ s[i].pinned = IF clips[i].id = id THEN pinned ELSE clips[i].pinned
  BY <1>1 DEF Clip
<1>4. DOMAIN s = DOMAIN clips
  OBVIOUS
<1>5. s \in Seq(Clip) /\ Len(s) = Len(clips)
  <2>1. s \in [1..Len(clips) -> Clip]
    BY <1>1, <1>3
  <2> HIDE DEF s
  <2> QED  BY <1>1, <2>1, IsASeq
<1> HIDE DEF s
<1>6. Distinct(s) /\ ClipIds(s) = ClipIds(clips)
  BY <1>1, <1>3, <1>4 DEF Distinct, ClipIds
<1>7. SizeOf(s) = textBytes
  BY <1>1, <1>3, <1>5, SizeOfTexts DEF ClipboardInv
<1>8. PinnedIds(s) = pins'
  <2>1. ASSUME NEW x \in PinnedIds(s) PROVE x \in pins'
    <3>1. PICK k \in DOMAIN clips : s[k].pinned /\ x = s[k].id
      BY <1>4, <2>1 DEF PinnedIds
    <3> QED  BY <1>2, <1>3, <3>1 DEF PinnedIds, ClipboardInv
  <2>2. ASSUME NEW x \in pins' PROVE x \in PinnedIds(s)
    <3>1. CASE x = id
      <4>1. PICK k \in DOMAIN clips : clips[k].id = id
        BY <1>2 DEF ClipIds
      <4> QED  BY <1>2, <1>3, <1>4, <2>2, <3>1, <4>1 DEF PinnedIds
    <3>2. CASE x # id
      <4>1. x \in PinnedIds(clips)
        BY <1>2, <2>2, <3>2 DEF ClipboardInv
      <4>2. PICK k \in DOMAIN clips : clips[k].pinned /\ x = clips[k].id
        BY <4>1 DEF PinnedIds
      <4> QED  BY <1>3, <1>4, <3>2, <4>2 DEF PinnedIds
    <3> QED  BY <3>1, <3>2
  <2> QED  BY <2>1, <2>2
<1>9. /\ clips' \in Seq(Clip) /\ Distinct(clips') /\ ClipIds(clips') \subseteq ClipIds(s)
      /\ textBytes' = SizeOf(clips')
      /\ OverLimits(clips', textBytes') => \A i \in DOMAIN clips' : clips'[i].pinned
      /\ PinnedIds(clips') = PinnedIds(s)
  <2>1. Enforce(s, SizeOf(s))
    BY <1>2, <1>7
  <2> QED  BY <1>5, <1>6, <2>1, EnforceKeeps
<1> QED  BY <1>2, <1>6, <1>8, <1>9 DEF ClipboardInv

(* Entries are erased.                                                       *)
LEMMA DropKeeps ==
  ASSUME ClipboardInv, NEW ids, Drop(ids)
  PROVE  ClipboardInv'
<1> DEFINE r == Removed(clips, ids)
<1>1. clips \in Seq(Clip) /\ Distinct(clips) /\ Len(clips) \in Nat
  BY DEF ClipboardInv
<1>2. /\ clips' = r /\ textBytes' = textBytes - SizeOf(Among(clips, ids))
      /\ pins' = pins \ ids /\ nextClip' = nextClip
  BY DEF Drop
<1>3. /\ r \in Seq(Clip) /\ Distinct(r) /\ Len(r) <= Len(clips)
      /\ \A i \in DOMAIN r : \E j \in DOMAIN clips : r[i] = clips[j] /\ clips[j].id \notin ids
      /\ PinnedIds(r) = PinnedIds(clips) \ ids
      /\ SizeOf(r) = SizeOf(clips) - SizeOf(Among(clips, ids)) /\ SizeOf(r) <= SizeOf(clips)
      /\ SizeOf(clips) \in Nat /\ SizeOf(r) \in Nat
  BY <1>1, RemovedLeaves
<1> HIDE DEF r
<1>4. textBytes' = SizeOf(r) /\ textBytes = SizeOf(clips)
  BY <1>2, <1>3 DEF ClipboardInv
<1>5. OverLimits(r, textBytes') => OverLimits(clips, textBytes)
  <2>1. Len(r) \in Nat
    BY <1>3
  <2> QED  BY <1>1, <1>3, <1>4, <2>1, ClipboardAssumption DEF OverLimits
<1>6. ClipIds(r) \subseteq ClipIds(clips)
  BY <1>3 DEF ClipIds
<1> QED  BY <1>2, <1>3, <1>4, <1>5, <1>6 DEF ClipboardInv

(* Whatever is copied, pinned and erased, the count of bytes is the size of   *)
(* the entries, only pinned entries exceed the limits, no text is there       *)
(* twice, and a pinned entry stays.                                           *)
THEOREM ClipboardIsAccounted == ClipboardSpec => []ClipboardAccounted
<1>1. ClipboardInit => ClipboardInv
  <2> SUFFICES ASSUME ClipboardInit PROVE ClipboardInv
    OBVIOUS
  <2>1. clips = <<>> /\ textBytes = 0 /\ nextClip = 1 /\ pins = {} /\ DOMAIN clips = {}
    BY DEF ClipboardInit
  <2> QED  BY <2>1, SizeOfNone DEF ClipboardInv, Distinct, ClipIds, PinnedIds
<1>2. ClipboardInv /\ [ClipboardNext]_clipboardVars => ClipboardInv'
  <2> SUFFICES ASSUME ClipboardInv, [ClipboardNext]_clipboardVars PROVE ClipboardInv'
    OBVIOUS
  <2>1. ASSUME NEW text \in Texts, RecordKnown(text) \/ RecordNew(text) PROVE ClipboardInv'
    BY <2>1, RecordKnownKeeps, RecordNewKeeps
  <2>2. ASSUME NEW id \in 1..MaxCaptures, EraseClip(id) PROVE ClipboardInv'
    BY <2>2, DropKeeps DEF EraseClip
  <2>3. ASSUME NEW id \in 1..MaxCaptures, NEW pinned \in BOOLEAN, SetPinned(id, pinned)
        PROVE  ClipboardInv'
    BY <2>3, SetPinnedKeeps
  <2>4. CASE ClearUnpinned
    BY <2>4, DropKeeps DEF ClearUnpinned
  <2>5. CASE ClearAll
    <3>1. clips' = <<>> /\ textBytes' = 0 /\ nextClip' = nextClip /\ pins' = {} /\ DOMAIN clips' = {}
      BY <2>5 DEF ClearAll
    <3> QED  BY <3>1, SizeOfNone DEF ClipboardInv, Distinct, ClipIds, PinnedIds
  <2>6. CASE UNCHANGED clipboardVars
    BY <2>6 DEF clipboardVars, ClipboardInv
  <2> QED  BY <2>1, <2>2, <2>3, <2>4, <2>5, <2>6 DEF ClipboardNext
<1>3. ClipboardInv => ClipboardAccounted
  BY DEF ClipboardInv, ClipboardAccounted, Distinct, PinnedIds
<1> QED  BY <1>1, <1>2, <1>3, PTL DEF ClipboardSpec

=============================================================================
