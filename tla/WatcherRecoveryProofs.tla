------------------------ MODULE WatcherRecoveryProofs ------------------------
(* Proofs about WatcherRecovery, for any number of roots, configurations,     *)
(* losses, commands and failures.  The invariant has which watches exist,     *)
(* who passes the newest issue on, what the health may say of itself, and     *)
(* what a resync that may still be accepted has repaired.                     *)
EXTENDS WatcherRecovery, FiniteSetTheorems, TLAPS

(* A restart opens watches in places that are free.                           *)
RestartShape(o) ==
  /\ restart[o] # "idle" <=> IF o = "ui" THEN ui = "restart" ELSE worker = "restart"
  /\ restart[o] # "open" => opened[o] = {}
  /\ restart[o] = "open" => \A w \in owned : w[2] # o
  /\ \A w \in opened[o] : w[2] = o /\ w[1] \notin toOpen[o]

WatchShape ==
  /\ TypeOK
  /\ \A o \in Restarters : RestartShape(o)
  /\ \A w \in Watches : watch[w] # "none" => \E o \in Restarters : w \in owned \union opened[o]

Asking == {w \in Watches : watch[w] = "ask"}

(* The newest issue was taken, is queued, or is about to be.                  *)
PassedOn ==
  \/ health.generation \in {taken, pending}
  \/ \E w \in Asking : told[w] = health.generation
  \/ ui = "request" /\ uiGeneration = health.generation

IssueShape ==
  /\ taken <= health.generation /\ pending <= health.generation
  /\ workerGeneration <= health.generation
  /\ \A w \in Asking : told[w] <= health.generation
  /\ ui = "request" => uiGeneration <= health.generation
  /\ dropped \/ failures > 0 \/ PassedOn

ScanShape ==
  /\ scan <= generation /\ \A g \in succeeded : 1 <= g /\ g <= generation
  /\ scan \notin succeeded
  /\ worker = "await" => 1 <= awaited /\ awaited <= generation
  /\ scan # 0 => scanRoots \in Configs
  /\ worker = "launch" => copied \in Configs

(* No issue was noted since the worker took the one it works on: the scan     *)
(* has still to visit a root, or has, since a loss was noted there.           *)
RepairShape ==
  health.generation = workerGeneration =>
    /\ worker = "await" /\ scan = awaited => copied \subseteq unread \union visited
    /\ worker = "await" /\ awaited \in succeeded => noted \cap copied = {}
    /\ worker = "mark" => noted \cap copied = {}

Sound(h) == h.state = "healthy" => h.roots # 0 /\ ~h.restart

WatcherInv == WatchShape /\ IssueShape /\ ScanShape /\ RepairShape /\ Sound(health)

(* The worker's scan was published, and has not been marked yet.              *)
Done == worker = "mark" \/ (worker = "await" /\ awaited \in succeeded)

(* Of the losses reported in the roots that a command gives the index after   *)
(* that, until one is noted anew: the scan in progress reads them, or the     *)
(* command is about to launch one that does.                                  *)
CommandShape ==
  /\ worker = "await" /\ scan = awaited => scanRoots = copied
  /\ Done /\ health.generation = workerGeneration =>
       /\ scan # 0 => scanRoots \subseteq unread \union visited
       /\ ui \in {"launch", "rebuild"} => noted \cap roots \subseteq uiRoots
       /\ \/ failures > 0
          \/ noted \cap roots = {}
          \/ scan # 0 /\ noted \cap roots \subseteq scanRoots
          \/ ui = "launch"

-----------------------------------------------------------------------------
LEMMA SetRestart ==
  ASSUME NEW h \in Health, NEW b \in BOOLEAN
  PROVE  [h EXCEPT !.restart = b] \in Health /\ [h EXCEPT !.restart = b].generation = h.generation
  BY DEF Health

LEMMA NextIssue ==
  ASSUME NEW h \in Health
  PROVE  /\ [h EXCEPT !.generation = h.generation + 1] \in Health
         /\ [h EXCEPT !.generation = h.generation + 1].generation = h.generation + 1
  BY DEF Health

LEMMA SetState ==
  ASSUME NEW h \in Health, NEW s \in HealthState
  PROVE  [h EXCEPT !.state = s] \in Health /\ [h EXCEPT !.state = s].generation = h.generation
  BY DEF Health

(* What the methods of WatcherHealth make of a snapshot.                      *)
LEMMA HealthMoves ==
  ASSUME NEW h \in Health, NEW n \in Nat, NEW kind \in {"overflow", "error"}
  PROVE  /\ Started(h, n) \in Health /\ UpdateRoots(h, n) \in Health /\ NoteIssue(h, kind) \in Health
         /\ RequestResync(h) \in Health /\ MarkRestarted(h) \in Health /\ MarkResynced(h) \in Health
         /\ Started(h, n).generation = h.generation /\ UpdateRoots(h, n).generation = h.generation
         /\ MarkRestarted(h).generation = h.generation /\ MarkResynced(h).generation = h.generation
         /\ NoteIssue(h, kind).generation = h.generation + 1
         /\ RequestResync(h).generation = h.generation + 1
<1> USE DEF Health, HealthState
<1>1. Started(h, n) \in Health /\ Started(h, n).generation = h.generation
  BY DEF Started
<1>2. UpdateRoots(h, n) \in Health /\ UpdateRoots(h, n).generation = h.generation
  BY DEF UpdateRoots
<1>3. NoteIssue(h, kind) \in Health /\ NoteIssue(h, kind).generation = h.generation + 1
  <2> DEFINE broken == [h EXCEPT !.restart = h.restart \/ kind = "error"]
  <2> DEFINE newer == [broken EXCEPT !.generation = broken.generation + 1]
  <2>1. broken \in Health /\ broken.generation = h.generation
    BY SetRestart
  <2>2. newer \in Health /\ newer.generation = h.generation + 1
    BY <2>1, NextIssue
  <2>3. \E s \in HealthState : NoteIssue(h, kind) = [newer EXCEPT !.state = s]
    BY <2>2 DEF NoteIssue
  <2> HIDE DEF newer
  <2> QED  BY <2>2, <2>3, SetState
<1>4. RequestResync(h) \in Health /\ RequestResync(h).generation = h.generation + 1
  <2> DEFINE newer == [h EXCEPT !.generation = h.generation + 1]
  <2>1. newer \in Health /\ newer.generation = h.generation + 1
    BY NextIssue
  <2>2. RequestResync(h) = [newer EXCEPT !.state = "resync_required"]
    BY DEF RequestResync
  <2> HIDE DEF newer
  <2> QED  BY <2>1, <2>2, SetState
<1>5. MarkRestarted(h) \in Health /\ MarkRestarted(h).generation = h.generation
  BY DEF MarkRestarted
<1>6. MarkResynced(h) \in Health /\ MarkResynced(h).generation = h.generation
  BY DEF MarkResynced
<1> QED  BY <1>1, <1>2, <1>3, <1>4, <1>5, <1>6

LEMMA SoundMoves ==
  ASSUME NEW h \in Health, Sound(h), NEW n \in Nat, NEW kind \in {"overflow", "error"}, NEW g
  PROVE  /\ Sound(Started(h, n)) /\ Sound(UpdateRoots(h, n)) /\ Sound(NoteIssue(h, kind))
         /\ Sound(RequestResync(h)) /\ Sound(MarkRestarted(h))
         /\ MayMarkResynced(h, g) => Sound(MarkResynced(h))
<1> USE DEF Health, HealthState, Sound
<1>1. Sound(Started(h, n))
  BY DEF Started
<1>2. Sound(UpdateRoots(h, n))
  BY DEF UpdateRoots
<1>3. Sound(NoteIssue(h, kind))
  BY DEF NoteIssue
<1>4. Sound(RequestResync(h)) /\ Sound(MarkRestarted(h))
  BY DEF RequestResync, MarkRestarted
<1>5. MayMarkResynced(h, g) => Sound(MarkResynced(h))
  BY DEF MayMarkResynced, MarkResynced
<1> QED  BY <1>1, <1>2, <1>3, <1>4, <1>5

LEMMA RootsFinite ==
  /\ \A s \in SUBSET Roots : Cardinality(s) \in Nat
  /\ \A s \in SUBSET Watches : Cardinality(s) \in Nat
<1>1. IsFiniteSet(Restarters)
  <2>1. Restarters = ({} \union {"ui"}) \union {"worker"}
    BY DEF Restarters
  <2> QED  BY <2>1, FS_EmptySet, FS_AddElement
<1>2. IsFiniteSet(Watches)
  BY <1>1, RootsAssumption, FS_Product DEF Watches
<1> QED  BY <1>2, RootsAssumption, FS_Subset, FS_CardinalityType

-----------------------------------------------------------------------------
(* What a step that does not touch them leaves as it was.                     *)
LEMMA WatchesStay ==
  ASSUME WatchShape, TypeOK', UNCHANGED <<restart, toOpen, opened, owned>>,
         \A w \in Watches : watch'[w] # "none" => watch[w] # "none",
         ui' = "restart" <=> ui = "restart", worker' = "restart" <=> worker = "restart"
  PROVE  WatchShape'
<1>1. \A o \in Restarters : RestartShape(o)'
  BY DEF WatchShape, RestartShape
<1> QED  BY <1>1 DEF WatchShape

LEMMA IssuesStay ==
  ASSUME IssueShape, UNCHANGED <<pending, taken, workerGeneration, told, uiGeneration, dropped>>,
         health'.generation = health.generation, Asking' = Asking,
         ui' = "request" <=> ui = "request", failures > 0 => failures' > 0
  PROVE  IssueShape'
  BY DEF IssueShape, PassedOn

LEMMA ScansStay ==
  ASSUME ScanShape, UNCHANGED <<scan, scanRoots, generation, succeeded, awaited, copied>>,
         worker' \in {"await", "launch"} => worker' = worker
  PROVE  ScanShape'
  BY DEF ScanShape

LEMMA RepairsStay ==
  ASSUME RepairShape,
         UNCHANGED <<workerGeneration, scan, awaited, copied, unread, visited, noted, succeeded>>,
         health'.generation = health.generation,
         worker' \in {"await", "mark"} => worker' = worker
  PROVE  RepairShape'
  BY DEF RepairShape

(* A resync that is under way can no longer be accepted.                      *)
LEMMA RepairsVoid ==
  ASSUME workerGeneration \in Nat, health.generation \in Nat, workerGeneration <= health.generation,
         workerGeneration' = workerGeneration, health'.generation = health.generation + 1
  PROVE  RepairShape'
  BY DEF RepairShape

LEMMA InitWatcherInv == Init => WatcherInv
<1> SUFFICES ASSUME Init PROVE WatcherInv
  OBVIOUS
<1>1. NewHealth \in Health /\ NewHealth.generation = 0 /\ Sound(NewHealth)
  BY DEF NewHealth, Health, HealthState, Sound
<1>2. TypeOK
  <2>1. \A c \in Configs : c \subseteq Roots
    BY RootsAssumption
  <2> QED  BY <1>1, <2>1 DEF Init, TypeOK
<1>3. WatchShape
  BY <1>2 DEF Init, WatchShape, RestartShape, Restarters
<1>4. IssueShape
  BY <1>1 DEF Init, IssueShape, PassedOn, Asking
<1>5. ScanShape /\ RepairShape /\ Sound(health)
  BY <1>1 DEF Init, ScanShape, RepairShape
<1> QED  BY <1>3, <1>4, <1>5 DEF WatcherInv

-----------------------------------------------------------------------------
(* The watches.                                                               *)
LEMMA UnwatchedChangeInv == ASSUME WatcherInv, NEW r \in Roots, UnwatchedChange(r) PROVE WatcherInv'
<1> USE DEF UnwatchedChange, Lossy, Miss, user, watching, restarts, coordination
<1>1. TypeOK'
  BY DEF WatcherInv, WatchShape, TypeOK
<1> QED  BY <1>1, WatchesStay, IssuesStay, ScansStay, RepairsStay DEF WatcherInv, Asking

LEMMA ArmInv == ASSUME WatcherInv, NEW w \in Watches, Arm(w) PROVE WatcherInv'
<1> USE DEF Arm, user, restarts, index, coordination, bounds
<1>1. TypeOK'
  BY DEF WatcherInv, WatchShape, TypeOK
<1>2. Asking' = Asking
  BY DEF WatcherInv, WatchShape, TypeOK, Asking
<1>3. \A v \in Watches : watch'[v] # "none" => watch[v] # "none"
  BY DEF WatcherInv, WatchShape, TypeOK
<1> QED  BY <1>1, <1>2, <1>3, WatchesStay, IssuesStay, ScansStay, RepairsStay DEF WatcherInv

LEMMA TroubleInv ==
  ASSUME WatcherInv, NEW w \in Watches, NEW kind \in {"overflow", "error"}, NEW ends \in BOOLEAN,
         Trouble(w, kind, ends)
  PROVE  WatcherInv'
<1> USE DEF Trouble, Lossy, Miss, user, restarts, coordination
<1>1. TypeOK'
  <2>1. w[1] \in Roots
    BY DEF Watches
  <2> QED  BY <2>1 DEF WatcherInv, WatchShape, TypeOK
<1>2. Asking' = Asking
  BY DEF WatcherInv, WatchShape, TypeOK, Asking
<1>3. \A v \in Watches : watch'[v] # "none" => watch[v] # "none"
  BY DEF WatcherInv, WatchShape, TypeOK
<1> QED  BY <1>1, <1>2, <1>3, WatchesStay, IssuesStay, ScansStay, RepairsStay DEF WatcherInv

(* The newest issue is the one that this thread is about to ask for.          *)
LEMMA NoteInv == ASSUME WatcherInv, NEW w \in Watches, Note(w) PROVE WatcherInv'
<1>0. TypeOK /\ WatchShape /\ IssueShape /\ ScanShape /\ Sound(health)
  BY DEF WatcherInv, WatchShape
<1>1. /\ watch[w] = "note" /\ health' = NoteIssue(health, issue[w])
      /\ told' = [told EXCEPT ![w] = health'.generation]
      /\ noted' = noted \union {w[1]} /\ visited' = visited \ {w[1]}
      /\ watch' = [watch EXCEPT ![w] = "ask"]
      /\ UNCHANGED <<roots, restarting, user, issue, fatal, owned, restarts, scan, scanRoots, unread,
                     fresh, generation, succeeded, coordination, bounds, stale, dropped>>
  BY DEF Note
<1> USE DEF user, restarts, coordination, bounds
<1>2. /\ health' \in Health /\ health'.generation = health.generation + 1
      /\ health.generation \in Nat /\ Sound(health')
  <2>1. health \in Health /\ issue[w] \in {"overflow", "error"} /\ 0 \in Nat
    BY <1>0 DEF TypeOK
  <2>2. health' \in Health /\ health'.generation = health.generation + 1
    BY <1>1, <2>1, HealthMoves
  <2>3. Sound(health')
    BY <1>0, <1>1, <2>1, SoundMoves
  <2> QED  BY <2>1, <2>2, <2>3 DEF Health
<1>3. TypeOK'
  <2>1. w[1] \in Roots /\ health'.generation \in Nat
    BY <1>2 DEF Watches
  <2> QED  BY <1>0, <1>1, <1>2, <2>1 DEF TypeOK
<1>4. WatchShape'
  <2>1. \A v \in Watches : watch'[v] # "none" => watch[v] # "none"
    BY <1>0, <1>1 DEF TypeOK
  <2> QED  BY <1>0, <1>1, <1>3, <2>1, WatchesStay
<1>5. IssueShape'
  <2>1. w \in Asking' /\ told'[w] = health'.generation
    BY <1>0, <1>1 DEF TypeOK, Asking
  <2>2. \A v \in Asking' : v # w => v \in Asking /\ told'[v] = told[v] /\ told[v] \in Nat
    BY <1>0, <1>1 DEF TypeOK, Asking
  <2>3. \A v \in Asking' : told'[v] <= health'.generation
    BY <1>0, <1>2, <2>1, <2>2 DEF IssueShape
  <2>4. PassedOn'
    BY <2>1 DEF PassedOn
  <2>5. /\ taken' <= health'.generation /\ pending' <= health'.generation
        /\ workerGeneration' <= health'.generation
        /\ ui' = "request" => uiGeneration' <= health'.generation
    BY <1>0, <1>1, <1>2 DEF IssueShape, TypeOK
  <2> QED  BY <2>3, <2>4, <2>5 DEF IssueShape
<1>6. ScanShape'
  BY <1>0, <1>1, ScansStay
<1>7. RepairShape'
  BY <1>0, <1>1, <1>2, RepairsVoid DEF IssueShape, TypeOK
<1> QED  BY <1>2, <1>4, <1>5, <1>6, <1>7 DEF WatcherInv

(* What it asks for is queued, or is no newer than what is, or was dropped.   *)
LEMMA Requested ==
  ASSUME NEW g \in Nat, pending \in Nat, pending <= health.generation, g <= health.generation,
         health.generation \in Nat
  PROVE  /\ Request(g) \in Nat /\ Request(g) <= health.generation
         /\ health.generation \in {g, pending} => Request(g) = health.generation
  BY DEF Request

LEMMA AskInv == ASSUME WatcherInv, NEW w \in Watches, Ask(w) PROVE WatcherInv'
<1>0. TypeOK /\ WatchShape /\ IssueShape /\ ScanShape /\ RepairShape /\ Sound(health)
  BY DEF WatcherInv, WatchShape
<1>1. /\ watch[w] = "ask"
      /\ \/ pending' = pending /\ dropped' = TRUE
         \/ pending' = Request(told[w]) /\ dropped' = dropped
      /\ watch' = [watch EXCEPT ![w] = IF fatal[w] THEN "dead" ELSE "watching"]
      /\ UNCHANGED <<roots, health, restarting, user, issue, fatal, told, owned, restarts, index,
                     worker, workerGeneration, copied, awaited, taken, bounds, stale, noted>>
  BY DEF Ask
<1> USE DEF user, restarts, index, bounds
<1>2. /\ Request(told[w]) \in Nat /\ Request(told[w]) <= health.generation
      /\ health.generation \in {told[w], pending} => Request(told[w]) = health.generation
  <2>1. w \in Asking /\ told[w] \in Nat /\ pending \in Nat /\ health.generation \in Nat
    BY <1>0, <1>1 DEF Asking, TypeOK, Health
  <2> QED  BY <1>0, <2>1, Requested DEF IssueShape
<1>3. TypeOK'
  BY <1>0, <1>1, <1>2 DEF TypeOK
<1>4. WatchShape'
  <2>1. \A v \in Watches : watch'[v] # "none" => watch[v] # "none"
    BY <1>0, <1>1 DEF TypeOK
  <2> QED  BY <1>0, <1>1, <1>3, <2>1, WatchesStay
<1>5. IssueShape'
  <2>1. Asking' = Asking \ {w}
    BY <1>0, <1>1 DEF TypeOK, Asking
  <2>2. dropped' \/ failures > 0 \/ PassedOn'
    BY <1>0, <1>1, <1>2, <2>1 DEF IssueShape, PassedOn
  <2> QED  BY <1>0, <1>1, <1>2, <2>1, <2>2 DEF IssueShape
<1>6. ScanShape' /\ RepairShape'
  BY <1>0, <1>1, ScansStay, RepairsStay
<1> QED  BY <1>0, <1>1, <1>4, <1>5, <1>6 DEF WatcherInv

-----------------------------------------------------------------------------
(* Restarting the watches.                                                    *)
LEMMA StopWatchesInv == ASSUME WatcherInv, NEW o \in Restarters, StopWatches(o) PROVE WatcherInv'
<1>0. TypeOK /\ WatchShape /\ IssueShape /\ ScanShape /\ RepairShape /\ Sound(health)
  BY DEF WatcherInv, WatchShape
<1>1. /\ restart[o] = "stop" /\ Joinable(owned) /\ owned' = {}
      /\ watch' = [w \in Watches |-> IF w \in owned THEN "none" ELSE watch[w]]
      /\ restart' = [restart EXCEPT ![o] = "open"]
      /\ UNCHANGED <<roots, health, restarting, user, issue, fatal, told, toOpen, opened, index,
                     coordination, bounds, stale, noted, dropped>>
  BY DEF StopWatches
<1> USE DEF user, index, coordination, bounds
<1>2. /\ restart' \in [Restarters -> {"idle", "stop", "open", "update"}]
      /\ restart'[o] = "open" /\ \A k \in Restarters : k # o => restart'[k] = restart[k]
  BY <1>0, <1>1 DEF TypeOK
<1>3. TypeOK'
  BY <1>0, <1>1, <1>2 DEF TypeOK
<1>4. WatchShape'
  <2>1. ASSUME NEW k \in Restarters PROVE RestartShape(k)'
    BY <1>0, <1>1, <1>2, <2>1 DEF WatchShape, RestartShape
  <2>2. ASSUME NEW w \in Watches, watch'[w] # "none"
        PROVE  \E k \in Restarters : w \in owned' \union opened'[k]
    BY <1>0, <1>1, <2>2 DEF WatchShape
  <2> QED  BY <1>3, <2>1, <2>2 DEF WatchShape
<1>5. Asking' = Asking
  BY <1>1 DEF Asking, Joinable
<1> QED  BY <1>0, <1>1, <1>4, <1>5, IssuesStay, ScansStay, RepairsStay DEF WatcherInv

LEMMA OpenInv ==
  ASSUME WatcherInv, NEW o \in Restarters, NEW r \in Roots, Open(o, r)
  PROVE  WatcherInv'
<1>0. TypeOK /\ WatchShape /\ IssueShape /\ ScanShape /\ RepairShape /\ Sound(health)
  BY DEF WatcherInv, WatchShape
<1> DEFINE new == <<r, o>>
<1>1. /\ restart[o] = "open" /\ r \in toOpen[o]
      /\ toOpen' = [toOpen EXCEPT ![o] = toOpen[o] \ {r}]
      /\ opened' = [opened EXCEPT ![o] = opened[o] \union {new}]
      /\ watch' = [watch EXCEPT ![new] = "open"]
      /\ UNCHANGED <<roots, health, restarting, user, issue, fatal, told, owned, restart, index,
                     coordination, bounds, stale, noted, dropped>>
  BY DEF Open
<1> USE DEF user, index, coordination, bounds
<1>2. new \in Watches /\ new[1] = r /\ new[2] = o
  BY DEF Watches
<1> HIDE DEF new
<1>3. /\ opened' \in [Restarters -> SUBSET Watches] /\ toOpen' \in [Restarters -> SUBSET Roots]
      /\ watch' \in [Watches -> {"none", "open", "watching", "note", "ask", "dead"}]
      /\ opened'[o] = opened[o] \union {new} /\ toOpen'[o] = toOpen[o] \ {r}
      /\ \A k \in Restarters : k # o => opened'[k] = opened[k] /\ toOpen'[k] = toOpen[k]
  BY <1>0, <1>1, <1>2 DEF TypeOK
<1>4. TypeOK'
  BY <1>0, <1>1, <1>3 DEF TypeOK
<1>5. watch[new] = "none"
  BY <1>0, <1>1, <1>2 DEF WatchShape, RestartShape
<1>6. WatchShape'
  <2>1. ASSUME NEW k \in Restarters PROVE RestartShape(k)'
    <3>1. RestartShape(k)
      BY <1>0 DEF WatchShape
    <3> QED  BY <1>1, <1>2, <1>3, <3>1 DEF RestartShape
  <2>2. ASSUME NEW w \in Watches, watch'[w] # "none"
        PROVE  \E k \in Restarters : w \in owned' \union opened'[k]
    <3>1. CASE w = new
      BY <1>3, <3>1
    <3>2. CASE w # new
      <4>1. watch[w] # "none"
        BY <1>0, <1>1, <2>2, <3>2 DEF TypeOK
      <4>2. PICK k \in Restarters : w \in owned \union opened[k]
        BY <1>0, <4>1 DEF WatchShape
      <4> QED  BY <1>1, <1>3, <4>2
    <3> QED  BY <3>1, <3>2
  <2> QED  BY <1>4, <2>1, <2>2 DEF WatchShape
<1>7. Asking' = Asking
  BY <1>0, <1>1, <1>5 DEF Asking, TypeOK
<1> QED  BY <1>0, <1>1, <1>6, <1>7, IssuesStay, ScansStay, RepairsStay DEF WatcherInv

LEMMA OpenFailsInv ==
  ASSUME WatcherInv, NEW o \in Restarters, NEW r \in Roots, NEW silent \in BOOLEAN,
         OpenFails(o, r, silent)
  PROVE  WatcherInv'
<1>0. TypeOK /\ WatchShape /\ IssueShape /\ ScanShape /\ RepairShape /\ Sound(health)
  BY DEF WatcherInv, WatchShape
<1>1. /\ restart[o] = "open" /\ failures' = failures + 1
      /\ toOpen' = [toOpen EXCEPT ![o] = toOpen[o] \ {r}]
      /\ \/ UNCHANGED <<health, pending>>
         \/ /\ health' = NoteIssue(health, "error")
            /\ pending' \in {pending, Request(health'.generation)}
      /\ UNCHANGED <<roots, restarting, user, watching, restart, opened, index, worker,
                     workerGeneration, copied, awaited, taken, losses, configs, manual, stale, noted,
                     dropped>>
  BY DEF OpenFails
<1> USE DEF user, index, watching
<1>2. /\ health \in Health /\ health.generation \in Nat /\ pending \in Nat /\ failures \in Nat
      /\ failures' \in Nat /\ failures' > 0
  BY <1>0, <1>1 DEF TypeOK, Health
<1>3. /\ health' \in Health /\ Sound(health') /\ health'.generation \in Nat
      /\ pending' \in Nat /\ pending' <= health'.generation
      /\ \/ health'.generation = health.generation
         \/ health'.generation = health.generation + 1
  <2>1. CASE UNCHANGED <<health, pending>>
    BY <1>0, <1>2, <2>1 DEF IssueShape
  <2>2. CASE /\ health' = NoteIssue(health, "error")
             /\ pending' \in {pending, Request(health'.generation)}
    <3>1. 0 \in Nat /\ "error" \in {"overflow", "error"}
      OBVIOUS
    <3>2. health' \in Health /\ health'.generation = health.generation + 1
      BY <1>2, <2>2, <3>1, HealthMoves
    <3>3. Sound(health')
      BY <1>0, <1>2, <2>2, <3>1, SoundMoves
    <3>4. pending' \in Nat /\ pending' <= health'.generation
      BY <1>0, <1>2, <2>2, <3>2 DEF IssueShape, Request
    <3> QED  BY <1>2, <3>2, <3>3, <3>4
  <2> QED  BY <1>1, <2>1, <2>2
<1>4. /\ toOpen' \in [Restarters -> SUBSET Roots] /\ toOpen'[o] \subseteq toOpen[o]
      /\ \A k \in Restarters : k # o => toOpen'[k] = toOpen[k]
  BY <1>0, <1>1 DEF TypeOK
<1>5. TypeOK'
  BY <1>0, <1>1, <1>2, <1>3, <1>4 DEF TypeOK
<1>6. WatchShape'
  <2>1. ASSUME NEW k \in Restarters PROVE RestartShape(k)'
    <3>1. RestartShape(k) /\ toOpen'[k] \subseteq toOpen[k]
      BY <1>0, <1>4 DEF WatchShape
    <3> QED  BY <1>1, <3>1 DEF RestartShape
  <2> QED  BY <1>0, <1>1, <1>5, <2>1 DEF WatchShape
<1>7. IssueShape'
  <2>1. ASSUME NEW g \in Nat, g <= health.generation PROVE g <= health'.generation
    BY <1>2, <1>3, <2>1
  <2>2. Asking' = Asking /\ \A w \in Asking : told[w] \in Nat
    BY <1>0, <1>1 DEF Asking, TypeOK
  <2>3. taken \in Nat /\ workerGeneration \in Nat /\ uiGeneration \in Nat
    BY <1>0 DEF TypeOK
  <2> QED  BY <1>0, <1>1, <1>2, <1>3, <2>1, <2>2, <2>3 DEF IssueShape
<1>8. ScanShape'
  BY <1>0, <1>1, ScansStay
<1>9. RepairShape'
  <2>1. workerGeneration \in Nat /\ workerGeneration <= health.generation
    BY <1>0 DEF TypeOK, IssueShape
  <2> QED  BY <1>0, <1>1, <1>2, <1>3, <2>1, RepairsStay, RepairsVoid
<1> QED  BY <1>3, <1>6, <1>7, <1>8, <1>9 DEF WatcherInv

LEMMA AssignWatchesInv == ASSUME WatcherInv, NEW o \in Restarters, AssignWatches(o) PROVE WatcherInv'
<1>0. TypeOK /\ WatchShape /\ IssueShape /\ ScanShape /\ RepairShape /\ Sound(health)
  BY DEF WatcherInv, WatchShape
<1>1. /\ restart[o] = "open" /\ Joinable(owned) /\ owned' = opened[o]
      /\ watch' = [w \in Watches |-> IF w \in owned THEN "none" ELSE watch[w]]
      /\ opened' = [opened EXCEPT ![o] = {}]
      /\ restart' = [restart EXCEPT ![o] = "update"]
      /\ UNCHANGED <<roots, health, restarting, user, issue, fatal, told, toOpen, index,
                     coordination, bounds, stale, noted, dropped>>
  BY DEF AssignWatches
<1> USE DEF user, index, coordination, bounds
<1>2. /\ restart' \in [Restarters -> {"idle", "stop", "open", "update"}]
      /\ restart'[o] = "update" /\ \A k \in Restarters : k # o => restart'[k] = restart[k]
      /\ opened' \in [Restarters -> SUBSET Watches]
      /\ opened'[o] = {} /\ \A k \in Restarters : k # o => opened'[k] = opened[k]
  BY <1>0, <1>1 DEF TypeOK
<1>3. TypeOK'
  BY <1>0, <1>1, <1>2 DEF TypeOK
<1>4. WatchShape'
  <2>1. ASSUME NEW k \in Restarters PROVE RestartShape(k)'
    <3>1. RestartShape(k) /\ RestartShape(o)
      BY <1>0 DEF WatchShape
    <3> QED  BY <1>1, <1>2, <3>1 DEF RestartShape
  <2>2. ASSUME NEW w \in Watches, watch'[w] # "none"
        PROVE  \E k \in Restarters : w \in owned' \union opened'[k]
    <3>1. w \notin owned /\ watch[w] # "none"
      BY <1>1, <2>2
    <3>2. PICK k \in Restarters : w \in opened[k]
      BY <1>0, <3>1 DEF WatchShape
    <3> QED  BY <1>1, <1>2, <3>2
  <2> QED  BY <1>3, <2>1, <2>2 DEF WatchShape
<1>5. Asking' = Asking
  BY <1>1 DEF Asking, Joinable
<1> QED  BY <1>0, <1>1, <1>4, <1>5, IssuesStay, ScansStay, RepairsStay DEF WatcherInv

LEMMA UpdateHealthInv == ASSUME WatcherInv, NEW o \in Restarters, UpdateHealth(o) PROVE WatcherInv'
<1>0. TypeOK /\ WatchShape /\ IssueShape /\ ScanShape /\ RepairShape /\ Sound(health)
  BY DEF WatcherInv, WatchShape
<1>1. /\ restart[o] = "update" /\ restart' = [restart EXCEPT ![o] = "idle"]
      /\ health' = UpdateRoots(health, Cardinality(owned))
      /\ ui' = (IF o = "ui" THEN "idle" ELSE ui)
      /\ worker' = (IF o = "worker" THEN "unflag" ELSE worker)
      /\ UNCHANGED <<roots, restarting, uiGeneration, uiRoots, watching, toOpen, opened, index,
                     pending, workerGeneration, copied, awaited, taken, bounds, stale, noted, dropped>>
  BY DEF UpdateHealth
<1> USE DEF watching, index, bounds
<1>2. /\ restart' \in [Restarters -> {"idle", "stop", "open", "update"}]
      /\ restart'[o] = "idle" /\ \A k \in Restarters : k # o => restart'[k] = restart[k]
  BY <1>0, <1>1 DEF TypeOK
<1>3. health' \in Health /\ health'.generation = health.generation /\ Sound(health')
  <2>1. /\ Cardinality(owned) \in Nat /\ health \in Health
        /\ "error" \in {"overflow", "error"}
    BY <1>0, RootsFinite DEF TypeOK
  <2> QED  BY <1>0, <1>1, <2>1, HealthMoves, SoundMoves
<1>4. TypeOK'
  BY <1>0, <1>1, <1>2, <1>3 DEF TypeOK
<1>5. (o = "ui" => ui = "restart") /\ (o = "worker" => worker = "restart")
  BY <1>0, <1>1 DEF WatchShape, RestartShape
<1>6. WatchShape'
  <2>1. ASSUME NEW k \in Restarters PROVE RestartShape(k)'
    BY <1>0, <1>1, <1>2, <2>1 DEF WatchShape, RestartShape, Restarters
  <2> QED  BY <1>0, <1>1, <1>4, <2>1 DEF WatchShape
<1>7. Asking' = Asking
  BY <1>1 DEF Asking
<1> QED  BY <1>0, <1>1, <1>3, <1>5, <1>6, <1>7, IssuesStay, ScansStay, RepairsStay DEF WatcherInv

-----------------------------------------------------------------------------
(* The scans of the index.                                                    *)
LEMMA VisitInv == ASSUME WatcherInv, NEW r \in Roots, Visit(r) PROVE WatcherInv'
<1> USE DEF Visit, user, watching, restarts, coordination, bounds
<1>1. TypeOK'
  BY DEF WatcherInv, WatchShape, TypeOK
<1>2. RepairShape'
  <2>1. unread' \union visited' = unread \union visited
    OBVIOUS
  <2> QED  BY <2>1 DEF WatcherInv, RepairShape
<1> QED  BY <1>1, <1>2, WatchesStay, IssuesStay, ScansStay DEF WatcherInv, Asking

(* The scan of a resync repairs what was lost where it looked.                *)
LEMMA PublishInv == ASSUME WatcherInv, Publish PROVE WatcherInv'
<1>0. TypeOK /\ WatchShape /\ IssueShape /\ ScanShape /\ RepairShape /\ Sound(health)
  BY DEF WatcherInv, WatchShape
<1>1. /\ scan # 0 /\ unread = {} /\ roots' = scanRoots /\ stale' = Roots \ fresh
      /\ noted' = noted \ visited /\ succeeded' = succeeded \union {scan} /\ scan' = 0
      /\ UNCHANGED <<health, restarting, user, watching, restarts, scanRoots, unread, fresh, visited,
                     generation, coordination, bounds, dropped>>
  BY DEF Publish, PublishedRoots
<1> USE DEF user, watching, restarts, coordination, bounds
<1>2. TypeOK'
  <2>1. scanRoots \in Configs
    BY <1>0, <1>1 DEF ScanShape
  <2> QED  BY <1>0, <1>1, <2>1 DEF TypeOK
<1>3. ScanShape'
  BY <1>0, <1>1 DEF ScanShape, TypeOK
<1>4. RepairShape'
  BY <1>0, <1>1 DEF RepairShape, ScanShape
<1> QED  BY <1>0, <1>1, <1>2, <1>3, <1>4, WatchesStay, IssuesStay DEF WatcherInv, Asking

LEMMA ScanFailsInv == ASSUME WatcherInv, ScanFails PROVE WatcherInv'
<1>0. TypeOK /\ WatchShape /\ IssueShape /\ ScanShape /\ RepairShape /\ Sound(health)
  BY DEF WatcherInv, WatchShape
<1>1. /\ scan # 0 /\ scan' = 0 /\ failures' = failures + 1
      /\ UNCHANGED <<roots, health, restarting, user, watching, restarts, scanRoots, unread, fresh,
                     visited, generation, succeeded, coordination, losses, configs, manual, stale,
                     noted, dropped>>
  BY DEF ScanFails
<1> USE DEF user, watching, restarts, coordination
<1>2. TypeOK' /\ (failures > 0 => failures' > 0)
  BY <1>0, <1>1 DEF TypeOK
<1>3. ScanShape' /\ RepairShape'
  BY <1>0, <1>1 DEF ScanShape, RepairShape, TypeOK
<1> QED  BY <1>0, <1>1, <1>2, <1>3, WatchesStay, IssuesStay DEF WatcherInv, Asking

-----------------------------------------------------------------------------
(* The user's thread.                                                         *)
LEMMA ConfigureInv == ASSUME WatcherInv, NEW c \in Configs, Configure(c) PROVE WatcherInv'
<1> USE DEF Configure, watching, restarts, index, coordination
<1>1. TypeOK'
  BY DEF WatcherInv, WatchShape, TypeOK
<1> QED  BY <1>1, WatchesStay, IssuesStay, ScansStay, RepairsStay DEF WatcherInv, Asking

LEMMA RebuildInv == ASSUME WatcherInv, Rebuild PROVE WatcherInv'
<1> USE DEF Rebuild, watching, restarts, index, coordination
<1>1. TypeOK'
  BY DEF WatcherInv, WatchShape, TypeOK
<1> QED  BY <1>1, WatchesStay, IssuesStay, ScansStay, RepairsStay DEF WatcherInv, Asking

LEMMA LaunchScanInv == ASSUME WatcherInv, LaunchScan PROVE WatcherInv'
<1>0. TypeOK /\ WatchShape /\ IssueShape /\ ScanShape /\ RepairShape /\ Sound(health)
  BY DEF WatcherInv, WatchShape
<1>1. /\ ui \in {"launch", "rebuild"} /\ ui' = (IF ui = "rebuild" THEN "idle" ELSE "save")
      /\ generation' = generation + 1 /\ scan' = generation + 1
      /\ scanRoots' = uiRoots /\ unread' = uiRoots /\ fresh' = {} /\ visited' = {}
      /\ UNCHANGED <<succeeded, roots, health, restarting, uiGeneration, uiRoots, watching, restarts,
                     coordination, bounds, stale, noted, dropped>>
  BY DEF LaunchScan, Launch
<1> USE DEF watching, restarts, coordination, bounds
<1>2. TypeOK'
  <2>1. uiRoots \subseteq Roots
    BY <1>0, RootsAssumption DEF TypeOK
  <2> QED  BY <1>0, <1>1, <2>1 DEF TypeOK
<1>3. ScanShape'
  BY <1>0, <1>1 DEF ScanShape, TypeOK
<1>4. RepairShape'
  BY <1>0, <1>1 DEF RepairShape, ScanShape, TypeOK
<1> QED  BY <1>0, <1>1, <1>2, <1>3, <1>4, WatchesStay, IssuesStay DEF WatcherInv, Asking

LEMMA SaveFailsInv == ASSUME WatcherInv, SaveFails PROVE WatcherInv'
<1> USE DEF SaveFails, watching, restarts, index, coordination
<1>1. TypeOK' /\ (failures > 0 => failures' > 0)
  BY DEF WatcherInv, WatchShape, TypeOK
<1> QED  BY <1>1, WatchesStay, IssuesStay, ScansStay, RepairsStay DEF WatcherInv, Asking

LEMMA RestartForUserInv == ASSUME WatcherInv, RestartForUser PROVE WatcherInv'
<1>0. TypeOK /\ WatchShape /\ IssueShape /\ ScanShape /\ RepairShape /\ Sound(health)
  BY DEF WatcherInv, WatchShape
<1>1. /\ ui = "save" /\ ui' = "restart" /\ health' = Started(health, Cardinality(roots))
      /\ restart' = [restart EXCEPT !["ui"] = "stop"]
      /\ toOpen' = [toOpen EXCEPT !["ui"] = roots]
      /\ UNCHANGED <<opened, roots, restarting, uiGeneration, uiRoots, watching, index, coordination,
                     bounds, stale, noted, dropped>>
  BY DEF RestartForUser, BeginRestart
<1> USE DEF watching, index, coordination, bounds
<1>2. roots \subseteq Roots /\ Cardinality(roots) \in Nat
  BY <1>0, RootsFinite, RootsAssumption DEF TypeOK
<1>3. health' \in Health /\ health'.generation = health.generation /\ Sound(health')
  <2>1. health \in Health /\ "error" \in {"overflow", "error"}
    BY <1>0 DEF TypeOK
  <2> QED  BY <1>0, <1>1, <1>2, <2>1, HealthMoves, SoundMoves
<1>4. /\ restart' \in [Restarters -> {"idle", "stop", "open", "update"}]
      /\ toOpen' \in [Restarters -> SUBSET Roots]
      /\ restart'["ui"] = "stop" /\ restart'["worker"] = restart["worker"]
      /\ toOpen'["worker"] = toOpen["worker"]
  BY <1>0, <1>1, <1>2 DEF TypeOK, Restarters
<1>5. TypeOK'
  BY <1>0, <1>1, <1>3, <1>4 DEF TypeOK
<1>6. WatchShape'
  <2>1. RestartShape("ui") /\ RestartShape("worker")
    BY <1>0 DEF WatchShape, Restarters
  <2>2. opened["ui"] = {}
    BY <1>1, <2>1 DEF RestartShape, Restarters, WatchShape, TypeOK
  <2>3. RestartShape("ui")' /\ RestartShape("worker")'
    BY <1>1, <1>4, <2>1, <2>2 DEF RestartShape
  <2> QED  BY <1>0, <1>1, <1>5, <2>3 DEF WatchShape, Restarters
<1> QED  BY <1>0, <1>1, <1>3, <1>6, IssuesStay, ScansStay, RepairsStay DEF WatcherInv, Asking

LEMMA ManualResyncInv == ASSUME WatcherInv, ManualResync PROVE WatcherInv'
<1>0. TypeOK /\ WatchShape /\ IssueShape /\ ScanShape /\ RepairShape /\ Sound(health)
  BY DEF WatcherInv, WatchShape
<1>1. /\ ui = "idle" /\ ui' = "request" /\ manual' = manual + 1 /\ health' = RequestResync(health)
      /\ uiGeneration' = health'.generation
      /\ UNCHANGED <<roots, restarting, uiRoots, watching, restarts, index, coordination, losses,
                     configs, failures, stale, noted, dropped>>
  BY DEF ManualResync
<1> USE DEF watching, restarts, index, coordination
<1>2. /\ health' \in Health /\ health'.generation = health.generation + 1 /\ Sound(health')
      /\ health.generation \in Nat
  <2>1. health \in Health /\ "error" \in {"overflow", "error"} /\ 0 \in Nat
    BY <1>0 DEF TypeOK
  <2> QED  BY <1>0, <1>1, <2>1, HealthMoves, SoundMoves DEF Health
<1>3. TypeOK'
  BY <1>0, <1>1, <1>2 DEF TypeOK
<1>4. IssueShape'
  <2>1. Asking' = Asking /\ \A w \in Asking : told[w] \in Nat
    BY <1>0, <1>1 DEF Asking, TypeOK
  <2> QED  BY <1>0, <1>1, <1>2, <2>1 DEF IssueShape, PassedOn, TypeOK
<1>5. RepairShape'
  BY <1>0, <1>1, <1>2, RepairsVoid DEF IssueShape, TypeOK
<1> QED  BY <1>0, <1>1, <1>2, <1>3, <1>4, <1>5, WatchesStay, ScansStay DEF WatcherInv

LEMMA RequestManualInv == ASSUME WatcherInv, RequestManual PROVE WatcherInv'
<1>0. TypeOK /\ WatchShape /\ IssueShape /\ ScanShape /\ RepairShape /\ Sound(health)
  BY DEF WatcherInv, WatchShape
<1>1. /\ ui = "request" /\ ui' = "idle" /\ pending' = Request(uiGeneration)
      /\ UNCHANGED <<roots, health, restarting, uiGeneration, uiRoots, watching, restarts, index,
                     worker, workerGeneration, copied, awaited, taken, bounds, stale, noted, dropped>>
  BY DEF RequestManual
<1> USE DEF watching, restarts, index, bounds
<1>2. /\ Request(uiGeneration) \in Nat /\ Request(uiGeneration) <= health.generation
      /\ health.generation \in {uiGeneration, pending} => Request(uiGeneration) = health.generation
  BY <1>0, <1>1, Requested DEF TypeOK, Health, IssueShape
<1>3. TypeOK'
  BY <1>0, <1>1, <1>2 DEF TypeOK
<1>4. IssueShape'
  <2>1. Asking' = Asking
    BY <1>1 DEF Asking
  <2>2. dropped \/ failures > 0 \/ PassedOn'
    BY <1>0, <1>1, <1>2, <2>1 DEF IssueShape, PassedOn
  <2> QED  BY <1>0, <1>1, <1>2, <2>1, <2>2 DEF IssueShape
<1> QED  BY <1>0, <1>1, <1>3, <1>4, WatchesStay, ScansStay, RepairsStay DEF WatcherInv

-----------------------------------------------------------------------------
(* The worker of the coordinator.                                             *)
LEMMA TakeInv == ASSUME WatcherInv, Take PROVE WatcherInv'
<1>0. TypeOK /\ WatchShape /\ IssueShape /\ ScanShape /\ RepairShape /\ Sound(health)
  BY DEF WatcherInv, WatchShape
<1>1. /\ worker = "wait" /\ worker' = "check" /\ workerGeneration' = pending /\ pending' = 0
      /\ taken' = (IF pending > taken THEN pending ELSE taken)
      /\ UNCHANGED <<roots, health, restarting, user, watching, restarts, index, copied, awaited,
                     bounds, stale, noted, dropped>>
  BY DEF Take
<1> USE DEF user, watching, restarts, index, bounds
<1>2. TypeOK'
  BY <1>0, <1>1 DEF TypeOK
<1>3. IssueShape'
  <2>1. /\ pending \in Nat /\ taken \in Nat /\ health.generation \in Nat
        /\ pending <= health.generation /\ taken <= health.generation
    BY <1>0 DEF TypeOK, Health, IssueShape
  <2>2. Asking' = Asking
    BY <1>1 DEF Asking
  <2>3. PassedOn => PassedOn'
    BY <1>1, <2>1, <2>2 DEF PassedOn
  <2> QED  BY <1>0, <1>1, <2>1, <2>2, <2>3 DEF IssueShape
<1>4. RepairShape'
  BY <1>1 DEF RepairShape
<1> QED  BY <1>0, <1>1, <1>2, <1>3, <1>4, WatchesStay, ScansStay DEF WatcherInv

LEMMA CheckInv == ASSUME WatcherInv, Check PROVE WatcherInv'
<1> USE DEF Check, Goto, Current, user, watching, restarts, index, bounds
<1>1. TypeOK'
  BY DEF WatcherInv, WatchShape, TypeOK
<1>2. RepairShape'
  BY DEF RepairShape
<1> QED  BY <1>1, <1>2, WatchesStay, IssuesStay, ScansStay DEF WatcherInv, Asking

LEMMA RestartForRecoveryInv == ASSUME WatcherInv, RestartForRecovery PROVE WatcherInv'
<1>0. TypeOK /\ WatchShape /\ IssueShape /\ ScanShape /\ RepairShape /\ Sound(health)
  BY DEF WatcherInv, WatchShape
<1>1. /\ worker = "flag" /\ worker' = "restart" /\ restarting' = TRUE
      /\ restart' = [restart EXCEPT !["worker"] = "stop"]
      /\ toOpen' = [toOpen EXCEPT !["worker"] = roots]
      /\ UNCHANGED <<opened, pending, workerGeneration, copied, awaited, taken, roots, health, user,
                     watching, index, bounds, stale, noted, dropped>>
  BY DEF RestartForRecovery, BeginRestart, Goto
<1> USE DEF user, watching, index, bounds
<1>2. roots \subseteq Roots
  BY <1>0, RootsAssumption DEF TypeOK
<1>3. /\ restart' \in [Restarters -> {"idle", "stop", "open", "update"}]
      /\ toOpen' \in [Restarters -> SUBSET Roots]
      /\ restart'["worker"] = "stop" /\ restart'["ui"] = restart["ui"]
      /\ toOpen'["ui"] = toOpen["ui"]
  BY <1>0, <1>1, <1>2 DEF TypeOK, Restarters
<1>4. TypeOK'
  BY <1>0, <1>1, <1>3 DEF TypeOK
<1>5. WatchShape'
  <2>1. RestartShape("ui") /\ RestartShape("worker")
    BY <1>0 DEF WatchShape, Restarters
  <2>2. opened["worker"] = {}
    BY <1>1, <2>1 DEF RestartShape
  <2>3. RestartShape("ui")' /\ RestartShape("worker")'
    BY <1>1, <1>3, <2>1, <2>2 DEF RestartShape
  <2> QED  BY <1>0, <1>1, <1>4, <2>3 DEF WatchShape, Restarters
<1> QED  BY <1>0, <1>1, <1>5, IssuesStay, ScansStay, RepairsStay DEF WatcherInv, Asking

LEMMA UnflagInv == ASSUME WatcherInv, Unflag PROVE WatcherInv'
<1> USE DEF Unflag, Goto, user, watching, restarts, index, bounds
<1>1. TypeOK'
  BY DEF WatcherInv, WatchShape, TypeOK
<1> QED  BY <1>1, WatchesStay, IssuesStay, ScansStay, RepairsStay DEF WatcherInv, Asking

LEMMA RecheckInv == ASSUME WatcherInv, Recheck PROVE WatcherInv'
<1> USE DEF Recheck, Goto, Current, user, watching, restarts, index, bounds
<1>1. TypeOK'
  BY DEF WatcherInv, WatchShape, TypeOK
<1>2. RepairShape'
  BY DEF RepairShape
<1> QED  BY <1>1, <1>2, WatchesStay, IssuesStay, ScansStay DEF WatcherInv, Asking

LEMMA CountWatchesInv == ASSUME WatcherInv, CountWatches PROVE WatcherInv'
<1>0. /\ worker = "count" /\ worker' \in {"confirm", "wait"}
      /\ UNCHANGED <<pending, workerGeneration, copied, awaited, taken, roots, health, restarting, user,
                     watching, restarts, index, bounds, stale, noted, dropped>>
  BY DEF CountWatches, Goto
<1> USE DEF user, watching, restarts, index, bounds
<1>1. TypeOK'
  BY <1>0 DEF WatcherInv, WatchShape, TypeOK
<1> QED  BY <1>0, <1>1, WatchesStay, IssuesStay, ScansStay, RepairsStay DEF WatcherInv, Asking

LEMMA ConfirmRestartInv == ASSUME WatcherInv, ConfirmRestart PROVE WatcherInv'
<1>0. TypeOK /\ WatchShape /\ IssueShape /\ ScanShape /\ RepairShape /\ Sound(health)
  BY DEF WatcherInv, WatchShape
<1>1. /\ worker = "confirm" /\ worker' \in {"copy", "wait"}
      /\ health' \in {health, MarkRestarted(health)}
      /\ UNCHANGED <<pending, workerGeneration, copied, awaited, taken, roots, restarting, user,
                     watching, restarts, index, bounds, stale, noted, dropped>>
  BY DEF ConfirmRestart, Goto
<1> USE DEF user, watching, restarts, index, bounds
<1>2. health' \in Health /\ health'.generation = health.generation /\ Sound(health')
  <2>1. health \in Health /\ 0 \in Nat /\ "error" \in {"overflow", "error"}
    BY <1>0 DEF TypeOK
  <2> QED  BY <1>0, <1>1, <2>1, HealthMoves, SoundMoves
<1>3. TypeOK'
  BY <1>0, <1>1, <1>2 DEF TypeOK
<1> QED  BY <1>0, <1>1, <1>2, <1>3, WatchesStay, IssuesStay, ScansStay, RepairsStay DEF WatcherInv, Asking

LEMMA CopyRootsInv == ASSUME WatcherInv, CopyRoots PROVE WatcherInv'
<1>0. TypeOK /\ WatchShape /\ IssueShape /\ ScanShape /\ RepairShape /\ Sound(health)
  BY DEF WatcherInv, WatchShape
<1>1. /\ worker = "copy" /\ worker' = "launch" /\ copied' = roots
      /\ UNCHANGED <<roots, health, restarting, user, watching, restarts, index, pending,
                     workerGeneration, awaited, taken, bounds, stale, noted, dropped>>
  BY DEF CopyRoots
<1> USE DEF user, watching, restarts, index, bounds
<1>2. TypeOK'
  BY <1>0, <1>1, RootsAssumption DEF TypeOK
<1>3. ScanShape' /\ RepairShape'
  BY <1>0, <1>1 DEF ScanShape, RepairShape, TypeOK
<1> QED  BY <1>0, <1>1, <1>2, <1>3, WatchesStay, IssuesStay DEF WatcherInv, Asking

(* The scan that the worker will wait for has all its roots still to visit.   *)
LEMMA LaunchResyncInv == ASSUME WatcherInv, LaunchResync PROVE WatcherInv'
<1>0. TypeOK /\ WatchShape /\ IssueShape /\ ScanShape /\ RepairShape /\ Sound(health)
  BY DEF WatcherInv, WatchShape
<1>1. /\ worker = "launch" /\ worker' = "await" /\ awaited' = generation'
      /\ generation' = generation + 1 /\ scan' = generation + 1
      /\ scanRoots' = copied /\ unread' = copied /\ fresh' = {} /\ visited' = {}
      /\ UNCHANGED <<succeeded, roots, health, restarting, user, watching, restarts, pending,
                     workerGeneration, copied, taken, bounds, stale, noted, dropped>>
  BY DEF LaunchResync, Launch
<1> USE DEF user, watching, restarts, bounds
<1>2. TypeOK'
  BY <1>0, <1>1 DEF TypeOK
<1>3. ScanShape'
  BY <1>0, <1>1 DEF ScanShape, TypeOK
<1>4. RepairShape'
  BY <1>0, <1>1 DEF RepairShape, ScanShape, TypeOK
<1> QED  BY <1>0, <1>1, <1>2, <1>3, <1>4, WatchesStay, IssuesStay DEF WatcherInv, Asking

(* It is accepted only when that very scan succeeded.                         *)
LEMMA AwaitInv == ASSUME WatcherInv, Await PROVE WatcherInv'
<1> USE DEF Await, ScanDecided, AfterScan, Goto, user, watching, restarts, index, bounds
<1>1. TypeOK'
  BY DEF WatcherInv, WatchShape, TypeOK
<1>2. RepairShape'
  BY DEF WatcherInv, RepairShape
<1> QED  BY <1>1, <1>2, WatchesStay, IssuesStay, ScansStay DEF WatcherInv, Asking

LEMMA MarkInv == ASSUME WatcherInv, Mark PROVE WatcherInv'
<1>0. TypeOK /\ WatchShape /\ IssueShape /\ ScanShape /\ RepairShape /\ Sound(health)
  BY DEF WatcherInv, WatchShape
<1>1. /\ worker = "mark" /\ worker' = "wait"
      /\ health' = (IF MayMarkResynced(health, workerGeneration) THEN MarkResynced(health) ELSE health)
      /\ UNCHANGED <<pending, workerGeneration, copied, awaited, taken, roots, restarting, user,
                     watching, restarts, index, bounds, stale, noted, dropped>>
  BY DEF Mark, Goto
<1> USE DEF user, watching, restarts, index, bounds
<1>2. health' \in Health /\ health'.generation = health.generation /\ Sound(health')
  <2>1. health \in Health /\ 0 \in Nat /\ "error" \in {"overflow", "error"}
    BY <1>0 DEF TypeOK
  <2> QED  BY <1>0, <1>1, <2>1, HealthMoves, SoundMoves
<1>3. TypeOK'
  BY <1>0, <1>1, <1>2 DEF TypeOK
<1> QED  BY <1>0, <1>1, <1>2, <1>3, WatchesStay, IssuesStay, ScansStay, RepairsStay DEF WatcherInv, Asking

-----------------------------------------------------------------------------
LEMMA StutterInv == ASSUME WatcherInv, UNCHANGED vars PROVE WatcherInv'
<1> USE DEF vars, user, watching, restarts, index, coordination, bounds
<1>1. TypeOK'
  BY DEF WatcherInv, WatchShape, TypeOK
<1> QED  BY <1>1, WatchesStay, IssuesStay, ScansStay, RepairsStay DEF WatcherInv, Asking

LEMMA NextWatcherInv == WatcherInv /\ [Next]_vars => WatcherInv'
<1> SUFFICES ASSUME WatcherInv, [Next]_vars PROVE WatcherInv'
  OBVIOUS
<1>1. CASE Environment
  <2>1. ASSUME NEW r \in Roots, UnwatchedChange(r) PROVE WatcherInv'
    BY <2>1, UnwatchedChangeInv
  <2>2. ASSUME NEW w \in Watches, NEW ends \in BOOLEAN,
               Trouble(w, "overflow", ends) \/ Trouble(w, "error", ends)
        PROVE  WatcherInv'
    BY <2>2, TroubleInv
  <2>3. ASSUME NEW o \in Restarters, NEW r \in Roots, NEW silent \in BOOLEAN, OpenFails(o, r, silent)
        PROVE  WatcherInv'
    BY <2>3, OpenFailsInv
  <2> QED  BY <1>1, <2>1, <2>2, <2>3, ScanFailsInv, SaveFailsInv DEF Environment
<1>2. CASE User
  BY <1>2, RebuildInv, ManualResyncInv, ConfigureInv DEF User
<1>3. ASSUME NEW w \in Watches, WatchThread(w) PROVE WatcherInv'
  BY <1>3, ArmInv, NoteInv, AskInv DEF WatchThread
<1>4. ASSUME NEW o \in Restarters, Restart(o) PROVE WatcherInv'
  BY <1>4, StopWatchesInv, AssignWatchesInv, UpdateHealthInv, OpenInv DEF Restart
<1>5. CASE Scan
  BY <1>5, PublishInv, VisitInv DEF Scan
<1>6. CASE UiThread
  BY <1>6, LaunchScanInv, RestartForUserInv, RequestManualInv DEF UiThread
<1>7. CASE Worker
  BY <1>7, TakeInv, CheckInv, RestartForRecoveryInv, UnflagInv, RecheckInv, CountWatchesInv,
     ConfirmRestartInv, CopyRootsInv, LaunchResyncInv, AwaitInv, MarkInv DEF Worker
<1>8. CASE UNCHANGED vars
  BY <1>8, StutterInv
<1> QED  BY <1>1, <1>2, <1>3, <1>4, <1>5, <1>6, <1>7, <1>8 DEF Next

(* The watches, the issues, the scans and the resyncs stay as described       *)
(* above, whatever the threads do in whatever order.                          *)
THEOREM WatcherInvariant == Spec => []WatcherInv
  BY InitWatcherInv, NextWatcherInv, PTL DEF Spec

(* No reported loss is forgotten while nothing fails: when the coordinator    *)
(* and the threads are at rest, the newest issue was taken by the worker, or  *)
(* a restart in progress dropped the request (handle_watcher_issue()).        *)
THEOREM LossesAreTracked == Spec => []LossesTracked
<1>1. WatcherInv => LossesTracked
  <2> SUFFICES ASSUME WatcherInv PROVE LossesTracked
    OBVIOUS
  <2>1. TypeOK /\ IssueShape
    BY DEF WatcherInv, WatchShape
  <2>2. ASSUME pending = 0, ui = "idle", \A w \in Watches : watch[w] \notin {"note", "ask"},
               ~dropped, ~(failures > 0)
        PROVE  taken = health.generation
    <3>1. Asking = {}
      BY <2>2 DEF Asking
    <3>2. health.generation \in {taken, 0}
      BY <2>1, <2>2, <3>1 DEF IssueShape, PassedOn
    <3>3. taken \in Nat /\ taken <= health.generation
      BY <2>1 DEF TypeOK, IssueShape
    <3> QED  BY <3>2, <3>3
  <2> QED  BY <2>1, <2>2 DEF LossesTracked, NothingForgotten
<1> QED  BY <1>1, WatcherInvariant, PTL

(* WatcherHealth never calls a watcher healthy that watches nothing or that   *)
(* still has to be restarted, however its methods are interleaved.            *)
THEOREM HealthyIsWhole == Spec => []HealthyNeedsNoRestart
<1>1. WatcherInv => HealthyNeedsNoRestart
  BY DEF WatcherInv, Sound, HealthyNeedsNoRestart
<1> QED  BY <1>1, WatcherInvariant, PTL

-----------------------------------------------------------------------------
(* Only Mark changes the health on the way from "mark" to "wait".             *)
LEMMA OnlyMarkAccepts ==
  ASSUME WatcherInv, [Next]_vars, worker = "mark", worker' = "wait"
  PROVE  Mark
<1>1. RestartShape("worker")
  BY DEF WatcherInv, WatchShape, Restarters
<1>2. restart["worker"] = "idle"
  BY <1>1 DEF RestartShape
<1>3. ~Environment /\ ~User /\ ~Scan /\ ~UiThread
  BY DEF Environment, User, Scan, UiThread, UnwatchedChange, Trouble, OpenFails, ScanFails, SaveFails,
         Rebuild, ManualResync, Configure, Publish, Visit, LaunchScan, RestartForUser, RequestManual,
         coordination
<1>4. \A w \in Watches : ~WatchThread(w)
  BY DEF WatchThread, Arm, Note, Ask, coordination
<1>5. \A o \in Restarters : ~Restart(o)
  BY DEF Restart, StopWatches, AssignWatches, UpdateHealth, Open, coordination
<1>6. Worker => Mark
  BY DEF Worker, Take, Check, RestartForRecovery, Unflag, Recheck, CountWatches, ConfirmRestart,
         CopyRoots, LaunchResync, Await
<1>7. ~UNCHANGED vars
  BY DEF vars, coordination
<1> QED  BY <1>3, <1>4, <1>5, <1>6, <1>7 DEF Next

(* A mark that is accepted is current.                                        *)
LEMMA AcceptedIsCurrent ==
  ASSUME WatcherInv, Mark, health' # health
  PROVE  health.generation = workerGeneration /\ noted \cap copied = {}
<1>1. health.generation = workerGeneration
  BY DEF Mark, MayMarkResynced
<1> QED  BY <1>1 DEF Mark, WatcherInv, RepairShape

-----------------------------------------------------------------------------
(* A step that is none of a scan, of a command, or into "await" or "mark".    *)
LEMMA CommandStays ==
  ASSUME WatcherInv, CommandShape,
         UNCHANGED <<scan, scanRoots, unread, visited, succeeded, noted, roots, uiRoots, copied,
                     awaited, workerGeneration>>,
         worker' \in {"await", "mark"} => worker' = worker,
         ui' \in {"launch", "rebuild"} => ui' = ui,
         ui = "launch" => ui' = "launch" \/ failures' > 0,
         failures > 0 => failures' > 0,
         health'.generation \in {health.generation, health.generation + 1}
  PROVE  CommandShape'
<1>1. /\ workerGeneration \in Nat /\ health.generation \in Nat
      /\ workerGeneration <= health.generation
  BY DEF WatcherInv, WatchShape, TypeOK, Health, IssueShape
<1>2. health'.generation = workerGeneration' => health.generation = workerGeneration
  BY <1>1
<1>3. Done' => Done
  BY DEF Done
<1> QED  BY <1>2, <1>3 DEF CommandShape

LEMMA PublishCommand == ASSUME WatcherInv, CommandShape, Publish PROVE CommandShape'
<1>1. /\ scan # 0 /\ unread = {} /\ scan' = 0 /\ roots' = scanRoots /\ noted' = noted \ visited
      /\ succeeded' = succeeded \union {scan}
      /\ UNCHANGED <<health, ui, uiRoots, worker, workerGeneration, awaited, copied>>
  BY DEF Publish, PublishedRoots, user, coordination
<1>2. worker = "await" => awaited # 0
  BY DEF WatcherInv, ScanShape
<1>3. ASSUME Done', health.generation = workerGeneration PROVE noted' \cap roots' = {}
  <2>1. CASE Done
    <3>1. scanRoots \subseteq visited
      BY <1>1, <1>3, <2>1 DEF CommandShape
    <3> QED  BY <1>1, <3>1
  <2>2. CASE ~Done
    <3>1. worker = "await" /\ scan = awaited
      BY <1>1, <1>3, <2>2 DEF Done
    <3>2. scanRoots = copied /\ copied \subseteq visited
      BY <1>1, <1>3, <3>1 DEF CommandShape, WatcherInv, RepairShape
    <3> QED  BY <1>1, <3>2
  <2> QED  BY <2>1, <2>2
<1> QED  BY <1>1, <1>2, <1>3 DEF CommandShape

LEMMA LaunchScanCommand == ASSUME WatcherInv, CommandShape, LaunchScan PROVE CommandShape'
<1>1. /\ scan' = generation + 1 /\ scanRoots' = uiRoots /\ unread' = uiRoots
      /\ ui \in {"launch", "rebuild"} /\ ui' \notin {"launch", "rebuild"}
      /\ UNCHANGED <<succeeded, noted, roots, health, worker, workerGeneration, awaited, copied>>
  BY DEF LaunchScan, Launch, coordination
<1>2. /\ generation \in Nat
      /\ worker = "await" => awaited \in Nat /\ awaited <= generation
  BY DEF WatcherInv, WatchShape, TypeOK, ScanShape
<1>3. scan' # 0 /\ (worker = "await" => scan' # awaited)
  BY <1>1, <1>2
<1>4. Done' <=> Done
  BY <1>1 DEF Done
<1> QED  BY <1>1, <1>3, <1>4 DEF CommandShape

LEMMA LaunchResyncCommand == ASSUME WatcherInv, CommandShape, LaunchResync PROVE CommandShape'
<1>1. /\ worker' = "await" /\ awaited' = generation + 1 /\ scan' = generation + 1
      /\ scanRoots' = copied /\ UNCHANGED <<copied, succeeded>>
  BY DEF LaunchResync, Launch
<1>2. generation \in Nat /\ \A g \in succeeded : g <= generation
  BY DEF WatcherInv, WatchShape, TypeOK, ScanShape
<1>3. generation + 1 \notin succeeded
  BY <1>2
<1>4. ~Done'
  BY <1>1, <1>3 DEF Done
<1> QED  BY <1>1, <1>4 DEF CommandShape

LEMMA NextCommand ==
  ASSUME WatcherInv, CommandShape, [Next]_vars
  PROVE  CommandShape'
<1>0. /\ health \in Health /\ 0 \in Nat /\ "error" \in {"overflow", "error"} /\ health.generation \in Nat
      /\ issue \in [Watches -> {"overflow", "error"}] /\ owned \subseteq Watches /\ roots \subseteq Roots
      /\ generation \in Nat /\ failures \in Nat
  BY RootsAssumption DEF WatcherInv, WatchShape, TypeOK, Health
<1> USE DEF user, watching, restarts, coordination, bounds
<1>1. CASE Environment
  <2>1. ASSUME NEW r \in Roots, UnwatchedChange(r) PROVE CommandShape'
    BY <1>0, <2>1, CommandStays DEF UnwatchedChange, Lossy, Miss
  <2>2. ASSUME NEW w \in Watches, NEW ends \in BOOLEAN, NEW kind \in {"overflow", "error"},
               Trouble(w, kind, ends)
        PROVE  CommandShape'
    BY <1>0, <2>2, CommandStays DEF Trouble, Lossy, Miss
  <2>3. ASSUME NEW o \in Restarters, NEW r \in Roots, NEW silent \in BOOLEAN, OpenFails(o, r, silent)
        PROVE  CommandShape'
    <3>1. health'.generation \in {health.generation, health.generation + 1}
      BY <1>0, <2>3, HealthMoves DEF OpenFails
    <3> QED  BY <1>0, <2>3, <3>1, CommandStays DEF OpenFails, index
  <2>4. ASSUME ScanFails PROVE CommandShape'
    <3>1. /\ failures' > 0 /\ scan' = 0
          /\ UNCHANGED <<scanRoots, unread, visited, succeeded, noted, roots, ui, uiRoots, copied,
                         awaited, worker, workerGeneration, health>>
      BY <1>0, <2>4 DEF ScanFails
    <3>2. worker = "await" => awaited # 0
      BY DEF WatcherInv, ScanShape
    <3> QED  BY <3>1, <3>2 DEF CommandShape, Done
  <2>5. ASSUME SaveFails PROVE CommandShape'
    BY <1>0, <2>5, CommandStays DEF SaveFails, index
  <2> QED  BY <1>1, <2>1, <2>2, <2>3, <2>4, <2>5 DEF Environment
<1>2. CASE User
  <2>1. ASSUME Rebuild PROVE CommandShape'
    BY <2>1 DEF Rebuild, index, CommandShape, Done
  <2>2. ASSUME ManualResync PROVE CommandShape'
    <3>1. health'.generation = health.generation + 1
      BY <1>0, <2>2, HealthMoves DEF ManualResync
    <3> QED  BY <2>2, <3>1, CommandStays DEF ManualResync, index
  <2>3. ASSUME NEW c \in Configs, Configure(c) PROVE CommandShape'
    BY <2>3 DEF Configure, index, CommandShape, Done
  <2> QED  BY <1>2, <2>1, <2>2, <2>3 DEF User
<1>3. ASSUME NEW w \in Watches, WatchThread(w) PROVE CommandShape'
  <2>1. ASSUME Arm(w) PROVE CommandShape'
    BY <1>0, <2>1, CommandStays DEF Arm, index
  <2>2. ASSUME Note(w) PROVE CommandShape'
    <3>1. health'.generation = health.generation + 1
      BY <1>0, <2>2, HealthMoves DEF Note
    <3>2. /\ workerGeneration \in Nat /\ workerGeneration <= health.generation
      BY DEF WatcherInv, WatchShape, TypeOK, IssueShape
    <3>3. health'.generation # workerGeneration
      BY <1>0, <3>1, <3>2
    <3> QED  BY <2>2, <3>3 DEF Note, CommandShape
  <2>3. ASSUME Ask(w) PROVE CommandShape'
    BY <1>0, <2>3, CommandStays DEF Ask, index
  <2> QED  BY <1>3, <2>1, <2>2, <2>3 DEF WatchThread
<1>4. ASSUME NEW o \in Restarters, Restart(o) PROVE CommandShape'
  <2>1. ASSUME StopWatches(o) PROVE CommandShape'
    BY <1>0, <2>1, CommandStays DEF StopWatches, index
  <2>2. ASSUME AssignWatches(o) PROVE CommandShape'
    BY <1>0, <2>2, CommandStays DEF AssignWatches, index
  <2>3. ASSUME UpdateHealth(o) PROVE CommandShape'
    <3>1. health'.generation = health.generation
      BY <1>0, <2>3, RootsFinite, HealthMoves DEF UpdateHealth
    <3>2. ui = "launch" => o # "ui"
      BY <2>3 DEF UpdateHealth, WatcherInv, WatchShape, RestartShape
    <3> QED  BY <2>3, <3>1, <3>2, CommandStays DEF UpdateHealth, index
  <2>4. ASSUME NEW r \in Roots, Open(o, r) PROVE CommandShape'
    BY <1>0, <2>4, CommandStays DEF Open, index
  <2> QED  BY <1>4, <2>1, <2>2, <2>3, <2>4 DEF Restart
<1>5. CASE Scan
  <2>1. ASSUME NEW r \in Roots, Visit(r) PROVE CommandShape'
    <3>1. /\ unread' \union visited' = unread \union visited
          /\ UNCHANGED <<scan, scanRoots, succeeded, noted, roots, ui, uiRoots, copied, awaited,
                         worker, workerGeneration, health, failures>>
      BY <2>1 DEF Visit
    <3> QED  BY <3>1 DEF CommandShape, Done
  <2> QED  BY <1>5, <2>1, PublishCommand DEF Scan
<1>6. CASE UiThread
  <2>1. ASSUME RestartForUser PROVE CommandShape'
    <3>1. health'.generation = health.generation
      BY <1>0, <2>1, RootsFinite, HealthMoves DEF RestartForUser
    <3> QED  BY <2>1, <3>1, CommandStays DEF RestartForUser, index
  <2>2. ASSUME RequestManual PROVE CommandShape'
    BY <1>0, <2>2, CommandStays DEF RequestManual, index
  <2> QED  BY <1>6, <2>1, <2>2, LaunchScanCommand DEF UiThread
<1>7. CASE Worker
  <2> USE DEF Goto, index
  <2>1. ASSUME Check \/ Recheck PROVE CommandShape'
    BY <2>1 DEF Check, Recheck, Current, CommandShape, Done
  <2>2. ASSUME RestartForRecovery \/ Unflag \/ CountWatches PROVE CommandShape'
    BY <1>0, <2>2, CommandStays DEF RestartForRecovery, Unflag, CountWatches
  <2>3. ASSUME ConfirmRestart \/ Mark PROVE CommandShape'
    BY <2>3 DEF ConfirmRestart, Mark, CommandShape, Done
  <2>4. ASSUME Take \/ CopyRoots PROVE CommandShape'
    BY <2>4 DEF Take, CopyRoots, CommandShape, Done
  <2>5. ASSUME Await PROVE CommandShape'
    BY <2>5 DEF Await, AfterScan, CommandShape, Done
  <2> QED  BY <1>7, <2>1, <2>2, <2>3, <2>4, <2>5, LaunchResyncCommand DEF Worker
<1>8. CASE UNCHANGED vars
  BY <1>0, <1>8, CommandStays DEF vars, index
<1> QED  BY <1>1, <1>2, <1>3, <1>4, <1>5, <1>6, <1>7, <1>8 DEF Next

(* An accepted resync has repaired every loss that was reported before it was *)
(* accepted in the roots that its scan was given, and the roots that commands *)
(* have given the index since are being read, unless a call failed.           *)
(* perform_watcher_resync() marks only what no newer issue has overtaken, and *)
(* only after that scan.                                                      *)
THEOREM ResyncsRepair == Spec => ResyncRepairs
<1> DEFINE Repaired ==
      /\ noted \cap copied = {}
      /\ failures > 0 \/ \A r \in noted \cap roots : ToBeRead(r)
<1>1. Init => CommandShape
  BY DEF Init, CommandShape, Done
<1>2. WatcherInv /\ CommandShape /\ [Next]_vars => CommandShape'
  BY NextCommand
<1>3. WatcherInv /\ CommandShape /\ [Next]_vars =>
        [(worker = "mark" /\ worker' = "wait" /\ health' # health) => Repaired]_vars
  <2> SUFFICES ASSUME WatcherInv, CommandShape, [Next]_vars,
                      worker = "mark", worker' = "wait", health' # health
               PROVE  Repaired
    OBVIOUS
  <2>1. health.generation = workerGeneration /\ noted \cap copied = {}
    BY OnlyMarkAccepts, AcceptedIsCurrent
  <2>2. failures > 0 \/ \A r \in noted \cap roots : ToBeRead(r)
    BY <2>1 DEF CommandShape, Done, ToBeRead
  <2> QED  BY <2>1, <2>2
<1> QED  BY <1>1, <1>2, <1>3, WatcherInvariant, PTL DEF Spec, ResyncRepairs
=============================================================================
