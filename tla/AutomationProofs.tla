---------------------------- MODULE AutomationProofs ----------------------------
(***************************************************************************)
(* Proofs about automations: AutomationEngine, for any number of           *)
(* automations, executions, firings, failing saves and kills, and          *)
(* AutomationSchedule, for any weekdays, any days on which the wall-clock  *)
(* time does not exist, and any time at which the search starts.           *)
(***************************************************************************)
EXTENDS AutomationEngine, FiniteSetTheorems, TLAPS

-----------------------------------------------------------------------------
(* The next occurrence.                                                     *)

CONSTANTS Weekdays, Gaps, LastDay
VARIABLES day, ahead, due, enabled, parked

Schedule == INSTANCE AutomationSchedule

(* Among the days that are searched a first one exists if any does. *)
LEMMA FirstExists ==
  ASSUME NEW from \in Int, NEW C, C \subseteq from..from + 13, C # {}
  PROVE  \E d \in C : \A e \in C : d <= e
<1> DEFINE Least(k) == \E d \in C : d < from + k
<1>1. Least(14)
  <2>1. PICK d \in C : TRUE
    OBVIOUS
  <2>2. d < from + 14
    BY SMT
  <2> QED  BY <2>2
<1>2. ASSUME NEW k \in 0..13, ~Least(k), Least(k + 1)
      PROVE  \E d \in C : \A e \in C : d <= e
  <2>1. PICK d \in C : d < from + (k + 1)
    BY <1>2
  <2>2. \A e \in C : e >= from + k
    BY <1>2, SMT
  <2> QED  BY <2>1, <2>2, SMT
<1>3. ~Least(0)
  BY SMT
<1> HIDE DEF Least
<1>4. \E k \in 0..13 : ~Least(k) /\ Least(k + 1)
  BY <1>1, <1>3, SMTT(30)
<1> QED  BY <1>2, <1>4

(* next_calendar_occurrence() returns nothing, or an occurrence after the  *)
(* given time before which there is no other.                              *)
THEOREM NextIsFirst ==
  ASSUME NEW from \in Nat, NEW fromAhead \in BOOLEAN,
         Schedule!NextOccurrence(from, fromAhead) # Schedule!NoOccurrence
  PROVE  LET first == Schedule!NextOccurrence(from, fromAhead)
         IN /\ Schedule!Occurs(first) /\ Schedule!After(first, from, fromAhead)
            /\ \A d \in from..first - 1 : ~(Schedule!Occurs(d) /\ Schedule!After(d, from, fromAhead))
<1> DEFINE C == Schedule!Candidates(from, fromAhead)
           first == Schedule!NextOccurrence(from, fromAhead)
<1>1. C # {} /\ C \subseteq from..from + 13
  BY DEF Schedule!NextOccurrence, Schedule!Candidates, Schedule!SearchedDays
<1>2. PICK d \in C : \A e \in C : d <= e
  BY <1>1, FirstExists
<1>3. Schedule!IsNext(d, from, fromAhead)
  BY <1>2 DEF Schedule!IsNext
<1>4. Schedule!IsNext(first, from, fromAhead)
  BY <1>1, <1>2, <1>3 DEF Schedule!NextOccurrence
<1> QED  BY <1>1, <1>4, SMT DEF Schedule!IsNext, Schedule!Candidates, Schedule!SearchedDays

(* A gap is skipped safely when the search starts on another weekday, or   *)
(* before the wall-clock time of the day: a selected weekday falls on two  *)
(* of the days that are searched, and one gap takes only one of them.      *)
THEOREM GapSkippedAhead ==
  ASSUME NEW from \in Nat, NEW fromAhead \in BOOLEAN, NEW w \in Weekdays \cap 0..6,
         NEW gap, Gaps \cap (from..from + 13) \subseteq {gap},
         fromAhead \/ from % 7 # w
  PROVE  Schedule!NextOccurrence(from, fromAhead) # Schedule!NoOccurrence
<1>1. PICK d \in from..from + 6 : d % 7 = w
  <2> DEFINE r == from % 7
             d == IF w >= r THEN from + (w - r) ELSE from + (7 + w - r)
  <2>1. d \in from..from + 6 /\ d % 7 = w
    BY SMT
  <2> QED  BY <2>1
<1>2. (d + 7) % 7 = w /\ d + 7 \in from..from + 13 /\ d # d + 7
  BY <1>1, SMT
<1>3. PICK e \in {d, d + 7} : e \notin Gaps
  BY <1>1, <1>2, SMT
<1>4. e \in Schedule!Candidates(from, fromAhead)
  BY <1>1, <1>2, <1>3, SMT DEF Schedule!Candidates, Schedule!SearchedDays, Schedule!Occurs,
     Schedule!After
<1>5. PICK n \in Schedule!Candidates(from, fromAhead) : Schedule!IsNext(n, from, fromAhead)
  <2>1. PICK n \in Schedule!Candidates(from, fromAhead) :
          \A x \in Schedule!Candidates(from, fromAhead) : n <= x
    BY <1>4, FirstExists DEF Schedule!Candidates, Schedule!SearchedDays
  <2> QED  BY <2>1 DEF Schedule!IsNext
<1>6. Schedule!NextOccurrence(from, fromAhead) \in Schedule!Candidates(from, fromAhead)
  BY <1>4, <1>5 DEF Schedule!NextOccurrence
<1> QED  BY <1>6, SMT DEF Schedule!Candidates, Schedule!SearchedDays, Schedule!NoOccurrence

(* The case that the comment of automation_schedule.cpp 57 forgets: after  *)
(* today's occurrence of the only weekday, with the next one in a gap, the *)
(* one after that is a day beyond the search.                              *)
THEOREM GapEndsSchedule ==
  ASSUME NEW from \in Nat, Weekdays = {from % 7}, from + 7 \in Gaps
  PROVE  Schedule!NextOccurrence(from, FALSE) = Schedule!NoOccurrence
<1>1. ASSUME NEW d \in Schedule!Candidates(from, FALSE)
      PROVE  FALSE
  <2>1. d \in from + 1..from + 13 /\ d % 7 = from % 7 /\ d # from + 7
    BY SMT DEF Schedule!Candidates, Schedule!SearchedDays, Schedule!Occurs, Schedule!After
  <2> QED  BY <2>1, SMT
<1> QED  BY <1>1 DEF Schedule!NextOccurrence

-----------------------------------------------------------------------------
DayOK == day \in Nat /\ ahead \in BOOLEAN

(* An automation is never due on a day on which the wall-clock time does   *)
(* not exist, nor on a weekday that is not selected.                       *)
THEOREM NeverDueInGap == Schedule!Spec => [](DayOK /\ Schedule!DueIsReal)
<1>1. Schedule!Init => DayOK /\ Schedule!DueIsReal
  <2> SUFFICES ASSUME Schedule!Init PROVE DayOK /\ Schedule!DueIsReal
    OBVIOUS
  <2>1. DayOK
    BY SMT DEF Schedule!Init, DayOK
  <2> QED  BY <2>1, NextIsFirst DEF Schedule!Init, DayOK, Schedule!DueIsReal
<1>2. (DayOK /\ Schedule!DueIsReal) /\ [Schedule!Next]_(Schedule!vars) => (DayOK /\ Schedule!DueIsReal)'
  <2> SUFFICES ASSUME DayOK, Schedule!DueIsReal, [Schedule!Next]_(Schedule!vars) PROVE DayOK'
        /\ Schedule!DueIsReal'
    OBVIOUS
  <2>1. CASE Schedule!Tick
    <3>1. ahead' \in BOOLEAN
      BY <2>1 DEF Schedule!Tick
    <3>2. day' = day \/ day' = day + 1
      BY <2>1 DEF Schedule!Tick
    <3>3. day' \in Nat
      BY <3>2, SMT DEF DayOK
    <3>4. Schedule!DueIsReal'
      BY <2>1 DEF Schedule!Tick, Schedule!DueIsReal, Schedule!Occurs
    <3> QED  BY <3>1, <3>3, <3>4 DEF DayOK
  <2>2. ASSUME Schedule!TakeNext(Schedule!NextOccurrence(day, ahead)) PROVE Schedule!DueIsReal'
    BY <2>2, NextIsFirst DEF Schedule!TakeNext, DayOK, Schedule!DueIsReal, Schedule!Occurs
  <2>3. CASE Schedule!Fire
    BY <2>2, <2>3 DEF Schedule!Fire, DayOK
  <2>4. CASE Schedule!Restore
    BY <2>2, <2>4 DEF Schedule!Restore, DayOK
  <2>5. CASE Schedule!Enable
    BY <2>2, <2>5 DEF Schedule!Enable, DayOK
  <2>6. CASE Schedule!Refresh
    <3>1. due' = due \/ (due' = Schedule!NextOccurrence(day, ahead) /\ due' # Schedule!NoOccurrence)
      BY <2>6 DEF Schedule!Refresh
    <3>2. enabled' = enabled /\ DayOK'
      BY <2>6 DEF Schedule!Refresh, DayOK
    <3> QED  BY <3>1, <3>2, NextIsFirst DEF DayOK, Schedule!DueIsReal, Schedule!Occurs
  <2>7. CASE UNCHANGED Schedule!vars
    BY <2>7 DEF Schedule!vars, DayOK, Schedule!DueIsReal, Schedule!Occurs
  <2> QED  BY <2>1, <2>3, <2>4, <2>5, <2>6, <2>7 DEF Schedule!Next
<1> QED  BY <1>1, <1>2, PTL DEF Schedule!Spec

(* next_fixed_occurrence() returns a time after now that is a whole number *)
(* of intervals after the previous one, and skips only times that are not  *)
(* after now.                                                              *)
THEOREM FixedIsFirst ==
  ASSUME NEW previous \in Int, NEW interval \in Nat \ {0}, NEW now \in Int
  PROVE  LET first == Schedule!NextFixed(previous, interval, now)
         IN /\ first > now
            /\ \E k \in Nat \ {0} : first = previous + k * interval
            /\ first = previous + interval \/ first - interval <= now
<1>1. CASE previous + interval > now
  BY <1>1, SMT DEF Schedule!NextFixed
<1>2. CASE ~(previous + interval > now)
  <2> DEFINE elapsed == now - (previous + interval)
             q == elapsed \div interval
             r == elapsed % interval
  <2>1. elapsed \in Nat
    BY <1>2, SMT
  <2>2. q \in Nat /\ elapsed = interval * q + r /\ r \in 0..interval - 1
    BY <2>1, SMT
  <2>3. Schedule!NextFixed(previous, interval, now) = previous + interval + interval * (q + 1)
    BY <1>2, SMT DEF Schedule!NextFixed
  <2>4. interval * (q + 1) = interval * q + interval
    BY <2>2, SMT
  <2>5. q + 2 \in Nat \ {0} /\ previous + interval + interval * (q + 1) = previous + (q + 2) * interval
    BY <2>2, SMT
  <2> HIDE DEF q, r
  <2> QED  BY <2>2, <2>3, <2>4, <2>5, SMT
<1> QED  BY <1>1, <1>2

-----------------------------------------------------------------------------
(* The inductive invariant of the engine.                                   *)

UiSteps == {"idle", "save", "unschedule", "await", "reconcile", "next", "arm", "record", "drop"}
TimerSteps ==
  {"idle", "fire", "preflight", "submit", "complete", "persist", "arm", "record", "drop", "report"}
ExecutionSteps == {"idle", "queued", "complete", "persist", "arm", "record", "drop", "report"}
Workers == Threads \ {"ui"}
Saving(t) == at[t] \in {"save", "preflight", "persist"}
Ops == {"add", "cancel", "clear", "policy", "enable", "disable"}

EngineTypes ==
  /\ up \in BOOLEAN /\ stopped \in BOOLEAN /\ doubtful \in BOOLEAN
  /\ automation \in [Ids -> Automation] /\ disk \in [Ids -> Automation]
  /\ next \in 1..MaxAutomations + 1 /\ diskNext \in 1..MaxAutomations + 1
  /\ job \in [Threads -> Job] /\ runs \in [Ids -> Nat] /\ toArm \union available \subseteq Ids
  /\ accepted \union cancelled \union succeeded \subseteq Ids

Places ==
  /\ at \in [Threads -> UiSteps \union TimerSteps \union ExecutionSteps]
  /\ at["ui"] \in UiSteps /\ at["timer"] \in TimerSteps
  /\ \A e \in Executions : at[e] \in ExecutionSteps
  /\ ~up => at["ui"] = "idle" /\ \A t \in Workers : at[t] \in {"idle", "fire"}

(* Who saves holds mutation_mutex. *)
MutexHeld ==
  /\ mutation \in {"free"} \union Threads
  /\ \A t \in Threads : mutation = t <=> Saving(t)

CommandShape ==
  /\ ~up => automation = Nothing
  /\ at["ui"] = "save" =>
       /\ before.automation \in [Ids -> Automation] /\ changed \subseteq Ids /\ operation \in Ops
       /\ operation = "add" => \A i \in Ids : i \in changed <=> next = i + 1
       /\ operation = "add" => next > 1
       /\ \A i \in changed :
            IF operation \in {"cancel", "clear"} THEN automation[i].kind = "none"
                                                ELSE automation[i].kind # "none"
       /\ operation # "add" => \A i \in changed : before.automation[i].kind # "none"

NextOnFile ==
  up /\ ~doubtful =>
    /\ mutation = "free" => diskNext = next
    /\ at["ui"] = "save" => diskNext = IF operation = "add" THEN next - 1 ELSE next

EngineShape == EngineTypes /\ Places /\ MutexHeld /\ CommandShape /\ NextOnFile

Adding(i) == at["ui"] = "save" /\ operation = "add" /\ i \in changed
Before(i) == IF at["ui"] = "save" THEN before.automation[i] ELSE automation[i]

(* The thread has the automation that fired, and not yet put it back.         *)
Carrying == {"preflight", "submit", "queued", "complete"}
Carries(t, i) == at[t] \in Carrying /\ job[t].id = i
Once(t) == ~Recurring(job[t].fired)

(* Its number is not given to another one while anything knows of it.         *)
Numbered(i) == i < diskNext /\ (up => i < next /\ ~Adding(i))
NumberOf(i) ==
  /\ disk[i].kind # "none" => i < diskNext
  /\ automation[i].kind # "none" => Numbered(i) \/ Adding(i)
  /\ Before(i).kind # "none" => Numbered(i)
  /\ i \in accepted \union cancelled \union succeeded => Numbered(i)
  /\ \A t \in Workers : Carries(t, i) => Numbered(i)

(* A one-shot automation is among the entries or carried by one thread, which *)
(* has saved that before its action runs.                                     *)
CarriedOf(i) ==
  \A t \in Workers : Carries(t, i) =>
    /\ \A u \in Workers \ {t} : Carries(u, i) => ~Once(t) /\ ~Once(u)
    /\ ~Once(t) => automation[i].kind # "once" /\ Before(i).kind # "once"
    /\ Once(t) =>
         /\ automation[i].kind = "none" /\ Before(i).kind = "none" /\ i \notin cancelled
         /\ at[t] \in {"submit", "queued"} => disk[i].kind # "once"
         /\ runs[i] <= job[t].fired.attempt + (IF at[t] = "complete" THEN 1 ELSE 0)
         /\ i \in succeeded => at[t] = "complete" /\ job[t].success

(* The attempts on record, wherever the automation is.                        *)
Counts(i, a) ==
  /\ a.attempt <= a.policy.retries
  /\ a.kind = "once" => runs[i] <= a.attempt /\ i \notin succeeded
CountOf(i) ==
  /\ Counts(i, automation[i]) /\ Counts(i, disk[i]) /\ Counts(i, Before(i))
  /\ \A t \in Workers : Carries(t, i) => job[t].fired.attempt <= job[t].fired.policy.retries

(* On file it is what it is in memory or, while a command is saved, was.      *)
FileOf(i) ==
  /\ up /\ ~doubtful =>
       /\ mutation = "free" => disk[i] = automation[i]
       /\ at["ui"] = "save" => disk[i] = IF i \in changed THEN Before(i) ELSE automation[i]
  /\ i \in cancelled => automation[i].kind = "none" /\ disk[i].kind = "none" /\ Before(i).kind = "none"

(* An execution of a one-shot automation that may be its last.                *)
Pending(t, i) ==
  /\ job[t].id = i /\ Once(t)
  /\ at[t] \in Carrying \union {"persist"} \/ (at[t] \in {"arm", "record", "drop", "report"}
       /\ ~job[t].arms)
KeptOf(i) ==
  /\ i \in accepted /\ i \notin cancelled \union cleared \union done =>
       /\ up => \/ automation[i].kind # "none" \/ \E t \in Workers : Pending(t, i)
                \/ at["ui"] = "save" /\ i \in changed /\ Before(i).kind # "none"
       /\ up /\ ~doubtful => disk[i].kind # "none" \/ \E t \in Workers : Pending(t, i)
       /\ ~up => disk[i].kind # "none"
  /\ \A t \in Workers :
       /\ at[t] = "persist" /\ job[t].id = i /\ Once(t) => automation[i].kind # "none"
       /\ Carries(t, i) => ~job[t].arms /\ job[t].fired.kind # "none"

AutomationInv(i) == NumberOf(i) /\ CarriedOf(i) /\ CountOf(i) /\ FileOf(i) /\ KeptOf(i)
EngineInv == EngineShape /\ \A i \in Ids : AutomationInv(i)

-----------------------------------------------------------------------------
(* Steps that leave the automations alone.                                  *)

Quiet == {"idle", "unschedule", "await", "reconcile", "next", "arm", "record", "drop", "report", "fire"}

StepsOf(t) == IF t = "ui" THEN UiSteps ELSE IF t = "timer" THEN TimerSteps ELSE ExecutionSteps

EntriesKept ==
  UNCHANGED <<up, automation, next, disk, diskNext, mutation, doubtful, accepted, cancelled,
              cleared, done, runs, succeeded, changed, before>>

Neutral(t, s) ==
  /\ EntriesKept
  /\ at' = [at EXCEPT ![t] = s] /\ at[t] \in Quiet /\ s \in Quiet \cap StepsOf(t)
  /\ t # "ui" => operation' = operation
  /\ job' \in [Threads -> Job] /\ \A w \in Workers : job'[w] = job[w]
  /\ stopped' \in BOOLEAN /\ toArm' \union available' \subseteq Ids
  /\ t # "ui" /\ at[t] \in {"arm", "record", "drop", "report"} => s \in {"record", "drop", "report"}
  /\ t # "ui" /\ at[t] \in {"idle", "fire"} => s \in {"idle", "fire"}
  /\ up \/ (t = "timer" /\ s \in {"idle", "fire"})

LEMMA NamesDiffer ==
  /\ "ui" \notin Executions /\ "timer" \notin Executions /\ "free" \notin Threads
  /\ Threads = Workers \union {"ui"} /\ "ui" \notin Workers
  /\ Workers = {"timer"} \union Executions
BY ExecutorAssumption DEF Threads, Workers

LEMMA NeutralStep ==
  ASSUME EngineInv, NEW t \in Threads, NEW s, Neutral(t, s)
  PROVE  EngineInv'
<1> USE NamesDiffer
<1>0. EngineShape /\ EntriesKept
  BY DEF EngineInv, Neutral
<1>1. EngineTypes'
  BY <1>0 DEF EngineShape, EngineTypes, Neutral, EntriesKept
<1>2. /\ at' \in [Threads -> UiSteps \union TimerSteps \union ExecutionSteps]
      /\ \A w \in Threads : at'[w] = IF w = t THEN s ELSE at[w]
  BY <1>0 DEF EngineShape, Places, Neutral, StepsOf
<1>3. Places'
  <2>1. at'["ui"] \in UiSteps /\ at'["timer"] \in TimerSteps
    BY <1>0, <1>2 DEF EngineShape, Places, Neutral, StepsOf
  <2>2. \A e \in Executions : at'[e] \in ExecutionSteps
    BY <1>0, <1>2 DEF EngineShape, Places, Neutral, StepsOf
  <2>3. ~up' => at'["ui"] = "idle" /\ \A w \in Workers : at'[w] \in {"idle", "fire"}
    BY <1>0, <1>2 DEF EngineShape, Places, Neutral, EntriesKept
  <2> QED  BY <1>2, <2>1, <2>2, <2>3 DEF Places
<1>4. \A w \in Threads : Saving(w)' <=> Saving(w)
  BY <1>2 DEF Neutral, Saving, Quiet
<1>5. MutexHeld'
  BY <1>0, <1>4 DEF EngineShape, MutexHeld, EntriesKept
<1>6. (at["ui"] = "save" <=> at'["ui"] = "save") /\ (at["ui"] = "save" => operation' = operation)
  BY <1>2 DEF Neutral, Quiet
<1>7. CommandShape' /\ NextOnFile'
  BY <1>0, <1>6 DEF EngineShape, CommandShape, NextOnFile, EntriesKept
<1>8. ASSUME NEW i \in Ids
      PROVE  AutomationInv(i)'
  <2>0. AutomationInv(i)
    BY DEF EngineInv
  <2>1. (Adding(i)' <=> Adding(i)) /\ Before(i)' = Before(i)
    BY <1>0, <1>6 DEF Adding, Before, EntriesKept
  <2>2. \A w \in Workers : (Carries(w, i)' <=> Carries(w, i)) /\ (Once(w)' <=> Once(w))
          /\ job'[w] = job[w]
    BY <1>2 DEF Carries, Carrying, Once, Recurring, Neutral, Quiet
  <2>3. \A w \in Workers : Carries(w, i) => at'[w] = at[w]
    BY <1>2 DEF Carries, Carrying, Neutral, Quiet
  <2>4. NumberOf(i)'
    BY <1>0, <2>0, <2>1, <2>2 DEF AutomationInv, NumberOf, Numbered, EntriesKept
  <2>5. CarriedOf(i)'
    BY <1>0, <2>0, <2>1, <2>2, <2>3 DEF AutomationInv, CarriedOf, EntriesKept
  <2>6. CountOf(i)'
    BY <1>0, <2>0, <2>1, <2>2 DEF AutomationInv, CountOf, Counts, EntriesKept
  <2>7. FileOf(i)'
    BY <1>0, <1>6, <2>0, <2>1 DEF AutomationInv, FileOf, EntriesKept
  <2>8. \A w \in Workers : Pending(w, i) => Pending(w, i)'
    BY <1>2, <2>2 DEF Pending, Neutral, Carrying, Quiet
  <2>9. \A w \in Workers : at'[w] = "persist" => at[w] = "persist"
    BY <1>2 DEF Neutral, Quiet
  <2>10. KeptOf(i)'
    BY <1>0, <1>6, <2>0, <2>1, <2>2, <2>8, <2>9 DEF AutomationInv, KeptOf, EntriesKept
  <2> QED  BY <2>4, <2>5, <2>6, <2>7, <2>10 DEF AutomationInv
<1> QED  BY <1>1, <1>3, <1>5, <1>7, <1>8 DEF EngineInv, EngineShape

(* The threads of the scheduler and of the executor.                        *)
LEMMA ArmingIsNeutral ==
  ASSUME EngineInv, NEW t \in Threads, Arm(t)
  PROVE  EngineInv'
<1> USE NamesDiffer
<1>0. EngineTypes /\ Places
  BY DEF EngineInv, EngineShape
<1>1. up /\ at[t] \in {"arm", "record", "drop"}
  BY <1>0 DEF Arm, ArmBegin, ArmRecord, ArmDrop, Places
<1>2. NoJob \in Job
  BY BoundsAssumption DEF NoJob, Job, None, Automation, Ids
<1>3. \/ EndArm(t)
      \/ Goto(t, "record") /\ job' = job
      \/ Goto(t, "drop") /\ job' = job
  BY DEF Arm, ArmBegin, ArmRecord, ArmDrop
<1>4. EntriesKept /\ operation' = operation /\ UNCHANGED <<stopped, toArm, available>>
  BY DEF Arm, ArmBegin, ArmRecord, ArmDrop, EntriesKept, command, store, outcomes, ghosts, entries
<1>5. CASE EndArm(t)
  <2>1. job' \in [Threads -> Job] /\ \A w \in Workers : job'[w] = job[w]
    BY <1>0, <1>2, <1>5 DEF EndArm, EngineTypes
  <2>2. AfterArm(t) \in Quiet \cap StepsOf(t) /\ (t # "ui" => AfterArm(t) = "report")
    BY DEF AfterArm, Quiet, StepsOf, UiSteps, TimerSteps, ExecutionSteps
  <2>3. Neutral(t, AfterArm(t))
    BY <1>0, <1>1, <1>4, <1>5, <2>1, <2>2 DEF Neutral, EndArm, Goto, EngineTypes, Quiet
  <2> QED  BY <2>3, NeutralStep
<1>6. ASSUME NEW s \in {"record", "drop"}, Goto(t, s), job' = job
      PROVE  EngineInv'
  <2>1. s \in Quiet \cap StepsOf(t)
    BY DEF Quiet, StepsOf, UiSteps, TimerSteps, ExecutionSteps
  <2>2. Neutral(t, s)
    BY <1>0, <1>1, <1>4, <1>6, <2>1 DEF Neutral, Goto, EngineTypes, Quiet
  <2> QED  BY <2>2, NeutralStep
<1> QED  BY <1>3, <1>5, <1>6

LEMMA StartingIsNeutral ==
  ASSUME EngineInv, StartTask \/ FireNothing
  PROVE  EngineInv'
<1> USE NamesDiffer
<1>0. EngineTypes /\ Places
  BY DEF EngineInv, EngineShape
<1>1. EntriesKept /\ UNCHANGED <<operation, stopped, toArm, available, job>>
  BY DEF StartTask, FireNothing, EntriesKept, command, store, outcomes, ghosts, entries
<1>2. PICK s \in {"idle", "fire"} : Goto("timer", s) /\ at["timer"] \in {"idle", "fire"}
  BY DEF StartTask, FireNothing
<1>3. Neutral("timer", s)
  BY <1>0, <1>1, <1>2 DEF Neutral, Goto, EngineTypes, Quiet, StepsOf, TimerSteps
<1> QED  BY <1>3, NeutralStep

(* The commands that do not take mutation_mutex.                            *)
LEMMA LookingIsNeutral ==
  ASSUME EngineInv,
         \/ Unschedule \/ Stop \/ AwaitIdle \/ \E i \in Ids : PluginChange(i) \/ ArmNext(i)
         \/ \E ids \in SUBSET Ids : Reconcile(ids) \/ \E moved \in SUBSET Ids : Refresh(moved, ids)
  PROVE  EngineInv'
<1> USE NamesDiffer
<1>0. EngineTypes /\ Places
  BY DEF EngineInv, EngineShape
<1>2. NoJob \in Job
  BY BoundsAssumption DEF NoJob, Job, None, Automation, Ids
<1>3. ASSUME NEW i \in Ids PROVE [NoJob EXCEPT !.id = i] \in Job
  BY <1>2 DEF Job, NoJob
<1>4. ASSUME EntriesKept, NEW s \in Quiet \cap UiSteps, Goto("ui", s), up, at["ui"] \in Quiet,
             stopped' \in BOOLEAN, toArm' \union available' \subseteq Ids,
             job' = job \/ \E i \in Ids : job' = [job EXCEPT !["ui"] = [NoJob EXCEPT !.id = i]]
      PROVE  EngineInv'
  <2>1. job' \in [Threads -> Job] /\ \A w \in Workers : job'[w] = job[w]
    <3>1. CASE job' = job
      BY <1>0, <3>1 DEF EngineTypes
    <3>2. ASSUME NEW i \in Ids, job' = [job EXCEPT !["ui"] = [NoJob EXCEPT !.id = i]]
          PROVE  job' \in [Threads -> Job] /\ \A w \in Workers : job'[w] = job[w]
      BY <1>0, <1>3, <3>2 DEF EngineTypes
    <3> QED  BY <1>4, <3>1, <3>2
  <2>2. Neutral("ui", s)
    BY <1>4, <2>1 DEF Neutral, Goto, StepsOf
  <2> QED  BY <2>2, NeutralStep
<1> USE DEF Quiet, UiSteps
<1>5. CASE Unschedule
  <2>1. AfterArm("ui") \in {"next", "idle"}
    BY DEF AfterArm
  <2>2. PICK s \in {"await", "next", "idle"} : Goto("ui", s)
    BY <1>5, <2>1 DEF Unschedule
  <2>3. up
    BY <1>0, <1>5 DEF Unschedule, Places
  <2> QED  BY <1>0, <1>4, <1>5, <2>2, <2>3
             DEF Unschedule, EntriesKept, store, outcomes, ghosts, entries, EngineTypes
<1>6. CASE Stop
  BY <1>0, <1>4, <1>6 DEF Stop, EntriesKept, store, outcomes, ghosts, EngineTypes
<1>7. CASE AwaitIdle
  <2>1. up
    BY <1>0, <1>7 DEF AwaitIdle, Places
  <2> QED  BY <1>0, <1>4, <1>7, <2>1 DEF AwaitIdle, EntriesKept, store, outcomes, ghosts, entries,
        command, EngineTypes
<1>8. ASSUME NEW i \in Ids, PluginChange(i) PROVE EngineInv'
  BY <1>0, <1>4, <1>8 DEF PluginChange, EntriesKept, store, outcomes, ghosts, entries, command,
     EngineTypes
<1>9. ASSUME NEW i \in Ids, ArmNext(i) PROVE EngineInv'
  <2>1. up
    BY <1>0, <1>9 DEF ArmNext, Places
  <2> QED  BY <1>0, <1>4, <1>9, <2>1 DEF ArmNext, EntriesKept, store, outcomes, ghosts, entries,
        EngineTypes
<1>10. ASSUME NEW ids \in SUBSET Ids, Reconcile(ids) PROVE EngineInv'
  <2>1. up
    BY <1>0, <1>10 DEF Reconcile, Places
  <2>2. toArm' \union available' \subseteq Ids /\ \E s \in {"idle", "unschedule"} : Goto("ui", s)
    BY <1>0, <1>10 DEF Reconcile, Enabled, Present, EngineTypes
  <2> QED  BY <1>0, <1>4, <1>10, <2>1, <2>2 DEF Reconcile, EntriesKept, store, outcomes, EngineTypes
<1>11. ASSUME NEW ids \in SUBSET Ids, NEW moved \in SUBSET Ids, Refresh(moved, ids) PROVE EngineInv'
  <2>2. toArm' \union available' \subseteq Ids
    BY <1>0, <1>11 DEF Refresh, EngineTypes
  <2> QED  BY <1>0, <1>4, <1>11, <2>2 DEF Refresh, EntriesKept, store, outcomes, EngineTypes
<1> QED  BY <1>5, <1>6, <1>7, <1>8, <1>9, <1>10, <1>11

-----------------------------------------------------------------------------
(* Steps that save.                                                         *)

LEMMA Moved ==
  ASSUME Places, NEW t \in Threads, NEW s \in StepsOf(t), Goto(t, s), up' = up, up
  PROVE  /\ Places'
         /\ \A w \in Threads : at'[w] = IF w = t THEN s ELSE at[w]
<1> USE NamesDiffer
<1>1. \A w \in Threads : at'[w] = IF w = t THEN s ELSE at[w]
  BY DEF Places, Goto
<1>2. at' \in [Threads -> UiSteps \union TimerSteps \union ExecutionSteps]
  BY DEF Places, Goto, StepsOf
<1>3. at'["ui"] \in UiSteps /\ at'["timer"] \in TimerSteps
  BY <1>1 DEF Places, StepsOf
<1>4. \A e \in Executions : at'[e] \in ExecutionSteps
  BY <1>1 DEF Places, StepsOf
<1> QED  BY <1>1, <1>2, <1>3, <1>4 DEF Places

(* Only one thread saves.                                                   *)
LEMMA OneSaves ==
  ASSUME MutexHeld, NEW t \in Threads, Saving(t)
  PROVE  /\ mutation = t /\ mutation # "free"
         /\ \A u \in Threads : Saving(u) => u = t
BY NamesDiffer DEF MutexHeld, Saving

LEMMA UiSaveStep ==
  ASSUME EngineInv, UiSave
  PROVE  EngineInv'
<1> USE NamesDiffer
<1>0. EngineTypes /\ Places /\ MutexHeld /\ CommandShape /\ NextOnFile /\ at["ui"] = "save"
  BY DEF EngineInv, EngineShape, UiSave
<1>1. PICK s \in {"arm", "idle", "unschedule"} : Goto("ui", s)
  <2>1. (CASE operation \in {"add", "enable"} -> "arm" [] operation = "policy" -> "idle"
           [] OTHER -> "unschedule") \in {"arm", "idle", "unschedule"}
    OBVIOUS
  <2> QED  BY <2>1 DEF UiSave
<1>2. up /\ UNCHANGED <<up, stopped, automation, next, job, toArm, available, runs, done, succeeded>>
  BY <1>0 DEF UiSave, Places, entries
<1>3. Places' /\ \A w \in Threads : at'[w] = IF w = "ui" THEN s ELSE at[w]
  BY <1>0, <1>1, <1>2, Moved DEF StepsOf, UiSteps
<1>4. mutation' = "free" /\ disk' = automation /\ diskNext' = next /\ doubtful' = FALSE
  BY DEF UiSave, Save
<1>5. /\ accepted' = IF operation = "add" THEN accepted \union changed ELSE accepted
      /\ cancelled' = IF operation = "cancel" THEN cancelled \union changed ELSE cancelled
      /\ cleared' = IF operation = "clear" THEN cleared \union accepted ELSE cleared
  BY DEF UiSave
<1>6. EngineTypes'
  BY <1>0, <1>2, <1>4, <1>5 DEF EngineTypes, CommandShape
<1>7. \A w \in Threads : ~Saving(w)'
  BY <1>0, <1>3, OneSaves DEF Saving
<1>8. MutexHeld'
  BY <1>4, <1>7 DEF MutexHeld
<1>9. CommandShape' /\ NextOnFile'
  BY <1>2, <1>3, <1>4 DEF CommandShape, NextOnFile
<1>10. ASSUME NEW i \in Ids PROVE AutomationInv(i)'
  <2>0. AutomationInv(i)
    BY DEF EngineInv
  <2>1. ~Adding(i)' /\ Before(i)' = automation[i]
    BY <1>2, <1>3 DEF Adding, Before
  <2>2. \A w \in Workers : at'[w] = at[w] /\ job'[w] = job[w]
    BY <1>2, <1>3
  <2>3. \A w \in Workers : (Carries(w, i)' <=> Carries(w, i)) /\ (Once(w)' <=> Once(w))
    BY <2>2 DEF Carries, Once
  <2>4. ASSUME Numbered(i) \/ Adding(i) PROVE Numbered(i)'
    <3>1. i < next
      BY <1>0, <1>2, <2>4, SMT DEF Numbered, Adding, CommandShape, EngineTypes, Ids
    <3> QED  BY <1>2, <1>4, <2>1, <3>1 DEF Numbered
  <2>5. i \in accepted' \union cancelled' => i \in accepted \union cancelled \/ Adding(i)
          \/ (operation = "cancel" /\ i \in changed)
    BY <1>0, <1>5 DEF Adding
  <2>6. i \in changed /\ operation = "cancel" => automation[i].kind = "none" /\ Before(i).kind # "none"
    BY <1>0 DEF CommandShape, Before
  <2>7. NumberOf(i)'
    BY <1>2, <1>4, <1>5, <2>0, <2>1, <2>3, <2>4, <2>5, <2>6 DEF AutomationInv, NumberOf, Numbered
  <2>8. CarriedOf(i)'
    BY <1>2, <1>4, <1>5, <2>0, <2>1, <2>2, <2>3, <2>6 DEF AutomationInv, CarriedOf
  <2>9. CountOf(i)'
    BY <1>2, <1>4, <2>0, <2>1, <2>2, <2>3 DEF AutomationInv, CountOf, Counts
  <2>10. FileOf(i)'
    BY <1>2, <1>3, <1>4, <1>5, <2>0, <2>1, <2>6 DEF AutomationInv, FileOf
  <2>11. \A w \in Workers : Pending(w, i)' <=> Pending(w, i)
    BY <2>2, <2>3 DEF Pending
  <2>12. i \in changed => automation[i].kind # "none" \/ operation \in {"cancel", "clear"}
    BY <1>0 DEF CommandShape
  <2>13. KeptOf(i)'
    BY <1>0, <1>2, <1>4, <1>5, <2>0, <2>2, <2>3, <2>11, <2>12 DEF AutomationInv, KeptOf
  <2> QED  BY <2>7, <2>8, <2>9, <2>10, <2>13 DEF AutomationInv
<1> QED  BY <1>6, <1>3, <1>8, <1>9, <1>10 DEF EngineInv, EngineShape

LEMMA UiSaveFailsStep ==
  ASSUME EngineInv, NEW kept \in BOOLEAN, UiSaveFails(kept)
  PROVE  EngineInv'
<1> USE NamesDiffer
<1>0. EngineTypes /\ Places /\ MutexHeld /\ CommandShape /\ NextOnFile /\ at["ui"] = "save"
  BY DEF EngineInv, EngineShape, UiSaveFails
<1>1. /\ up /\ Goto("ui", "idle") /\ mutation' = "free" /\ doubtful' = (doubtful \/ kept)
      /\ UNCHANGED <<up, stopped, toArm, available, runs, done, succeeded, accepted, cancelled,
           cleared>>
      /\ next' = IF operation = "add" THEN next - 1 ELSE next
      /\ job' = [job EXCEPT !["ui"] = NoJob]
  BY <1>0 DEF UiSaveFails, Places, outcomes
<1>2. automation' \in [Ids -> Automation]
      /\ \A i \in Ids : automation'[i] = IF i \in changed THEN before.automation[i] ELSE automation[i]
  BY <1>0 DEF UiSaveFails, RolledBack, EngineTypes, CommandShape
<1>3. Places' /\ \A w \in Threads : at'[w] = IF w = "ui" THEN "idle" ELSE at[w]
  BY <1>0, <1>1, Moved DEF StepsOf, UiSteps
<1>4. IF kept THEN disk' = automation /\ diskNext' = next ELSE disk' = disk /\ diskNext' = diskNext
  BY DEF UiSaveFails, SaveFails, store
<1>5. job' \in [Threads -> Job] /\ \A w \in Workers : job'[w] = job[w]
  <2>1. NoJob \in Job
    BY BoundsAssumption DEF NoJob, Job, None, Automation, Ids
  <2> QED  BY <1>0, <1>1, <2>1 DEF EngineTypes
<1>6. EngineTypes'
  <2>1. next' \in 1..MaxAutomations + 1
    BY <1>0, <1>1, BoundsAssumption, SMT DEF EngineTypes, CommandShape
  <2> QED  BY <1>0, <1>1, <1>2, <1>4, <1>5, <2>1 DEF EngineTypes
<1>7. \A w \in Threads : ~Saving(w)'
  BY <1>0, <1>3, OneSaves DEF Saving
<1>8. MutexHeld'
  BY <1>1, <1>7 DEF MutexHeld
<1>9. CommandShape' /\ NextOnFile'
  BY <1>0, <1>1, <1>3, <1>4 DEF CommandShape, NextOnFile
<1>10. ASSUME NEW i \in Ids PROVE AutomationInv(i)'
  <2>0. AutomationInv(i)
    BY DEF EngineInv
  <2>1. ~Adding(i)' /\ Before(i)' = automation'[i]
    BY <1>3 DEF Adding, Before
  <2>2. \A w \in Workers : at'[w] = at[w] /\ job'[w] = job[w]
    BY <1>3, <1>5
  <2>3. \A w \in Workers : (Carries(w, i)' <=> Carries(w, i)) /\ (Once(w)' <=> Once(w))
    BY <2>2 DEF Carries, Once
  <2>4. ASSUME Numbered(i) PROVE Numbered(i)'
    <3>1. i < next' /\ i < next
      BY <1>0, <1>1, <2>4, SMT DEF Numbered, Adding, CommandShape, EngineTypes, Ids
    <3> QED  BY <1>1, <1>4, <2>1, <2>4, <3>1 DEF Numbered
  <2>5. Numbered(i) \/ Adding(i) => i < next
    BY <1>0, <1>1, SMT DEF Numbered, Adding, CommandShape, EngineTypes, Ids
  <2>6. (automation'[i] = automation[i] /\ ~Adding(i)) \/ automation'[i] = Before(i)
    BY <1>0, <1>2 DEF Before, Adding
  <2>7. NumberOf(i)'
    BY <1>1, <1>4, <2>0, <2>1, <2>3, <2>4, <2>5, <2>6 DEF AutomationInv, NumberOf, Numbered
  <2>8. CarriedOf(i)'
    BY <1>1, <1>4, <2>0, <2>1, <2>2, <2>3, <2>6 DEF AutomationInv, CarriedOf
  <2>9. CountOf(i)'
    BY <1>1, <1>4, <2>0, <2>1, <2>2, <2>3, <2>6 DEF AutomationInv, CountOf, Counts
  <2>10. FileOf(i)'
    BY <1>0, <1>1, <1>2, <1>3, <1>4, <2>0, <2>1, <2>6 DEF AutomationInv, FileOf, Before
  <2>11. \A w \in Workers : Pending(w, i)' <=> Pending(w, i)
    BY <2>2, <2>3 DEF Pending
  <2>12. i \in accepted /\ i \in changed => automation'[i].kind # "none"
    BY <1>0, <1>1, <1>2, <2>0 DEF CommandShape, AutomationInv, NumberOf, Numbered, Adding
  <2>13. i \notin changed => automation'[i] = automation[i]
    BY <1>2
  <2>14. \A w \in Workers : ~Saving(w)'
    BY <1>7
  <2>15. KeptOf(i)'
    BY <1>1, <1>4, <2>0, <2>2, <2>3, <2>11, <2>12, <2>13, <2>14 DEF AutomationInv, KeptOf, Saving
  <2> QED  BY <2>7, <2>8, <2>9, <2>10, <2>15 DEF AutomationInv
<1> QED  BY <1>6, <1>3, <1>8, <1>9, <1>10 DEF EngineInv, EngineShape

WorkerKeeps ==
  UNCHANGED <<up, stopped, automation, next, job, toArm, available, runs, accepted, cancelled, cleared,
              done, succeeded>>

LEMMA WorkerSavesStep ==
  ASSUME EngineInv, NEW t \in Workers, NEW s, Goto(t, s), WorkerKeeps, mutation' = "free",
         doubtful' \in BOOLEAN,
         (disk' = automation /\ diskNext' = next) \/ (UNCHANGED store /\ doubtful' = TRUE),
         \/ at[t] = "preflight" /\ t = "timer" /\ s = "complete"
         \/ at[t] = "preflight" /\ t = "timer" /\ s = "submit" /\ disk' = automation
         \/ at[t] = "persist" /\ s \in {"arm", "report"}
  PROVE  EngineInv'
<1> USE NamesDiffer
<1>0. EngineTypes /\ Places /\ MutexHeld /\ CommandShape /\ NextOnFile
  BY DEF EngineInv, EngineShape
<1>1. up
  BY <1>0 DEF Places
<1>2. up' = up /\ s \in StepsOf(t)
  BY DEF WorkerKeeps, StepsOf, TimerSteps, ExecutionSteps
<1>3. Places' /\ \A w \in Threads : at'[w] = IF w = t THEN s ELSE at[w]
  BY <1>0, <1>1, <1>2, Moved
<1>4. (disk' = automation /\ diskNext' = next) \/ (disk' = disk /\ diskNext' = diskNext
        /\ doubtful' = TRUE)
  BY DEF store
<1>5. EngineTypes'
  BY <1>0, <1>4 DEF EngineTypes, WorkerKeeps
<1>6. Saving(t) /\ ~Saving(t)'
  BY <1>3 DEF Saving
<1>7. \A w \in Threads : ~Saving(w)'
  BY <1>0, <1>3, <1>6, OneSaves DEF Saving
<1>8. MutexHeld'
  BY <1>7 DEF MutexHeld
<1>9. at["ui"] # "save" /\ at'["ui"] # "save"
  BY <1>0, <1>6, <1>7, OneSaves DEF Saving
<1>10. CommandShape' /\ NextOnFile'
  BY <1>0, <1>4, <1>9 DEF CommandShape, NextOnFile, WorkerKeeps
<1>11. ASSUME NEW i \in Ids PROVE AutomationInv(i)'
  <2>0. AutomationInv(i)
    BY DEF EngineInv
  <2>1. ~Adding(i)' /\ ~Adding(i) /\ Before(i)' = automation[i] /\ Before(i) = automation[i]
    BY <1>9 DEF Adding, Before, WorkerKeeps
  <2>2. \A w \in Workers : job'[w] = job[w] /\ (w # t => at'[w] = at[w])
    BY <1>3 DEF WorkerKeeps
  <2>3. \A w \in Workers : (Carries(w, i)' <=> Carries(w, i)) /\ (Once(w)' <=> Once(w))
    BY <1>3 DEF Carries, Once, Carrying, WorkerKeeps
  <2>4. Numbered(i) => Numbered(i)'
    BY <1>1, <1>4, <2>1 DEF Numbered, WorkerKeeps
  <2>7. NumberOf(i)'
    BY <1>1, <1>4, <2>0, <2>1, <2>3, <2>4 DEF AutomationInv, NumberOf, Numbered, WorkerKeeps
  <2>8. CarriedOf(i)'
    <3> SUFFICES ASSUME NEW w \in Workers, Carries(w, i)
                 PROVE  /\ \A u \in Workers \ {w} : Carries(u, i) => ~Once(w) /\ ~Once(u)
                        /\ ~Once(w) => automation[i].kind # "once"
                        /\ Once(w) =>
                             /\ automation[i].kind = "none" /\ i \notin cancelled
                             /\ at'[w] \in {"submit", "queued"} => disk'[i].kind # "once"
                             /\ runs[i] <= job[w].fired.attempt + (IF at'[w] = "complete" THEN 1 ELSE 0)
                             /\ i \in succeeded => at'[w] = "complete" /\ job[w].success
      BY <2>1, <2>2, <2>3 DEF CarriedOf, WorkerKeeps
    <3>1. \A u \in Workers \ {w} : Carries(u, i) => ~Once(w) /\ ~Once(u)
      BY <2>0 DEF AutomationInv, CarriedOf
    <3>2. ~Once(w) => automation[i].kind # "once"
      BY <2>0 DEF AutomationInv, CarriedOf
    <3>3. Once(w) => automation[i].kind = "none" /\ i \notin cancelled
      BY <2>0 DEF AutomationInv, CarriedOf
    <3>4. Once(w) /\ at'[w] \in {"submit", "queued"} => disk'[i].kind # "once"
      <4>1. CASE w = t
        BY <1>3, <3>3, <4>1
      <4>2. CASE w # t
        BY <1>4, <2>0, <2>2, <3>3, <4>2 DEF AutomationInv, CarriedOf
      <4> QED  BY <4>1, <4>2
    <3>5. Once(w) => (runs[i] <= job[w].fired.attempt + (IF at'[w] = "complete" THEN 1 ELSE 0))
                     /\ (i \in succeeded => at'[w] = "complete" /\ job[w].success)
      <4>0. runs[i] \in Nat /\ job[w].fired.attempt \in Nat
        BY <1>0 DEF EngineTypes, Job, Automation
      <4>1. CASE w = t
        BY <1>3, <2>0, <4>0, <4>1 DEF AutomationInv, CarriedOf, Carries, Carrying
      <4>2. CASE w # t
        BY <2>0, <2>2, <4>2 DEF AutomationInv, CarriedOf
      <4> QED  BY <4>1, <4>2
    <3> QED  BY <3>1, <3>2, <3>3, <3>4, <3>5
  <2>9. CountOf(i)'
    BY <1>4, <2>0, <2>1, <2>2, <2>3 DEF AutomationInv, CountOf, Counts, WorkerKeeps
  <2>10. FileOf(i)'
    BY <1>4, <1>9, <2>0, <2>1 DEF AutomationInv, FileOf, WorkerKeeps
  <2>11. \A w \in Workers : Pending(w, i) => Pending(w, i)' \/ automation[i].kind # "none"
    <3>1. ASSUME NEW w \in Workers, Pending(w, i), w # t PROVE Pending(w, i)'
      BY <2>2, <3>1 DEF Pending, Once, Recurring
    <3>2. CASE Pending(t, i) /\ at[t] = "persist"
      BY <2>0, <3>2 DEF AutomationInv, KeptOf, Pending
    <3>3. CASE Pending(t, i) /\ at[t] = "preflight"
      BY <1>3, <2>3, <3>3 DEF Pending, Carrying, WorkerKeeps
    <3> QED  BY <3>1, <3>2, <3>3
  <2>12. \A w \in Workers : ~Saving(w)'
    BY <1>7
  <2>13. i \in accepted /\ i \notin cancelled \union cleared \union done =>
           automation[i].kind # "none" \/ \E w \in Workers : Pending(w, i)'
    BY <1>1, <1>9, <2>0, <2>11 DEF AutomationInv, KeptOf
  <2>14. \A w \in Workers : Carries(w, i)' => ~job'[w].arms /\ job'[w].fired.kind # "none"
    BY <2>0, <2>2, <2>3 DEF AutomationInv, KeptOf
  <2>15. KeptOf(i)'
    BY <1>1, <1>4, <2>12, <2>13, <2>14 DEF KeptOf, Saving, WorkerKeeps
  <2> QED  BY <2>7, <2>8, <2>9, <2>10, <2>15 DEF AutomationInv
<1> QED  BY <1>5, <1>3, <1>8, <1>10, <1>11 DEF EngineInv, EngineShape

LEMMA WorkersSave ==
  ASSUME EngineInv,
         \/ FireSave \/ \E kept \in BOOLEAN : FireSaveFails(kept)
         \/ \E t \in Threads : CompleteSave(t) \/ \E kept \in BOOLEAN : CompleteSaveFails(t, kept)
  PROVE  EngineInv'
<1> USE NamesDiffer
<1>0. EngineTypes /\ Places
  BY DEF EngineInv, EngineShape
<1>1. CASE FireSave
  <2>1. Goto("timer", "submit") /\ mutation' = "free" /\ doubtful' = FALSE /\ at["timer"] = "preflight"
        /\ disk' = automation /\ diskNext' = next
    BY <1>1 DEF FireSave, Preflight, Save
  <2>2. WorkerKeeps
    BY <1>1 DEF FireSave, WorkerKeeps, entries, command, outcomes
  <2> QED  BY <2>1, <2>2, WorkerSavesStep
<1>2. ASSUME NEW kept \in BOOLEAN, FireSaveFails(kept) PROVE EngineInv'
  <2>1. /\ Goto("timer", "complete") /\ mutation' = "free" /\ at["timer"] = "preflight"
        /\ doubtful' \in BOOLEAN
        /\ (disk' = automation /\ diskNext' = next) \/ (UNCHANGED store /\ doubtful' = TRUE)
    BY <1>2 DEF FireSaveFails, SaveFails
  <2>2. WorkerKeeps
    BY <1>2 DEF FireSaveFails, WorkerKeeps, entries, command, outcomes
  <2> QED  BY <2>1, <2>2, WorkerSavesStep
<1>3. ASSUME NEW t \in Threads, at[t] = "persist" PROVE t \in Workers
  BY <1>0, <1>3 DEF Places, UiSteps
<1>4. ASSUME NEW t \in Threads, CompleteSave(t) PROVE EngineInv'
  <2>1. PICK s \in {"arm", "report"} : Goto(t, s)
    BY <1>4 DEF CompleteSave
  <2>2. /\ mutation' = "free" /\ at[t] = "persist" /\ doubtful' = FALSE
        /\ disk' = automation /\ diskNext' = next
    BY <1>4 DEF CompleteSave, Save
  <2>3. WorkerKeeps
    BY <1>4 DEF CompleteSave, WorkerKeeps, entries, command, outcomes
  <2> QED  BY <1>3, <2>1, <2>2, <2>3, WorkerSavesStep
<1>5. ASSUME NEW t \in Threads, NEW kept \in BOOLEAN, CompleteSaveFails(t, kept) PROVE EngineInv'
  <2>1. /\ Goto(t, "report") /\ mutation' = "free" /\ at[t] = "persist" /\ doubtful' \in BOOLEAN
        /\ (disk' = automation /\ diskNext' = next) \/ (UNCHANGED store /\ doubtful' = TRUE)
    BY <1>5 DEF CompleteSaveFails, SaveFails
  <2>2. WorkerKeeps
    BY <1>5 DEF CompleteSaveFails, WorkerKeeps, entries, command, outcomes
  <2> QED  BY <1>3, <2>1, <2>2, WorkerSavesStep
<1> QED  BY <1>1, <1>2, <1>4, <1>5

-----------------------------------------------------------------------------
(* Commands that change automations.                                        *)

(* What a command may make of the automations it changes.                   *)
Changes(op, ids) ==
  /\ automation' \in [Ids -> Automation]
  /\ \A i \in Ids \ ids : automation'[i] = automation[i]
  /\ \A i \in ids :
       CASE op = "add" -> /\ automation'[i].kind # "none" /\ automation'[i].attempt = 0
                          /\ runs'[i] = 0
         [] op \in {"cancel", "clear"} ->
              /\ automation[i].kind # "none"
              /\ automation'[i].kind = "none" /\ automation'[i].attempt = 0
         [] OTHER -> /\ automation[i].kind # "none"
                     /\ automation'[i].kind = automation[i].kind
                     /\ automation'[i].attempt = automation[i].attempt
                     /\ automation'[i].attempt <= automation'[i].policy.retries
  /\ \A i \in Ids : ~(op = "add" /\ i \in ids) => runs'[i] = runs[i]

LEMMA CommandStep ==
  ASSUME EngineInv, NEW op \in Ops, NEW ids \in SUBSET Ids, Begin(op, ids), Changes(op, ids),
         job' \in [Threads -> Job], \A w \in Workers : job'[w] = job[w],
         accepted' = accepted, runs' \in [Ids -> Nat],
         IF op = "add" THEN ids = {next} /\ next' = next + 1 ELSE next' = next
  PROVE  EngineInv'
<1> USE NamesDiffer
<1>0. EngineTypes /\ Places /\ MutexHeld /\ CommandShape /\ NextOnFile
  BY DEF EngineInv, EngineShape
<1>1. /\ up /\ at["ui"] = "idle" /\ mutation = "free" /\ mutation' = "ui"
      /\ operation' = op /\ changed' = ids /\ before'.automation = automation /\ Goto("ui", "save")
      /\ UNCHANGED <<up, stopped, toArm, available, disk, diskNext, done, succeeded, cancelled,
           cleared, doubtful>>
  BY DEF Begin, store
<1>2. Places' /\ \A w \in Threads : at'[w] = IF w = "ui" THEN "save" ELSE at[w]
  BY <1>0, <1>1, Moved DEF StepsOf, UiSteps
<1>3. op = "add" => next \in Ids
  OBVIOUS
<1>4. next' \in 1..MaxAutomations + 1
  BY <1>0, <1>3, BoundsAssumption, SMT DEF EngineTypes, Ids
<1>5. EngineTypes'
  BY <1>0, <1>1, <1>4 DEF EngineTypes, Changes
<1>6. MutexHeld'
  BY <1>0, <1>1, <1>2 DEF MutexHeld, Saving
<1>7. CommandShape'
  <2>1. op = "add" => next' > 1 /\ \A i \in Ids : i \in changed' <=> next' = i + 1
    BY <1>0, <1>1, BoundsAssumption, SMT DEF EngineTypes, Ids
  <2>2. \A i \in ids : IF op \in {"cancel", "clear"} THEN automation'[i].kind = "none"
                                                     ELSE automation'[i].kind # "none"
    BY DEF Changes
  <2>3. op # "add" => \A i \in ids : before'.automation[i].kind # "none"
    BY <1>1 DEF Changes
  <2> QED  BY <1>0, <1>1, <2>1, <2>2, <2>3 DEF CommandShape, EngineTypes
<1>8. NextOnFile'
  BY <1>0, <1>1, <1>2, SMT DEF NextOnFile, EngineTypes
<1>9. ASSUME NEW i \in Ids PROVE AutomationInv(i)'
  <2>0. AutomationInv(i)
    BY DEF EngineInv
  <2>1. /\ Before(i)' = automation[i] /\ Before(i) = automation[i] /\ ~Adding(i)
        /\ Adding(i)' <=> op = "add" /\ i \in ids
    BY <1>1, <1>2 DEF Adding, Before
  <2>2. \A w \in Workers : at'[w] = at[w] /\ job'[w] = job[w]
    BY <1>2
  <2>3. \A w \in Workers : (Carries(w, i)' <=> Carries(w, i)) /\ (Once(w)' <=> Once(w))
    BY <2>2 DEF Carries, Once
  <2>4. Numbered(i) => Numbered(i)' /\ ~Adding(i)'
    <3> SUFFICES ASSUME Numbered(i) PROVE Numbered(i)' /\ ~Adding(i)'
      OBVIOUS
    <3>1. i < diskNext /\ i < next
      BY <1>1 DEF Numbered
    <3>2. i < next'
      BY <1>0, <3>1, SMT DEF EngineTypes, Ids
    <3>3. ~Adding(i)'
      <4>1. CASE op = "add"
        <5>1. i # next
          BY <1>0, <3>1, SMT DEF EngineTypes
        <5> QED  BY <2>1, <4>1, <5>1
      <4> QED  BY <2>1, <4>1
    <3> QED  BY <1>1, <3>1, <3>2, <3>3 DEF Numbered
  <2>5. \/ automation'[i] = automation[i] /\ runs'[i] = runs[i] /\ i \notin ids
        \/ ~Numbered(i) /\ Adding(i)' /\ automation'[i].kind # "none"
             /\ automation'[i].attempt = 0 /\ runs'[i] = 0
        \/ /\ automation'[i].kind = "none" /\ automation'[i].attempt = 0
           /\ automation[i].kind # "none" /\ runs'[i] = runs[i]
        \/ /\ automation[i].kind # "none" /\ automation'[i].kind = automation[i].kind
           /\ automation'[i].attempt = automation[i].attempt
           /\ automation'[i].attempt <= automation'[i].policy.retries /\ runs'[i] = runs[i]
    <3>1. CASE i \notin ids
      BY <3>1 DEF Changes
    <3>2. CASE i \in ids /\ op = "add"
      BY <1>1, <2>1, <2>4, <3>2 DEF Changes
    <3>3. CASE i \in ids /\ op \in {"cancel", "clear"}
      BY <3>3 DEF Changes
    <3>4. CASE i \in ids /\ op \notin {"add", "cancel", "clear"}
      BY <3>4 DEF Changes
    <3> QED  BY <3>1, <3>2, <3>3, <3>4
  <2>6. automation'[i].policy.retries \in Nat /\ automation[i].attempt \in Nat
    BY <1>0, <1>5, PoliciesAssumption DEF EngineTypes, Automation, NoRetries
  <2>7. NumberOf(i)'
    BY <1>1, <2>0, <2>1, <2>3, <2>4, <2>5 DEF AutomationInv, NumberOf
  <2>8. CarriedOf(i)'
    <3> SUFFICES ASSUME NEW w \in Workers, Carries(w, i)
                 PROVE  /\ \A u \in Workers \ {w} : Carries(u, i) => ~Once(w) /\ ~Once(u)
                        /\ ~Once(w) => automation'[i].kind # "once" /\ automation[i].kind # "once"
                        /\ Once(w) =>
                             /\ automation'[i].kind = "none" /\ automation[i].kind = "none"
                                  /\ i \notin cancelled
                             /\ at[w] \in {"submit", "queued"} => disk[i].kind # "once"
                             /\ runs'[i] <= job[w].fired.attempt + (IF at[w] = "complete" THEN 1 ELSE 0)
                             /\ i \in succeeded => at[w] = "complete" /\ job[w].success
      BY <1>1, <2>1, <2>2, <2>3 DEF CarriedOf
    <3>1. Numbered(i)
      BY <2>0 DEF AutomationInv, NumberOf
    <3> QED  BY <2>0, <2>1, <2>5, <3>1 DEF AutomationInv, CarriedOf
  <2>9. CountOf(i)'
    <3>1. i \in succeeded => Numbered(i)
      BY <2>0 DEF AutomationInv, NumberOf
    <3>2. Counts(i, automation[i])
      BY <2>0 DEF AutomationInv, CountOf
    <3>3. automation'[i].attempt <= automation'[i].policy.retries
      BY <2>5, <2>6, <3>2 DEF Counts
    <3>4. automation'[i].kind = "once" => runs'[i] <= automation'[i].attempt /\ i \notin succeeded
      BY <2>5, <3>1, <3>2, SMT DEF Counts
    <3>5. disk[i].attempt <= disk[i].policy.retries /\ (disk[i].kind = "once"
            => runs'[i] <= disk[i].attempt /\ i \notin succeeded)
      <4>1. disk[i].attempt \in Nat
        BY <1>0 DEF EngineTypes, Automation
      <4>2. runs'[i] = runs[i] \/ (runs'[i] = 0 /\ ~Numbered(i))
        BY <2>5
      <4>3. Counts(i, disk[i])
        BY <2>0 DEF AutomationInv, CountOf
      <4> QED  BY <3>1, <4>1, <4>2, <4>3, SMT DEF Counts
    <3>6. automation[i].kind = "once" => runs'[i] = runs[i]
      BY <2>0, <2>1, <2>4, <2>5 DEF AutomationInv, NumberOf
    <3>7. \A w \in Workers : Carries(w, i) => job[w].fired.attempt <= job[w].fired.policy.retries
      BY <2>0 DEF AutomationInv, CountOf
    <3> QED  BY <1>1, <2>1, <2>2, <2>3, <3>2, <3>3, <3>4, <3>5, <3>6, <3>7 DEF CountOf, Counts
  <2>10. FileOf(i)'
    <3>1. i \in cancelled => Numbered(i) /\ automation[i].kind = "none"
      BY <2>0 DEF AutomationInv, NumberOf, FileOf
    <3> QED  BY <1>1, <1>2, <2>0, <2>1, <2>5, <3>1 DEF AutomationInv, FileOf, Changes
  <2>11. \A w \in Workers : Pending(w, i)' <=> Pending(w, i)
    BY <2>2, <2>3 DEF Pending
  <2>12. \A w \in Workers : at[w] # "persist"
    BY <1>0, <1>1 DEF MutexHeld, Saving
  <2>13. KeptOf(i)'
    BY <1>1, <1>2, <2>0, <2>1, <2>2, <2>3, <2>5, <2>11, <2>12 DEF AutomationInv, KeptOf, Changes
  <2> QED  BY <2>7, <2>8, <2>9, <2>10, <2>13 DEF AutomationInv
<1> QED  BY <1>5, <1>2, <1>6, <1>7, <1>8, <1>9 DEF EngineInv, EngineShape

LEMMA NoneIsAutomation ==
  /\ None \in Automation /\ None.kind = "none" /\ None.attempt = 0 /\ NoJob \in Job
  /\ \A i \in Ids : [NoJob EXCEPT !.id = i] \in Job
<1>1. None \in Automation
  BY DEF None, Automation
<1>2. NoJob \in Job
  BY <1>1, BoundsAssumption DEF NoJob, Job, Ids
<1>3. \A i \in Ids : [NoJob EXCEPT !.id = i] \in Job
  BY <1>2 DEF NoJob, Job
<1> QED  BY <1>1, <1>2, <1>3 DEF None

LEMMA UiJobs ==
  ASSUME EngineTypes, job' = job \/ \E i \in Ids : job' = [job EXCEPT !["ui"] = [NoJob EXCEPT !.id = i]]
  PROVE  job' \in [Threads -> Job] /\ \A w \in Workers : job'[w] = job[w]
<1> USE NamesDiffer
<1>1. CASE job' = job
  BY <1>1 DEF EngineTypes
<1>2. ASSUME NEW i \in Ids, job' = [job EXCEPT !["ui"] = [NoJob EXCEPT !.id = i]]
      PROVE  job' \in [Threads -> Job] /\ \A w \in Workers : job'[w] = job[w]
  <2>1. [NoJob EXCEPT !.id = i] \in Job
    BY NoneIsAutomation
  <2> QED  BY <1>2, <2>1 DEF EngineTypes
<1> QED  BY <1>1, <1>2

LEMMA AddStep ==
  ASSUME EngineInv, NEW kind \in Kinds, Add(kind)
  PROVE  EngineInv'
<1>0. EngineTypes
  BY DEF EngineInv, EngineShape
<1> DEFINE a == [None EXCEPT !.kind = kind, !.enabled = TRUE]
<1>1. a \in Automation /\ a.kind # "none" /\ a.attempt = 0
  BY NoneIsAutomation, KindsAssumption DEF None, Automation
<1>2. next \in Ids
  BY <1>0, BoundsAssumption, SMT DEF Add, EngineTypes, Ids
<1> HIDE DEF a
<1>3. automation' = [automation EXCEPT ![next] = a] /\ runs' = [runs EXCEPT ![next] = 0]
  BY DEF Add, a
<1>4. automation' \in [Ids -> Automation] /\ runs' \in [Ids -> Nat]
  BY <1>0, <1>1, <1>3 DEF EngineTypes
<1>5. Changes("add", {next})
  BY <1>0, <1>1, <1>2, <1>3, <1>4 DEF Changes, EngineTypes
<1>6. job' \in [Threads -> Job] /\ \A w \in Workers : job'[w] = job[w]
  BY <1>0, <1>2, UiJobs DEF Add
<1>7. Begin("add", {next}) /\ next' = next + 1 /\ accepted' = accepted
  BY DEF Add
<1> QED  BY <1>2, <1>4, <1>5, <1>6, <1>7, CommandStep DEF Ops

LEMMA RemoveStep ==
  ASSUME EngineInv, NEW op \in {"cancel", "clear"}, NEW ids \in SUBSET Present, Remove(op, ids)
  PROVE  EngineInv'
<1>0. EngineTypes
  BY DEF EngineInv, EngineShape
<1>1. ids \subseteq Ids /\ \A i \in ids : automation[i].kind # "none"
  BY DEF Present
<1>2. /\ automation' = [i \in Ids |-> IF i \in ids THEN None ELSE automation[i]]
      /\ runs' = runs /\ job' = job /\ next' = next /\ accepted' = accepted /\ Begin(op, ids)
  BY DEF Remove, Erase
<1>3. automation' \in [Ids -> Automation]
  BY <1>0, <1>2, NoneIsAutomation DEF EngineTypes
<1>4. Changes(op, ids)
  BY <1>1, <1>2, <1>3, NoneIsAutomation DEF Changes
<1>5. job' \in [Threads -> Job] /\ \A w \in Workers : job'[w] = job[w]
  BY <1>0, <1>2 DEF EngineTypes
<1> QED  BY <1>0, <1>1, <1>2, <1>4, <1>5, CommandStep DEF Ops, EngineTypes

LEMMA ChangeStep ==
  ASSUME EngineInv, NEW i \in Ids,
         Enable(i) \/ Disable(i) \/ \E p \in Policies : SetPolicy(i, p)
  PROVE  EngineInv'
<1>0. EngineTypes /\ AutomationInv(i)
  BY DEF EngineInv, EngineShape
<1>1. automation[i] \in Automation /\ automation[i].attempt <= automation[i].policy.retries
  BY <1>0 DEF EngineTypes, AutomationInv, CountOf, Counts
<1>2. PICK op \in {"policy", "enable", "disable"}, a \in Automation :
        /\ Begin(op, {i}) /\ automation' = [automation EXCEPT ![i] = a] /\ automation[i].kind # "none"
        /\ a.kind = automation[i].kind /\ a.attempt = automation[i].attempt
             /\ a.attempt <= a.policy.retries
  <2>1. ASSUME NEW p \in Policies, SetPolicy(i, p)
        PROVE  \E a \in Automation :
                 /\ Begin("policy", {i}) /\ automation' = [automation EXCEPT ![i] = a]
                 /\ automation[i].kind # "none"
                 /\ a.kind = automation[i].kind /\ a.attempt = automation[i].attempt
                      /\ a.attempt <= a.policy.retries
    <3> DEFINE a == [automation[i] EXCEPT !.policy = p]
    <3>1. a \in Automation /\ a.kind = automation[i].kind /\ a.attempt = automation[i].attempt
            /\ a.policy = p
      BY <1>1 DEF Automation
    <3>2. p.retries \in Nat /\ automation[i].attempt \in Nat
      BY <1>1, PoliciesAssumption DEF Automation
    <3>3. a.attempt <= a.policy.retries
      BY <2>1, <3>1, <3>2, SMT DEF SetPolicy, PolicyFits
    <3>4. automation' = [automation EXCEPT ![i] = a]
      BY <2>1, <1>0 DEF SetPolicy, EngineTypes
    <3> HIDE DEF a
    <3> QED  BY <2>1, <3>1, <3>3, <3>4 DEF SetPolicy, Present
  <2>2. ASSUME NEW on \in BOOLEAN
        PROVE  LET a == [automation[i] EXCEPT !.enabled = on]
               IN /\ a \in Automation /\ a.kind = automation[i].kind
                  /\ a.attempt = automation[i].attempt /\ a.attempt <= a.policy.retries
    BY <1>1 DEF Automation
  <2>3. CASE Enable(i)
    BY <2>2, <2>3 DEF Enable, Present
  <2>4. CASE Disable(i)
    BY <2>2, <2>4 DEF Disable, Enabled, Present
  <2> QED  BY <2>1, <2>3, <2>4
<1>3. /\ runs' = runs /\ next' = next /\ accepted' = accepted
      /\ job' = job \/ job' = [job EXCEPT !["ui"] = [NoJob EXCEPT !.id = i]]
  BY DEF Enable, Disable, SetPolicy
<1>4. automation' \in [Ids -> Automation]
  BY <1>0, <1>2 DEF EngineTypes
<1>5. Changes(op, {i})
  BY <1>0, <1>2, <1>3, <1>4 DEF Changes, EngineTypes
<1>6. job' \in [Threads -> Job] /\ \A w \in Workers : job'[w] = job[w]
  BY <1>0, <1>3, UiJobs
<1> QED  BY <1>0, <1>2, <1>3, <1>5, <1>6, CommandStep DEF Ops, EngineTypes

-----------------------------------------------------------------------------
(* Firing and running.                                                      *)

LEMMA FireStep ==
  ASSUME EngineInv, NEW resolved \in BOOLEAN, Fire(resolved)
  PROVE  EngineInv'
<1> USE NamesDiffer
<1>0. EngineTypes /\ Places /\ MutexHeld /\ CommandShape /\ NextOnFile
  BY DEF EngineInv, EngineShape
<1> DEFINE i == armed["timer"].id
           a == automation[i]
           b == [a EXCEPT !.attempt = 0, !.enabled = resolved]
<1>1. i \in Ids /\ a.kind # "none" /\ a \in Automation
  BY <1>0 DEF Fire, MayFire, Enabled, Present, EngineTypes
<1>2. /\ at["timer"] = "fire" /\ mutation = "free" /\ mutation' = "timer" /\ Goto("timer", "preflight")
      /\ UNCHANGED <<up, stopped, next, toArm, available, disk, diskNext, doubtful, runs, accepted,
           cancelled,
                     cleared, done, succeeded>>
      /\ job' = [job EXCEPT !["timer"] = [NoJob EXCEPT !.id = i, !.fired = a]]
      /\ IF Recurring(a) THEN automation' = [automation EXCEPT ![i] = b]
         ELSE automation' = [k \in Ids |-> IF k = i THEN None ELSE automation[k]]
  BY DEF Fire, Erase, ErasedByFiring, store, command, ghosts, outcomes
<1>3. up
  BY <1>0, <1>1 DEF CommandShape, Nothing, None
<1>4. b \in Automation /\ b.kind = a.kind /\ b.attempt = 0 /\ b.policy = a.policy
  BY <1>1 DEF Automation
<1>5. [NoJob EXCEPT !.id = i, !.fired = a] \in Job
  BY <1>1, NoneIsAutomation DEF NoJob, Job
<1>6. /\ job' \in [Threads -> Job]
      /\ \A w \in Threads \ {"timer"} : job'[w] = job[w]
      /\ job'["timer"].id = i /\ job'["timer"].fired = a /\ ~job'["timer"].arms
  BY <1>0, <1>2, <1>5 DEF EngineTypes, NoJob
<1> HIDE DEF a, b
<1>7. /\ automation' \in [Ids -> Automation]
      /\ \A k \in Ids \ {i} : automation'[k] = automation[k]
      /\ IF Recurring(a)
           THEN automation'[i].kind = a.kind /\ automation'[i].attempt = 0
                /\ automation'[i].policy = a.policy
           ELSE automation'[i] = None
  BY <1>0, <1>1, <1>2, <1>4, NoneIsAutomation DEF EngineTypes
<1>8. Places' /\ \A w \in Threads : at'[w] = IF w = "timer" THEN "preflight" ELSE at[w]
  BY <1>0, <1>2, <1>3, Moved DEF StepsOf, TimerSteps
<1>9. EngineTypes'
  BY <1>0, <1>2, <1>6, <1>7 DEF EngineTypes
<1>10. MutexHeld'
  BY <1>0, <1>2, <1>8 DEF MutexHeld, Saving
<1>11. at["ui"] # "save" /\ at'["ui"] # "save"
  BY <1>0, <1>2, <1>8 DEF MutexHeld, Saving
<1>12. CommandShape' /\ NextOnFile'
  BY <1>2, <1>3, <1>11 DEF CommandShape, NextOnFile
<1>13. ASSUME NEW k \in Ids PROVE AutomationInv(k)'
  <2>0. AutomationInv(k)
    BY DEF EngineInv
  <2>1. ~Adding(k)' /\ ~Adding(k) /\ Before(k)' = automation'[k] /\ Before(k) = automation[k]
    BY <1>11 DEF Adding, Before
  <2>2. \A w \in Workers \ {"timer"} :
           /\ at'[w] = at[w] /\ job'[w] = job[w]
           /\ (Carries(w, k)' <=> Carries(w, k)) /\ (Once(w)' <=> Once(w)) /\ (Pending(w,
                k)' <=> Pending(w, k))
    BY <1>6, <1>8 DEF Carries, Once, Pending
  <2>3. /\ Carries("timer", k)' <=> k = i
        /\ Once("timer")' <=> ~Recurring(a)
        /\ ~Carries("timer", k) /\ ~Pending("timer", k)
        /\ k = i /\ ~Recurring(a) => Pending("timer", k)'
    BY <1>2, <1>6, <1>8 DEF Carries, Once, Recurring, Carrying, Pending
  <2>4. (Numbered(k)' <=> Numbered(k)) /\ (k = i => Numbered(k) /\ k \notin cancelled)
    BY <1>1, <1>2, <2>0, <2>1 DEF Numbered, AutomationInv, NumberOf, FileOf, a
  <2>5. k = i /\ Recurring(a) => automation'[k].kind = automation[k].kind
    BY <1>7 DEF a
  <2>6. k = i /\ ~Recurring(a) => automation'[k] = None /\ automation[k].kind = "once"
    BY <1>7 DEF a, Recurring
  <2>7. NumberOf(k)'
    BY <1>2, <1>7, <2>0, <2>1, <2>2, <2>3, <2>4, <2>5, <2>6, NoneIsAutomation DEF AutomationInv,
       NumberOf
  <2>8. CarriedOf(k)'
    <3>1. CASE k # i
      BY <1>2, <1>7, <2>0, <2>1, <2>2, <2>3, <3>1 DEF AutomationInv, CarriedOf
    <3>2. CASE k = i /\ ~Recurring(a)
      <4>1. \A w \in Workers \ {"timer"} : ~Carries(w, k)
        BY <1>1, <2>0, <2>6, <3>2 DEF AutomationInv, CarriedOf
      <4>2. runs[k] <= a.attempt /\ k \notin succeeded
        BY <2>0, <2>6, <3>2 DEF AutomationInv, CountOf, Counts, a
      <4>3. at'["timer"] = "preflight" /\ job'["timer"].fired = a /\ runs' = runs
              /\ succeeded' = succeeded
        BY <1>2, <1>6, <1>8
      <4>4. runs'[k] <= job'["timer"].fired.attempt + (IF at'["timer"] = "complete" THEN 1 ELSE 0)
        <5>1. runs[k] \in Nat /\ a.attempt \in Nat
          BY <1>0, <1>1 DEF EngineTypes, Automation, a
        <5> QED  BY <4>2, <4>3, <5>1
      <4> QED  BY <1>2, <2>1, <2>2, <2>3, <2>4, <2>6, <3>2, <4>1, <4>2, <4>3, <4>4,
            NoneIsAutomation DEF CarriedOf
    <3>3. CASE k = i /\ Recurring(a)
      <4>1. \A w \in Workers \ {"timer"} : Carries(w, k) => ~Once(w)
        BY <1>1, <2>0, <3>3 DEF AutomationInv, CarriedOf, a
      <4>2. automation'[k].kind # "once"
        BY <2>5, <3>3 DEF Recurring, a
      <4> QED  BY <1>2, <2>0, <2>1, <2>2, <2>3, <3>3, <4>1, <4>2 DEF AutomationInv, CarriedOf
    <3> QED  BY <3>1, <3>2, <3>3
  <2>9. CountOf(k)'
    <3>1. Counts(k, disk[k])' /\ Counts(k, automation[k])
      BY <1>2, <2>0 DEF AutomationInv, CountOf, Counts
    <3>2. Counts(k, automation[k])'
      <4>1. CASE k # i
        BY <1>2, <1>7, <3>1, <4>1 DEF Counts
      <4>2. CASE k = i /\ ~Recurring(a)
        BY <2>6, <4>2 DEF Counts, None, NoRetries
      <4>3. CASE k = i /\ Recurring(a)
        <5>1. automation'[k].policy.retries \in Nat
          BY <1>9, PoliciesAssumption DEF EngineTypes, Automation, NoRetries
        <5> QED  BY <1>7, <2>5, <4>3, <5>1 DEF Counts, Recurring, a
      <4> QED  BY <4>1, <4>2, <4>3
    <3>3. \A w \in Workers : Carries(w, k)' => job'[w].fired.attempt <= job'[w].fired.policy.retries
      BY <1>6, <2>0, <2>2, <2>3, <3>1 DEF AutomationInv, CountOf, Counts, a
    <3> QED  BY <2>1, <3>1, <3>2, <3>3 DEF CountOf, Counts
  <2>10. FileOf(k)'
    BY <1>2, <1>7, <1>11, <2>0, <2>1, <2>4 DEF AutomationInv, FileOf
  <2>11. KeptOf(k)'
    <3>1. \A w \in Workers : Pending(w, k) => Pending(w, k)'
      BY <2>2, <2>3
    <3>2. \A w \in Workers : at'[w] # "persist"
      BY <1>0, <1>2, <1>8 DEF MutexHeld, Saving
    <3>3. k = i => automation'[k].kind # "none" \/ \E w \in Workers : Pending(w, k)'
      BY <1>1, <2>3, <2>5 DEF a
    <3>4. k # i => automation'[k] = automation[k]
      BY <1>7
    <3>5. \A w \in Workers : Carries(w, k)' => ~job'[w].arms /\ job'[w].fired.kind # "none"
      BY <1>1, <1>6, <2>0, <2>2, <2>3 DEF AutomationInv, KeptOf, a
    <3> QED  BY <1>2, <1>3, <1>11, <2>0, <3>1, <3>2, <3>3, <3>4, <3>5 DEF AutomationInv, KeptOf
  <2> QED  BY <2>7, <2>8, <2>9, <2>10, <2>11 DEF AutomationInv
<1> QED  BY <1>8, <1>9, <1>10, <1>12, <1>13 DEF EngineInv, EngineShape

(* The execution passes to a thread of the executor.                        *)
LEMMA SubmitStep ==
  ASSUME EngineInv, Submit
  PROVE  EngineInv'
<1> USE NamesDiffer
<1>0. EngineTypes /\ Places /\ MutexHeld /\ CommandShape /\ NextOnFile
  BY DEF EngineInv, EngineShape
<1>1. PICK e \in Executions :
        /\ at[e] = "idle" /\ at' = [at EXCEPT !["timer"] = "idle", ![e] = "queued"]
        /\ job' = [job EXCEPT ![e] = [job["timer"] EXCEPT !.retryable = TRUE], !["timer"] = NoJob]
  BY DEF Submit
<1>2. /\ at["timer"] = "submit" /\ EntriesKept
      /\ UNCHANGED <<stopped, toArm, available, operation>>
  BY DEF Submit, EntriesKept, entries, store, command, ghosts, outcomes
<1>3. up
  BY <1>0, <1>2 DEF Places
<1>4. /\ at'["timer"] = "idle" /\ at'[e] = "queued"
      /\ \A w \in Threads \ {"timer", e} : at'[w] = at[w]
  BY <1>0, <1>1 DEF Places
<1>5. Places'
  <2>1. at' \in [Threads -> UiSteps \union TimerSteps \union ExecutionSteps]
    BY <1>0, <1>1 DEF Places, ExecutionSteps
  <2>2. at'["ui"] \in UiSteps /\ at'["timer"] \in TimerSteps
          /\ \A x \in Executions : at'[x] \in ExecutionSteps
    BY <1>0, <1>4 DEF Places, TimerSteps, ExecutionSteps
  <2> QED  BY <1>2, <1>3, <2>1, <2>2 DEF Places, EntriesKept
<1>6. /\ job' \in [Threads -> Job]
      /\ \A w \in Threads \ {"timer", e} : job'[w] = job[w]
      /\ job'[e].id = job["timer"].id /\ job'[e].fired = job["timer"].fired
      /\ job'[e].arms = job["timer"].arms
  <2>1. job["timer"] \in Job
    BY <1>0 DEF EngineTypes
  <2>2. [job["timer"] EXCEPT !.retryable = TRUE] \in Job
        /\ [job["timer"] EXCEPT !.retryable = TRUE].id = job["timer"].id
        /\ [job["timer"] EXCEPT !.retryable = TRUE].fired = job["timer"].fired
        /\ [job["timer"] EXCEPT !.retryable = TRUE].arms = job["timer"].arms
    BY <2>1 DEF Job
  <2> QED  BY <1>0, <1>1, <2>2, NoneIsAutomation DEF EngineTypes
<1>7. EngineTypes'
  BY <1>0, <1>2, <1>6 DEF EngineTypes, EntriesKept
<1>8. \A w \in Threads : Saving(w)' <=> Saving(w)
  BY <1>1, <1>2, <1>4 DEF Saving
<1>9. MutexHeld'
  BY <1>0, <1>2, <1>8 DEF MutexHeld, EntriesKept
<1>10. at'["ui"] = at["ui"]
  BY <1>4
<1>11. CommandShape' /\ NextOnFile'
  BY <1>0, <1>2, <1>10 DEF CommandShape, NextOnFile, EntriesKept
<1>12. ASSUME NEW k \in Ids PROVE AutomationInv(k)'
  <2>0. AutomationInv(k)
    BY DEF EngineInv
  <2>1. (Adding(k)' <=> Adding(k)) /\ Before(k)' = Before(k)
    BY <1>2, <1>10 DEF Adding, Before, EntriesKept
  <2>2. \A w \in Workers \ {"timer", e} :
           /\ at'[w] = at[w] /\ job'[w] = job[w]
           /\ (Carries(w, k)' <=> Carries(w, k)) /\ (Once(w)' <=> Once(w)) /\ (Pending(w,
                k)' <=> Pending(w, k))
    BY <1>4, <1>6 DEF Carries, Once, Pending
  <2>3. /\ ~Carries("timer", k)' /\ ~Carries(e, k) /\ ~Pending(e, k)
        /\ Carries(e, k)' <=> Carries("timer", k)
        /\ Once(e)' <=> Once("timer")
        /\ Pending("timer", k) => Pending(e, k)'
    BY <1>1, <1>2, <1>4, <1>6 DEF Carries, Once, Carrying, Pending
  <2>4. NumberOf(k)'
    BY <1>2, <2>0, <2>1, <2>2, <2>3 DEF AutomationInv, NumberOf, Numbered, EntriesKept
  <2>5. CarriedOf(k)'
    <3> SUFFICES ASSUME NEW w \in Workers, Carries(w, k)'
                 PROVE  /\ \A u \in Workers \ {w} : Carries(u, k)' => ~Once(w)' /\ ~Once(u)'
                        /\ ~Once(w)' => automation[k].kind # "once" /\ Before(k).kind # "once"
                        /\ Once(w)' =>
                             /\ automation[k].kind = "none" /\ Before(k).kind = "none"
                                  /\ k \notin cancelled
                             /\ at'[w] \in {"submit", "queued"} => disk[k].kind # "once"
                             /\ runs[k] <= job'[w].fired.attempt + (IF at'[w] = "complete" THEN 1 ELSE 0)
                             /\ k \in succeeded => at'[w] = "complete" /\ job'[w].success
      BY <1>2, <2>1 DEF CarriedOf, EntriesKept
    <3> DEFINE v == IF w = e THEN "timer" ELSE w
    <3>1. v \in Workers /\ Carries(v, k) /\ (Once(w)' <=> Once(v)) /\ job'[w].fired = job[v].fired
      BY <1>6, <2>2, <2>3
    <3>2. \A u \in Workers \ {w} : Carries(u, k)' => ~Once(w)' /\ ~Once(u)'
      <4> SUFFICES ASSUME NEW u \in Workers \ {w}, Carries(u, k)' PROVE ~Once(w)' /\ ~Once(u)'
        OBVIOUS
      <4> DEFINE x == IF u = e THEN "timer" ELSE u
      <4>1. x \in Workers \ {v} /\ Carries(x, k) /\ (Once(u)' <=> Once(x))
        BY <2>2, <2>3
      <4> HIDE DEF x, v
      <4> QED  BY <2>0, <3>1, <4>1 DEF AutomationInv, CarriedOf
    <3>3. at'[w] = at[v] \/ (at[v] = "submit" /\ at'[w] = "queued")
      BY <1>2, <1>4, <2>2, <2>3
    <3>4. job'[w] = job[v] \/ at[v] = "submit"
      BY <1>2, <2>2, <2>3
    <3> HIDE DEF v
    <3> QED  BY <2>0, <3>1, <3>2, <3>3, <3>4 DEF AutomationInv, CarriedOf
  <2>6. CountOf(k)'
    BY <1>2, <1>6, <2>0, <2>1, <2>2, <2>3 DEF AutomationInv, CountOf, Counts, EntriesKept
  <2>7. FileOf(k)'
    BY <1>2, <1>10, <2>0, <2>1 DEF AutomationInv, FileOf, EntriesKept
  <2>8. \A w \in Workers : Pending(w, k) => \E u \in Workers : Pending(u, k)'
    BY <2>2, <2>3
  <2>9. \A w \in Workers : at'[w] = "persist" => at[w] = "persist" /\ job'[w] = job[w]
          /\ (Once(w)' <=> Once(w))
    BY <1>4, <2>2
  <2>10. \A w \in Workers : Carries(w, k)' => ~job'[w].arms /\ job'[w].fired.kind # "none"
    BY <1>6, <2>0, <2>2, <2>3 DEF AutomationInv, KeptOf
  <2>11. KeptOf(k)'
    BY <1>2, <1>10, <2>0, <2>1, <2>8, <2>9, <2>10 DEF AutomationInv, KeptOf, EntriesKept
  <2> QED  BY <2>4, <2>5, <2>6, <2>7, <2>11 DEF AutomationInv
<1> QED  BY <1>5, <1>7, <1>9, <1>11, <1>12 DEF EngineInv, EngineShape

(* The executor is full, or has run the action.                             *)
LEMMA AnswerStep ==
  ASSUME EngineInv, NEW t \in Workers, NEW success \in BOOLEAN,
         \/ Rejected /\ t = "timer" /\ success = FALSE
         \/ Invoke(t, success)
  PROVE  EngineInv'
<1> USE NamesDiffer
<1>0. EngineTypes /\ Places /\ MutexHeld /\ CommandShape /\ NextOnFile
  BY DEF EngineInv, EngineShape
<1> DEFINE i == job[t].id
           f == job[t].fired
<1>1. i \in Ids /\ f \in Automation /\ runs[i] \in Nat
  BY <1>0 DEF EngineTypes, Job
<1>2. /\ at[t] \in {"submit", "queued"} /\ Goto(t, "complete")
      /\ UNCHANGED <<up, stopped, automation, next, toArm, available, mutation, disk, diskNext,
           doubtful, accepted,
                     cancelled, cleared, done, operation, changed, before>>
  BY DEF Rejected, Invoke, entries, store, command, ghosts, outcomes
<1>3. up
  BY <1>0, <1>2 DEF Places
<1>4. /\ Places' /\ \A w \in Threads : at'[w] = IF w = t THEN "complete" ELSE at[w]
  BY <1>0, <1>2, <1>3, Moved DEF StepsOf, TimerSteps, ExecutionSteps
<1>5. /\ job' \in [Threads -> Job] /\ \A w \in Threads \ {t} : job'[w] = job[w]
      /\ job'[t].id = i /\ job'[t].fired = f /\ job'[t].arms = job[t].arms
      /\ at[t] = "queued" => job'[t].success = success
  <2>1. job[t] \in Job
    BY <1>0 DEF EngineTypes
  <2>2. CASE Rejected /\ t = "timer"
    <3>1. job' = [job EXCEPT ![t] = [job[t] EXCEPT !.retryable = TRUE]] /\ at[t] = "submit"
      BY <1>0, <2>2 DEF Rejected, EngineTypes
    <3>2. [job[t] EXCEPT !.retryable = TRUE] \in Job /\ [job[t] EXCEPT !.retryable = TRUE].id = i
          /\ [job[t] EXCEPT !.retryable = TRUE].fired = f
          /\ [job[t] EXCEPT !.retryable = TRUE].arms = job[t].arms
      BY <2>1 DEF Job
    <3> HIDE DEF i, f
    <3> QED  BY <1>0, <3>1, <3>2 DEF EngineTypes
  <2>3. CASE Invoke(t, success)
    <3>1. job' = [job EXCEPT ![t] = [job[t] EXCEPT !.success = success]]
      BY <1>0, <2>3 DEF Invoke, EngineTypes
    <3>2. [job[t] EXCEPT !.success = success] \in Job /\ [job[t] EXCEPT !.success = success].id = i
          /\ [job[t] EXCEPT !.success = success].fired = f
          /\ [job[t] EXCEPT !.success = success].arms = job[t].arms
          /\ [job[t] EXCEPT !.success = success].success = success
      BY <2>1 DEF Job
    <3> HIDE DEF i, f
    <3> QED  BY <1>0, <3>1, <3>2 DEF EngineTypes
  <2> QED  BY <2>2, <2>3
<1>6. /\ runs' \in [Ids -> Nat] /\ \A k \in Ids : runs'[k] = runs[k] \/ (k = i /\ ~Recurring(f)
           /\ runs'[k] = runs[k] + 1)
      /\ succeeded' = succeeded \/ (at[t] = "queued" /\ success /\ ~Recurring(f)
           /\ succeeded' = succeeded \union {i})
  <2>1. CASE Rejected
    BY <1>0, <2>1 DEF Rejected, ghosts, outcomes, EngineTypes
  <2>2. CASE Invoke(t, success)
    BY <1>0, <1>1, <2>2 DEF Invoke, EngineTypes
  <2> QED  BY <2>1, <2>2
<1> HIDE DEF i, f
<1>7. EngineTypes'
  BY <1>0, <1>1, <1>2, <1>5, <1>6 DEF EngineTypes
<1>8. \A w \in Threads : Saving(w)' <=> Saving(w)
  BY <1>2, <1>4 DEF Saving
<1>9. MutexHeld'
  BY <1>0, <1>2, <1>8 DEF MutexHeld
<1>10. at'["ui"] = at["ui"]
  BY <1>4
<1>11. CommandShape' /\ NextOnFile'
  BY <1>0, <1>2, <1>10 DEF CommandShape, NextOnFile
<1>12. ASSUME NEW k \in Ids PROVE AutomationInv(k)'
  <2>0. AutomationInv(k)
    BY DEF EngineInv
  <2>1. (Adding(k)' <=> Adding(k)) /\ Before(k)' = Before(k) /\ (Numbered(k)' <=> Numbered(k))
    BY <1>2, <1>10 DEF Adding, Before, Numbered
  <2>2. \A w \in Workers :
           /\ (Carries(w, k)' <=> Carries(w, k)) /\ (Once(w)' <=> Once(w)) /\ (Pending(w,
                k)' <=> Pending(w, k))
           /\ job'[w].fired = job[w].fired
           /\ w # t => at'[w] = at[w] /\ job'[w] = job[w]
    BY <1>2, <1>4, <1>5 DEF Carries, Once, Pending, Carrying, i, f
  <2>3. (Carries(t, k) <=> k = i) /\ (Once(t) <=> ~Recurring(f))
    BY <1>2 DEF Carries, Carrying, i, f, Once
  <2>4. k \in succeeded' => k \in succeeded \/ (k = i /\ Once(t) /\ job'[t].success)
    BY <1>5, <1>6, <2>3
  <2>5. Once(t) /\ k = i =>
          /\ automation[k].kind = "none" /\ Before(k).kind = "none" /\ disk[k].kind # "once"
          /\ runs[k] <= f.attempt /\ k \notin succeeded
    <3>1. runs[k] \in Nat /\ f.attempt \in Nat
      BY <1>0, <1>1 DEF EngineTypes, Automation
    <3> QED  BY <1>2, <2>0, <2>3, <3>1 DEF AutomationInv, CarriedOf, f
  <2>6. ~(Once(t) /\ k = i) => runs'[k] = runs[k] /\ (k \in succeeded' <=> k \in succeeded)
    BY <1>6, <2>3
  <2>7. NumberOf(k)'
    BY <1>2, <2>0, <2>1, <2>2, <2>3, <2>4 DEF AutomationInv, NumberOf
  <2>8. CarriedOf(k)'
    <3> SUFFICES ASSUME NEW w \in Workers, Carries(w, k)
                 PROVE  /\ \A u \in Workers \ {w} : Carries(u, k) => ~Once(w) /\ ~Once(u)
                        /\ ~Once(w) => automation[k].kind # "once" /\ Before(k).kind # "once"
                        /\ Once(w) =>
                             /\ automation[k].kind = "none" /\ Before(k).kind = "none"
                                  /\ k \notin cancelled
                             /\ at'[w] \in {"submit", "queued"} => disk[k].kind # "once"
                             /\ runs'[k] <= job'[w].fired.attempt + (IF at'[w] = "complete" THEN 1 ELSE 0)
                             /\ k \in succeeded' => at'[w] = "complete" /\ job'[w].success
      BY <1>2, <2>1, <2>2 DEF CarriedOf
    <3>1. CASE w = t
      <4>1. at'[w] = "complete" /\ job'[w].fired = f /\ k = i
        BY <1>4, <1>5, <2>3, <3>1
      <4>2. Once(w) => runs'[k] <= f.attempt + 1
        <5>1. runs[k] \in Nat /\ f.attempt \in Nat
          BY <1>0, <1>1 DEF EngineTypes, Automation
        <5> QED  BY <1>6, <2>5, <3>1, <4>1, <5>1
      <4> QED  BY <2>0, <2>4, <2>5, <3>1, <4>1, <4>2 DEF AutomationInv, CarriedOf
    <3>2. CASE w # t
      <4>1. Once(w) => ~(Once(t) /\ k = i)
        BY <2>0, <2>3, <3>2 DEF AutomationInv, CarriedOf
      <4> QED  BY <2>0, <2>2, <2>6, <3>2, <4>1 DEF AutomationInv, CarriedOf
    <3> QED  BY <3>1, <3>2
  <2>9. CountOf(k)'
    <3>1. ASSUME NEW a, Counts(k, a), Once(t) /\ k = i => a.kind # "once"
          PROVE  a.attempt <= a.policy.retries /\ (a.kind = "once" => runs'[k] <= a.attempt
            /\ k \notin succeeded')
      BY <2>6, <3>1 DEF Counts
    <3>2. Counts(k, automation[k]) /\ Counts(k, disk[k]) /\ Counts(k, Before(k))
      BY <2>0 DEF AutomationInv, CountOf
    <3>3. \A w \in Workers : Carries(w, k)' => job'[w].fired.attempt <= job'[w].fired.policy.retries
      BY <2>0, <2>2 DEF AutomationInv, CountOf
    <3> HIDE DEF Counts
    <3>4. Counts(k, automation[k])' /\ Counts(k, disk[k])' /\ Counts(k, Before(k))'
      BY <1>2, <2>1, <2>5, <3>1, <3>2 DEF Counts
    <3> QED  BY <3>3, <3>4 DEF CountOf
  <2>10. FileOf(k)'
    BY <1>2, <1>10, <2>0, <2>1 DEF AutomationInv, FileOf
  <2>11. \A w \in Workers : at'[w] = "persist" => at[w] = "persist" /\ job'[w] = job[w]
    BY <1>4, <2>2
  <2>12. \A w \in Workers : Carries(w, k)' => ~job'[w].arms /\ job'[w].fired.kind # "none"
    BY <1>5, <2>0, <2>2, <2>3 DEF AutomationInv, KeptOf
  <2>13. KeptOf(k)'
    BY <1>2, <1>10, <2>0, <2>1, <2>2, <2>11, <2>12 DEF AutomationInv, KeptOf
  <2> QED  BY <2>7, <2>8, <2>9, <2>10, <2>13 DEF AutomationInv
<1> QED  BY <1>4, <1>7, <1>9, <1>11, <1>12 DEF EngineInv, EngineShape

-----------------------------------------------------------------------------
(* Completing.                                                              *)

(* What the completion of an execution may make of its automation.          *)
Completed(t, i, f) ==
  \/ Recurring(f) /\ UNCHANGED automation
  \/ /\ ~Recurring(f) /\ ~job[t].success /\ f.attempt < f.policy.retries
     /\ automation'[i].kind = f.kind /\ automation'[i].attempt = f.attempt + 1
     /\ automation'[i].policy = f.policy
  \/ /\ Recurring(f) /\ automation[i].kind # "none"
     /\ automation'[i].kind \notin {"none", "once"}
     /\ automation'[i].attempt <= automation'[i].policy.retries

LEMMA CompletionStep ==
  ASSUME EngineInv, NEW t \in Workers, NEW i, NEW f, i = job[t].id, f = job[t].fired,
         at[t] = "complete", mutation = "free", mutation' = t, Goto(t, "persist"),
         automation' \in [Ids -> Automation], \A k \in Ids \ {i} : automation'[k] = automation[k],
         Completed(t, i, f),
         job' \in [Threads -> Job], \A w \in Threads \ {t} : job'[w] = job[w],
         job'[t].id = i, job'[t].fired = f,
         UNCHANGED <<up, stopped, next, toArm, available, disk, diskNext, doubtful, runs, accepted,
           cancelled,
                     cleared, done, succeeded>>
  PROVE  EngineInv'
<1> USE NamesDiffer
<1>0. EngineTypes /\ Places /\ MutexHeld /\ CommandShape /\ NextOnFile
  BY DEF EngineInv, EngineShape
<1>1. i \in Ids /\ f \in Automation /\ up
  BY <1>0 DEF EngineTypes, Job, Places
<1>2. Places' /\ \A w \in Threads : at'[w] = IF w = t THEN "persist" ELSE at[w]
  BY <1>0, <1>1, Moved DEF StepsOf, TimerSteps, ExecutionSteps
<1>3. EngineTypes'
  BY <1>0 DEF EngineTypes
<1>4. MutexHeld'
  BY <1>0, <1>2 DEF MutexHeld, Saving
<1>5. at["ui"] # "save" /\ at'["ui"] # "save"
  BY <1>0, <1>2 DEF MutexHeld, Saving
<1>6. CommandShape' /\ NextOnFile'
  BY <1>1, <1>5 DEF CommandShape, NextOnFile
<1>7. ASSUME NEW k \in Ids PROVE AutomationInv(k)'
  <2>0. AutomationInv(k)
    BY DEF EngineInv
  <2>1. ~Adding(k)' /\ ~Adding(k) /\ Before(k)' = automation'[k] /\ Before(k) = automation[k]
        /\ (Numbered(k)' <=> Numbered(k))
    BY <1>5 DEF Adding, Before, Numbered
  <2>2. \A w \in Workers \ {t} :
           /\ at'[w] = at[w] /\ job'[w] = job[w]
           /\ (Carries(w, k)' <=> Carries(w, k)) /\ (Once(w)' <=> Once(w)) /\ (Pending(w,
                k)' <=> Pending(w, k))
    BY <1>2 DEF Carries, Once, Pending
  <2>3. /\ ~Carries(t, k)' /\ (Carries(t, k) <=> k = i) /\ (Once(t)' <=> Once(t))
             /\ (Once(t) <=> ~Recurring(f))
        /\ (Pending(t, k)' <=> Pending(t, k))
    BY <1>2 DEF Carries, Once, Carrying, Pending
  <2>4. \/ automation'[k] = automation[k] /\ (k = i => Recurring(f))
        \/ /\ k = i /\ ~Recurring(f) /\ automation'[k].kind = "once"
           /\ automation'[k].attempt = f.attempt + 1
                /\ automation'[k].attempt <= automation'[k].policy.retries
           /\ Numbered(k) /\ k \notin cancelled /\ k \notin succeeded
           /\ runs[k] <= f.attempt + 1
           /\ \A w \in Workers \ {t} : ~Carries(w, k)
        \/ /\ k = i /\ Recurring(f) /\ automation[k].kind # "none"
                /\ automation'[k].kind \notin {"none", "once"}
           /\ automation'[k].attempt <= automation'[k].policy.retries
    <3>1. CASE k # i \/ (Recurring(f) /\ UNCHANGED automation)
      BY <3>1
    <3>2. CASE k = i /\ ~Recurring(f)
      <4>1. /\ ~job[t].success /\ f.attempt < f.policy.retries
            /\ automation'[k].kind = f.kind /\ automation'[k].attempt = f.attempt + 1
            /\ automation'[k].policy = f.policy
        BY <3>2 DEF Completed
      <4>2. f.attempt \in Nat /\ f.policy.retries \in Nat
        BY <1>1, PoliciesAssumption DEF Automation, NoRetries
      <4>3. automation'[k].attempt <= automation'[k].policy.retries
        BY <4>1, <4>2, SMT
      <4>4. /\ Numbered(k) /\ k \notin cancelled /\ k \notin succeeded /\ runs[k] <= f.attempt + 1
            /\ \A w \in Workers \ {t} : ~Carries(w, k)
        BY <2>0, <2>3, <3>2, <4>1 DEF AutomationInv, NumberOf, CarriedOf
      <4> QED  BY <3>2, <4>1, <4>3, <4>4 DEF Recurring
    <3>3. CASE k = i /\ Recurring(f) /\ ~UNCHANGED automation
      BY <3>3 DEF Completed
    <3> QED  BY <3>1, <3>2, <3>3
  <2>5. NumberOf(k)'
    BY <2>0, <2>1, <2>2, <2>3, <2>4 DEF AutomationInv, NumberOf
  <2>6. CarriedOf(k)'
    <3> SUFFICES ASSUME NEW w \in Workers \ {t}, Carries(w, k)
                 PROVE  /\ \A u \in Workers \ {w, t} : Carries(u, k) => ~Once(w) /\ ~Once(u)
                        /\ ~Once(w) => automation'[k].kind # "once"
                        /\ Once(w) =>
                             /\ automation'[k].kind = "none" /\ k \notin cancelled
                             /\ at[w] \in {"submit", "queued"} => disk[k].kind # "once"
                             /\ runs[k] <= job[w].fired.attempt + (IF at[w] = "complete" THEN 1 ELSE 0)
                             /\ k \in succeeded => at[w] = "complete" /\ job[w].success
      BY <2>1, <2>2, <2>3 DEF CarriedOf
    <3> QED  BY <2>0, <2>4 DEF AutomationInv, CarriedOf
  <2>7. CountOf(k)'
    <3>1. Counts(k, automation[k]) /\ Counts(k, disk[k]) /\ Counts(k, disk[k])'
      BY <2>0 DEF AutomationInv, CountOf, Counts
    <3>2. Counts(k, automation[k])'
      <4>1. automation'[k].kind = "once" => runs[k] <= automation'[k].attempt /\ k \notin succeeded
        BY <2>4, <3>1 DEF Counts
      <4>2. automation'[k].attempt <= automation'[k].policy.retries
        BY <2>4, <3>1 DEF Counts
      <4> QED  BY <4>1, <4>2 DEF Counts
    <3>3. \A w \in Workers : Carries(w, k)' => job'[w].fired.attempt <= job'[w].fired.policy.retries
      BY <2>0, <2>2, <2>3 DEF AutomationInv, CountOf
    <3> QED  BY <2>1, <3>1, <3>2, <3>3 DEF CountOf, Counts
  <2>8. FileOf(k)'
    BY <1>5, <2>0, <2>1, <2>4 DEF AutomationInv, FileOf
  <2>9. KeptOf(k)'
    <3>1. \A w \in Workers : Pending(w, k)' <=> Pending(w, k)
      BY <2>2, <2>3
    <3>2. \A w \in Workers : at'[w] = "persist" => w = t
      BY <1>0, <1>2 DEF MutexHeld, Saving
    <3>3. k = i /\ Once(t) => automation'[k].kind # "none"
      BY <2>3, <2>4
    <3>4. \A w \in Workers : Carries(w, k)' => ~job'[w].arms /\ job'[w].fired.kind # "none"
      BY <2>0, <2>2, <2>3 DEF AutomationInv, KeptOf
    <3>5. automation[k].kind # "none" => automation'[k].kind # "none"
      BY <2>4
    <3> QED  BY <1>1, <1>5, <2>0, <2>3, <3>1, <3>2, <3>3, <3>4, <3>5 DEF AutomationInv, KeptOf
  <2> QED  BY <2>5, <2>6, <2>7, <2>8, <2>9 DEF AutomationInv
<1> QED  BY <1>2, <1>3, <1>4, <1>6, <1>7 DEF EngineInv, EngineShape

LEMMA RetryStep ==
  ASSUME EngineInv, NEW t \in Workers, CompleteRetry(t)
  PROVE  EngineInv'
<1> USE NamesDiffer
<1>0. EngineTypes
  BY DEF EngineInv, EngineShape
<1> DEFINE i == job[t].id
           f == job[t].fired
           a == [f EXCEPT !.attempt = @ + 1]
<1>1. job[t] \in Job /\ i \in Ids /\ f \in Automation /\ automation[i] \in Automation
        /\ f.attempt \in Nat
  BY <1>0 DEF EngineTypes, Job, Automation
<1>2. a \in Automation /\ a.kind = f.kind /\ a.attempt = f.attempt + 1 /\ a.policy = f.policy
  BY <1>1 DEF Automation
<1>3. ~job[t].success /\ f.attempt < f.policy.retries
  BY DEF CompleteRetry, CanRetry
<1>4. f.attempt + 1 <= f.policy.retries
  BY <1>1, <1>3, PoliciesAssumption DEF Automation, NoRetries
<1>5. /\ at[t] = "complete" /\ mutation = "free" /\ mutation' = t /\ Goto(t, "persist")
      /\ UNCHANGED <<up, stopped, next, toArm, available, disk, diskNext, doubtful, runs, accepted,
           cancelled,
                     cleared, done, succeeded>>
  BY DEF CompleteRetry, Completes, store, command, ghosts, outcomes
<1>6. ASSUME NEW arms \in BOOLEAN, job' = [job EXCEPT ![t].arms = arms]
      PROVE  /\ job' \in [Threads -> Job] /\ \A w \in Threads \ {t} : job'[w] = job[w]
             /\ job'[t].id = i /\ job'[t].fired = f
  <2>1. [job[t] EXCEPT !.arms = arms] \in Job /\ [job[t] EXCEPT !.arms = arms].id = i
        /\ [job[t] EXCEPT !.arms = arms].fired = f
    BY <1>1 DEF Job
  <2>2. job' = [job EXCEPT ![t] = [job[t] EXCEPT !.arms = arms]]
    BY <1>0, <1>6 DEF EngineTypes
  <2> HIDE DEF i, f
  <2> QED  BY <1>0, <2>1, <2>2 DEF EngineTypes
<1>7. CASE ~Recurring(a) /\ automation' = [automation EXCEPT ![i] = a]
        /\ job' = [job EXCEPT ![t].arms = a.enabled]
  <2>1. a.enabled \in BOOLEAN
    BY <1>2 DEF Automation
  <2> HIDE DEF a, i, f
  <2>2. automation' \in [Ids -> Automation] /\ automation'[i] = a
          /\ \A k \in Ids \ {i} : automation'[k] = automation[k]
    BY <1>0, <1>1, <1>2, <1>7 DEF EngineTypes
  <2>3. Completed(t, i, f)
    BY <1>2, <1>3, <1>7, <2>2 DEF Completed, Recurring
  <2> QED  BY <1>5, <1>6, <1>7, <2>1, <2>2, <2>3, CompletionStep DEF i, f
<1>8. CASE /\ Recurring(a) /\ StillThere(i)
           /\ automation' = [automation EXCEPT ![i] = [a EXCEPT !.enabled = automation[i].enabled]]
           /\ job' = [job EXCEPT ![t].arms = automation[i].enabled]
  <2> DEFINE c == [a EXCEPT !.enabled = automation[i].enabled]
  <2>1. c \in Automation /\ c.kind = a.kind /\ c.attempt = a.attempt /\ c.policy = a.policy
    BY <1>1, <1>2 DEF Automation
  <2>2. automation[i].enabled \in BOOLEAN
    BY <1>1 DEF Automation
  <2> HIDE DEF c, a, i, f
  <2>3. automation' \in [Ids -> Automation] /\ automation'[i] = c
          /\ \A k \in Ids \ {i} : automation'[k] = automation[k]
    BY <1>0, <1>1, <1>8, <2>1 DEF EngineTypes, c
  <2>4. automation[i].kind # "none"
    BY <1>8 DEF StillThere, Present
  <2>5. f.kind # "none"
    <3>1. Carries(t, i) /\ KeptOf(i)
      BY <1>1, <1>5 DEF EngineInv, AutomationInv, Carries, Carrying, i
    <3> QED  BY <3>1 DEF KeptOf, f
  <2>6. Completed(t, i, f)
    BY <1>2, <1>4, <1>8, <2>1, <2>3, <2>4, <2>5 DEF Completed, Recurring
  <2> QED  BY <1>5, <1>6, <1>8, <2>2, <2>3, <2>6, CompletionStep DEF i, f
<1> QED  BY <1>7, <1>8 DEF CompleteRetry

LEMMA CompleteStep ==
  ASSUME EngineInv, NEW t \in Workers,
         CompleteRecurring(t, TRUE) \/ CompleteRecurring(t, FALSE) \/ (CompleteGone(t)
           /\ Recurring(job[t].fired))
  PROVE  EngineInv'
<1> USE NamesDiffer
<1>0. EngineTypes
  BY DEF EngineInv, EngineShape
<1> DEFINE i == job[t].id
           f == job[t].fired
<1>1. job[t] \in Job /\ i \in Ids /\ f \in Automation /\ automation[i] \in Automation
  BY <1>0 DEF EngineTypes, Job
<1>2. /\ at[t] = "complete" /\ mutation = "free" /\ mutation' = t /\ Goto(t, "persist") /\ Recurring(f)
      /\ UNCHANGED <<up, stopped, next, toArm, available, disk, diskNext, doubtful, runs, accepted,
           cancelled,
                     cleared, done, succeeded>>
  BY DEF CompleteRecurring, CompleteGone, Completes, entries, store, command, ghosts, outcomes
<1>3. CASE CompleteGone(t)
  <2>1. UNCHANGED automation /\ UNCHANGED job
    BY <1>2, <1>3 DEF CompleteGone, entries
  <2>2. automation' \in [Ids -> Automation] /\ job' \in [Threads -> Job]
    BY <1>0, <2>1 DEF EngineTypes
  <2>3. Completed(t, i, f)
    BY <1>2, <2>1 DEF Completed
  <2> QED  BY <1>2, <2>1, <2>2, <2>3, CompletionStep
<1>4. ASSUME NEW resolved \in BOOLEAN, CompleteRecurring(t, resolved)
      PROVE  EngineInv'
  <2>1. PICK on \in BOOLEAN :
          /\ automation' = [automation EXCEPT ![i].attempt = 0, ![i].enabled = on]
          /\ job' = [job EXCEPT ![t].arms = on]
    <3>1. (automation[i].enabled /\ ~(~job[t].success /\ f.policy.disables) /\ resolved) \in BOOLEAN
      OBVIOUS
    <3> QED  BY <1>4, <3>1 DEF CompleteRecurring
  <2> DEFINE c == [automation[i] EXCEPT !.attempt = 0, !.enabled = on]
             j == [job[t] EXCEPT !.arms = on]
  <2>2. c \in Automation /\ c.kind = automation[i].kind /\ c.attempt = 0
          /\ c.policy = automation[i].policy
    BY <1>1 DEF Automation
  <2>3. j \in Job /\ j.id = i /\ j.fired = f
    BY <1>1 DEF Job
  <2>4. automation' = [automation EXCEPT ![i] = c] /\ job' = [job EXCEPT ![t] = j]
    BY <1>0, <1>1, <2>1 DEF EngineTypes
  <2>5. automation[i].kind # "none"
    BY <1>4 DEF CompleteRecurring, Present
  <2>6. automation[i].kind # "once"
    <3>1. Carries(t, i) /\ CarriedOf(i)
      BY <1>1, <1>2 DEF EngineInv, AutomationInv, Carries, Carrying
    <3> QED  BY <1>2, <3>1 DEF CarriedOf, Once
  <2> HIDE DEF c, j, i, f
  <2>7. automation' \in [Ids -> Automation] /\ automation'[i] = c
          /\ \A k \in Ids \ {i} : automation'[k] = automation[k]
    BY <1>0, <1>1, <2>2, <2>4 DEF EngineTypes
  <2>8. job' \in [Threads -> Job] /\ (\A w \in Threads \ {t} : job'[w] = job[w]) /\ job'[t] = j
    BY <1>0, <2>3, <2>4 DEF EngineTypes
  <2>9. c.attempt <= c.policy.retries
    BY <2>2, PoliciesAssumption DEF Automation, NoRetries
  <2>10. Completed(t, i, f)
    BY <1>2, <2>2, <2>5, <2>6, <2>7, <2>9 DEF Completed
  <2> QED  BY <1>2, <2>3, <2>7, <2>8, <2>10, CompletionStep DEF i, f
<1> QED  BY <1>3, <1>4

(* What leaves an execution behind: it was gone, or its outcome is told.    *)
LEMMA LeavingStep ==
  ASSUME EngineInv, NEW t \in Workers,
         (CompleteGone(t) /\ ~Recurring(job[t].fired)) \/ Report(t)
  PROVE  EngineInv'
<1> USE NamesDiffer
<1>0. EngineTypes /\ Places /\ MutexHeld /\ CommandShape /\ NextOnFile
  BY DEF EngineInv, EngineShape
<1>1. PICK s \in {"report", "idle"} :
        /\ Goto(t, s)
        /\ s = "report" => (at[t] = "complete" /\ job' = job /\ done' = done)
        /\ s = "idle" => /\ at[t] = "report" /\ job' = [job EXCEPT ![t] = NoJob]
                         /\ done' = IF Recurring(job[t].fired) \/ job[t].arms THEN done
                                    ELSE done \union {job[t].id}
  BY DEF CompleteGone, Report, Completes, ghosts, outcomes
<1>2. UNCHANGED <<up, stopped, automation, next, mutation, toArm, available, disk, diskNext,
        doubtful, runs,
                  accepted, cancelled, cleared, succeeded, changed, before, operation>>
  BY DEF CompleteGone, Report, entries, store, command, ghosts, outcomes
<1>3. up /\ at[t] \in {"complete", "report"}
  BY <1>0, <1>1 DEF Places
<1>4. Places' /\ \A w \in Threads : at'[w] = IF w = t THEN s ELSE at[w]
  BY <1>0, <1>1, <1>2, <1>3, Moved DEF StepsOf, TimerSteps, ExecutionSteps
<1>5. job' \in [Threads -> Job] /\ \A w \in Threads \ {t} : job'[w] = job[w]
  BY <1>0, <1>1, NoneIsAutomation DEF EngineTypes
<1>6. EngineTypes'
  BY <1>0, <1>2, <1>5 DEF EngineTypes
<1>7. \A w \in Threads : Saving(w)' <=> Saving(w)
  BY <1>3, <1>4 DEF Saving
<1>8. MutexHeld'
  BY <1>0, <1>2, <1>7 DEF MutexHeld
<1>9. at'["ui"] = at["ui"]
  BY <1>4
<1>10. CommandShape' /\ NextOnFile'
  BY <1>0, <1>2, <1>9 DEF CommandShape, NextOnFile
<1>11. ASSUME NEW k \in Ids PROVE AutomationInv(k)'
  <2>0. AutomationInv(k)
    BY DEF EngineInv
  <2>1. (Adding(k)' <=> Adding(k)) /\ Before(k)' = Before(k) /\ (Numbered(k)' <=> Numbered(k))
    BY <1>2, <1>9 DEF Adding, Before, Numbered
  <2>2. \A w \in Workers \ {t} :
           /\ at'[w] = at[w] /\ job'[w] = job[w]
           /\ (Carries(w, k)' <=> Carries(w, k)) /\ (Once(w)' <=> Once(w)) /\ (Pending(w,
                k)' <=> Pending(w, k))
    BY <1>4, <1>5 DEF Carries, Once, Pending
  <2>3. ~Carries(t, k)' /\ at'[t] # "persist"
    BY <1>4 DEF Carries, Carrying
  <2>4. Pending(t, k) => Pending(t, k)' \/ k \in done'
    <3>1. CASE s = "report"
      <4>1. Carries(t, k) /\ KeptOf(k) => ~job[t].arms
        BY DEF KeptOf
      <4> QED  BY <1>1, <1>4, <2>0, <3>1, <4>1 DEF Pending, Once, Carries, Carrying, AutomationInv
    <3>2. CASE s = "idle"
      BY <1>1, <3>2 DEF Pending, Once, Carrying
    <3> QED  BY <3>1, <3>2
  <2>5. NumberOf(k)'
    BY <1>2, <2>0, <2>1, <2>2, <2>3 DEF AutomationInv, NumberOf
  <2>6. CarriedOf(k)'
    <3> SUFFICES ASSUME NEW w \in Workers \ {t}, Carries(w, k)
                 PROVE  /\ \A u \in Workers \ {w, t} : Carries(u, k) => ~Once(w) /\ ~Once(u)
                        /\ ~Once(w) => automation[k].kind # "once" /\ Before(k).kind # "once"
                        /\ Once(w) =>
                             /\ automation[k].kind = "none" /\ Before(k).kind = "none"
                                  /\ k \notin cancelled
                             /\ at[w] \in {"submit", "queued"} => disk[k].kind # "once"
                             /\ runs[k] <= job[w].fired.attempt + (IF at[w] = "complete" THEN 1 ELSE 0)
                             /\ k \in succeeded => at[w] = "complete" /\ job[w].success
      BY <1>2, <2>1, <2>2, <2>3 DEF CarriedOf
    <3> QED  BY <2>0 DEF AutomationInv, CarriedOf
  <2>7. CountOf(k)'
    BY <1>2, <2>0, <2>1, <2>2, <2>3 DEF AutomationInv, CountOf, Counts
  <2>8. FileOf(k)'
    BY <1>2, <1>9, <2>0, <2>1 DEF AutomationInv, FileOf
  <2>9. \A w \in Workers : Pending(w, k) => Pending(w, k)' \/ k \in done'
    BY <2>2, <2>4
  <2>10. done \subseteq done'
    BY <1>1
  <2>11. KeptOf(k)'
    BY <1>2, <1>9, <2>0, <2>1, <2>2, <2>3, <2>9, <2>10 DEF AutomationInv, KeptOf
  <2> QED  BY <2>5, <2>6, <2>7, <2>8, <2>11 DEF AutomationInv
<1> QED  BY <1>4, <1>6, <1>8, <1>10, <1>11 DEF EngineInv, EngineShape

-----------------------------------------------------------------------------
(* Kill and start.                                                          *)

LEMMA CrashStep ==
  ASSUME EngineInv, Crash
  PROVE  EngineInv'
<1> USE NamesDiffer
<1>0. EngineTypes
  BY DEF EngineInv, EngineShape
<1>1. /\ up' = FALSE /\ stopped' = FALSE /\ automation' = Nothing /\ next' = 1 /\ mutation' = "free"
      /\ at' = [t \in Threads |-> "idle"] /\ job' = [t \in Threads |-> NoJob] /\ toArm' = {}
      /\ accepted' = {i \in accepted : disk[i].kind # "none"}
      /\ UNCHANGED <<available, disk, diskNext, cancelled, cleared, runs, done, succeeded, doubtful>>
  BY DEF Crash, store
<1>2. Nothing \in [Ids -> Automation] /\ \A i \in Ids : Nothing[i] = None
  BY NoneIsAutomation DEF Nothing
<1>3. EngineTypes'
  <2>1. 1 \in 1..MaxAutomations + 1
    BY BoundsAssumption, SMT
  <2>2. next' \in 1..MaxAutomations + 1 /\ job' \in [Threads -> Job]
    BY <1>1, <2>1, NoneIsAutomation
  <2> QED  BY <1>0, <1>1, <1>2, <2>2 DEF EngineTypes
<1>4. \A t \in Threads : at'[t] = "idle"
  BY <1>1
<1>5. Places'
  <2>1. at' \in [Threads -> UiSteps \union TimerSteps \union ExecutionSteps]
    BY <1>1 DEF UiSteps
  <2> QED  BY <1>1, <1>4, <2>1 DEF Places, UiSteps, TimerSteps, ExecutionSteps
<1>6. MutexHeld'
  BY <1>1, <1>4 DEF MutexHeld, Saving
<1>7. CommandShape' /\ NextOnFile'
  BY <1>1, <1>4 DEF CommandShape, NextOnFile
<1>8. ASSUME NEW i \in Ids PROVE AutomationInv(i)'
  <2>0. AutomationInv(i)
    BY DEF EngineInv
  <2>1. /\ Before(i)' = None /\ automation'[i] = None /\ None.kind = "none"
        /\ ~Adding(i)' /\ \A t \in Workers : ~Carries(t, i)' /\ ~Pending(t, i)'
    BY <1>1, <1>2, <1>4, NoneIsAutomation DEF Before, Adding, Carries, Pending, Carrying
  <2>2. Numbered(i) => Numbered(i)'
    BY <1>1 DEF Numbered
  <2>3. NumberOf(i)'
    BY <1>1, <2>0, <2>1, <2>2 DEF AutomationInv, NumberOf
  <2>4. CarriedOf(i)'
    BY <2>1 DEF CarriedOf
  <2>5. CountOf(i)'
    <3>1. Counts(i, None)'
      BY DEF Counts, None, NoRetries
    <3> QED  BY <1>1, <2>0, <2>1, <3>1 DEF AutomationInv, CountOf, Counts
  <2>6. FileOf(i)'
    BY <1>1, <2>0, <2>1 DEF AutomationInv, FileOf
  <2>7. KeptOf(i)'
    BY <1>1, <1>4, <2>1 DEF KeptOf
  <2> QED  BY <2>3, <2>4, <2>5, <2>6, <2>7 DEF AutomationInv
<1> QED  BY <1>3, <1>5, <1>6, <1>7, <1>8 DEF EngineInv, EngineShape

LEMMA RestartStep ==
  ASSUME EngineInv, NEW unresolved \in SUBSET Ids, Restart(unresolved)
  PROVE  EngineInv'
<1> USE NamesDiffer
<1>0. EngineTypes /\ Places /\ MutexHeld /\ CommandShape
  BY DEF EngineInv, EngineShape
<1>1. /\ ~up /\ up' = TRUE /\ next' = diskNext /\ doubtful' = (unresolved # {}) /\ toArm' \subseteq Ids
      /\ automation' = [i \in Ids |-> [disk[i] EXCEPT !.enabled = @ /\ i \notin unresolved]]
      /\ UNCHANGED <<available, stopped, mutation, job, disk, diskNext, runs, accepted, cancelled,
           cleared,
                     done, succeeded>>
  <2>1. toArm' = {i \in available \ unresolved : disk[i].enabled}
    BY DEF Restart
  <2>2. toArm' \subseteq Ids
    BY <1>0, <2>1 DEF EngineTypes
  <2> QED  BY <2>2 DEF Restart, store, outcomes
<1>2. ASSUME NEW i \in Ids
      PROVE  LET a == [disk[i] EXCEPT !.enabled = @ /\ i \notin unresolved]
             IN /\ a \in Automation /\ a.kind = disk[i].kind /\ a.attempt = disk[i].attempt
                /\ a.policy = disk[i].policy /\ (i \notin unresolved => a = disk[i])
  <2>1. disk[i] \in Automation /\ disk[i].enabled \in BOOLEAN
    BY <1>0 DEF EngineTypes, Automation
  <2> QED  BY <2>1 DEF Automation
<1>3. /\ automation' \in [Ids -> Automation]
      /\ \A i \in Ids : /\ automation'[i].kind = disk[i].kind
           /\ automation'[i].attempt = disk[i].attempt
                        /\ automation'[i].policy = disk[i].policy
                        /\ (i \notin unresolved => automation'[i] = disk[i])
  BY <1>1, <1>2
<1>4. EngineTypes'
  BY <1>0, <1>1, <1>3 DEF EngineTypes
<1>5. PICK s \in {"idle", "next"} : Goto("ui", s)
  BY DEF Restart
<1>6. \A w \in Threads : at'[w] = IF w = "ui" THEN s ELSE at[w]
  BY <1>0, <1>5 DEF Goto, Places
<1>7. Places'
  <2>1. at' \in [Threads -> UiSteps \union TimerSteps \union ExecutionSteps]
    BY <1>0, <1>5 DEF Goto, Places, UiSteps
  <2>2. at'["ui"] \in UiSteps /\ at'["timer"] \in TimerSteps
          /\ \A x \in Executions : at'[x] \in ExecutionSteps
    BY <1>0, <1>6 DEF Places, UiSteps
  <2> QED  BY <1>1, <2>1, <2>2 DEF Places
<1>8. \A w \in Workers : at'[w] = at[w] /\ at[w] \in {"idle", "fire"}
  BY <1>0, <1>1, <1>6 DEF Places
<1>9. \A w \in Threads : ~Saving(w) /\ ~Saving(w)'
  BY <1>0, <1>1, <1>6, <1>8 DEF Saving, Places
<1>10. MutexHeld'
  BY <1>0, <1>1, <1>9 DEF MutexHeld
<1>11. CommandShape' /\ NextOnFile'
  BY <1>1, <1>6 DEF CommandShape, NextOnFile
<1>12. ASSUME NEW i \in Ids PROVE AutomationInv(i)'
  <2>0. AutomationInv(i)
    BY DEF EngineInv
  <2>1. /\ Before(i)' = automation'[i] /\ ~Adding(i)' /\ at'["ui"] # "save"
        /\ \A t \in Workers : ~Carries(t, i)' /\ ~Pending(t, i)
    BY <1>6, <1>8 DEF Before, Adding, Carries, Pending, Carrying
  <2>2. Numbered(i)' <=> i < diskNext
    BY <1>1, <2>1 DEF Numbered
  <2>3. NumberOf(i)'
    BY <1>1, <1>3, <2>0, <2>1, <2>2 DEF AutomationInv, NumberOf, Numbered
  <2>4. CarriedOf(i)'
    BY <2>1 DEF CarriedOf
  <2>5. CountOf(i)'
    BY <1>1, <1>3, <2>0, <2>1 DEF AutomationInv, CountOf, Counts
  <2>6. FileOf(i)'
    BY <1>1, <1>3, <2>0, <2>1 DEF AutomationInv, FileOf
  <2>7. KeptOf(i)'
    BY <1>1, <1>3, <1>8, <2>0, <2>1 DEF AutomationInv, KeptOf
  <2> QED  BY <2>3, <2>4, <2>5, <2>6, <2>7 DEF AutomationInv
<1> QED  BY <1>4, <1>7, <1>10, <1>11, <1>12 DEF EngineInv, EngineShape

-----------------------------------------------------------------------------
(* The inductive invariant: what is on file and in memory of each           *)
(* automation, who carries it, and how often its action ran.                *)
THEOREM EngineInvariant == Spec => []EngineInv
<1>1. Init => EngineInv
  <2> SUFFICES ASSUME Init PROVE EngineInv
    OBVIOUS
  <2> USE NamesDiffer
  <2>1. /\ up = TRUE /\ stopped = FALSE /\ automation = Nothing /\ next = 1 /\ available = Ids
        /\ mutation = "free" /\ disk = Nothing /\ diskNext = 1 /\ toArm = {} /\ runs = Zero
        /\ at = [t \in Threads |-> "idle"] /\ job = [t \in Threads |-> NoJob]
        /\ accepted = {} /\ cancelled = {} /\ cleared = {} /\ done = {} /\ succeeded = {}
             /\ doubtful = FALSE
    BY DEF Init, Idle, NoCommand
  <2>2. Nothing \in [Ids -> Automation] /\ (\A i \in Ids : Nothing[i] = None) /\ None.kind = "none"
        /\ Zero \in [Ids -> Nat] /\ \A i \in Ids : Zero[i] = 0
    BY NoneIsAutomation DEF Nothing, Zero
  <2>3. EngineTypes
    <3>1. 1 \in 1..MaxAutomations + 1
      BY BoundsAssumption, SMT
    <3>2. next \in 1..MaxAutomations + 1 /\ diskNext \in 1..MaxAutomations + 1
            /\ job \in [Threads -> Job]
      BY <2>1, <3>1, NoneIsAutomation
    <3> QED  BY <2>1, <2>2, <3>2 DEF EngineTypes
  <2>4. \A t \in Threads : at[t] = "idle"
    BY <2>1
  <2>5. Places
    BY <2>1, <2>4 DEF Places, UiSteps, TimerSteps, ExecutionSteps
  <2>6. MutexHeld /\ CommandShape /\ NextOnFile
    BY <2>1, <2>4 DEF MutexHeld, Saving, CommandShape, NextOnFile
  <2>7. ASSUME NEW i \in Ids PROVE AutomationInv(i)
    <3>1. /\ Before(i) = None /\ automation[i] = None /\ disk[i] = None /\ ~Adding(i)
          /\ \A t \in Workers : ~Carries(t, i)
      BY <2>1, <2>2, <2>4 DEF Before, Adding, Carries, Carrying
    <3>2. Counts(i, None)
      BY <2>1, <2>2 DEF Counts, None, NoRetries
    <3>3. NumberOf(i) /\ CarriedOf(i) /\ CountOf(i)
      BY <2>1, <2>2, <3>1, <3>2 DEF NumberOf, CarriedOf, CountOf
    <3>4. FileOf(i) /\ KeptOf(i)
      BY <2>1, <2>2, <2>4, <3>1 DEF FileOf, KeptOf
    <3> QED  BY <3>3, <3>4 DEF AutomationInv
  <2> QED  BY <2>3, <2>5, <2>6, <2>7 DEF EngineInv, EngineShape
<1>2. EngineInv /\ [Next]_vars => EngineInv'
  <2> SUFFICES ASSUME EngineInv, [Next]_vars PROVE EngineInv'
    OBVIOUS
  <2> USE NamesDiffer
  <2>0. EngineTypes /\ Places
    BY DEF EngineInv, EngineShape
  <2>1. CASE Commands
    <3>1. ASSUME NEW kind \in Kinds, Add(kind) PROVE EngineInv'
      BY <3>1, AddStep
    <3>2. ASSUME NEW i \in Ids, Cancel(i) PROVE EngineInv'
      BY <3>2, RemoveStep DEF Cancel
    <3>3. ASSUME NEW i \in Ids, Enable(i) \/ Disable(i) \/ \E p \in Policies : SetPolicy(i,
            p) PROVE EngineInv'
      BY <3>3, ChangeStep
    <3>4. ASSUME NEW i \in Ids, PluginChange(i) PROVE EngineInv'
      BY <3>4, LookingIsNeutral
    <3>5. ASSUME NEW moved \in SUBSET Ids, NEW unresolved \in SUBSET Ids, Refresh(moved, unresolved)
          PROVE  EngineInv'
      BY <3>5, LookingIsNeutral
    <3>6. CASE Clear
      BY <3>6, RemoveStep DEF Clear
    <3>7. CASE Stop
      BY <3>7, LookingIsNeutral
    <3> QED  BY <2>1, <3>1, <3>2, <3>3, <3>4, <3>5, <3>6, <3>7 DEF Commands
  <2>2. CASE Ui
    <3>1. CASE Reconcile({})
      BY <3>1, LookingIsNeutral
    <3> QED  BY <2>2, <3>1, UiSaveStep, LookingIsNeutral, ArmingIsNeutral DEF Ui
  <2>3. ASSUME NEW t \in Workers, Complete(t) PROVE EngineInv'
    <3>1. CASE CompleteRecurring(t, TRUE)
      BY <3>1, CompleteStep
    <3>2. CASE CompleteGone(t)
      BY <3>2, CompleteStep, LeavingStep
    <3> QED  BY <2>3, <3>1, <3>2, RetryStep, LeavingStep, WorkersSave, ArmingIsNeutral DEF Complete
  <2>4. CASE StartTask \/ Timer
    <3>1. CASE Fire(TRUE)
      BY <3>1, FireStep
    <3>2. CASE Rejected
      BY <3>2, AnswerStep
    <3> QED  BY <2>3, <2>4, <3>1, <3>2, StartingIsNeutral, WorkersSave, SubmitStep DEF Timer
  <2>5. ASSUME NEW e \in Executions, Execution(e) PROVE EngineInv'
    <3>1. ASSUME NEW success \in BOOLEAN, Invoke(e, success) PROVE EngineInv'
      BY <3>1, AnswerStep
    <3> QED  BY <2>3, <2>5, <3>1 DEF Execution
  <2>6. CASE Mishap
    <3>1. ASSUME NEW kept \in BOOLEAN, UiSaveFails(kept) PROVE EngineInv'
      BY <3>1, UiSaveFailsStep
    <3>2. ASSUME NEW kept \in BOOLEAN,
                 FireSaveFails(kept) \/ \E t \in Threads : CompleteSaveFails(t, kept)
          PROVE  EngineInv'
      BY <3>2, WorkersSave
    <3>3. CASE Fire(FALSE)
      BY <3>3, FireStep
    <3>4. ASSUME NEW t \in Threads, CompleteRecurring(t, FALSE) PROVE EngineInv'
      <4>1. t \in Workers
        BY <2>0, <3>4 DEF CompleteRecurring, Completes, Places, UiSteps
      <4> QED  BY <3>4, <4>1, CompleteStep
    <3>5. ASSUME NEW unresolved \in SUBSET Ids, Reconcile(unresolved) PROVE EngineInv'
      BY <3>5, LookingIsNeutral
    <3>6. ASSUME NEW unresolved \in SUBSET Ids, Restart(unresolved) PROVE EngineInv'
      BY <3>6, RestartStep
    <3> QED  BY <2>6, <3>1, <3>2, <3>3, <3>4, <3>5, <3>6, CrashStep DEF Mishap
  <2>7. CASE UNCHANGED vars
    <3>1. UNCHANGED <<up, stopped, automation, next, available, mutation, job, at, operation,
            changed, before,
                      toArm, disk, diskNext, accepted, cancelled, cleared, runs, done, succeeded,
                        doubtful>>
      BY <2>7 DEF vars, entries, threads, command, store, ghosts, outcomes
    <3>2. EngineShape'
      BY <3>1 DEF EngineInv, EngineShape, EngineTypes, Places, MutexHeld, Saving, CommandShape,
         NextOnFile
    <3>3. ASSUME NEW i \in Ids PROVE AutomationInv(i)'
      <4>0. AutomationInv(i)
        BY DEF EngineInv
      <4>1. (Adding(i)' <=> Adding(i)) /\ Before(i)' = Before(i) /\ (Numbered(i)' <=> Numbered(i))
        BY <3>1 DEF Adding, Before, Numbered
      <4>2. \A w \in Workers : /\ Carries(w, i)' <=> Carries(w, i)
                               /\ Once(w)' <=> Once(w)
                               /\ Pending(w, i)' <=> Pending(w, i)
        BY <3>1 DEF Carries, Once, Pending
      <4>3. NumberOf(i)' /\ CarriedOf(i)'
        BY <3>1, <4>0, <4>1, <4>2 DEF AutomationInv, NumberOf, CarriedOf
      <4>4. CountOf(i)'
        BY <3>1, <4>0, <4>1, <4>2 DEF AutomationInv, CountOf, Counts
      <4>5. FileOf(i)' /\ KeptOf(i)'
        BY <3>1, <4>0, <4>1, <4>2 DEF AutomationInv, FileOf, KeptOf
      <4> QED  BY <4>3, <4>4, <4>5 DEF AutomationInv
    <3> QED  BY <3>2, <3>3 DEF EngineInv
  <2> QED  BY <2>1, <2>2, <2>4, <2>5, <2>6, <2>7 DEF Next
<1> QED  BY <1>1, <1>2, PTL DEF Spec

-----------------------------------------------------------------------------
(* Executions in flight.                                                    *)

Running == {e \in Executions : at[e] # "idle"}
TimerBusy == at["timer"] \notin {"idle", "fire"}

(* Every execution is counted, and stop() has seen the last.                *)
InFlightCounted == inFlight = Cardinality(Running) + (IF TimerBusy THEN 1 ELSE 0)
Accounted == InFlightCounted /\ StopIsQuiet

Stopping == at["ui"] = "await" \/ (at["ui"] = "unschedule" /\ operation = "stop")

LEMMA QuietMeans ==
  StopIsQuiet <=> (stopped /\ ~Stopping => inFlight = 0 /\ Running = {} /\ ~TimerBusy)
BY DEF StopIsQuiet, Stopping, Running, TimerBusy

LEMMA RunningIsFinite == IsFiniteSet(Running) /\ Cardinality(Running) \in Nat
<1>1. IsFiniteSet(Running)
  BY ExecutorAssumption, FS_Subset DEF Running
<1> QED  BY <1>1, FS_CardinalityType

LEMMA StaysCounted ==
  ASSUME EngineInv, Accounted, NEW t \in Threads, NEW s, Goto(t, s), inFlight' = inFlight,
    stopped' = stopped,
         \/ t = "ui"
         \/ t = "timer" /\ (at[t] \in {"idle", "fire"} <=> s \in {"idle", "fire"})
         \/ t \in Executions /\ at[t] # "idle" /\ s # "idle",
         stopped => (Stopping => Stopping')
  PROVE  Accounted'
<1> USE NamesDiffer
<1>1. at \in [Threads -> UiSteps \union TimerSteps \union ExecutionSteps]
  BY DEF EngineInv, EngineShape, Places
<1>2. \A w \in Threads : at'[w] = IF w = t THEN s ELSE at[w]
  BY <1>1 DEF Goto
<1>3. Running' = Running /\ (TimerBusy' <=> TimerBusy)
  BY <1>2 DEF Running, TimerBusy
<1>4. InFlightCounted'
  BY <1>3 DEF Accounted, InFlightCounted
<1>5. StopIsQuiet'
  <2>1. stopped /\ ~Stopping => inFlight = 0 /\ Running = {} /\ ~TimerBusy
    BY QuietMeans DEF Accounted
  <2>2. stopped' /\ ~Stopping' => inFlight' = 0 /\ Running' = {} /\ ~TimerBusy'
    BY <1>3, <2>1
  <2> QED  BY <2>2, QuietMeans DEF StopIsQuiet, Stopping, Running, TimerBusy
<1> QED  BY <1>4, <1>5 DEF Accounted

LEMMA WorkersStayCounted ==
  ASSUME EngineInv, Accounted, NEW t \in Workers, NEW s, Goto(t, s),
         inFlight' = inFlight, stopped' = stopped, operation' = operation,
         \/ t = "timer" /\ (at[t] \in {"idle", "fire"} <=> s \in {"idle", "fire"})
         \/ t \in Executions /\ at[t] # "idle" /\ s # "idle"
  PROVE  Accounted'
<1> USE NamesDiffer
<1>1. at'["ui"] = at["ui"]
  BY DEF EngineInv, EngineShape, Places, Goto
<1>2. Stopping => Stopping'
  BY <1>1 DEF Stopping
<1> QED  BY <1>2, StaysCounted

LEMMA UiStaysCounted ==
  ASSUME EngineInv, Accounted, NEW s, Goto("ui", s), inFlight' = inFlight, stopped' = stopped,
         \/ at["ui"] \notin {"await", "unschedule"}
         \/ at["ui"] = "unschedule" /\ (operation = "stop" => s = "await")
  PROVE  Accounted'
<1> USE NamesDiffer
<1>1. at'["ui"] = s
  BY DEF EngineInv, EngineShape, Places, Goto
<1>2. Stopping => Stopping'
  BY <1>1 DEF Stopping
<1> QED  BY <1>2, StaysCounted

(* Where the entries and the store are changed by what leaves the count of  *)
(* executions alone.                                                        *)
LEMMA UiAccounts ==
  ASSUME EngineInv, Accounted, NEW s, Goto("ui", s),
         \/ \E op \in Ops, ids \in SUBSET Ids : Begin(op, ids)
         \/ UiSave \/ \E kept \in BOOLEAN : UiSaveFails(kept)
         \/ Unschedule \/ \E i \in Ids : PluginChange(i) \/ ArmNext(i)
         \/ \E ids \in SUBSET Ids : Reconcile(ids) \/ \E moved \in SUBSET Ids : Refresh(moved, ids)
         \/ Arm("ui")
  PROVE  Accounted'
<1>1. inFlight' = inFlight /\ stopped' = stopped
  BY DEF Begin, UiSave, UiSaveFails, Unschedule, PluginChange, ArmNext, Reconcile, Refresh, Arm,
     ArmBegin,
         ArmRecord, ArmDrop
<1>2. CASE Unschedule
  <2>0. at'["ui"] = s
    BY NamesDiffer DEF EngineInv, EngineShape, Places, Goto
  <2>1. at["ui"] = "unschedule" /\ (operation = "stop" => at'["ui"] = "await")
    BY <1>2, NamesDiffer DEF Unschedule, Goto, EngineInv, EngineShape, Places
  <2> QED  BY <1>1, <2>0, <2>1, UiStaysCounted
<1>3. CASE ~Unschedule
  <2>1. at["ui"] \notin {"await", "unschedule"}
    BY <1>3 DEF Begin, UiSave, UiSaveFails, PluginChange, ArmNext, Reconcile, Refresh, Arm, ArmBegin,
         ArmRecord, ArmDrop
  <2> QED  BY <1>1, <2>1, UiStaysCounted
<1> QED  BY <1>2, <1>3

LEMMA StopAccounts ==
  ASSUME EngineInv, Accounted, Stop \/ AwaitIdle
  PROVE  Accounted'
<1> USE NamesDiffer
<1>1. at \in [Threads -> UiSteps \union TimerSteps \union ExecutionSteps]
  BY DEF EngineInv, EngineShape, Places
<1>2. inFlight' = inFlight /\ \A w \in Threads \ {"ui"} : at'[w] = at[w]
  BY <1>1 DEF Stop, AwaitIdle, Goto
<1>3. Running' = Running /\ (TimerBusy' <=> TimerBusy)
  BY <1>2 DEF Running, TimerBusy
<1>4. InFlightCounted'
  BY <1>2, <1>3 DEF Accounted, InFlightCounted
<1>5. StopIsQuiet'
  <2>1. CASE Stop
    <3>1. at'["ui"] = "unschedule" /\ operation' = "stop"
      BY <1>1, <2>1 DEF Stop, Goto
    <3> QED  BY <3>1 DEF StopIsQuiet
  <2>2. CASE AwaitIdle
    <3>1. inFlight = 0
      BY <2>2 DEF AwaitIdle, NothingInFlight
    <3>2. Cardinality(Running) = 0 /\ ~TimerBusy
      BY <3>1, RunningIsFinite DEF Accounted, InFlightCounted
    <3>3. Running = {}
      BY <3>2, RunningIsFinite, FS_EmptySet
    <3> QED  BY <1>2, <1>3, <3>1, <3>2, <3>3 DEF StopIsQuiet, Running, TimerBusy
  <2> QED  BY <2>1, <2>2
<1> QED  BY <1>4, <1>5 DEF Accounted

(* A thread of the executor, or of the scheduler, begins or ends one.       *)
LEMMA OneMore ==
  ASSUME EngineInv, Accounted, Fire(TRUE) \/ Fire(FALSE)
  PROVE  Accounted'
<1> USE NamesDiffer
<1>1. at \in [Threads -> UiSteps \union TimerSteps \union ExecutionSteps]
  BY DEF EngineInv, EngineShape, Places
<1>2. /\ inFlight' = inFlight + 1 /\ ~stopped /\ stopped' = stopped
      /\ at["timer"] = "fire" /\ at'["timer"] = "preflight"
      /\ \A e \in Executions : at'[e] = at[e]
  BY <1>1 DEF Fire, MayFire, Goto
<1>3. Running' = Running /\ ~TimerBusy /\ TimerBusy'
  BY <1>2 DEF Running, TimerBusy
<1>4. InFlightCounted'
  BY <1>2, <1>3, RunningIsFinite DEF Accounted, InFlightCounted
<1> QED  BY <1>2, <1>4 DEF Accounted, StopIsQuiet

LEMMA HandedOver ==
  ASSUME EngineInv, Accounted, Submit
  PROVE  Accounted'
<1> USE NamesDiffer
<1>1. at \in [Threads -> UiSteps \union TimerSteps \union ExecutionSteps]
  BY DEF EngineInv, EngineShape, Places
<1>2. PICK e \in Executions : at[e] = "idle" /\ at' = [at EXCEPT !["timer"] = "idle", ![e] = "queued"]
  BY DEF Submit
<1>3. /\ at["timer"] = "submit" /\ at'["timer"] = "idle" /\ at'[e] = "queued"
      /\ \A w \in Threads \ {"timer", e} : at'[w] = at[w]
      /\ inFlight' = inFlight /\ stopped' = stopped /\ operation' = operation
  BY <1>1, <1>2 DEF Submit, command
<1>4. Running' = Running \union {e} /\ e \notin Running /\ TimerBusy /\ ~TimerBusy'
  BY <1>2, <1>3 DEF Running, TimerBusy
<1>5. Cardinality(Running') = Cardinality(Running) + 1
  BY <1>4, RunningIsFinite, FS_AddElement
<1>6. InFlightCounted'
  BY <1>3, <1>4, <1>5, RunningIsFinite DEF Accounted, InFlightCounted
<1>7. ~stopped \/ Stopping
  BY <1>4, QuietMeans DEF Accounted
<1>8. StopIsQuiet'
  BY <1>3, <1>7 DEF StopIsQuiet, Stopping
<1> QED  BY <1>6, <1>8 DEF Accounted

LEMMA OneLess ==
  ASSUME EngineInv, Accounted, NEW t \in Workers, Report(t)
  PROVE  Accounted'
<1> USE NamesDiffer
<1>1. at \in [Threads -> UiSteps \union TimerSteps \union ExecutionSteps]
  BY DEF EngineInv, EngineShape, Places
<1>2. /\ at[t] = "report" /\ at'[t] = "idle" /\ \A w \in Threads \ {t} : at'[w] = at[w]
      /\ inFlight' = inFlight - 1 /\ stopped' = stopped /\ operation' = operation
  BY <1>1 DEF Report, Returned, Goto, command
<1>3. InFlightCounted'
  <2>1. CASE t = "timer"
    <3>1. Running' = Running /\ TimerBusy /\ ~TimerBusy'
      BY <1>2, <2>1 DEF Running, TimerBusy
    <3> QED  BY <1>2, <3>1, RunningIsFinite DEF Accounted, InFlightCounted
  <2>2. CASE t \in Executions
    <3>1. Running' = Running \ {t} /\ t \in Running /\ (TimerBusy' <=> TimerBusy)
      BY <1>2, <2>2 DEF Running, TimerBusy
    <3>2. Cardinality(Running') = Cardinality(Running) - 1
      BY <3>1, RunningIsFinite, FS_RemoveElement
    <3> QED  BY <1>2, <3>1, <3>2, RunningIsFinite DEF Accounted, InFlightCounted
  <2> QED  BY <2>1, <2>2
<1>4. ~stopped \/ Stopping
  BY <1>2, QuietMeans DEF Accounted, Running, TimerBusy
<1>5. StopIsQuiet'
  BY <1>2, <1>4 DEF StopIsQuiet, Stopping
<1> QED  BY <1>3, <1>5 DEF Accounted

LEMMA KilledOrStarted ==
  ASSUME EngineInv, Accounted, Crash \/ \E ids \in SUBSET Ids : Restart(ids)
  PROVE  Accounted'
<1> USE NamesDiffer
<1>1. CASE Crash
  <2>1. stopped' = FALSE /\ inFlight' = 0 /\ \A t \in Threads : at'[t] = "idle"
    BY <1>1 DEF Crash
  <2>2. Running' = {} /\ ~TimerBusy'
    BY <2>1 DEF Running, TimerBusy
  <2>3. InFlightCounted'
    BY <2>1, <2>2, FS_EmptySet DEF InFlightCounted
  <2> QED  BY <2>1, <2>3 DEF Accounted, StopIsQuiet
<1>2. ASSUME NEW ids \in SUBSET Ids, Restart(ids) PROVE Accounted'
  <2>1. at["ui"] = "idle" /\ inFlight' = inFlight /\ stopped' = stopped
    BY <1>2 DEF Restart, EngineInv, EngineShape, Places
  <2>2. PICK s : Goto("ui", s)
    BY <1>2 DEF Restart
  <2> QED  BY <2>1, <2>2, UiStaysCounted
<1> QED  BY <1>1, <1>2

LEMMA WorkersAccount ==
  ASSUME EngineInv, Accounted, NEW t \in Workers,
         \/ Arm(t) \/ CompleteRetry(t) \/ CompleteRecurring(t, TRUE) \/ CompleteRecurring(t, FALSE)
         \/ CompleteGone(t) \/ CompleteSave(t) \/ \E kept \in BOOLEAN : CompleteSaveFails(t, kept)
         \/ t = "timer" /\ (FireSave \/ Rejected \/ \E kept \in BOOLEAN : FireSaveFails(kept))
         \/ t \in Executions /\ (Invoke(t, TRUE) \/ Invoke(t, FALSE))
  PROVE  Accounted'
<1> USE NamesDiffer
<1>1. inFlight' = inFlight /\ stopped' = stopped /\ operation' = operation
  BY DEF Arm, ArmBegin, ArmRecord, ArmDrop, CompleteRetry, CompleteRecurring, CompleteGone,
     CompleteSave,
         CompleteSaveFails, FireSave, Rejected, FireSaveFails, Invoke, command
<1>2. at[t] \notin {"idle", "fire"} /\ \E s : Goto(t, s) /\ s \notin {"idle", "fire"}
  <2>1. CASE Arm(t)
    BY <2>1 DEF Arm, ArmBegin, ArmRecord, ArmDrop, EndArm, AfterArm
  <2>2. CASE CompleteRetry(t) \/ CompleteGone(t)
    <3>1. at[t] = "complete" /\ \E s \in {"persist", "report"} : Goto(t, s)
      BY <2>2 DEF CompleteRetry, CompleteGone, Completes
    <3> QED  BY <3>1
  <2>7. CASE CompleteRecurring(t, TRUE) \/ CompleteRecurring(t, FALSE)
    <3>1. at[t] = "complete" /\ Goto(t, "persist")
      BY <2>7 DEF CompleteRecurring, Completes
    <3> QED  BY <3>1
  <2>3. CASE CompleteSave(t)
    BY <2>3 DEF CompleteSave
  <2>4. ASSUME NEW kept \in BOOLEAN, CompleteSaveFails(t, kept)
        PROVE  at[t] \notin {"idle", "fire"} /\ \E s : Goto(t, s) /\ s \notin {"idle", "fire"}
    BY <2>4 DEF CompleteSaveFails
  <2>5. CASE t = "timer" /\ (FireSave \/ Rejected \/ \E kept \in BOOLEAN : FireSaveFails(kept))
    BY <2>5 DEF FireSave, Rejected, FireSaveFails
  <2>6. CASE t \in Executions /\ (Invoke(t, TRUE) \/ Invoke(t, FALSE))
    BY <2>6 DEF Invoke
  <2> QED  BY <2>1, <2>2, <2>3, <2>4, <2>5, <2>6, <2>7
<1> QED  BY <1>1, <1>2, WorkersStayCounted

LEMMA AccountedStep ==
  ASSUME EngineInv, Accounted, [Next]_vars
  PROVE  Accounted'
<1> USE NamesDiffer
<1>0. Places
  BY DEF EngineInv, EngineShape
<1>1. CASE Commands
  <2>1. ASSUME NEW op \in Ops, NEW ids \in SUBSET Ids, Begin(op, ids) PROVE Accounted'
    <3>1. Goto("ui", "save")
      BY <2>1 DEF Begin
    <3> QED  BY <2>1, <3>1, UiAccounts
  <2>2. ASSUME NEW kind \in Kinds, Add(kind) PROVE Accounted'
    <3>1. next \in Ids
      BY <2>2, BoundsAssumption, SMT DEF Add, EngineInv, EngineShape, EngineTypes, Ids
    <3> QED  BY <2>1, <2>2, <3>1 DEF Add, Ops
  <2>3. ASSUME NEW i \in Ids, Cancel(i) \/ Enable(i) \/ Disable(i)
          \/ \E p \in Policies : SetPolicy(i, p)
        PROVE  Accounted'
    <3>1. \E op \in Ops : Begin(op, {i})
      BY <2>3 DEF Cancel, Remove, Enable, Disable, SetPolicy, Ops
    <3> QED  BY <2>1, <3>1
  <2>4. ASSUME NEW i \in Ids, PluginChange(i) PROVE Accounted'
    <3>1. Goto("ui", "reconcile")
      BY <2>4 DEF PluginChange
    <3> QED  BY <2>4, <3>1, UiAccounts
  <2>5. ASSUME NEW moved \in SUBSET Ids, NEW unresolved \in SUBSET Ids, Refresh(moved, unresolved)
        PROVE  Accounted'
    <3>1. Goto("ui", "unschedule")
      BY <2>5 DEF Refresh
    <3> QED  BY <2>5, <3>1, UiAccounts
  <2>6. CASE Clear
    <3>1. Present \in SUBSET Ids /\ Begin("clear", Present)
      BY <2>6 DEF Clear, Remove, Present
    <3> QED  BY <2>1, <3>1 DEF Ops
  <2>7. CASE Stop
    BY <2>7, StopAccounts
  <2> QED  BY <1>1, <2>2, <2>3, <2>4, <2>5, <2>6, <2>7 DEF Commands
<1>2. ASSUME NEW ids \in SUBSET Ids, Reconcile(ids) PROVE Accounted'
  <2>1. PICK s : Goto("ui", s)
    BY <1>2 DEF Reconcile
  <2> QED  BY <1>2, <2>1, UiAccounts
<1>3. CASE Ui
  <2>1. CASE UiSave \/ Unschedule
    <3>1. PICK s : Goto("ui", s)
      BY <2>1 DEF UiSave, Unschedule
    <3> QED  BY <2>1, <3>1, UiAccounts
  <2>2. CASE Arm("ui")
    <3>1. PICK s : Goto("ui", s)
      BY <2>2 DEF Arm, ArmBegin, ArmRecord, ArmDrop, EndArm
    <3> QED  BY <2>2, <3>1, UiAccounts
  <2>3. ASSUME NEW i \in Ids, ArmNext(i) PROVE Accounted'
    <3>1. Goto("ui", "arm")
      BY <2>3 DEF ArmNext
    <3> QED  BY <2>3, <3>1, UiAccounts
  <2>4. CASE Reconcile({})
    BY <1>2, <2>4
  <2> QED  BY <1>3, <2>1, <2>2, <2>3, <2>4, StopAccounts DEF Ui
<1>4. ASSUME NEW t \in Workers, Complete(t) PROVE Accounted'
  BY <1>4, WorkersAccount, OneLess DEF Complete
<1>5. CASE StartTask \/ FireNothing
  <2>1. PICK s \in {"idle", "fire"} : Goto("timer", s) /\ at["timer"] \in {"idle", "fire"}
    BY <1>5 DEF StartTask, FireNothing
  <2>2. inFlight' = inFlight /\ stopped' = stopped /\ operation' = operation
    BY <1>5 DEF StartTask, FireNothing, command
  <2> QED  BY <2>1, <2>2, WorkersStayCounted
<1>6. CASE Timer
  <2>1. CASE FireSave \/ Rejected
    BY <2>1, WorkersAccount
  <2> QED  BY <1>4, <1>5, <1>6, <2>1, OneMore, HandedOver DEF Timer
<1>7. ASSUME NEW e \in Executions, Execution(e) PROVE Accounted'
  <2>1. CASE Invoke(e, TRUE) \/ Invoke(e, FALSE)
    BY <2>1, WorkersAccount
  <2> QED  BY <1>4, <1>7, <2>1 DEF Execution
<1>8. CASE Mishap
  <2>1. ASSUME NEW kept \in BOOLEAN, UiSaveFails(kept) PROVE Accounted'
    <3>1. Goto("ui", "idle")
      BY <2>1 DEF UiSaveFails
    <3> QED  BY <2>1, <3>1, UiAccounts
  <2>2. ASSUME NEW kept \in BOOLEAN, FireSaveFails(kept) PROVE Accounted'
    BY <2>2, WorkersAccount
  <2>3. ASSUME NEW t \in Threads, at[t] \in {"persist", "complete"} PROVE t \in Workers
    BY <1>0, <2>3 DEF Places, UiSteps
  <2>4. ASSUME NEW kept \in BOOLEAN, NEW t \in Threads, CompleteSaveFails(t, kept) PROVE Accounted'
    <3>1. t \in Workers
      BY <2>3, <2>4 DEF CompleteSaveFails
    <3> QED  BY <2>4, <3>1, WorkersAccount
  <2>5. ASSUME NEW t \in Threads, CompleteRecurring(t, FALSE) PROVE Accounted'
    <3>1. t \in Workers
      BY <2>3, <2>5 DEF CompleteRecurring, Completes
    <3> QED  BY <2>5, <3>1, WorkersAccount
  <2>6. ASSUME NEW ids \in SUBSET Ids, Restart(ids) PROVE Accounted'
    BY <2>6, KilledOrStarted
  <2> QED  BY <1>2, <1>8, <2>1, <2>2, <2>4, <2>5, <2>6, OneMore, KilledOrStarted DEF Mishap
<1>9. CASE UNCHANGED vars
  BY <1>9 DEF vars, threads, command, Accounted, InFlightCounted, Running, TimerBusy, StopIsQuiet
<1> QED  BY <1>1, <1>3, <1>5, <1>6, <1>7, <1>8, <1>9 DEF Next

(* Executions stay counted, and stop() quiet.                               *)
LEMMA AccountedInvariant == Spec => []Accounted
<1>1. Init => Accounted
  <2> SUFFICES ASSUME Init PROVE Accounted
    OBVIOUS
  <2>1. inFlight = 0 /\ stopped = FALSE /\ \A t \in Threads : at[t] = "idle"
    BY DEF Init, Idle
  <2>2. Running = {} /\ ~TimerBusy
    BY <2>1, NamesDiffer DEF Running, TimerBusy
  <2> QED  BY <2>1, <2>2, FS_EmptySet DEF Accounted, InFlightCounted, StopIsQuiet
<1>2. EngineInv /\ Accounted /\ [Next]_vars => Accounted'
  BY AccountedStep
<1> QED  BY <1>1, <1>2, EngineInvariant, PTL DEF Spec

(* Every execution is accounted for: when stop() has returned none runs or  *)
(* waits to run, each attempt of a one-shot automation is on record in      *)
(* memory and on file, and none gets more retries than its policy allows.   *)
THEOREM RunsAreAccounted == Spec => []RunsAccounted
<1>1. EngineInv /\ Accounted => RunsAccounted
  <2> SUFFICES ASSUME EngineInv, Accounted PROVE RunsAccounted
    OBVIOUS
  <2>1. ASSUME NEW i \in Ids PROVE Counts(i, automation[i]) /\ Counts(i, disk[i])
    BY DEF EngineInv, AutomationInv, CountOf
  <2>2. RetriesCounted
    BY <2>1 DEF RetriesCounted, RetriesStorable, AttemptsCounted, Counts
  <2> QED  BY <2>2 DEF RunsAccounted, Accounted
<1> QED  BY <1>1, EngineInvariant, AccountedInvariant, PTL

(* What was reported of an automation holds, over kills and failing saves:  *)
(* a scheduled one is on file until it has fired or was cancelled, and a    *)
(* cancelled one never comes back.                                          *)
THEOREM AutomationsAreKept == Spec => []AutomationsKept
<1>1. EngineInv => AutomationsKept
  <2> SUFFICES ASSUME EngineInv PROVE AutomationsKept
    OBVIOUS
  <2> USE NamesDiffer
  <2>0. EngineTypes /\ NextOnFile /\ Places
    BY DEF EngineInv, EngineShape
  <2>1. FileMatchesMemory
    <3> SUFFICES ASSUME up, mutation = "free", ~doubtful PROVE disk = automation /\ diskNext = next
      BY DEF FileMatchesMemory
    <3>1. \A i \in Ids : disk[i] = automation[i]
      BY DEF EngineInv, AutomationInv, FileOf
    <3> QED  BY <2>0, <3>1 DEF EngineTypes, NextOnFile
  <2>2. AcceptedSurvives
    <3> SUFFICES ASSUME up, ~doubtful, NEW i \in accepted, disk[i].kind = "none",
                        i \notin cancelled \union cleared \union done
                 PROVE  i \in InFlight
      BY DEF AcceptedSurvives
    <3>1. i \in Ids
      BY <2>0 DEF EngineTypes
    <3>2. PICK t \in Workers : Pending(t, i)
      BY <3>1 DEF EngineInv, AutomationInv, KeptOf
    <3>3. job[t].id = i /\ at[t] \notin {"idle", "fire"}
      BY <3>2 DEF Pending, Carrying
    <3> QED  BY <3>3 DEF InFlight
  <2>3. CancelledStaysCancelled
    BY <2>0 DEF EngineInv, AutomationInv, FileOf, CancelledStaysCancelled, EngineTypes
  <2> QED  BY <2>1, <2>2, <2>3 DEF AutomationsKept, SavedIsKept
<1> QED  BY <1>1, EngineInvariant, PTL

(* Once the action of a one-shot automation has succeeded it is not run     *)
(* again, over any number of kills and failing saves.                       *)
THEOREM OnceSucceeds == Spec => OnceSucceedsOnce
<1> DEFINE A == \A i \in succeeded : runs'[i] = runs[i]
<1>1. ASSUME EngineInv, [Next]_vars
      PROVE  [A]_vars
  <2> USE NamesDiffer
  <2>0. EngineTypes /\ succeeded \subseteq Ids
    BY <1>1 DEF EngineInv, EngineShape, EngineTypes
  <2>1. CASE runs' = runs \/ UNCHANGED vars
    BY <2>1
  <2>2. ASSUME NEW kind \in Kinds, Add(kind) PROVE A
    <3>1. ASSUME NEW i \in succeeded PROVE i # next
      <4>1. Numbered(i) /\ up
        BY <1>1, <2>0, <2>2 DEF EngineInv, AutomationInv, NumberOf, Add, Begin
      <4> QED  BY <2>0, <4>1, SMT DEF Numbered, EngineTypes
    <3> QED  BY <2>0, <2>2, <3>1 DEF Add, EngineTypes
  <2>3. ASSUME NEW e \in Executions, NEW success \in BOOLEAN, Invoke(e, success) PROVE A
    <3> DEFINE k == job[e].id
    <3>1. k \in Ids /\ at[e] = "queued" /\ Carries(e, k)
      BY <2>0, <2>3 DEF Invoke, EngineTypes, Job, Carries, Carrying
    <3>2. ~Recurring(job[e].fired) => k \notin succeeded
      BY <1>1, <3>1 DEF EngineInv, AutomationInv, CarriedOf, Once
    <3> QED  BY <2>0, <2>3, <3>2 DEF Invoke, EngineTypes
  <2>4. CASE \/ \E i \in Ids : Cancel(i) \/ Enable(i) \/ Disable(i) \/ PluginChange(i) \/ ArmNext(i)
             \/ \E i \in Ids, p \in Policies : SetPolicy(i, p)
             \/ \E moved, unresolved \in SUBSET Ids : Refresh(moved, unresolved)
             \/ Clear \/ Stop \/ UiSave \/ Unschedule \/ AwaitIdle
             \/ \E unresolved \in SUBSET Ids : Reconcile(unresolved) \/ Restart(unresolved)
             \/ \E kept \in BOOLEAN : UiSaveFails(kept)
             \/ Crash
    BY <2>1, <2>4 DEF Cancel, Remove, Enable, Disable, PluginChange, ArmNext, SetPolicy, Refresh,
       Clear, Stop,
         UiSave, Unschedule, AwaitIdle, Reconcile, Restart, UiSaveFails, Crash, ghosts, outcomes
  <2>5. CASE \/ StartTask \/ FireNothing \/ Fire(TRUE) \/ Fire(FALSE) \/ FireSave \/ Submit \/ Rejected
             \/ \E kept \in BOOLEAN : FireSaveFails(kept)
    BY <2>1, <2>5 DEF StartTask, FireNothing, Fire, FireSave, Submit, Rejected, FireSaveFails,
       ghosts, outcomes
  <2>11. ASSUME NEW t \in Threads,
                \/ Complete(t) \/ CompleteRecurring(t, FALSE)
                \/ \E kept \in BOOLEAN : CompleteSaveFails(t, kept)
         PROVE  A
    BY <2>1, <2>11 DEF Complete, Arm, ArmBegin, ArmRecord, ArmDrop, CompleteRetry, CompleteRecurring,
         CompleteGone, CompleteSave, Report, CompleteSaveFails, ghosts, outcomes
  <2> HIDE DEF A
  <2>6. CASE Commands
    BY <2>2, <2>4, <2>6 DEF Commands
  <2>7. CASE Ui
    <3>1. {} \in SUBSET Ids
      OBVIOUS
    <3> QED  BY <2>4, <2>7, <2>11, <3>1 DEF Ui, Complete
  <2>8. CASE StartTask \/ Timer
    BY <2>5, <2>8, <2>11 DEF Timer
  <2>9. CASE Mishap
    BY <2>4, <2>5, <2>9, <2>11 DEF Mishap
  <2>10. ASSUME NEW e \in Executions, Execution(e) PROVE A
    <3>1. CASE Invoke(e, TRUE) \/ Invoke(e, FALSE)
      BY <2>3, <3>1
    <3>2. CASE Complete(e)
      BY <2>11, <3>2
    <3> QED  BY <2>10, <3>1, <3>2 DEF Execution
  <2> QED  BY <1>1, <2>1, <2>6, <2>7, <2>8, <2>9, <2>10 DEF Next
<1> QED  BY <1>1, EngineInvariant, PTL DEF Spec, OnceSucceedsOnce

-----------------------------------------------------------------------------
(* The tasks of the automations.                                            *)

Task == [id : Ids, generation : Nat \ {0}, number : Nat \ {0}]
Holding == {"record", "drop"}
Arming == {"arm"} \union Holding

(* The entry, or what it is again when the save of a command on it fails.     *)
Hidden(i) == at["ui"] = "save" /\ i \in changed /\ operation \in {"cancel", "clear", "disable"}
Entry(i) == IF Hidden(i) THEN before.automation[i] ELSE automation[i]
Generation(i) == IF Hidden(i) THEN before.generation[i] ELSE generation[i]
Recorded(i) == IF Hidden(i) THEN before.task[i] ELSE task[i]
There(i) == Entry(i).kind # "none"
On(i) == There(i) /\ Entry(i).enabled

TaskTypes ==
  /\ generation \in [Ids -> Nat] /\ before.generation \in [Ids -> Nat]
  /\ task \in [Ids -> Task \union {NoTask}] /\ before.task \in [Ids -> Task \union {NoTask}]
  /\ \A i \in Ids : /\ task[i] # NoTask => task[i].id = i
                    /\ before.task[i] # NoTask => before.task[i].id = i
  /\ armed \in [Threads -> Task \union {NoTask}]
  /\ live \subseteq Task /\ IsFiniteSet(live) /\ toCancel \subseteq Task /\ IsFiniteSet(toCancel)

TaskPlaces ==
  /\ \A t \in Threads : at[t] \in Holding => armed[t] \in Task /\ armed[t].id = job[t].id
  /\ \A t, u \in Threads :
       at[t] \in Holding /\ at[u] \in Holding /\ armed[t] = armed[u] => t = u
  /\ at["timer"] = "fire" => armed["timer"] \in Task \ live
  /\ toArm # {} => at["ui"] \in {"unschedule", "next"} \union Arming
  /\ at["ui"] = "unschedule" /\ operation = "stop" => toArm = {}
  /\ ~up => live = {} /\ armed = [t \in Threads |-> NoTask] /\ task = NoTasks /\ ~stopped

(* Threads that arm, and tasks, are of automations that were saved.           *)
TasksNumbered ==
  /\ \A t \in Workers : at[t] \in Arming \union {"persist"} => Numbered(job[t].id)
  /\ \A i \in Ids : About(i) # {} => Numbered(i)

SaveShape ==
  at["ui"] = "save" =>
    /\ operation \in {"add", "enable"} => changed = {job["ui"].id}
    /\ \A r \in toCancel : Hidden(r.id)
    /\ \A i \in changed :
         /\ operation = "disable" =>
              generation[i] = before.generation[i] + 1 /\ ~automation[i].enabled
         /\ operation = "enable" => ~before.automation[i].enabled
         /\ operation = "policy" => automation[i].enabled = before.automation[i].enabled

TaskShape == TaskTypes /\ TaskPlaces /\ TasksNumbered /\ SaveShape

(* No task is ahead of the generation, one at most is of it, and that one is  *)
(* on record, or in the hands of who will record it or cancel it.             *)
Current(i, r) == r.id = i /\ r.generation = Generation(i)
Found(i, r) == Recorded(i) = r \/ \E t \in Threads : at[t] \in Holding /\ armed[t] = r
TasksOf(i) ==
  There(i) =>
    /\ \A r \in About(i) : r.generation <= Generation(i)
    /\ \A r, s \in About(i) : Current(i, r) /\ Current(i, s) => r = s
    /\ \A r \in live : Current(i, r) => Found(i, r)
    /\ at["ui"] = "unschedule" =>
         \A r \in toCancel \intersect live : r.id = i => r.generation < Generation(i)

(* An automation without its action has no task on record, unless the command *)
(* that looks the automations through is about to run.                        *)
ParkedOf(i) ==
  On(i) /\ i \notin available \union overtaken /\ at["ui"] # "reconcile" /\ ~stopped =>
    Recorded(i) = NoTask

(* An automation that should be armed has a task that nobody drops, is about  *)
(* to fire, or there is a thread or a command that is going to arm it.        *)
Waiting(i) == \E r \in live : Current(i, r) /\ \A t \in Threads : at[t] = "drop" => armed[t] # r
Starting(i) == at["timer"] = "fire" /\ Current(i, armed["timer"])
Owes(t, i) ==
  /\ job[t].id = i
  /\ \/ at[t] = "arm"
     \/ t \in Workers /\ at[t] \in Carrying /\ ~Once(t)
     \/ t \in Workers /\ at[t] = "persist" /\ job[t].arms
Commanded(i) ==
  \/ i \in toArm
  \/ at["ui"] = "save" /\ operation \in {"add", "enable"} /\ i \in changed
  \/ at["ui"] = "reconcile" /\ task[i] = NoTask
Promised(i) == Waiting(i) \/ Starting(i) \/ (\E t \in Threads : Owes(t, i)) \/ Commanded(i)
Due(i) == up /\ ~stopped /\ On(i) /\ i \in available /\ i \notin unarmed \union overtaken

ArmedOf(i) == i \notin rewound => TasksOf(i) /\ ParkedOf(i) /\ (Due(i) => Promised(i))
ArmInv == TaskShape /\ \A i \in Ids : ArmedOf(i)

(* Entries that were numbered stay so.                                      *)
LEMMA NumbersStay ==
  ASSUME EngineInv, [Next]_vars, NEW i \in Ids, Numbered(i)
  PROVE  Numbered(i)'
<1> USE NamesDiffer
<1>0. EngineTypes /\ Places /\ CommandShape /\ MutexHeld
  BY DEF EngineInv, EngineShape
<1>1. CASE UNCHANGED <<next, diskNext, up>> /\ (Adding(i)' => Adding(i))
  BY <1>1 DEF Numbered
<1>2. ASSUME NEW t \in Workers, UNCHANGED <<next, diskNext, up, command>>, NEW s, Goto(t, s)
      PROVE  Numbered(i)'
  BY <1>0, <1>1, <1>2 DEF Goto, Adding, command, Places
<1>3. ASSUME NEW s, s # "save", Goto("ui", s), UNCHANGED <<next, diskNext, up>>
      PROVE  Numbered(i)'
  BY <1>0, <1>1, <1>3 DEF Goto, Adding, Places
<1>4. ASSUME NEW op \in Ops \ {"add"}, NEW ids \in SUBSET Ids, Begin(op, ids), next' = next
      PROVE  Numbered(i)'
  BY <1>1, <1>4 DEF Begin, Adding, store
<1>5. ASSUME NEW kind \in Kinds, Add(kind)
      PROVE  Numbered(i)'
  <2>1. up /\ up' = up /\ diskNext' = diskNext /\ next' = next + 1 /\ changed' = {next}
    BY <1>5 DEF Add, Begin, store
  <2> QED  BY <1>0, <2>1, SMT DEF Numbered, Adding, EngineTypes, Ids
<1>6. ASSUME NEW i0 \in Ids, Cancel(i0) \/ Enable(i0) \/ Disable(i0) \/ \E p \in Policies : SetPolicy(i0, p)
      PROVE  Numbered(i)'
  <2>1. \E op \in Ops \ {"add"} : Begin(op, {i0}) /\ next' = next
    BY <1>6 DEF Cancel, Remove, Enable, Disable, SetPolicy, Ops
  <2> QED  BY <1>4, <2>1
<1>7. CASE Clear
  <2>1. Present \in SUBSET Ids /\ Begin("clear", Present) /\ next' = next
    BY <1>7 DEF Clear, Remove, Present
  <2> QED  BY <1>4, <2>1 DEF Ops
<1>8. ASSUME NEW moved \in SUBSET Ids, NEW unresolved \in SUBSET Ids,
             \/ Refresh(moved, unresolved) \/ Reconcile(unresolved)
             \/ \E i0 \in Ids : PluginChange(i0) \/ ArmNext(i0)
             \/ Stop \/ AwaitIdle
      PROVE  Numbered(i)'
  <2>1. UNCHANGED <<next, diskNext, up>>
    BY <1>8 DEF Refresh, Reconcile, PluginChange, ArmNext, Stop, AwaitIdle, store
  <2>2. \E s \in {"idle", "unschedule", "reconcile", "arm"} : Goto("ui", s)
    BY <1>8 DEF Refresh, Reconcile, PluginChange, ArmNext, Stop, AwaitIdle
  <2> QED  BY <1>3, <2>1, <2>2
<1>9. CASE Unschedule
  <2>1. UNCHANGED <<next, diskNext, up>> /\ AfterArm("ui") # "save"
    BY <1>9 DEF Unschedule, store, AfterArm
  <2>2. \E s : s # "save" /\ Goto("ui", s)
    BY <1>9, <2>1 DEF Unschedule
  <2> QED  BY <1>3, <2>1, <2>2
<1>10. ASSUME NEW t \in Threads, Arm(t)
       PROVE  Numbered(i)'
  <2>1. UNCHANGED <<next, diskNext, up, command>> /\ AfterArm(t) # "save"
    BY <1>10 DEF Arm, ArmBegin, ArmRecord, ArmDrop, store, AfterArm
  <2>2. \E s : s # "save" /\ Goto(t, s)
    BY <1>10, <2>1 DEF Arm, ArmBegin, ArmRecord, ArmDrop, EndArm
  <2> QED  BY <1>2, <1>3, <2>1, <2>2
<1>11. CASE UiSave
  <2>1. up' = up /\ next' = next /\ diskNext' = next /\ ~Adding(i)'
    <3>1. at'["ui"] # "save"
      BY <1>0, <1>11 DEF UiSave, Goto, Places
    <3> QED  BY <1>11, <3>1 DEF UiSave, Save, Adding
  <2>2. up
    BY <1>0, <1>11 DEF UiSave, Places
  <2> QED  BY <2>1, <2>2 DEF Numbered
<1>12. ASSUME NEW kept \in BOOLEAN, UiSaveFails(kept)
       PROVE  Numbered(i)'
  <2>1. /\ up /\ up' = up /\ at["ui"] = "save" /\ ~Adding(i)'
        /\ next' = IF operation = "add" THEN next - 1 ELSE next
        /\ diskNext' = diskNext \/ diskNext' = next
    <3>1. at["ui"] = "save" /\ at'["ui"] # "save"
      BY <1>0, <1>12 DEF UiSaveFails, Goto, Places
    <3>2. up
      BY <1>0, <3>1 DEF Places
    <3> QED  BY <1>12, <3>1, <3>2 DEF UiSaveFails, SaveFails, store, Adding
  <2>2. i < next /\ i < diskNext /\ (operation = "add" => next # i + 1)
    BY <1>0, <2>1 DEF Numbered, Adding, CommandShape
  <2>3. i < next' /\ i < diskNext'
    BY <1>0, <2>1, <2>2, SMT DEF EngineTypes, Ids
  <2> QED  BY <2>1, <2>3 DEF Numbered
<1>13. ASSUME NEW t \in Workers, NEW s, Goto(t, s), UNCHANGED <<next, up, command>>, up,
              diskNext' = diskNext \/ diskNext' = next
       PROVE  Numbered(i)'
  <2>1. Adding(i)' => Adding(i)
    BY <1>0, <1>13 DEF Adding, command, Goto, Places
  <2> QED  BY <1>13, <2>1 DEF Numbered
<1>14. ASSUME NEW t \in Workers, Saving(t)
       PROVE  up
  BY <1>0, <1>14 DEF Saving, Places
<1>15. ASSUME NEW t \in Workers, CompleteSave(t) \/ \E kept \in BOOLEAN : CompleteSaveFails(t, kept)
       PROVE  Numbered(i)'
  <2>1. Saving(t) /\ UNCHANGED <<next, up, command>> /\ (diskNext' = diskNext \/ diskNext' = next)
    BY <1>15 DEF CompleteSave, CompleteSaveFails, Save, SaveFails, Saving, store
  <2>2. \E s : Goto(t, s)
    BY <1>15 DEF CompleteSave, CompleteSaveFails
  <2> QED  BY <1>13, <1>14, <2>1, <2>2
<1>16. CASE FireSave \/ \E kept \in BOOLEAN : FireSaveFails(kept)
  <2>1. Saving("timer") /\ UNCHANGED <<next, up, command>> /\ (diskNext' = diskNext \/ diskNext' = next)
    BY <1>16 DEF FireSave, FireSaveFails, Preflight, Save, SaveFails, Saving, store
  <2>2. \E s : Goto("timer", s)
    BY <1>16 DEF FireSave, FireSaveFails
  <2> QED  BY <1>13, <1>14, <2>1, <2>2
<1>17. ASSUME NEW t \in Workers,
              \/ CompleteRetry(t) \/ CompleteRecurring(t, TRUE) \/ CompleteRecurring(t, FALSE)
              \/ CompleteGone(t) \/ Report(t) \/ Invoke(t, TRUE) \/ Invoke(t, FALSE)
              \/ t = "timer" /\ (StartTask \/ FireNothing \/ Fire(TRUE) \/ Fire(FALSE) \/ Rejected)
       PROVE  Numbered(i)'
  <2>1. UNCHANGED <<next, diskNext, up, command>>
    BY <1>17 DEF CompleteRetry, CompleteRecurring, CompleteGone, Report, Invoke, StartTask, FireNothing,
         Fire, Rejected, store
  <2>2. \E s : Goto(t, s)
    BY <1>17 DEF CompleteRetry, CompleteRecurring, CompleteGone, Report, Invoke, StartTask, FireNothing,
         Fire, Rejected
  <2> QED  BY <1>2, <2>1, <2>2
<1>18. CASE Submit
  <2>1. UNCHANGED <<next, diskNext, up, command>> /\ at'["ui"] = at["ui"]
    BY <1>0, <1>18 DEF Submit, store, Places
  <2> QED  BY <1>1, <2>1 DEF Adding, command
<1>19. CASE Crash
  BY <1>19 DEF Crash, store, Numbered
<1>20. ASSUME NEW unresolved \in SUBSET Ids, Restart(unresolved)
       PROVE  Numbered(i)'
  <2>1. next' = diskNext /\ diskNext' = diskNext
    BY <1>20 DEF Restart, store
  <2>2. at'["ui"] # "save"
    BY <1>0, <1>20 DEF Restart, Goto, Places
  <2> QED  BY <2>1, <2>2 DEF Numbered, Adding
<1>21. CASE UNCHANGED vars
  BY <1>1, <1>21 DEF vars, threads, command, store, Adding
<1>22. CASE Commands
  <2>1. {} \in SUBSET Ids
    OBVIOUS
  <2> QED  BY <1>5, <1>6, <1>7, <1>8, <1>22, <2>1 DEF Commands
<1>23. CASE Ui
  <2>1. {} \in SUBSET Ids
    OBVIOUS
  <2> QED  BY <1>8, <1>9, <1>10, <1>11, <1>23, <2>1 DEF Ui
<1>24. ASSUME NEW t \in Workers, Complete(t) PROVE Numbered(i)'
  BY <1>10, <1>15, <1>17, <1>24 DEF Complete
<1>25. CASE StartTask \/ Timer
  BY <1>16, <1>17, <1>18, <1>24, <1>25 DEF Timer
<1>26. ASSUME NEW e \in Executions, Execution(e) PROVE Numbered(i)'
  BY <1>17, <1>24, <1>26 DEF Execution
<1>27. ASSUME NEW t \in Threads, at[t] \in {"persist", "complete"} PROVE t \in Workers
  BY <1>0, <1>27 DEF Places, UiSteps
<1>28. ASSUME NEW t \in Threads, CompleteRecurring(t, FALSE) \/ \E kept \in BOOLEAN : CompleteSaveFails(t, kept)
       PROVE  Numbered(i)'
  <2>1. t \in Workers
    BY <1>27, <1>28 DEF CompleteRecurring, CompleteSaveFails, Completes
  <2> QED  BY <1>15, <1>17, <1>28, <2>1
<1>29. CASE Mishap
  <2>1. {} \in SUBSET Ids
    OBVIOUS
  <2> QED  BY <1>8, <1>12, <1>16, <1>17, <1>19, <1>20, <1>28, <1>29, <2>1 DEF Mishap
<1> QED  BY <1>21, <1>22, <1>23, <1>25, <1>26, <1>29 DEF Next

(* A function on a finite set takes finitely many values.                   *)
LEMMA ImageIsFinite ==
  ASSUME NEW S, IsFiniteSet(S), NEW T, NEW f \in [S -> T]
  PROVE  IsFiniteSet({f[x] : x \in S})
<1>1. f \in Surjection(S, {f[x] : x \in S})
  BY DEF Surjection
<1> QED  BY <1>1, FS_Surjection

(* Automations and threads are finitely many.                               *)
LEMMA IdsAreFinite == IsFiniteSet(Ids) /\ IsFiniteSet(Threads)
<1>1. IsFiniteSet(Ids)
  BY BoundsAssumption, FS_Interval DEF Ids
<1>2. IsFiniteSet({"ui", "timer"})
  <2>1. {"ui", "timer"} = {"ui"} \union {"timer"}
    OBVIOUS
  <2>2. IsFiniteSet({"ui"}) /\ IsFiniteSet({"timer"})
    BY FS_Singleton
  <2>3. IsFiniteSet({"ui"} \union {"timer"})
    BY <2>2, FS_Union
  <2> QED  BY <2>1, <2>3
<1>3. IsFiniteSet(Threads)
  BY <1>2, ExecutorAssumption, FS_Union DEF Threads
<1> QED  BY <1>1, <1>3

(* The tasks that anyone still knows are finitely many.                     *)
LEMMA KnownIsFinite ==
  ASSUME TaskTypes
  PROVE  IsFiniteSet(Known) /\ Known \subseteq Task \union {NoTask}
<1> DEFINE Tasks1 == Task \union {NoTask}
<1>0. armed \in [Threads -> Tasks1] /\ task \in [Ids -> Tasks1] /\ before.task \in [Ids -> Tasks1]
  BY DEF TaskTypes
<1> HIDE DEF Tasks1
<1>1. IsFiniteSet({armed[t] : t \in Threads})
  BY <1>0, IdsAreFinite, ImageIsFinite
<1>2. IsFiniteSet({task[i] : i \in Ids}) /\ IsFiniteSet({before.task[i] : i \in Ids})
  <2> DEFINE g == before.task
  <2>1. IsFiniteSet({task[i] : i \in Ids})
    BY <1>0, IdsAreFinite, ImageIsFinite
  <2>2. g \in [Ids -> Tasks1]
    BY <1>0
  <2> HIDE DEF g
  <2>3. IsFiniteSet({g[i] : i \in Ids})
    BY <2>2, IdsAreFinite, ImageIsFinite
  <2> QED  BY <2>1, <2>3 DEF g
<1>3. IsFiniteSet(live \union toCancel)
  BY FS_Union DEF TaskTypes
<1>4. IsFiniteSet(live \union toCancel \union {armed[t] : t \in Threads})
  BY <1>1, <1>3, FS_Union
<1>5. IsFiniteSet(live \union toCancel \union {armed[t] : t \in Threads} \union {task[i] : i \in Ids})
  BY <1>2, <1>4, FS_Union
<1>6. IsFiniteSet(Known)
  BY <1>2, <1>5, FS_Union DEF Known
<1>7. Known \subseteq Task \union {NoTask}
  BY DEF Known, TaskTypes
<1> QED  BY <1>6, <1>7

(* More numbers than tasks: there is a new one.                               *)
LEMMA NewTaskIsNew ==
  ASSUME TaskTypes, NEW i \in Ids
  PROVE  /\ NewTask(i) \in Task \ Known
         /\ NewTask(i).id = i /\ NewTask(i).generation = generation[i] + 1
<1> DEFINE N == Cardinality(Known) + 1
           T(n) == [id |-> i, generation |-> generation[i] + 1, number |-> n]
           f == [n \in 1..N |-> T(n)]
           n1 == CHOOSE n \in 1..N : T(n) \notin Known
<1>1. IsFiniteSet(Known) /\ Cardinality(Known) \in Nat
  BY KnownIsFinite, FS_CardinalityType
<1>2. IsFiniteSet(1..N) /\ Cardinality(1..N) = N
  BY <1>1, FS_Interval, SMT
<1>3. \E n \in 1..N : T(n) \notin Known
  <2>1. SUFFICES ASSUME \A n \in 1..N : T(n) \in Known PROVE FALSE
    OBVIOUS
  <2>2. f \in [1..N -> Known]
    BY <2>1
  <2>3. PICK x \in 1..N, y \in 1..N : x # y /\ f[x] = f[y]
    <3>1. Cardinality(Known) < Cardinality(1..N)
      BY <1>1, <1>2, SMT
    <3> HIDE DEF N, f
    <3> QED  BY <1>1, <1>2, <2>2, <3>1, FS_PigeonHole
  <2>4. T(x) = T(y)
    BY <2>3
  <2>5. T(x).number = x /\ T(y).number = y
    OBVIOUS
  <2> QED  BY <2>3, <2>4, <2>5
<1>4. n1 \in 1..N /\ T(n1) \notin Known
  BY <1>3
<1>5. NewTask(i) = T(n1)
  BY DEF NewTask
<1>6. T(n1) \in Task
  <2>1. generation[i] + 1 \in Nat \ {0}
    BY SMT DEF TaskTypes
  <2>2. n1 \in Nat \ {0}
    <3> HIDE DEF n1
    <3>1. N \in Nat
      BY <1>1
    <3> HIDE DEF N
    <3> QED  BY <1>4, <3>1, SMT
  <2> HIDE DEF n1
  <2> QED  BY <2>1, <2>2 DEF Task
<1> QED  BY <1>4, <1>5, <1>6

(* The tasks on record are known.                                           *)
LEMMA TasksOfEntries ==
  ASSUME TaskTypes, NEW ids \in SUBSET Ids
  PROVE  /\ IsFiniteSet(Tasks(ids)) /\ Tasks(ids) \subseteq Task
         /\ \A r \in Tasks(ids) : r.id \in ids /\ task[r.id] = r
         /\ \A i \in ids : task[i] # NoTask => task[i] \in Tasks(ids)
<1>1. IsFiniteSet({task[i] : i \in Ids})
  <2> DEFINE Tasks1 == Task \union {NoTask}
  <2>1. task \in [Ids -> Tasks1]
    BY DEF TaskTypes
  <2> HIDE DEF Tasks1
  <2> QED  BY <2>1, IdsAreFinite, ImageIsFinite
<1>2. Tasks(ids) \in SUBSET {task[i] : i \in Ids}
  BY DEF Tasks
<1>3. IsFiniteSet(Tasks(ids))
  BY <1>1, <1>2, FS_Subset
<1>4. \A r \in Tasks(ids) : r \in Task /\ r.id \in ids /\ task[r.id] = r
  BY DEF Tasks, TaskTypes
<1> QED  BY <1>3, <1>4 DEF Tasks

-----------------------------------------------------------------------------
(* Steps that neither arm nor cancel.                                         *)

NumberedKept == \A i \in Ids : Numbered(i) => Numbered(i)'

(* Threads go on arming, and tasks go on being, of numbered automations.    *)
LEMMA TasksNumberedStay ==
  ASSUME TasksNumbered, NumberedKept, EngineTypes',
         \A t \in Workers : at'[t] \in Arming \union {"persist"} =>
            \/ at[t] \in Arming \union {"persist"} /\ job'[t].id = job[t].id
            \/ Numbered(job'[t].id),
         \A i \in Ids : About(i)' \subseteq About(i) \/ Numbered(i)
  PROVE  TasksNumbered'
<1>1. \A t \in Workers : job'[t].id \in Ids
  BY NamesDiffer DEF EngineTypes, Job
<1>2. ASSUME NEW t \in Workers, at'[t] \in Arming \union {"persist"} PROVE Numbered(job[t].id)'
  BY <1>1, <1>2 DEF TasksNumbered, NumberedKept
<1>3. ASSUME NEW i \in Ids, About(i)' # {} PROVE Numbered(i)'
  BY <1>3 DEF TasksNumbered, NumberedKept
<1> QED  BY <1>2, <1>3 DEF TasksNumbered

(* A task in the scheduler is one of its automation's.                      *)
LEMMA LiveIsAbout ==
  ASSUME TaskTypes, NEW r \in live
  PROVE  r \in Task /\ r # NoTask /\ r.id \in Ids /\ r \in About(r.id)
BY DEF TaskTypes, Task, NoTask, About

(* The tasks stay in order when none is added and no entry goes back.       *)
LEMMA TasksStay ==
  ASSUME NEW i \in Ids, TaskTypes, TaskTypes', TasksOf(i),
         About(i)' \subseteq About(i), \A r \in live' : r.id = i => r \in live,
         There(i)' => There(i) /\ \/ Generation(i)' > Generation(i)
                                  \/ /\ Generation(i)' = Generation(i)
                                     /\ \A r \in live' : Current(i, r) => Found(i, r)',
         at'["ui"] = "unschedule" =>
            \/ Generation(i)' > Generation(i)
            \/ \A r \in toCancel' : r.id # i
            \/ at["ui"] = "unschedule" /\ toCancel' = toCancel
  PROVE  TasksOf(i)'
<1>1. SUFFICES ASSUME There(i)' PROVE TasksOf(i)'
  BY DEF TasksOf
<1>2. /\ Generation(i) \in Nat /\ Generation(i)' \in Nat
      /\ \A r \in About(i) : r.generation \in Nat /\ r.id = i
  BY DEF Generation, TaskTypes, About, Task
<1>3. \A r \in About(i) : r.generation <= Generation(i)
  BY <1>1 DEF TasksOf
<1>4. \A r \in live' : r.id = i => r \in About(i)
  BY LiveIsAbout
<1>5. CASE Generation(i)' > Generation(i)
  <2>1. \A r \in About(i) : r.generation < Generation(i)'
    BY <1>2, <1>3, <1>5, SMT
  <2>2. \A r \in About(i) : ~Current(i, r)' /\ r.generation <= Generation(i)'
    BY <1>2, <2>1, SMT DEF Current
  <2> QED  BY <1>4, <2>1, <2>2 DEF TasksOf, Current
<1>6. CASE Generation(i)' = Generation(i) /\ \A r \in live' : Current(i, r) => Found(i, r)'
  <2>1. \A r : Current(i, r)' <=> Current(i, r)
    BY <1>6 DEF Current
  <2>2. \A r, s \in About(i)' : Current(i, r)' /\ Current(i, s)' => r = s
    BY <1>1, <2>1 DEF TasksOf
  <2>3. \A r \in About(i)' : r.generation <= Generation(i)'
    BY <1>3, <1>6
  <2>4. at'["ui"] = "unschedule" =>
          \A r \in toCancel' \intersect live' : r.id = i => r.generation < Generation(i)'
    <3>1. ~(Generation(i)' > Generation(i))
      BY <1>2, <1>6, SMT
    <3> QED  BY <1>1, <1>6, <3>1 DEF TasksOf
  <2> QED  BY <1>6, <2>1, <2>2, <2>3, <2>4 DEF TasksOf
<1> QED  BY <1>1, <1>5, <1>6

Passing ==
  /\ UNCHANGED <<up, stopped, generation, task, available, live, armed, command, overtaken, rewound>>
  /\ at'["ui"] = at["ui"] /\ job'["ui"] = job["ui"] /\ unarmed \subseteq unarmed'
  /\ \A t \in Threads : at[t] \in Holding \union {"fire"} \/ at'[t] \in Holding \union {"fire"} =>
       at'[t] = at[t] /\ job'[t].id = job[t].id
  /\ \A t \in Workers : at'[t] \in {"arm", "persist"} =>
       \/ at[t] \in {"arm", "persist"} /\ job'[t].id = job[t].id
       \/ Numbered(job'[t].id)
  /\ at["ui"] = "save" => automation' = automation
  /\ \A i \in Ids : automation'[i].kind # "none" =>
       automation[i].kind # "none" /\ (automation'[i].enabled => automation[i].enabled)
  /\ \A i \in Ids, t \in Workers : Owes(t, i) /\ Due(i)' => \E u \in Workers : Owes(u, i)'

(* A step that touches neither tasks nor entries keeps all of this.         *)
LEMMA PassingStep ==
  ASSUME EngineInv, EngineInv', ArmInv, NumberedKept, Passing
  PROVE  ArmInv'
<1> USE NamesDiffer
<1>0. TaskTypes /\ TaskPlaces /\ TasksNumbered /\ SaveShape /\ Places /\ Places' /\ EngineTypes'
  BY DEF ArmInv, TaskShape, EngineInv, EngineShape
<1>1. TaskTypes'
  BY <1>0 DEF TaskTypes, Passing, command
<1>2. TaskPlaces'
  <2>1. \A t \in Threads : at'[t] \in Holding => at[t] = at'[t] /\ armed'[t] = armed[t] /\ job'[t].id = job[t].id
    BY DEF Passing
  <2>2. /\ \A t \in Threads : at'[t] \in Holding => armed'[t] \in Task /\ armed'[t].id = job'[t].id
        /\ \A t, u \in Threads :
             at'[t] \in Holding /\ at'[u] \in Holding /\ armed'[t] = armed'[u] => t = u
    BY <1>0, <2>1 DEF TaskPlaces
  <2>3. at'["timer"] = "fire" => armed'["timer"] \in Task \ live'
    BY <1>0 DEF TaskPlaces, Passing
  <2> QED  BY <1>0, <2>2, <2>3 DEF TaskPlaces, Passing, command
<1>3. \A i \in Ids : About(i)' = About(i)
  BY DEF About, Passing
<1>4. TasksNumbered'
  <2>1. \A t \in Workers : at'[t] \in Arming \union {"persist"} =>
            \/ at[t] \in Arming \union {"persist"} /\ job'[t].id = job[t].id
            \/ Numbered(job'[t].id)
    BY DEF Passing, Arming
  <2> QED  BY <1>0, <1>3, <2>1, TasksNumberedStay
<1>5. SaveShape'
  BY <1>0 DEF SaveShape, Hidden, Passing, command
<1>6. ASSUME NEW i \in Ids
      PROVE  /\ Generation(i)' = Generation(i) /\ Recorded(i)' = Recorded(i)
             /\ There(i)' => There(i)
             /\ On(i)' => On(i)
  <2>1. Hidden(i)' = Hidden(i)
    BY DEF Hidden, Passing, command
  <2>2. Hidden(i) => before' = before /\ at["ui"] = "save"
    BY DEF Hidden, Passing, command
  <2>3. Generation(i)' = Generation(i) /\ Recorded(i)' = Recorded(i)
    BY <2>1 DEF Generation, Recorded, Passing, command
  <2>4. There(i)' => There(i)
    BY <2>1, <2>2 DEF There, Entry, Passing
  <2>5. On(i)' => On(i)
    BY <2>1, <2>2, <2>4 DEF On, There, Entry, Passing
  <2> QED  BY <2>3, <2>4, <2>5
<1>7. ASSUME NEW i \in Ids, i \notin rewound'
      PROVE  TasksOf(i)' /\ ParkedOf(i)' /\ (Due(i)' => Promised(i)')
  <2>0. TasksOf(i) /\ ParkedOf(i) /\ (Due(i) => Promised(i))
    BY <1>7 DEF ArmInv, ArmedOf, Passing
  <2>1. TasksOf(i)'
    <3>1. ASSUME There(i)', NEW r \in live', Current(i, r) PROVE Found(i, r)'
      <4>1. Found(i, r)
        BY <1>6, <2>0, <3>1 DEF TasksOf, Passing
      <4>2. \A t \in Threads : at[t] \in Holding /\ armed[t] = r => at'[t] \in Holding /\ armed'[t] = r
        BY DEF Passing
      <4> QED  BY <1>6, <4>1, <4>2 DEF Found
    <3>2. toCancel' = toCancel /\ live' = live
      BY DEF Passing, command
    <3>3. at'["ui"] = "unschedule" => at["ui"] = "unschedule" /\ toCancel' = toCancel
      BY <3>2 DEF Passing
    <3> QED  BY <1>0, <1>1, <1>3, <1>6, <2>0, <3>1, <3>2, <3>3, TasksStay
  <2>2. ParkedOf(i)'
    BY <1>6, <2>0 DEF ParkedOf, Passing
  <2>3. ASSUME Due(i)' PROVE Promised(i)'
    <3>1. Due(i)
      BY <1>6, <2>3 DEF Due, Passing
    <3>2. CASE Waiting(i)
      <4>1. PICK r \in live : Current(i, r) /\ \A t \in Threads : at[t] = "drop" => armed[t] # r
        BY <3>2 DEF Waiting
      <4>2. \A t \in Threads : at'[t] = "drop" => armed'[t] # r
        BY <4>1 DEF Passing, Holding
      <4>3. r \in live' /\ Current(i, r)'
        BY <1>6, <4>1 DEF Current, Passing
      <4> QED  BY <4>2, <4>3 DEF Promised, Waiting
    <3>3. CASE Starting(i)
      BY <1>6, <3>3 DEF Promised, Starting, Current, Passing, Threads
    <3>4. CASE \E t \in Threads : Owes(t, i)
      <4>1. PICK t \in Threads : Owes(t, i)
        BY <3>4
      <4>2. CASE t = "ui"
        BY <4>1, <4>2 DEF Promised, Owes, Passing
      <4>3. CASE t \in Workers
        BY <2>3, <4>1, <4>3 DEF Promised, Passing
      <4> QED  BY <4>2, <4>3
    <3>5. CASE Commanded(i)
      BY <3>5 DEF Promised, Commanded, Passing, command
    <3> QED  BY <2>0, <3>1, <3>2, <3>3, <3>4, <3>5 DEF Promised
  <2> QED  BY <2>1, <2>2, <2>3
<1> QED  BY <1>1, <1>2, <1>4, <1>5, <1>7 DEF ArmInv, TaskShape, ArmedOf

WorkerPasses(t, s) ==
  /\ UNCHANGED <<up, stopped, generation, task, available, live, armed, command, overtaken, rewound>>
  /\ Goto(t, s) /\ at[t] \notin Holding \union {"fire"} /\ s \notin Holding \union {"fire"}
  /\ \A u \in Threads \ {t} : job'[u] = job[u]
  /\ unarmed \subseteq unarmed'

(* A worker's step of that kind.                                            *)
LEMMA WorkerPassing ==
  ASSUME EngineInv, EngineInv', ArmInv, NumberedKept, NEW t \in Workers, NEW s, WorkerPasses(t, s),
         s \in {"arm", "persist"} =>
           \/ at[t] \in {"arm", "persist"} /\ job'[t].id = job[t].id
           \/ Numbered(job'[t].id),
         at["ui"] = "save" => automation' = automation,
         \A i \in Ids : automation'[i].kind # "none" =>
           automation[i].kind # "none" /\ (automation'[i].enabled => automation[i].enabled),
         \A i \in Ids : Owes(t, i) /\ Due(i)' => Owes(t, i)'
  PROVE  ArmInv'
<1> USE NamesDiffer
<1>1. /\ at \in [Threads -> UiSteps \union TimerSteps \union ExecutionSteps]
      /\ t # "ui" /\ "ui" \in Threads /\ t \in Threads
  BY DEF EngineInv, EngineShape, Places
<1>2. at'[t] = s /\ \A u \in Threads \ {t} : at'[u] = at[u] /\ job'[u] = job[u]
  BY <1>1 DEF WorkerPasses, Goto
<1>3. \A i \in Ids, u \in Workers \ {t} : Owes(u, i) => Owes(u, i)'
  BY <1>2 DEF Owes, Once
<1>4. \A i \in Ids, u \in Workers : Owes(u, i) /\ Due(i)' => Owes(u, i)'
  BY <1>3
<1>5. \A u \in Workers : at'[u] \in {"arm", "persist"} =>
       \/ at[u] \in {"arm", "persist"} /\ job'[u].id = job[u].id
       \/ Numbered(job'[u].id)
  BY <1>2
<1>6. Passing
  BY <1>1, <1>2, <1>4, <1>5 DEF Passing, WorkerPasses
<1> QED  BY <1>6, PassingStep

(* The timer before it submits.                                             *)
LEMMA PreflightPasses ==
  ASSUME EngineInv, EngineInv', ArmInv, NumberedKept,
         FireSave \/ (\E kept \in BOOLEAN : FireSaveFails(kept)) \/ Rejected
  PROVE  ArmInv'
<1> USE NamesDiffer
<1>1. PICK s \in {"submit", "complete"} :
        /\ Goto("timer", s) /\ at["timer"] \in {"preflight", "submit"}
        /\ UNCHANGED <<up, stopped, automation, generation, task, available, live, armed, command,
                       overtaken, rewound, unarmed>>
        /\ job' = job \/ job' = [job EXCEPT !["timer"].retryable = TRUE]
  BY DEF FireSave, FireSaveFails, Rejected, entries, ghosts, outcomes
<1>2. job \in [Threads -> Job] /\ at \in [Threads -> UiSteps \union TimerSteps \union ExecutionSteps]
  BY DEF EngineInv, EngineShape, EngineTypes, Places
<1>3. WorkerPasses("timer", s)
  BY <1>1, <1>2 DEF WorkerPasses, Holding
<1>4. job'["timer"].id = job["timer"].id /\ job'["timer"].fired = job["timer"].fired
  BY <1>1, <1>2 DEF Job
<1>5. at'["timer"] = s
  BY <1>1, <1>2 DEF Goto
<1>6. \A i \in Ids : Owes("timer", i) => Owes("timer", i)'
  BY <1>1, <1>4, <1>5 DEF Owes, Once, Carrying
<1> QED  BY <1>1, <1>3, <1>6, WorkerPassing

(* The timer hands its execution over, or completes it itself.              *)
LEMMA SubmitPasses ==
  ASSUME EngineInv, EngineInv', ArmInv, NumberedKept, Submit
  PROVE  ArmInv'
<1> USE NamesDiffer
<1>1. PICK e \in Executions :
        /\ at[e] = "idle" /\ at["timer"] = "submit"
        /\ at' = [at EXCEPT !["timer"] = "idle", ![e] = "queued"]
        /\ job' = [job EXCEPT ![e] = [job["timer"] EXCEPT !.retryable = TRUE], !["timer"] = NoJob]
        /\ UNCHANGED <<up, stopped, automation, generation, task, available, live, armed, command,
                       overtaken, rewound, unarmed>>
  <2>1. \E e \in Executions : at[e] = "idle"
    BY DEF Submit
  <2>2. (CHOOSE e \in Executions : at[e] = "idle") \in Executions /\ at[CHOOSE e \in Executions : at[e] = "idle"] = "idle"
    BY <2>1
  <2> QED  BY <2>2 DEF Submit, entries, ghosts
<1>2. job \in [Threads -> Job] /\ at \in [Threads -> UiSteps \union TimerSteps \union ExecutionSteps]
  BY DEF EngineInv, EngineShape, EngineTypes, Places
<1>3. e \in Workers /\ e # "timer" /\ e # "ui" /\ e \in Threads /\ {"ui", "timer"} \subseteq Threads
  BY DEF Workers, Threads
<1>4. /\ at'[e] = "queued" /\ at'["timer"] = "idle" /\ job'[e].id = job["timer"].id
      /\ job'[e].fired = job["timer"].fired
      /\ \A u \in Threads \ {e, "timer"} : at'[u] = at[u] /\ job'[u] = job[u]
  BY <1>1, <1>2, <1>3 DEF Job
<1>5. \A i \in Ids : Owes("timer", i) => Owes(e, i)'
  BY <1>1, <1>3, <1>4 DEF Owes, Once, Carrying
<1>6. \A i \in Ids, u \in Workers \ {e, "timer"} : Owes(u, i) => Owes(u, i)'
  BY <1>4 DEF Owes, Once
<1>7. \A i \in Ids : ~Owes(e, i)
  BY <1>1 DEF Owes, Carrying
<1>8. \A i \in Ids, t \in Workers : Owes(t, i) /\ Due(i)' => \E u \in Workers : Owes(u, i)'
  BY <1>3, <1>5, <1>6, <1>7
<1>9. \A t \in Threads : at[t] \in Holding \union {"fire"} \/ at'[t] \in Holding \union {"fire"} =>
        at'[t] = at[t] /\ job'[t].id = job[t].id
  BY <1>1, <1>3, <1>4 DEF Holding
<1>10. \A t \in Workers : at'[t] \in {"arm", "persist"} =>
         at[t] \in {"arm", "persist"} /\ job'[t].id = job[t].id
  BY <1>3, <1>4
<1>11. Passing
  BY <1>1, <1>3, <1>4, <1>8, <1>9, <1>10 DEF Passing
<1> QED  BY <1>11, PassingStep

(* An action runs, an execution is saved and reported.                      *)
LEMMA ExecutionPasses ==
  ASSUME EngineInv, EngineInv', ArmInv, NumberedKept, NEW t \in Workers,
         \/ \E success \in BOOLEAN : Invoke(t, success)
         \/ CompleteSave(t) \/ (\E kept \in BOOLEAN : CompleteSaveFails(t, kept)) \/ Report(t)
  PROVE  ArmInv'
<1> USE NamesDiffer
<1>0. /\ job \in [Threads -> Job] /\ at \in [Threads -> UiSteps \union TimerSteps \union ExecutionSteps]
      /\ TasksNumbered /\ t \in Threads
  BY DEF EngineInv, EngineShape, EngineTypes, Places, ArmInv, TaskShape
<1>1. UNCHANGED <<up, stopped, automation, generation, task, available, live, armed, command,
                  overtaken, rewound>>
  BY DEF Invoke, CompleteSave, CompleteSaveFails, Report, entries, ghosts, outcomes
<1>2. CASE \E success \in BOOLEAN : Invoke(t, success)
  <2>1. PICK success \in BOOLEAN : Invoke(t, success)
    BY <1>2
  <2>2. WorkerPasses(t, "complete")
    BY <1>0, <1>1, <2>1 DEF WorkerPasses, Holding, Invoke
  <2>3. at'[t] = "complete" /\ job'[t].id = job[t].id /\ job'[t].fired = job[t].fired /\ at[t] = "queued"
    BY <1>0, <2>1 DEF Invoke, Goto, Job
  <2>4. \A i \in Ids : Owes(t, i) => Owes(t, i)'
    BY <2>3 DEF Owes, Once, Carrying
  <2> QED  BY <1>1, <2>2, <2>4, WorkerPassing
<1>3. CASE CompleteSave(t)
  <2> DEFINE s == IF job[t].arms THEN "arm" ELSE "report"
  <2>1. WorkerPasses(t, s)
    BY <1>0, <1>1, <1>3 DEF WorkerPasses, Holding, CompleteSave
  <2>2. at'[t] = s /\ job' = job /\ at[t] = "persist"
    BY <1>0, <1>3 DEF CompleteSave, Goto
  <2>3. \A i \in Ids : Owes(t, i) => Owes(t, i)'
    BY <2>2 DEF Owes, Once, Carrying
  <2> QED  BY <1>1, <2>1, <2>2, <2>3, WorkerPassing
<1>4. CASE \E kept \in BOOLEAN : CompleteSaveFails(t, kept)
  <2>1. /\ WorkerPasses(t, "report") /\ at[t] = "persist"
        /\ job[t].arms => job[t].id \in unarmed'
    BY <1>0, <1>1, <1>4 DEF WorkerPasses, Holding, CompleteSaveFails
  <2>2. \A i \in Ids : Owes(t, i) => ~Due(i)'
    BY <2>1 DEF Owes, Due, Carrying
  <2> QED  BY <1>1, <2>1, <2>2, WorkerPassing
<1>5. CASE Report(t)
  <2>1. WorkerPasses(t, "idle") /\ at[t] = "report"
    BY <1>0, <1>1, <1>5 DEF WorkerPasses, Holding, Report
  <2>2. \A i \in Ids : ~Owes(t, i)
    BY <2>1, <1>0 DEF Owes, Carrying
  <2> QED  BY <1>1, <2>1, <2>2, WorkerPassing
<1> QED  BY <1>2, <1>3, <1>4, <1>5

(* Whoever completes an execution is no command, and no command is saved.     *)
LEMMA CompletingFacts ==
  ASSUME EngineInv, NEW t \in Threads, Completes(t)
  PROVE  /\ t \in Workers /\ at["ui"] # "save" /\ job[t].id \in Ids /\ Numbered(job[t].id)
         /\ \A i \in Ids : ~Hidden(i)
<1> USE NamesDiffer
<1>1. t \in Workers /\ at["ui"] # "save" /\ job[t].id \in Ids
  BY DEF Completes, EngineInv, EngineShape, Places, UiSteps, MutexHeld, Saving, EngineTypes, Job, Threads
<1>2. Numbered(job[t].id)
  BY <1>1 DEF EngineInv, AutomationInv, NumberOf, Carries, Carrying, Completes
<1> QED  BY <1>1, <1>2 DEF Hidden

(* An execution completes without a retry.                                  *)
LEMMA CompletePasses ==
  ASSUME EngineInv, EngineInv', ArmInv, NumberedKept, NEW t \in Threads,
         (\E resolved \in BOOLEAN : CompleteRecurring(t, resolved)) \/ CompleteGone(t)
  PROVE  ArmInv'
<1> USE NamesDiffer
<1>0. /\ job \in [Threads -> Job] /\ at \in [Threads -> UiSteps \union TimerSteps \union ExecutionSteps]
      /\ Completes(t) /\ automation \in [Ids -> Automation] /\ at["ui"] # "save"
      /\ t \in Workers /\ job[t].id \in Ids /\ Numbered(job[t].id) /\ at[t] = "complete"
  BY CompletingFacts DEF EngineInv, EngineShape, EngineTypes, Places, CompleteRecurring, CompleteGone, Completes
<1>1. UNCHANGED <<up, stopped, generation, task, available, live, armed, command,
                  overtaken, rewound, unarmed>>
  BY DEF CompleteRecurring, CompleteGone, entries, ghosts, outcomes
<1>2. at'["ui"] # "save"
  BY <1>0 DEF CompleteRecurring, CompleteGone, Goto
<1>3. CASE \E resolved \in BOOLEAN : CompleteRecurring(t, resolved)
  <2>1. PICK enabled1 \in BOOLEAN :
          /\ enabled1 => automation[job[t].id].enabled
          /\ automation' = [automation EXCEPT ![job[t].id].attempt = 0, ![job[t].id].enabled = enabled1]
          /\ job' = [job EXCEPT ![t].arms = enabled1]
          /\ Goto(t, "persist") /\ job[t].id \in Present
    <3>1. PICK resolved \in BOOLEAN : CompleteRecurring(t, resolved)
      BY <1>3
    <3> DEFINE enabled1 == automation[job[t].id].enabled /\ ~(~job[t].success /\ job[t].fired.policy.disables) /\ resolved
    <3>2. enabled1 \in BOOLEAN
      OBVIOUS
    <3> QED  BY <3>1, <3>2, Zenon DEF CompleteRecurring
  <2>2. /\ at'[t] = "persist" /\ job'[t].id = job[t].id /\ job'[t].fired = job[t].fired
        /\ job'[t].arms = enabled1
    BY <1>0, <2>1 DEF Goto, Job
  <2>3. /\ \A i \in Ids \ {job[t].id} : automation'[i] = automation[i]
        /\ automation[job[t].id].kind # "none" /\ automation'[job[t].id].enabled = enabled1
        /\ automation'[job[t].id].kind = automation[job[t].id].kind
    BY <1>0, <2>1 DEF Automation, Present
  <2>4. WorkerPasses(t, "persist")
    BY <1>0, <1>1, <2>1 DEF WorkerPasses, Holding
  <2>5. \A i \in Ids : Owes(t, i) /\ Due(i)' => Owes(t, i)'
    BY <1>0, <1>2, <2>2, <2>3 DEF Owes, Once, Carrying, Due, On, There, Entry, Hidden
  <2>6. \A i \in Ids : automation'[i].kind # "none" =>
           automation[i].kind # "none" /\ (automation'[i].enabled => automation[i].enabled)
    BY <2>1, <2>3
  <2> QED  BY <1>0, <2>2, <2>4, <2>5, <2>6, WorkerPassing
<1>4. CASE CompleteGone(t)
  <2>1. PICK s \in {"persist", "report"} : Goto(t, s) /\ (s = "persist" => job[t].id \notin Present) /\ (s = "report" => Once(t))
    BY <1>4 DEF CompleteGone, Once
  <2>2. job' = job /\ automation' = automation
    BY <1>4 DEF CompleteGone, entries
  <2>3. WorkerPasses(t, s)
    BY <1>0, <1>1, <2>1, <2>2 DEF WorkerPasses, Holding
  <2>4. \A i \in Ids : Owes(t, i) => ~Due(i)'
    BY <1>0, <1>2, <2>1, <2>2 DEF Owes, Due, On, There, Entry, Hidden, Present
  <2> QED  BY <1>0, <2>2, <2>3, <2>4, WorkerPassing
<1> QED  BY <1>3, <1>4

(* What a step that leaves one automation alone keeps of it.                  *)
LEMMA ArmedStays ==
  ASSUME NEW i \in Ids, TaskTypes, TaskTypes', ArmedOf(i), i \notin rewound' => i \notin rewound,
         About(i)' \subseteq About(i), \A r \in live' : r.id = i => r \in live,
         Entry(i)' = Entry(i), Generation(i)' = Generation(i), Recorded(i)' = Recorded(i),
         \A r \in live' : Current(i, r) /\ Found(i, r) => Found(i, r)',
         at'["ui"] = "unschedule" =>
            (\A r \in toCancel' : r.id # i) \/ (at["ui"] = "unschedule" /\ toCancel' = toCancel),
         at["ui"] = "reconcile" => at'["ui"] = "reconcile", stopped' = stopped,
         i \in available' <=> i \in available, i \notin overtaken' => i \notin overtaken,
         Due(i)' /\ (Due(i) => Promised(i)) => Promised(i)'
  PROVE  ArmedOf(i)'
<1>1. SUFFICES ASSUME i \notin rewound' PROVE ArmedOf(i)'
  BY DEF ArmedOf
<1>2. TasksOf(i) /\ ParkedOf(i) /\ (Due(i) => Promised(i))
  BY <1>1 DEF ArmedOf
<1>3. There(i)' = There(i) /\ On(i)' = On(i)
  BY DEF There, On
<1>4. TasksOf(i)'
  <2>1. ASSUME There(i)', NEW r \in live', Current(i, r) PROVE Found(i, r)'
    BY <1>2, <1>3, <2>1 DEF TasksOf, Current
  <2> QED  BY <1>2, <1>3, <2>1, TasksStay
<1>5. ParkedOf(i)'
  BY <1>2, <1>3 DEF ParkedOf
<1> QED  BY <1>2, <1>4, <1>5 DEF ArmedOf

(* A retry puts the automation back and is going to arm it.                 *)
LEMMA RetryArms ==
  ASSUME EngineInv, EngineInv', ArmInv, NumberedKept, NEW t \in Threads, CompleteRetry(t)
  PROVE  ArmInv'
<1> USE NamesDiffer
<1> DEFINE a == [job[t].fired EXCEPT !.attempt = @ + 1]
<1>00. PICK i0 \in Ids : i0 = job[t].id
  BY CompletingFacts DEF CompleteRetry
<1>0. /\ job \in [Threads -> Job] /\ at \in [Threads -> UiSteps \union TimerSteps \union ExecutionSteps]
      /\ Completes(t) /\ automation \in [Ids -> Automation] /\ at["ui"] # "save"
      /\ t \in Workers /\ i0 \in Ids /\ Numbered(i0) /\ at[t] = "complete"
      /\ i0 = job[t].id /\ \A i \in Ids : ~Hidden(i)
  BY <1>00, CompletingFacts DEF EngineInv, EngineShape, EngineTypes, Places, CompleteRetry, Completes
<1>1. UNCHANGED <<up, stopped, available, live, armed, command, overtaken, unarmed>> /\ Goto(t, "persist")
  BY DEF CompleteRetry
<1>2. at'["ui"] = at["ui"] /\ at'[t] = "persist" /\ \A u \in Threads \ {t} : at'[u] = at[u]
  BY <1>0, <1>1 DEF Goto
<1>3. \A i \in Ids : ~Hidden(i)'
  BY <1>0, <1>2 DEF Hidden
<1>4. job[t].fired \in Automation /\ a.kind = job[t].fired.kind /\ a.enabled = job[t].fired.enabled
  BY <1>0 DEF Job, Automation
<1>5. CASE /\ Recurring(a) /\ i0 \in Present
           /\ automation' = [automation EXCEPT ![i0] = [a EXCEPT !.enabled = automation[i0].enabled]]
           /\ job' = [job EXCEPT ![t].arms = automation[i0].enabled]
           /\ UNCHANGED <<generation, task, rewound>>
  <2>1. /\ job'[t].id = i0 /\ job'[t].fired = job[t].fired /\ job'[t].arms = automation[i0].enabled
        /\ \A u \in Threads \ {t} : job'[u] = job[u]
    BY <1>0, <1>5 DEF Job
  <2>2. WorkerPasses(t, "persist")
    BY <1>0, <1>1, <1>5, <2>1 DEF WorkerPasses, Holding
  <2>3. /\ \A i \in Ids \ {i0} : automation'[i] = automation[i]
        /\ automation[i0].kind # "none" /\ automation'[i0].enabled = automation[i0].enabled
    BY <1>0, <1>4, <1>5 DEF Automation, Present
  <2>4. \A i \in Ids : Owes(t, i) /\ Due(i)' => Owes(t, i)'
    BY <1>0, <1>2, <1>3, <2>1, <2>3 DEF Owes, Once, Carrying, Due, On, There, Entry
  <2> QED  BY <1>0, <2>1, <2>2, <2>3, <2>4, WorkerPassing
<1>6. CASE /\ ~Recurring(a)
           /\ automation' = [automation EXCEPT ![i0] = a]
           /\ generation' = [generation EXCEPT ![i0] = 0]
           /\ task' = [task EXCEPT ![i0] = NoTask]
           /\ job' = [job EXCEPT ![t].arms = a.enabled]
           /\ rewound' = IF About(i0) # {} THEN rewound \union {i0} ELSE rewound
  <2>0. /\ TaskTypes /\ TaskPlaces /\ TasksNumbered /\ SaveShape /\ EngineTypes'
        /\ \A i \in Ids : ArmedOf(i)
    BY DEF ArmInv, TaskShape, EngineInv, EngineShape
  <2>1. /\ job'[t].id = i0 /\ job'[t].fired = job[t].fired /\ job'[t].arms = a.enabled
        /\ \A u \in Threads \ {t} : job'[u] = job[u]
    BY <1>0, <1>6 DEF Job
  <2>2. /\ \A i \in Ids \ {i0} : automation'[i] = automation[i] /\ generation'[i] = generation[i]
             /\ task'[i] = task[i]
        /\ automation'[i0] = a /\ task'[i0] = NoTask
    BY <1>0, <1>6, <2>0 DEF TaskTypes
  <2>3. TaskTypes'
    BY <1>0, <1>1, <1>6, <2>0, <2>2 DEF TaskTypes, command
  <2>4. \A i \in Ids : About(i)' = About(i)
    BY <1>1 DEF About
  <2>5. TaskPlaces'
    <3>1. \A u \in Threads : at'[u] \in Holding \union {"fire"} =>
             at'[u] = at[u] /\ armed'[u] = armed[u] /\ job'[u].id = job[u].id
      BY <1>1, <1>2, <2>1 DEF Holding
    <3>2. /\ \A u \in Threads : at'[u] \in Holding => armed'[u] \in Task /\ armed'[u].id = job'[u].id
          /\ \A v, u \in Threads :
               at'[v] \in Holding /\ at'[u] \in Holding /\ armed'[v] = armed'[u] => v = u
      BY <2>0, <3>1 DEF TaskPlaces
    <3>3. at'["timer"] = "fire" => armed'["timer"] \in Task \ live'
      BY <1>1, <2>0, <3>1 DEF TaskPlaces, Threads
    <3>4. up
      BY <1>0 DEF EngineInv, EngineShape, Places
    <3> QED  BY <1>1, <1>2, <2>0, <3>2, <3>3, <3>4 DEF TaskPlaces, command
  <2>6. TasksNumbered'
    <3>1. \A u \in Workers : at'[u] \in Arming \union {"persist"} =>
            \/ at[u] \in Arming \union {"persist"} /\ job'[u].id = job[u].id
            \/ Numbered(job'[u].id)
      BY <1>0, <1>2, <2>1
    <3> QED  BY <2>0, <2>4, <3>1, TasksNumberedStay
  <2>7. SaveShape'
    BY <1>0, <1>2 DEF SaveShape
  <2>8. ArmedOf(i0)'
    <3>1. SUFFICES ASSUME i0 \notin rewound' PROVE ArmedOf(i0)'
      BY DEF ArmedOf
    <3>2. About(i0)' = {}
      BY <1>6, <2>4, <3>1
    <3>3. TasksOf(i0)'
      <4>1. \A r \in live' : ~Current(i0, r)' /\ r.id # i0
        BY <1>0, <2>3, <3>2, LiveIsAbout DEF Current, TaskTypes, About, Task, NoTask
      <4> QED  BY <3>2, <4>1 DEF TasksOf
    <3>4. ParkedOf(i0)'
      BY <1>3, <2>2, <1>0 DEF ParkedOf, Recorded
    <3>5. Due(i0)' => Promised(i0)'
      <4>1. Due(i0)' => a.enabled
        BY <1>0, <1>3, <2>2 DEF Due, On, Entry
      <4>2. a.enabled => Owes(t, i0)'
        BY <1>0, <1>2, <2>1 DEF Owes
      <4> QED  BY <4>1, <4>2 DEF Promised
    <3> QED  BY <3>3, <3>4, <3>5 DEF ArmedOf
  <2>9. ASSUME NEW i \in Ids, i # i0 PROVE ArmedOf(i)'
    <3>1. Entry(i)' = Entry(i) /\ Generation(i)' = Generation(i) /\ Recorded(i)' = Recorded(i)
      BY <1>0, <1>3, <2>2, <2>9 DEF Entry, Generation, Recorded
    <3>2. \A r \in live' : Current(i, r) /\ Found(i, r) => Found(i, r)'
      <4>1. \A u \in Threads : at[u] \in Holding => at'[u] \in Holding /\ armed'[u] = armed[u]
        BY <1>0, <1>1, <1>2 DEF Holding
      <4> QED  BY <3>1, <4>1 DEF Found
    <3>3. Due(i)' => Due(i)
      BY <1>1, <3>1 DEF Due, On, There
    <3>4. Promised(i) => Promised(i)'
      <4>1. Waiting(i) => Waiting(i)'
        BY <1>1, <1>2, <3>1 DEF Waiting, Current
      <4>2. Starting(i) => Starting(i)'
        BY <1>0, <1>1, <1>2, <3>1 DEF Starting, Current, Threads
      <4>3. \A u \in Threads : Owes(u, i) => Owes(u, i)'
        BY <1>0, <1>2, <2>1, <2>9 DEF Owes, Once
      <4>4. Commanded(i) => Commanded(i)'
        BY <1>1, <1>2, <2>2, <2>9 DEF Commanded, command
      <4> QED  BY <4>1, <4>2, <4>3, <4>4 DEF Promised
    <3>5. at'["ui"] = "unschedule" => at["ui"] = "unschedule" /\ toCancel' = toCancel
      BY <1>1, <1>2 DEF command
    <3> QED  BY <1>1, <1>2, <1>6, <2>0, <2>3, <2>4, <3>1, <3>2, <3>3, <3>4, <3>5, ArmedStays
  <2> QED  BY <2>3, <2>5, <2>6, <2>7, <2>8, <2>9 DEF ArmInv, TaskShape
<1> QED  BY <1>0, <1>5, <1>6, Zenon DEF CompleteRetry, StillThere

-----------------------------------------------------------------------------
(* Tasks that start.                                                          *)

(* Where the timer is when a task starts.                                   *)
LEMMA TimerFacts ==
  ASSUME EngineInv, ArmInv
  PROVE  /\ job \in [Threads -> Job] /\ at \in [Threads -> UiSteps \union TimerSteps \union ExecutionSteps]
         /\ automation \in [Ids -> Automation] /\ armed \in [Threads -> Task \union {NoTask}]
         /\ "timer" \in Threads /\ "ui" \in Threads /\ "timer" \in Workers
         /\ TaskTypes /\ TaskPlaces /\ TasksNumbered /\ SaveShape /\ \A i \in Ids : ArmedOf(i)
         /\ mutation = "free" => at["ui"] # "save"
BY NamesDiffer DEF EngineInv, EngineShape, EngineTypes, Places, ArmInv, TaskShape, TaskTypes, Threads,
   MutexHeld, Saving

(* The thread of the scheduler goes on with a task in its hands, or drops it. *)
TimerMoves(s) ==
  /\ Goto("timer", s) /\ at["timer"] \in {"idle", "fire"} /\ s \in {"idle", "fire", "preflight"}
  /\ UNCHANGED <<up, stopped, available, command, unarmed, overtaken, rewound>>
  /\ \A u \in Threads \ {"timer"} : armed'[u] = armed[u] /\ job'[u] = job[u]
  /\ live' \subseteq live /\ armed'["timer"] \in live \union {NoTask}

(* The shape, when a task starts or has fired.                              *)
LEMMA TimerShape ==
  ASSUME EngineInv, EngineInv', ArmInv, NumberedKept, NEW s, TimerMoves(s), TaskTypes',
         s = "fire" => armed'["timer"] \in Task \ live',
         ~up => live' = {} /\ armed' = [t \in Threads |-> NoTask] /\ task' = NoTasks,
         UNCHANGED <<automation, generation>> \/ at["ui"] # "save"
  PROVE  TaskShape' /\ \A i \in Ids : About(i)' \subseteq About(i)
<1> USE NamesDiffer
<1>0. /\ at \in [Threads -> UiSteps \union TimerSteps \union ExecutionSteps]
      /\ TaskTypes /\ TaskPlaces /\ TasksNumbered /\ SaveShape /\ EngineTypes' /\ "timer" \in Threads
      /\ "ui" \in Threads
  BY TimerFacts DEF EngineInv, EngineShape
<1>1. at'["timer"] = s /\ \A u \in Threads \ {"timer"} : at'[u] = at[u]
  BY <1>0 DEF TimerMoves, Goto
<1>2. \A i \in Ids : About(i)' \subseteq About(i)
  BY DEF About, TimerMoves
<1>3. TasksNumbered'
  <2>1. \A u \in Workers : at'[u] \in Arming \union {"persist"} =>
          at[u] \in Arming \union {"persist"} /\ job'[u].id = job[u].id
    BY <1>1 DEF TimerMoves, Arming, Holding
  <2> QED  BY <1>0, <1>2, <2>1, TasksNumberedStay
<1>4. TaskPlaces'
  <2>1. \A u \in Threads : at'[u] \in Holding => at'[u] = at[u] /\ armed'[u] = armed[u] /\ job'[u] = job[u]
    BY <1>1 DEF TimerMoves, Holding
  <2>2. /\ \A u \in Threads : at'[u] \in Holding => armed'[u] \in Task /\ armed'[u].id = job'[u].id
        /\ \A v, u \in Threads :
             at'[v] \in Holding /\ at'[u] \in Holding /\ armed'[v] = armed'[u] => v = u
    BY <1>0, <2>1 DEF TaskPlaces
  <2> QED  BY <1>0, <1>1, <2>2 DEF TaskPlaces, TimerMoves, command
<1>5. SaveShape'
  <2>1. /\ at'["ui"] = at["ui"] /\ UNCHANGED <<operation, changed, before, toCancel>>
        /\ job'["ui"] = job["ui"]
    BY <1>0, <1>1 DEF TimerMoves, command
  <2> QED  BY <1>0, <2>1 DEF SaveShape, Hidden
<1> QED  BY <1>2, <1>3, <1>4, <1>5 DEF TaskShape

(* What the timer leaves of the other automations.                          *)
LEMMA TimerStays ==
  ASSUME EngineInv, EngineInv', ArmInv, NEW s, TimerMoves(s), TaskTypes', NEW i \in Ids,
         Entry(i)' = Entry(i), Generation(i)' = Generation(i), Recorded(i)' = Recorded(i),
         task'[i] = task[i],
         \A r \in live \ live' : Current(i, r) => Starting(i)',
         Starting(i) => Starting(i)' \/ ~Due(i)'
  PROVE  ArmedOf(i)'
<1> USE NamesDiffer
<1>0. /\ job \in [Threads -> Job] /\ at \in [Threads -> UiSteps \union TimerSteps \union ExecutionSteps]
      /\ TaskTypes /\ TaskPlaces /\ TasksNumbered /\ SaveShape /\ "timer" \in Threads
      /\ "ui" \in Threads /\ ArmedOf(i)
  BY TimerFacts DEF EngineInv, EngineShape
<1>1. at'["timer"] = s /\ \A u \in Threads \ {"timer"} : at'[u] = at[u]
  BY <1>0 DEF TimerMoves, Goto
<1>2. About(i)' \subseteq About(i)
  BY DEF About, TimerMoves
<1>3. \A r \in live' : Current(i, r) /\ Found(i, r) => Found(i, r)'
  <2>1. \A u \in Threads : at[u] \in Holding => at'[u] \in Holding /\ armed'[u] = armed[u]
    BY <1>1 DEF TimerMoves, Holding
  <2> QED  BY <2>1 DEF Found
<1>4. Due(i)' => Due(i)
  BY DEF Due, On, There, TimerMoves
<1>5. Promised(i) /\ Due(i)' => Promised(i)'
  <2>1. Waiting(i) => Waiting(i)' \/ Starting(i)'
    <3>1. ASSUME NEW r \in live, Current(i, r), \A t \in Threads : at[t] = "drop" => armed[t] # r
          PROVE  Waiting(i)' \/ Starting(i)'
      <4>1. Current(i, r)'
        BY <3>1 DEF Current
      <4>2. \A t \in Threads : at'[t] = "drop" => armed'[t] # r
        BY <1>1, <3>1 DEF TimerMoves
      <4> QED  BY <3>1, <4>1, <4>2 DEF Waiting
    <3> QED  BY <3>1 DEF Waiting
  <2>2. \A u \in Threads : Owes(u, i) => Owes(u, i)'
    BY <1>1 DEF TimerMoves, Owes, Once, Carrying
  <2>4. Commanded(i) => Commanded(i)'
    BY <1>0, <1>1 DEF Commanded, TimerMoves, command
  <2> QED  BY <2>1, <2>2, <2>4 DEF Promised
<1>6. at'["ui"] = "unschedule" => at["ui"] = "unschedule" /\ toCancel' = toCancel
  BY <1>0, <1>1 DEF TimerMoves, command
<1> QED  BY <1>0, <1>1, <1>2, <1>3, <1>4, <1>5, <1>6, ArmedStays DEF TimerMoves

(* A task that starts is about to fire.                                     *)
LEMMA StartStarts ==
  ASSUME EngineInv, EngineInv', ArmInv, NumberedKept, StartTask
  PROVE  ArmInv'
<1>0. /\ at \in [Threads -> UiSteps \union TimerSteps \union ExecutionSteps]
      /\ armed \in [Threads -> Task \union {NoTask}]
      /\ TaskTypes /\ TaskPlaces /\ "timer" \in Threads /\ "ui" \in Threads
  BY TimerFacts
<1>1. PICK task1 \in live : live' = live \ {task1} /\ armed' = [armed EXCEPT !["timer"] = task1]
  BY DEF StartTask
<1>2. armed'["timer"] = task1 /\ task1 \in Task /\ at'["timer"] = "fire" /\ at["timer"] = "idle"
  BY <1>0, <1>1 DEF StartTask, Goto, TaskTypes
<1>3. /\ TimerMoves("fire")
      /\ UNCHANGED <<automation, generation, task, before, changed, operation, toCancel, toArm>>
  BY <1>0, <1>1, <1>2 DEF StartTask, TimerMoves, ghosts, entries, command
<1>4. TaskTypes'
  <2>1. IsFiniteSet(live')
    BY <1>0, <1>1, FS_RemoveElement DEF TaskTypes
  <2> QED  BY <1>0, <1>1, <1>2, <1>3, <2>1 DEF TaskTypes
<1>5. up /\ up' = up
  BY <1>0, <1>1 DEF TaskPlaces, StartTask
<1>6. TaskShape'
  BY <1>1, <1>2, <1>3, <1>4, <1>5, TimerShape
<1>7. ASSUME NEW i \in Ids PROVE ArmedOf(i)'
  <2>1. at'["ui"] = at["ui"]
    BY <1>0 DEF StartTask, Goto
  <2>2. Entry(i)' = Entry(i) /\ Generation(i)' = Generation(i) /\ Recorded(i)' = Recorded(i)
    BY <1>3, <2>1 DEF Entry, Generation, Recorded, Hidden
  <2>3. \A r \in live \ live' : Current(i, r) => Starting(i)'
    BY <1>1, <1>2, <2>2 DEF Starting, Current
  <2>4. ~Starting(i)
    BY <1>2 DEF Starting
  <2> QED  BY <1>3, <1>4, <2>2, <2>3, <2>4, TimerStays
<1> QED  BY <1>6, <1>7 DEF ArmInv

(* A task that fires nothing was not that of its automation.                *)
LEMMA StaleIsDropped ==
  ASSUME EngineInv, EngineInv', ArmInv, NumberedKept, FireNothing
  PROVE  ArmInv'
<1>0. /\ at \in [Threads -> UiSteps \union TimerSteps \union ExecutionSteps]
      /\ armed \in [Threads -> Task \union {NoTask}] /\ automation \in [Ids -> Automation]
      /\ TaskTypes /\ TaskPlaces /\ "timer" \in Threads /\ "ui" \in Threads /\ at["ui"] # "save"
  BY TimerFacts DEF FireNothing
<1>1. /\ TimerMoves("idle")
      /\ UNCHANGED <<live, automation, generation, task, before, changed, operation, toCancel, toArm>>
  BY <1>0 DEF FireNothing, TimerMoves, ghosts, entries, command
<1>2. armed'["timer"] = NoTask /\ armed["timer"] \in Task /\ NoTask \notin Task
  BY <1>0 DEF FireNothing, TaskPlaces, Task, NoTask
<1>3. TaskTypes'
  BY <1>0, <1>1 DEF TaskTypes, FireNothing
<1>4. up
  BY <1>0, <1>2 DEF TaskPlaces
<1>5. TaskShape'
  BY <1>1, <1>3, <1>4, TimerShape DEF FireNothing
<1>6. ASSUME NEW i \in Ids PROVE ArmedOf(i)'
  <2>1. at'["ui"] = at["ui"]
    BY <1>0 DEF FireNothing, Goto
  <2>2. Entry(i)' = Entry(i) /\ Generation(i)' = Generation(i) /\ Recorded(i)' = Recorded(i)
    BY <1>1, <2>1 DEF Entry, Generation, Recorded, Hidden
  <2>3. Starting(i) => ~Due(i)'
    <3>1. Due(i)' => ~stopped /\ On(i)
      BY <1>1, <2>2 DEF TimerMoves, Due, On, There
    <3>2. On(i) => i \in Enabled
      BY <1>0 DEF On, There, Entry, Hidden, Enabled, Present
    <3>3. Starting(i) => armed["timer"].id = i /\ armed["timer"].generation = generation[i]
      BY <1>0 DEF Starting, Current, Generation, Hidden
    <3> QED  BY <3>1, <3>2, <3>3 DEF FireNothing, MayFire
  <2> QED  BY <1>1, <1>3, <2>2, <2>3, TimerStays
<1> QED  BY <1>5, <1>6 DEF ArmInv

(* A recurring automation that fires is armed again when its execution ends.  *)
LEMMA FireArms ==
  ASSUME EngineInv, EngineInv', ArmInv, NumberedKept, NEW resolved \in BOOLEAN, Fire(resolved)
  PROVE  ArmInv'
<1> DEFINE b(i) == [automation[i] EXCEPT !.attempt = 0, !.enabled = resolved]
<1>0. /\ at \in [Threads -> UiSteps \union TimerSteps \union ExecutionSteps]
      /\ armed \in [Threads -> Task \union {NoTask}] /\ automation \in [Ids -> Automation]
      /\ job \in [Threads -> Job]
      /\ TaskTypes /\ TaskPlaces /\ "timer" \in Threads /\ "ui" \in Threads /\ at["ui"] # "save"
      /\ \A i \in Ids : ArmedOf(i)
  BY TimerFacts DEF Fire
<1>1. PICK i0 \in Ids : i0 = armed["timer"].id
  BY <1>0 DEF Fire, TaskPlaces, Task
<1>2. /\ TimerMoves("preflight") /\ at["timer"] = "fire" /\ MayFire(armed["timer"])
      /\ UNCHANGED <<live, before, changed, operation, toCancel, toArm>>
      /\ armed' = [armed EXCEPT !["timer"] = NoTask]
  BY <1>0 DEF Fire, TimerMoves, ghosts, command
<1>3. armed["timer"] \in Task \ live /\ NoTask \notin Task
  BY <1>0, <1>2 DEF TaskPlaces, Task, NoTask
<1>4. up /\ up' = up
  BY <1>0, <1>3 DEF TaskPlaces, Fire
<1>5. /\ \A i \in Ids \ {i0} : automation'[i] = automation[i] /\ generation'[i] = generation[i]
           /\ task'[i] = task[i]
      /\ task'[i0] = NoTask
      /\ \/ automation'[i0] = None
         \/ /\ Recurring(automation[i0]) /\ automation'[i0] = b(i0)
            /\ generation'[i0] = generation[i0]
  <2>1. CASE ErasedByFiring(automation[i0])
    <3>1. Erase({i0})
      BY <1>1, <2>1 DEF Fire
    <3> QED  BY <3>1 DEF Erase
  <2>2. CASE ~ErasedByFiring(automation[i0])
    <3>1. /\ automation' = [automation EXCEPT ![i0] = b(i0)]
          /\ task' = [task EXCEPT ![i0] = NoTask] /\ UNCHANGED generation
      BY <1>1, <2>2 DEF Fire
    <3> QED  BY <1>0, <2>2, <3>1 DEF ErasedByFiring, TaskTypes
  <2> QED  BY <2>1, <2>2
<1>6. /\ generation' \in [Ids -> Nat] /\ task' \in [Ids -> Task \union {NoTask}]
  <2>1. CASE ErasedByFiring(automation[i0])
    <3>1. Erase({i0})
      BY <1>1, <2>1 DEF Fire
    <3> QED  BY <1>0, <3>1 DEF Erase, TaskTypes
  <2>2. CASE ~ErasedByFiring(automation[i0])
    <3>1. task' = [task EXCEPT ![i0] = NoTask] /\ UNCHANGED generation
      BY <1>1, <2>2 DEF Fire
    <3> QED  BY <1>0, <3>1 DEF TaskTypes
  <2> QED  BY <2>1, <2>2
<1>7. TaskTypes'
  <2>1. \A i \in Ids : task'[i] # NoTask => task'[i].id = i
    BY <1>0, <1>5 DEF TaskTypes
  <2> QED  BY <1>0, <1>2, <1>6, <2>1 DEF TaskTypes
<1>8. TaskShape' /\ \A i \in Ids : About(i)' \subseteq About(i)
  BY <1>0, <1>2, <1>4, <1>7, TimerShape
<1>9. at'["timer"] = "preflight" /\ at'["ui"] = at["ui"] /\ armed'["timer"] = NoTask
  BY <1>0, <1>2 DEF TimerMoves, Goto
<1>10. \A i \in Ids : ~Hidden(i) /\ ~Hidden(i)'
  BY <1>0, <1>9 DEF Hidden
<1>11. ASSUME NEW i \in Ids, i # i0 PROVE ArmedOf(i)'
  <2>1. Entry(i)' = Entry(i) /\ Generation(i)' = Generation(i) /\ Recorded(i)' = Recorded(i)
    BY <1>5, <1>10, <1>11 DEF Entry, Generation, Recorded
  <2>2. ~Starting(i)
    BY <1>1, <1>11 DEF Starting, Current
  <2> QED  BY <1>2, <1>5, <1>7, <1>11, <2>1, <2>2, TimerStays
<1>12. ArmedOf(i0)'
  <2>1. SUFFICES ASSUME i0 \notin rewound', There(i0)' PROVE ArmedOf(i0)'
    BY DEF ArmedOf, TasksOf, ParkedOf, On, Due
  <2>2. Recurring(automation[i0]) /\ automation'[i0] = b(i0) /\ generation'[i0] = generation[i0]
    BY <1>5, <1>10, <2>1 DEF There, Entry, None
  <2>3. TasksOf(i0)
    BY <1>0, <1>2, <2>1 DEF ArmedOf, TimerMoves
  <2>4. There(i0) /\ Generation(i0)' = Generation(i0) /\ Generation(i0) = generation[i0]
    BY <1>1, <1>2, <1>10, <2>2 DEF There, Entry, Generation, MayFire, Enabled, Present
  <2>5. TasksOf(i0)'
    <3>1. armed["timer"] \in About(i0) /\ Current(i0, armed["timer"])
      BY <1>0, <1>1, <1>2, <1>3, <2>4 DEF About, Current, MayFire
    <3>2. ASSUME NEW r \in live', Current(i0, r) PROVE FALSE
      <4>1. r \in live /\ r \in About(i0)
        BY <1>0, <1>2, <3>2, LiveIsAbout DEF Current
      <4> QED  BY <1>3, <2>3, <2>4, <3>1, <3>2, <4>1 DEF TasksOf
    <3>3. at'["ui"] = "unschedule" => at["ui"] = "unschedule" /\ toCancel' = toCancel
      BY <1>2, <1>9
    <3> QED  BY <1>0, <1>2, <1>7, <1>8, <2>3, <2>4, <3>2, <3>3, TasksStay
  <2>6. ParkedOf(i0)'
    BY <1>5, <1>10 DEF ParkedOf, Recorded
  <2>7. Promised(i0)'
    <3>1. job'["timer"].id = i0 /\ job'["timer"].fired = automation[i0]
      <4>1. job' = [job EXCEPT !["timer"] = [NoJob EXCEPT !.id = i0, !.fired = automation[i0]]]
        BY <1>1 DEF Fire
      <4> QED  BY <1>0, <4>1 DEF NoJob
    <3>2. Owes("timer", i0)'
      BY <1>9, <2>2, <3>1, NamesDiffer DEF Owes, Carrying, Once
    <3> QED  BY <1>0, <3>2 DEF Promised
  <2> QED  BY <2>5, <2>6, <2>7 DEF ArmedOf
<1> QED  BY <1>8, <1>11, <1>12 DEF ArmInv

-----------------------------------------------------------------------------
(* arm_automation().                                                          *)

(* Who arms is nobody else.                                                 *)
LEMMA ArmingFacts ==
  ASSUME EngineInv, ArmInv, NEW t \in Threads, at[t] \in Arming
  PROVE  /\ job \in [Threads -> Job] /\ at \in [Threads -> UiSteps \union TimerSteps \union ExecutionSteps]
         /\ automation \in [Ids -> Automation] /\ armed \in [Threads -> Task \union {NoTask}]
         /\ "timer" \in Threads /\ "ui" \in Threads
         /\ TaskTypes /\ TaskPlaces /\ TasksNumbered /\ SaveShape /\ \A i \in Ids : ArmedOf(i)
         /\ up /\ job[t].id \in Ids /\ (t # "ui" => t \in Workers)
         /\ at[t] \in Holding => armed[t] \in Task /\ armed[t].id = job[t].id
<1>1. /\ job \in [Threads -> Job] /\ at \in [Threads -> UiSteps \union TimerSteps \union ExecutionSteps]
      /\ automation \in [Ids -> Automation] /\ armed \in [Threads -> Task \union {NoTask}]
      /\ "timer" \in Threads /\ "ui" \in Threads
      /\ TaskTypes /\ TaskPlaces /\ TasksNumbered /\ SaveShape /\ \A i \in Ids : ArmedOf(i)
  BY TimerFacts
<1>2. up
  BY NamesDiffer DEF EngineInv, EngineShape, Places, Arming, Holding
<1>3. job[t].id \in Ids
  BY <1>1 DEF Job
<1>4. at[t] \in Holding => armed[t] \in Task /\ armed[t].id = job[t].id
  BY <1>1 DEF TaskPlaces
<1> QED  BY <1>1, <1>2, <1>3, <1>4 DEF Workers

(* Who is armed is not hidden by a command that is being saved.               *)
LEMMA EnabledIsPlain ==
  ASSUME EngineInv, ArmInv, NEW i \in Enabled
  PROVE  i \in Ids /\ ~Hidden(i) /\ There(i) /\ On(i)
<1>1. i \in Ids /\ automation[i].kind # "none" /\ automation[i].enabled
  BY DEF Enabled, Present
<1>2. ~Hidden(i)
  BY <1>1 DEF Hidden, ArmInv, TaskShape, SaveShape, EngineInv, EngineShape, CommandShape
<1> QED  BY <1>1, <1>2 DEF There, On, Entry

EndsArm(t) ==
  /\ at[t] \in Arming /\ EndArm(t)
  /\ UNCHANGED <<up, stopped, automation, generation, available, command, rewound>>
  /\ live' \subseteq live /\ unarmed \subseteq unarmed'

(* What a thread that has done arming changes.                              *)
LEMMA EndArmMoves ==
  ASSUME EngineInv, ArmInv, NEW t \in Threads, EndsArm(t)
  PROVE  /\ at'[t] = AfterArm(t) /\ \A u \in Threads \ {t} : at'[u] = at[u] /\ armed'[u] = armed[u]
         /\ armed'[t] = NoTask /\ \A u \in Threads \ {"ui"} : job'[u] = job[u]
         /\ t # "ui" => job' = job /\ at'["ui"] = at["ui"] /\ at'[t] = "report"
         /\ t = "ui" => at'["ui"] = IF toArm # {} THEN "next" ELSE "idle"
         /\ \A i \in Ids : About(i)' \subseteq About(i) /\ Hidden(i)' = Hidden(i)
<1>1. /\ job \in [Threads -> Job] /\ at \in [Threads -> UiSteps \union TimerSteps \union ExecutionSteps]
      /\ armed \in [Threads -> Task \union {NoTask}] /\ "ui" \in Threads
  BY ArmingFacts DEF EndsArm
<1>2. /\ at'[t] = AfterArm(t) /\ \A u \in Threads \ {t} : at'[u] = at[u] /\ armed'[u] = armed[u]
      /\ armed'[t] = NoTask /\ \A u \in Threads \ {"ui"} : job'[u] = job[u]
  BY <1>1 DEF EndsArm, EndArm, Goto
<1>3. t # "ui" => job' = job /\ at'["ui"] = at["ui"] /\ at'[t] = "report"
  BY <1>1, <1>2 DEF EndsArm, EndArm, AfterArm
<1>4. t = "ui" => at'["ui"] = IF toArm # {} THEN "next" ELSE "idle"
  BY <1>2 DEF AfterArm
<1>5. \A i \in Ids : About(i)' \subseteq About(i)
  BY <1>2 DEF About, EndsArm
<1>6. \A i \in Ids : Hidden(i)' = Hidden(i)
  BY <1>1, <1>3, <1>4 DEF Hidden, EndsArm, command, Arming, Holding
<1> QED  BY <1>2, <1>3, <1>4, <1>5, <1>6

(* The shape, when a thread has done arming.                                *)
LEMMA EndArmShape ==
  ASSUME EngineInv, EngineInv', ArmInv, NumberedKept, NEW t \in Threads, EndsArm(t), TaskTypes'
  PROVE  TaskShape'
<1>0. /\ TaskTypes /\ TaskPlaces /\ TasksNumbered /\ SaveShape /\ EngineTypes' /\ up
      /\ "ui" \in Threads /\ "timer" \in Threads
  BY ArmingFacts DEF EndsArm, EngineInv, EngineShape
<1>1. /\ at'[t] = AfterArm(t) /\ \A u \in Threads \ {t} : at'[u] = at[u] /\ armed'[u] = armed[u]
      /\ armed'[t] = NoTask /\ \A u \in Threads \ {"ui"} : job'[u] = job[u]
      /\ t # "ui" => job' = job /\ at'["ui"] = at["ui"] /\ at'[t] = "report"
      /\ t = "ui" => at'["ui"] = IF toArm # {} THEN "next" ELSE "idle"
      /\ \A i \in Ids : About(i)' \subseteq About(i) /\ Hidden(i)' = Hidden(i)
  BY EndArmMoves
<1>2. at'[t] \in {"report", "next", "idle"}
  BY <1>1
<1>3. TasksNumbered'
  <2>1. \A u \in Workers : at'[u] \in Arming \union {"persist"} =>
          at[u] \in Arming \union {"persist"} /\ job'[u].id = job[u].id
    BY <1>1, <1>2 DEF Arming, Holding, Workers
  <2> QED  BY <1>0, <1>1, <2>1, TasksNumberedStay
<1>4. TaskPlaces'
  <2>1. \A u \in Threads : at'[u] \in Holding \union {"fire"} =>
          u # t /\ at'[u] = at[u] /\ armed'[u] = armed[u] /\ job'[u] = job[u]
    BY <1>1, <1>2 DEF Holding
  <2>2. /\ \A u \in Threads : at'[u] \in Holding => armed'[u] \in Task /\ armed'[u].id = job'[u].id
        /\ \A v, u \in Threads :
             at'[v] \in Holding /\ at'[u] \in Holding /\ armed'[v] = armed'[u] => v = u
    BY <1>0, <2>1 DEF TaskPlaces
  <2>3. at'["timer"] = "fire" => armed'["timer"] \in Task \ live'
    BY <1>0, <2>1 DEF TaskPlaces, EndsArm
  <2>4. toArm' # {} => at'["ui"] \in {"unschedule", "next"} \union Arming
    BY <1>0, <1>1 DEF TaskPlaces, EndsArm, command
  <2>5. at'["ui"] = "unschedule" /\ operation' = "stop" => toArm' = {}
    BY <1>0, <1>1 DEF TaskPlaces, EndsArm, command
  <2> QED  BY <1>0, <2>2, <2>3, <2>4, <2>5 DEF TaskPlaces, EndsArm
<1>5. SaveShape'
  <2>1. at'["ui"] = "save" => at["ui"] = "save" /\ job' = job
    BY <1>1
  <2> QED  BY <1>0, <1>1, <2>1 DEF SaveShape, EndsArm, command, Hidden
<1> QED  BY <1>3, <1>4, <1>5 DEF TaskShape

(* What a thread that has done arming leaves of the other automations.      *)
LEMMA EndArmStays ==
  ASSUME EngineInv, ArmInv, NEW t \in Threads, EndsArm(t), TaskTypes', NEW i \in Ids,
         task'[i] = task[i], i \in overtaken' <=> i \in overtaken,
         at[t] \in Holding => armed[t] \notin live' \/ armed[t].id # i,
         live' = live \/ (at[t] = "drop" /\ live' = live \ {armed[t]}),
         Owes(t, i) => ~Due(i)'
  PROVE  ArmedOf(i)'
<1>0. TaskTypes /\ ArmedOf(i) /\ "timer" \in Threads /\ "ui" \in Threads
  BY ArmingFacts DEF EndsArm
<1>1. /\ at'[t] = AfterArm(t) /\ \A u \in Threads \ {t} : at'[u] = at[u] /\ armed'[u] = armed[u]
      /\ armed'[t] = NoTask /\ \A u \in Threads \ {"ui"} : job'[u] = job[u]
      /\ t # "ui" => job' = job /\ at'["ui"] = at["ui"] /\ at'[t] = "report"
      /\ t = "ui" => at'["ui"] = IF toArm # {} THEN "next" ELSE "idle"
      /\ About(i)' \subseteq About(i) /\ Hidden(i)' = Hidden(i)
  BY EndArmMoves
<1>2. Entry(i)' = Entry(i) /\ Generation(i)' = Generation(i) /\ Recorded(i)' = Recorded(i)
  BY <1>1 DEF EndsArm, command, Entry, Generation, Recorded
<1>3. \A r \in live' : Current(i, r) /\ Found(i, r) => Found(i, r)'
  <2>1. ASSUME NEW r \in live', Current(i, r), NEW u \in Threads, at[u] \in Holding, armed[u] = r
        PROVE  at'[u] \in Holding /\ armed'[u] = r
    BY <1>1, <2>1 DEF Current
  <2> QED  BY <1>2, <2>1 DEF Found
<1>4. Due(i)' => Due(i)
  BY <1>2 DEF Due, On, There, EndsArm
<1>5. Promised(i) /\ Due(i)' => Promised(i)'
  <2>1. Waiting(i) => Waiting(i)'
    <3>1. ASSUME NEW r \in live, Current(i, r), \A u \in Threads : at[u] = "drop" => armed[u] # r
          PROVE  Waiting(i)'
      <4>1. Current(i, r)' /\ r \in live'
        BY <1>2, <3>1 DEF Current
      <4>2. \A u \in Threads : at'[u] = "drop" => armed'[u] # r
        BY <1>1, <3>1
      <4> QED  BY <4>1, <4>2 DEF Waiting
    <3> QED  BY <3>1 DEF Waiting
  <2>2. Starting(i) => Starting(i)'
    BY <1>0, <1>1, <1>2 DEF Starting, Current, EndsArm, Arming, Holding
  <2>3. \A u \in Threads \ {t} : Owes(u, i) => Owes(u, i)'
    BY <1>1 DEF Owes, Once
  <2>4. Commanded(i) => Commanded(i)'
    <3>1. CASE t = "ui"
      BY <1>1, <3>1 DEF Commanded, EndsArm, command, Arming, Holding
    <3>2. CASE t # "ui"
      BY <1>1, <3>2 DEF Commanded, EndsArm, command
    <3> QED  BY <3>1, <3>2
  <2> QED  BY <2>1, <2>2, <2>3, <2>4 DEF Promised
<1>6. /\ at'["ui"] = "unschedule" => at["ui"] = "unschedule" /\ toCancel' = toCancel
      /\ at["ui"] = "reconcile" => at'["ui"] = "reconcile"
  BY <1>1 DEF EndsArm, command, Arming, Holding
<1> QED  BY <1>0, <1>1, <1>2, <1>3, <1>4, <1>5, <1>6, ArmedStays DEF EndsArm

(* A task that is dropped was not promised.                                 *)
LEMMA DropIsArmed ==
  ASSUME EngineInv, EngineInv', ArmInv, NumberedKept, NEW t \in Threads, ArmDrop(t)
  PROVE  ArmInv'
<1>0. TaskTypes /\ TaskPlaces
  BY DEF ArmInv, TaskShape
<1>1. EndsArm(t) /\ live' = live \ {armed[t]} /\ at[t] = "drop"
  BY DEF ArmDrop, EndsArm, entries, ghosts, Arming, Holding
<1>2. /\ at'[t] = AfterArm(t) /\ \A u \in Threads \ {t} : armed'[u] = armed[u]
      /\ armed'[t] = NoTask
  BY <1>1, EndArmMoves
<1>3. TaskTypes'
  <2>1. IsFiniteSet(live')
    BY <1>0, <1>1, FS_RemoveElement DEF TaskTypes
  <2>2. armed' \in [Threads -> Task \union {NoTask}]
    BY <1>0 DEF ArmDrop, EndArm, TaskTypes
  <2> QED  BY <1>0, <1>1, <2>1, <2>2 DEF TaskTypes, ArmDrop, entries, command
<1>4. TaskShape'
  BY <1>1, <1>3, EndArmShape
<1>5. ASSUME NEW i \in Ids PROVE ArmedOf(i)'
  <2>1. ~Owes(t, i)
    BY <1>1 DEF Owes, Carrying
  <2>2. task'[i] = task[i] /\ overtaken' = overtaken
    BY DEF ArmDrop, entries, ghosts
  <2> QED  BY <1>1, <1>3, <2>1, <2>2, EndArmStays
<1> QED  BY <1>4, <1>5 DEF ArmInv

(* A task that is on record is that of the automation.                        *)
LEMMA RecordArms ==
  ASSUME EngineInv, EngineInv', ArmInv, NumberedKept, NEW t \in Threads, ArmRecord(t), KeepTask(t)
  PROVE  ArmInv'
<1> USE DEF Holding, Arming
<1>0. /\ at[t] = "record" /\ TaskTypes /\ TaskPlaces /\ TasksNumbered /\ SaveShape
      /\ armed[t] \in Task /\ armed[t].id = job[t].id /\ job[t].id \in Ids
      /\ \A i \in Ids : ArmedOf(i)
  BY ArmingFacts DEF ArmRecord
<1>1. PICK i0 \in Ids : i0 = job[t].id
  BY <1>0
<1>2. EndsArm(t) /\ task' = [task EXCEPT ![i0] = armed[t]] /\ live' = live
      /\ overtaken' = IF i0 \in available /\ armed[t] \in live
                        THEN overtaken \ {i0} ELSE overtaken \union {i0}
  BY <1>0, <1>1 DEF ArmRecord, EndsArm, entries, ghosts
<1>3. /\ at'[t] = AfterArm(t) /\ \A u \in Threads \ {t} : at'[u] = at[u] /\ armed'[u] = armed[u]
      /\ armed'[t] = NoTask /\ About(i0)' \subseteq About(i0) /\ Hidden(i0)' = Hidden(i0)
  BY <1>2, EndArmMoves
<1>4. TaskTypes'
  <2>1. armed' \in [Threads -> Task \union {NoTask}]
    BY <1>0, <1>2 DEF EndsArm, EndArm, TaskTypes
  <2>2. task' \in [Ids -> Task \union {NoTask}] /\ \A i \in Ids : task'[i] # NoTask => task'[i].id = i
    BY <1>0, <1>1, <1>2 DEF TaskTypes
  <2> QED  BY <1>0, <1>2, <2>1, <2>2 DEF TaskTypes, EndsArm, command
<1>5. TaskShape'
  BY <1>2, <1>4, EndArmShape
<1>6. ASSUME NEW i \in Ids, i # i0 PROVE ArmedOf(i)'
  <2>1. ~Owes(t, i) /\ armed[t].id # i
    BY <1>0, <1>1, <1>6 DEF Owes
  <2>2. task'[i] = task[i] /\ (i \in overtaken' <=> i \in overtaken)
    BY <1>2, <1>6
  <2> QED  BY <1>2, <1>4, <2>1, <2>2, EndArmStays
<1>7. ArmedOf(i0)'
  <2>1. SUFFICES ASSUME i0 \notin rewound' PROVE ArmedOf(i0)'
    BY DEF ArmedOf
  <2>2. TasksOf(i0)
    BY <1>0, <1>2, <2>1 DEF ArmedOf, EndsArm
  <2>3. /\ ~Hidden(i0) /\ There(i0) /\ Generation(i0) = armed[t].generation
        /\ armed[t] \in About(i0) /\ Current(i0, armed[t])
    <3>1. ~Hidden(i0) /\ There(i0)
      BY <1>1, EnabledIsPlain DEF KeepTask
    <3>2. armed[t] # NoTask
      BY <1>0 DEF Task, NoTask
    <3> QED  BY <1>0, <1>1, <3>1, <3>2 DEF KeepTask, Generation, Current, About
  <2>4. /\ Entry(i0)' = Entry(i0) /\ Generation(i0)' = Generation(i0) /\ Recorded(i0)' = armed[t]
    BY <1>0, <1>2, <1>3, <2>3 DEF EndsArm, Entry, Generation, Recorded, TaskTypes
  <2>5. TasksOf(i0)'
    <3>1. ASSUME NEW r \in live', Current(i0, r) PROVE Found(i0, r)'
      <4>1. r \in About(i0)
        BY <1>0, <1>2, <3>1, LiveIsAbout DEF Current
      <4>2. r = armed[t]
        BY <2>2, <2>3, <3>1, <4>1 DEF TasksOf
      <4> QED  BY <2>4, <4>2 DEF Found
    <3>2. at'["ui"] = "unschedule" => at["ui"] = "unschedule" /\ toCancel' = toCancel
      BY <1>2, EndArmMoves DEF EndsArm, command
    <3> QED  BY <1>0, <1>2, <1>3, <1>4, <2>2, <2>3, <2>4, <3>1, <3>2, TasksStay
  <2>6. ParkedOf(i0)'
    BY <1>2 DEF ParkedOf, EndsArm
  <2>7. Due(i0)' => Waiting(i0)'
    <3>1. Due(i0)' => armed[t] \in live'
      BY <1>2 DEF Due
    <3>2. \A u \in Threads : at'[u] = "drop" => armed'[u] # armed[t]
      <4>1. at'[t] # "drop"
        BY <1>3 DEF AfterArm
      <4>2. \A u \in Threads \ {t} : at[u] = "drop" => armed[u] # armed[t]
        BY <1>0 DEF TaskPlaces
      <4> QED  BY <1>3, <4>1, <4>2
    <3>3. \A r \in live' : r = armed[t] => Current(i0, r)'
      BY <2>3, <2>4 DEF Current
    <3> QED  BY <3>1, <3>2, <3>3 DEF Waiting
  <2> QED  BY <2>5, <2>6, <2>7 DEF ArmedOf, Promised
<1> QED  BY <1>5, <1>6, <1>7 DEF ArmInv

(* A task is dropped when it is that of the automation no longer.             *)
LEMMA RecordDrops ==
  ASSUME EngineInv, EngineInv', ArmInv, NumberedKept, NEW t \in Threads, ArmRecord(t), ~KeepTask(t)
  PROVE  ArmInv'
<1> USE NamesDiffer DEF Holding, Arming
<1>0. /\ at[t] = "record" /\ TaskTypes /\ TaskPlaces /\ TasksNumbered /\ SaveShape
      /\ armed[t] \in Task /\ armed[t].id = job[t].id /\ job[t].id \in Ids
      /\ at \in [Threads -> UiSteps \union TimerSteps \union ExecutionSteps]
      /\ (\A i \in Ids : ArmedOf(i)) /\ EngineTypes' /\ "ui" \in Threads /\ "timer" \in Threads
  BY ArmingFacts DEF ArmRecord, EngineInv, EngineShape
<1>1. /\ UNCHANGED <<up, stopped, automation, generation, task, available, live, job, armed, operation,
                     changed, before, toCancel, toArm, overtaken, rewound>>
      /\ Goto(t, "drop") /\ unarmed' = unarmed \union Overlooked(t)
  BY DEF ArmRecord, command
<1>2. at'[t] = "drop" /\ \A u \in Threads \ {t} : at'[u] = at[u]
  BY <1>0, <1>1 DEF Goto
<1>3. \A i \in Ids : /\ About(i)' = About(i) /\ Hidden(i)' = Hidden(i) /\ Entry(i)' = Entry(i)
                     /\ Generation(i)' = Generation(i) /\ Recorded(i)' = Recorded(i)
  <2>1. \A i \in Ids : Hidden(i)' = Hidden(i) /\ About(i)' = About(i)
    BY <1>0, <1>1, <1>2 DEF Hidden, About
  <2> QED  BY <1>1, <2>1 DEF Entry, Generation, Recorded
<1>4. TaskTypes'
  BY <1>0, <1>1 DEF TaskTypes
<1>5. TasksNumbered'
  <2>1. \A u \in Workers : at'[u] \in Arming \union {"persist"} =>
          at[u] \in Arming \union {"persist"} /\ job'[u].id = job[u].id
    BY <1>0, <1>1, <1>2
  <2> QED  BY <1>0, <1>3, <2>1, TasksNumberedStay
<1>6. TaskPlaces'
  <2>1. \A u \in Threads : at'[u] \in Holding <=> at[u] \in Holding
    BY <1>0, <1>2
  <2>2. /\ \A u \in Threads : at'[u] \in Holding => armed'[u] \in Task /\ armed'[u].id = job'[u].id
        /\ \A v, u \in Threads :
             at'[v] \in Holding /\ at'[u] \in Holding /\ armed'[v] = armed'[u] => v = u
    BY <1>0, <1>1, <2>1 DEF TaskPlaces
  <2> QED  BY <1>0, <1>1, <1>2, <2>2 DEF TaskPlaces
<1>7. SaveShape'
  <2>1. at'["ui"] = "save" => at["ui"] = "save"
    BY <1>2
  <2> QED  BY <1>0, <1>1, <2>1 DEF SaveShape, Hidden
<1>8. ASSUME NEW i \in Ids PROVE ArmedOf(i)'
  <2>1. \A r \in live' : Current(i, r) /\ Found(i, r) => Found(i, r)'
    <3>1. \A u \in Threads : at[u] \in Holding => at'[u] \in Holding /\ armed'[u] = armed[u]
      BY <1>1, <1>2
    <3> QED  BY <1>3, <3>1 DEF Found
  <2>2. Due(i)' => Due(i)
    BY <1>1, <1>3 DEF Due, On, There
  <2>3. Promised(i) /\ Due(i)' => Promised(i)'
    <3>1. Waiting(i) /\ Due(i)' => Waiting(i)'
      <4>1. ASSUME NEW r \in live, Current(i, r), \A u \in Threads : at[u] = "drop" => armed[u] # r,
                   Due(i)'
            PROVE  Waiting(i)'
        <5>1. r # armed[t]
          <6>1. SUFFICES ASSUME r = armed[t] PROVE FALSE
            OBVIOUS
          <6>2. i = job[t].id /\ ~stopped /\ On(i)
            BY <1>0, <1>1, <1>3, <2>2, <4>1, <6>1 DEF Current, Due
          <6>3. Hidden(i)
            BY <4>1, <6>1, <6>2 DEF KeepTask, Current, Generation, On, There, Entry, Enabled, Present
          <6>4. i \in unarmed'
            BY <1>0, <1>1, <6>2, <6>3 DEF Overlooked, Hidden
          <6> QED  BY <4>1, <6>4 DEF Due
        <5>2. \A u \in Threads : at'[u] = "drop" => armed'[u] # r
          BY <1>1, <1>2, <4>1, <5>1
        <5>3. r \in live' /\ Current(i, r)'
          BY <1>1, <1>3, <4>1 DEF Current
        <5> QED  BY <5>2, <5>3 DEF Waiting
      <4> QED  BY <4>1 DEF Waiting
    <3>2. Starting(i) => Starting(i)'
      BY <1>0, <1>1, <1>2, <1>3 DEF Starting, Current
    <3>3. \A u \in Threads : Owes(u, i) => Owes(u, i)'
      BY <1>0, <1>1, <1>2 DEF Owes, Once, Carrying
    <3>4. Commanded(i) => Commanded(i)'
      BY <1>0, <1>1, <1>2 DEF Commanded
    <3> QED  BY <3>1, <3>2, <3>3, <3>4 DEF Promised
  <2>4. /\ at'["ui"] = "unschedule" => at["ui"] = "unschedule" /\ toCancel' = toCancel
        /\ at["ui"] = "reconcile" => at'["ui"] = "reconcile"
    BY <1>0, <1>1, <1>2
  <2> QED  BY <1>0, <1>1, <1>3, <1>4, <2>1, <2>2, <2>3, <2>4, ArmedStays
<1> QED  BY <1>4, <1>5, <1>6, <1>7, <1>8 DEF ArmInv, TaskShape

(* A thread finds nothing to arm.                                           *)
LEMMA BeginPasses ==
  ASSUME EngineInv, EngineInv', ArmInv, NumberedKept, NEW t \in Threads, ArmBegin(t),
         stopped \/ job[t].id \notin Enabled \intersect available
  PROVE  ArmInv'
<1>0. /\ at[t] = "arm" /\ TaskTypes /\ TaskPlaces /\ job[t].id \in Ids
  BY ArmingFacts DEF ArmBegin, Arming
<1>1. EndsArm(t) /\ live' = live /\ task' = task /\ overtaken' = overtaken
      /\ unarmed' = unarmed \union Overlooked(t)
  BY <1>0 DEF ArmBegin, EndsArm, Arming
<1>2. TaskTypes'
  <2>1. armed' \in [Threads -> Task \union {NoTask}]
    BY <1>0, <1>1 DEF EndsArm, EndArm, TaskTypes
  <2> QED  BY <1>0, <1>1, <2>1 DEF TaskTypes, EndsArm, command
<1>3. TaskShape'
  BY <1>1, <1>2, EndArmShape
<1>4. \A i \in Ids : Hidden(i)' = Hidden(i)
  BY <1>1, EndArmMoves
<1>5. ASSUME NEW i \in Ids PROVE ArmedOf(i)'
  <2>1. Owes(t, i) => ~Due(i)'
    <3>1. SUFFICES ASSUME Owes(t, i), Due(i)' PROVE FALSE
      OBVIOUS
    <3>2. job[t].id = i /\ ~stopped /\ i \in available /\ i \notin unarmed'
      BY <1>1, <3>1 DEF Owes, Due, EndsArm
    <3>3. On(i)
      BY <1>1, <1>4, <3>1 DEF Due, On, There, Entry, EndsArm, command
    <3>4. Hidden(i)
      BY <3>2, <3>3 DEF On, There, Entry, Enabled, Present
    <3>5. i \in Overlooked(t)
      BY <1>0, <3>2, <3>4 DEF Hidden, Overlooked
    <3> QED  BY <1>1, <3>2, <3>5
  <2>2. at[t] \notin Holding
    BY <1>0 DEF Holding
  <2> QED  BY <1>1, <1>2, <2>1, <2>2, EndArmStays
<1> QED  BY <1>3, <1>5 DEF ArmInv

(* A new task is of the next generation, and in the hands of who made it.     *)
LEMMA BeginArms ==
  ASSUME EngineInv, EngineInv', ArmInv, NumberedKept, NEW t \in Threads, ArmBegin(t),
         ~(stopped \/ job[t].id \notin Enabled \intersect available)
  PROVE  ArmInv'
<1> USE NamesDiffer DEF Holding, Arming
<1>0. /\ at[t] = "arm" /\ TaskTypes /\ TaskPlaces /\ TasksNumbered /\ SaveShape
      /\ job[t].id \in Ids /\ (\A i \in Ids : ArmedOf(i)) /\ EngineTypes'
      /\ at \in [Threads -> UiSteps \union TimerSteps \union ExecutionSteps]
      /\ armed \in [Threads -> Task \union {NoTask}] /\ up
      /\ "ui" \in Threads /\ "timer" \in Threads
  BY ArmingFacts DEF ArmBegin, EngineInv, EngineShape
<1>1. PICK i0 \in Ids : i0 = job[t].id
  BY <1>0
<1>2. PICK new \in Task \ Known : new = NewTask(i0) /\ new.id = i0 /\ new.generation = generation[i0] + 1
  BY <1>0, NewTaskIsNew
<1>3. /\ generation' = [generation EXCEPT ![i0] = new.generation]
      /\ live' = live \union {new} /\ armed' = [armed EXCEPT ![t] = new] /\ Goto(t, "record")
      /\ UNCHANGED <<up, stopped, automation, task, available, job, operation, changed, before,
                     toCancel, toArm, unarmed, overtaken, rewound>>
  BY <1>1, <1>2 DEF ArmBegin, command, ghosts
<1>4. /\ at'[t] = "record" /\ armed'[t] = new
      /\ \A u \in Threads \ {t} : at'[u] = at[u] /\ armed'[u] = armed[u] /\ armed[u] # new
      /\ new \notin live \union toCancel /\ new # NoTask
  BY <1>0, <1>2, <1>3 DEF Goto, Known, Task, NoTask
<1>5. ~Hidden(i0) /\ There(i0) /\ On(i0) /\ i0 \in available
  BY <1>1, EnabledIsPlain
<1>6. \A i \in Ids : /\ Hidden(i)' = Hidden(i) /\ Entry(i)' = Entry(i) /\ Recorded(i)' = Recorded(i)
                     /\ About(i)' \subseteq About(i) \union {new}
                     /\ i # i0 => About(i)' \subseteq About(i)
                     /\ i # i0 => Generation(i)' = Generation(i)
  <2>1. \A i \in Ids : Hidden(i)' = Hidden(i)
    BY <1>0, <1>3, <1>4 DEF Hidden
  <2>2. \A i \in Ids : Entry(i)' = Entry(i) /\ Recorded(i)' = Recorded(i)
    BY <1>3, <2>1 DEF Entry, Recorded
  <2>3. \A i \in Ids : i # i0 => Generation(i)' = Generation(i)
    BY <1>0, <1>3, <2>1 DEF Generation, TaskTypes
  <2>4. \A i \in Ids : About(i)' \subseteq About(i) \union {new}
    BY <1>3, <1>4 DEF About
  <2>5. \A i \in Ids : i # i0 => About(i)' \subseteq About(i)
    BY <1>2, <2>4 DEF About
  <2> QED  BY <2>1, <2>2, <2>3, <2>4, <2>5
<1>7. generation[i0] \in Nat /\ Generation(i0) = generation[i0] /\ Generation(i0)' = generation[i0] + 1
  BY <1>0, <1>2, <1>3, <1>5, <1>6 DEF Generation, TaskTypes
<1>8. TaskTypes'
  <2>1. IsFiniteSet(live')
    BY <1>0, <1>3, FS_AddElement DEF TaskTypes
  <2>2. generation' \in [Ids -> Nat]
    BY <1>0, <1>2, <1>3, <1>7, SMT DEF TaskTypes
  <2>3. armed' \in [Threads -> Task \union {NoTask}]
    BY <1>0, <1>3
  <2> QED  BY <1>0, <1>3, <2>1, <2>2, <2>3 DEF TaskTypes
<1>9. TasksNumbered'
  <2>1. Numbered(i0)
    <3>1. CASE t \in Workers
      BY <1>0, <1>1, <3>1 DEF TasksNumbered
    <3>2. CASE t = "ui"
      <4>1. automation[i0].kind # "none"
        BY <1>1 DEF Enabled, Present
      <4>2. ~Adding(i0)
        BY <1>0, <3>2 DEF Adding
      <4> QED  BY <4>1, <4>2 DEF EngineInv, AutomationInv, NumberOf
    <3> QED  BY <3>1, <3>2
  <2>2. \A u \in Workers : at'[u] \in Arming \union {"persist"} =>
          at[u] \in Arming \union {"persist"} /\ job'[u].id = job[u].id
    BY <1>0, <1>3, <1>4
  <2>3. \A i \in Ids : About(i)' \subseteq About(i) \/ Numbered(i)
    BY <1>6, <2>1
  <2> QED  BY <1>0, <2>2, <2>3, TasksNumberedStay
<1>10. TaskPlaces'
  <2>1. \A u \in Threads : at'[u] \in Holding => armed'[u] \in Task /\ armed'[u].id = job'[u].id
    BY <1>0, <1>1, <1>2, <1>3, <1>4 DEF TaskPlaces
  <2>2. ASSUME NEW v \in Threads, NEW u \in Threads,
               at'[v] \in Holding, at'[u] \in Holding, armed'[v] = armed'[u]
        PROVE  v = u
    <3>1. CASE v = t \/ u = t
      BY <1>4, <2>2, <3>1
    <3>2. CASE v # t /\ u # t
      BY <1>0, <1>4, <2>2, <3>2 DEF TaskPlaces
    <3> QED  BY <3>1, <3>2
  <2>3. at'["timer"] = "fire" => armed'["timer"] \in Task \ live'
    BY <1>0, <1>3, <1>4 DEF TaskPlaces
  <2> QED  BY <1>0, <1>3, <1>4, <2>1, <2>2, <2>3 DEF TaskPlaces
<1>11. SaveShape'
  <2>1. at'["ui"] = "save" => at["ui"] = "save"
    BY <1>0, <1>4
  <2>2. at["ui"] = "save" => \A i \in changed : operation = "disable" => generation'[i] = generation[i]
    BY <1>0, <1>3, <1>5 DEF Hidden, TaskTypes
  <2>3. \A r : Hidden(r.id)' <=> Hidden(r.id)
    BY <1>0, <1>3, <1>4 DEF Hidden
  <2> QED  BY <1>0, <1>3, <2>1, <2>2, <2>3 DEF SaveShape
<1>12. ASSUME NEW i \in Ids, i # i0 PROVE ArmedOf(i)'
  <2>1. \A r \in live' : Current(i, r) /\ Found(i, r) => Found(i, r)'
    <3>1. \A u \in Threads : at[u] \in Holding => at'[u] \in Holding /\ armed'[u] = armed[u]
      BY <1>0, <1>4
    <3> QED  BY <1>6, <3>1 DEF Found
  <2>2. Due(i)' => Due(i)
    BY <1>3, <1>6 DEF Due, On, There
  <2>3. Promised(i) => Promised(i)'
    <3>1. Waiting(i) => Waiting(i)'
      <4>1. ASSUME NEW r \in live, Current(i, r), \A u \in Threads : at[u] = "drop" => armed[u] # r
            PROVE  Waiting(i)'
        <5>1. \A u \in Threads : at'[u] = "drop" => armed'[u] # r
          BY <1>4, <4>1
        <5>2. r \in live' /\ Current(i, r)'
          BY <1>3, <1>6, <1>12, <4>1 DEF Current
        <5> QED  BY <5>1, <5>2 DEF Waiting
      <4> QED  BY <4>1 DEF Waiting
    <3>2. Starting(i) => Starting(i)'
      BY <1>0, <1>4, <1>6, <1>12 DEF Starting, Current
    <3>3. \A u \in Threads : Owes(u, i) => Owes(u, i)'
      BY <1>0, <1>1, <1>3, <1>4, <1>12 DEF Owes, Once, Carrying
    <3>4. Commanded(i) => Commanded(i)'
      BY <1>0, <1>3, <1>4 DEF Commanded
    <3> QED  BY <3>1, <3>2, <3>3, <3>4 DEF Promised
  <2>4. /\ at'["ui"] = "unschedule" => at["ui"] = "unschedule" /\ toCancel' = toCancel
        /\ at["ui"] = "reconcile" => at'["ui"] = "reconcile"
    BY <1>0, <1>3, <1>4
  <2>5. \A r \in live' : r.id = i => r \in live
    BY <1>2, <1>3, <1>12
  <2> QED  BY <1>0, <1>3, <1>6, <1>8, <1>12, <2>1, <2>2, <2>3, <2>4, <2>5, ArmedStays
<1>13. ArmedOf(i0)'
  <2>1. SUFFICES ASSUME i0 \notin rewound' PROVE ArmedOf(i0)'
    BY DEF ArmedOf
  <2>2. TasksOf(i0)
    BY <1>0, <1>3, <2>1 DEF ArmedOf
  <2>3. \A r \in About(i0) : r.generation \in Nat /\ r.generation <= generation[i0]
    BY <1>0, <1>5, <1>7, <2>2 DEF TasksOf, About, TaskTypes, Task
  <2>4. \A r \in About(i0) : r.generation < Generation(i0)'
    BY <1>7, <2>3, SMT
  <2>5. TasksOf(i0)'
    <3>1. \A r \in About(i0)' : r.generation <= Generation(i0)'
      BY <1>2, <1>6, <1>7, <2>3, <2>4, SMT
    <3>2. \A r \in About(i0)' : Current(i0, r)' => r = new
      <4>1. \A r \in About(i0) : r.generation # Generation(i0)'
        BY <1>7, <2>3, <2>4, SMT
      <4> QED  BY <1>6, <4>1 DEF Current
    <3>3. \A r \in live' : Current(i0, r)' => r = new
      <4>1. \A r \in live' : r.id = i0 => r \in About(i0)'
        BY <1>8, <1>3 DEF TaskTypes, Task, NoTask, About
      <4> QED  BY <3>2, <4>1 DEF Current
    <3>4. Found(i0, new)'
      BY <1>4 DEF Found
    <3>5. \A r \in toCancel' \intersect live' : r.id = i0 => r.generation < Generation(i0)'
      <4>1. \A r \in toCancel' \intersect live' : r \in live
        BY <1>3, <1>4
      <4> QED  BY <1>0, <2>4, <4>1, LiveIsAbout
    <3> QED  BY <3>1, <3>2, <3>3, <3>4, <3>5 DEF TasksOf
  <2>6. ParkedOf(i0)'
    BY <1>3, <1>5 DEF ParkedOf
  <2>7. Waiting(i0)'
    <3>1. \A u \in Threads : at'[u] = "drop" => armed'[u] # new
      BY <1>4
    <3>2. new \in live' /\ Current(i0, new)'
      BY <1>2, <1>3, <1>7 DEF Current
    <3> QED  BY <3>1, <3>2 DEF Waiting
  <2> QED  BY <2>5, <2>6, <2>7 DEF ArmedOf, Promised
<1> QED  BY <1>8, <1>9, <1>10, <1>11, <1>12, <1>13 DEF ArmInv, TaskShape

(* arm_automation() as a whole.                                             *)
LEMMA ArmArms ==
  ASSUME EngineInv, EngineInv', ArmInv, NumberedKept, NEW t \in Threads, Arm(t)
  PROVE  ArmInv'
BY BeginPasses, BeginArms, RecordArms, RecordDrops, DropIsArmed DEF Arm

-----------------------------------------------------------------------------
(* Commands.                                                                  *)

(* The threads and the commands' own.                                       *)
LEMMA UiFacts ==
  ASSUME EngineInv, ArmInv
  PROVE  /\ job \in [Threads -> Job] /\ at \in [Threads -> UiSteps \union TimerSteps \union ExecutionSteps]
         /\ automation \in [Ids -> Automation] /\ at["ui"] \in UiSteps
         /\ "timer" \in Threads /\ "ui" \in Threads /\ \A t \in Workers : t \in Threads /\ t # "ui"
         /\ TaskTypes /\ TaskPlaces /\ TasksNumbered /\ SaveShape /\ \A i \in Ids : ArmedOf(i)
         /\ at["ui"] # "save" => \A i \in Ids : ~Hidden(i)
         /\ at["ui"] # "idle" => up
BY NamesDiffer, TimerFacts DEF EngineInv, EngineShape, Places, Hidden

(* The commands move on, while nobody else does anything.                     *)
UiMoves(s) ==
  /\ Goto("ui", s) /\ s # at["ui"]
  /\ \A t \in Workers : job'[t] = job[t]
  /\ armed' = armed /\ live' \subseteq live

(* A command's step moves no other thread.                                  *)
LEMMA UiAt ==
  ASSUME EngineInv, ArmInv, NEW s, UiMoves(s)
  PROVE  /\ at'["ui"] = s /\ \A t \in Workers : at'[t] = at[t] /\ job'[t] = job[t]
         /\ \A i \in Ids : About(i)' \subseteq About(i)
<1>1. at'["ui"] = s /\ \A t \in Workers : at'[t] = at[t] /\ job'[t] = job[t]
  BY UiFacts DEF UiMoves, Goto
<1> QED  BY <1>1 DEF UiMoves, About

(* The shape, when a command moves on.                                      *)
LEMMA UiShape ==
  ASSUME EngineInv, EngineInv', ArmInv, NumberedKept, NEW s, UiMoves(s), TaskTypes', SaveShape', up', up,
         at["ui"] \notin Holding, s \notin Holding,
         toArm' # {} => s \in {"unschedule", "next"} \union Arming,
         s = "unschedule" /\ operation' = "stop" => toArm' = {}
  PROVE  TaskShape'
<1> USE NamesDiffer
<1>0. TaskTypes /\ TaskPlaces /\ TasksNumbered /\ EngineTypes' /\ "timer" \in Workers
  BY UiFacts, TimerFacts DEF EngineInv, EngineShape
<1>1. at'["ui"] = s /\ \A t \in Workers : at'[t] = at[t] /\ job'[t] = job[t]
  BY UiAt
<1>2. TasksNumbered'
  <2>1. \A i \in Ids : About(i)' \subseteq About(i)
    BY UiAt
  <2>2. \A t \in Workers : at'[t] \in Arming \union {"persist"} =>
          at[t] \in Arming \union {"persist"} /\ job'[t].id = job[t].id
    BY <1>1
  <2> QED  BY <1>0, <2>1, <2>2, TasksNumberedStay
<1>3. TaskPlaces'
  <2>1. \A t \in Threads : at'[t] \in Holding =>
          at'[t] = at[t] /\ armed'[t] = armed[t] /\ job'[t] = job[t]
    BY <1>1 DEF UiMoves
  <2>2. /\ \A t \in Threads : at'[t] \in Holding => armed'[t] \in Task /\ armed'[t].id = job'[t].id
        /\ \A t, u \in Threads :
             at'[t] \in Holding /\ at'[u] \in Holding /\ armed'[t] = armed'[u] => t = u
    BY <1>0, <2>1 DEF TaskPlaces
  <2>3. at'["timer"] = "fire" => armed'["timer"] \in Task \ live'
    BY <1>0, <1>1 DEF TaskPlaces, UiMoves
  <2> QED  BY <1>1, <2>2, <2>3 DEF TaskPlaces
<1> QED  BY <1>2, <1>3 DEF TaskShape

(* What holds of an automation while the commands move on. *)
LEMMA UiKeeps ==
  ASSUME EngineInv, ArmInv, NEW s, UiMoves(s), NEW i \in Ids,
         at["ui"] \notin Holding, s \notin Holding, Generation(i)' = Generation(i)
  PROVE  /\ Recorded(i)' = Recorded(i) =>
              \A r \in live' : Current(i, r) /\ Found(i, r) => Found(i, r)'
         /\ (live' = live \/ \A r \in live \ live' : ~Current(i, r)) /\ Waiting(i) => Waiting(i)'
         /\ Starting(i) => Starting(i)'
         /\ \A t \in Workers : Owes(t, i) => Owes(t, i)'
<1> USE NamesDiffer
<1>0. "timer" \in Workers
  BY TimerFacts
<1>1. at'["ui"] = s /\ \A t \in Workers : at'[t] = at[t] /\ job'[t] = job[t]
  BY UiAt
<1>2. \A t \in Threads : at[t] \in Holding \/ at'[t] \in Holding => at'[t] = at[t] /\ armed'[t] = armed[t]
  BY <1>1 DEF UiMoves
<1>3. Recorded(i)' = Recorded(i) => \A r \in live' : Current(i, r) /\ Found(i, r) => Found(i, r)'
  BY <1>2 DEF Found
<1>4. ASSUME live' = live \/ \A r \in live \ live' : ~Current(i, r), Waiting(i) PROVE Waiting(i)'
  <2>1. PICK r \in live : Current(i, r) /\ \A t \in Threads : at[t] = "drop" => armed[t] # r
    BY <1>4 DEF Waiting
  <2>2. r \in live' /\ Current(i, r)'
    BY <1>4, <2>1 DEF Current
  <2>3. \A t \in Threads : at'[t] = "drop" => armed'[t] # r
    BY <1>2, <2>1 DEF Holding
  <2> QED  BY <2>2, <2>3 DEF Waiting
<1>5. Starting(i) => Starting(i)'
  BY <1>0, <1>1 DEF Starting, Current, UiMoves
<1>6. \A t \in Workers : Owes(t, i) => Owes(t, i)'
  BY <1>1 DEF Owes, Once
<1> QED  BY <1>3, <1>4, <1>5, <1>6

(* What a command finds when it begins.                                     *)
LEMMA BeginFacts ==
  ASSUME EngineInv, ArmInv, NEW op \in Ops, NEW ids \in SUBSET Ids, Begin(op, ids),
         \A t \in Workers : job'[t] = job[t]
  PROVE  /\ UiMoves("save") /\ at["ui"] = "idle" /\ toArm = {} /\ up /\ up' /\ at'["ui"] = "save"
         /\ UNCHANGED <<stopped, available, live, armed, toArm, unarmed, overtaken, rewound>>
         /\ before' = [automation |-> automation, generation |-> generation, task |-> task]
         /\ \A i \in Ids : Hidden(i)' <=> i \in ids /\ op \in {"cancel", "clear", "disable"}
         /\ operation' = op /\ changed' = ids
<1>1. /\ UiMoves("save") /\ at["ui"] = "idle" /\ toArm = {} /\ up /\ up'
      /\ UNCHANGED <<stopped, available, live, armed, toArm, unarmed, overtaken, rewound>>
      /\ operation' = op /\ changed' = ids
  BY UiFacts DEF Begin, UiMoves, TaskPlaces, Arming, Holding
<1>2. at'["ui"] = "save"
  BY <1>1, UiAt
<1>3. before' = [automation |-> automation, generation |-> generation, task |-> task]
  BY DEF Begin
<1> QED  BY <1>1, <1>2, <1>3 DEF Hidden

(* What a command leaves of the automations it does not change.             *)
LEMMA CommandStays ==
  ASSUME EngineInv, ArmInv, NEW op \in Ops, NEW ids \in SUBSET Ids, Begin(op, ids), TaskTypes',
         \A t \in Workers : job'[t] = job[t], NEW i \in Ids,
         Entry(i)'.kind # "none" <=> Entry(i).kind # "none",
         Generation(i)' = Generation(i), Recorded(i)' = Recorded(i),
         Entry(i)'.enabled = Entry(i).enabled \/ (i \in available /\ Commanded(i)')
  PROVE  ArmedOf(i)'
<1>0. TaskTypes /\ ArmedOf(i) /\ "ui" \in Threads
  BY UiFacts
<1>1. /\ UiMoves("save") /\ at["ui"] = "idle" /\ toArm = {} /\ up /\ up' /\ at'["ui"] = "save"
      /\ UNCHANGED <<stopped, available, live, armed, toArm, unarmed, overtaken, rewound>>
  BY BeginFacts
<1>2. SUFFICES ASSUME i \notin rewound' PROVE ArmedOf(i)'
  BY DEF ArmedOf
<1>3. TasksOf(i) /\ ParkedOf(i) /\ (Due(i) => Promised(i)) /\ There(i)' = There(i)
  BY <1>0, <1>1, <1>2 DEF ArmedOf, There
<1>4. /\ \A r \in live' : Current(i, r) /\ Found(i, r) => Found(i, r)'
      /\ Waiting(i) => Waiting(i)'
      /\ Starting(i) => Starting(i)'
      /\ \A t \in Workers : Owes(t, i) => Owes(t, i)'
  BY <1>1, UiKeeps DEF Holding
<1>5. TasksOf(i)'
  <2>1. ASSUME There(i)', NEW r \in live', Current(i, r) PROVE Found(i, r)'
    BY <1>1, <1>3, <1>4, <2>1 DEF TasksOf
  <2>2. About(i)' \subseteq About(i)
    BY <1>1, UiAt
  <2> QED  BY <1>0, <1>1, <1>3, <2>1, <2>2, TasksStay
<1>6. ParkedOf(i)'
  BY <1>1, <1>3 DEF ParkedOf, On, There
<1>7. ASSUME Due(i)' PROVE Promised(i)'
  <2>1. CASE i \in available /\ Commanded(i)'
    BY <2>1 DEF Promised
  <2>2. CASE Entry(i)'.enabled = Entry(i).enabled
    <3>1. Due(i)
      BY <1>1, <1>3, <1>7, <2>2 DEF Due, On
    <3>2. ~Commanded(i) /\ ~Owes("ui", i)
      BY <1>1, NamesDiffer DEF Commanded, Owes
    <3>3. (\E t \in Threads : Owes(t, i)) => \E t \in Threads : Owes(t, i)'
      BY <1>4, <3>2, NamesDiffer
    <3> QED  BY <1>3, <1>4, <3>1, <3>2, <3>3 DEF Promised
  <2> QED  BY <2>1, <2>2
<1> QED  BY <1>5, <1>6, <1>7 DEF ArmedOf

(* A new automation is going to be armed.                                   *)
LEMMA AddArms ==
  ASSUME EngineInv, EngineInv', ArmInv, NumberedKept, NEW kind \in Kinds, Add(kind)
  PROVE  ArmInv'
<1> USE NamesDiffer
<1>0. /\ job \in [Threads -> Job] /\ automation \in [Ids -> Automation]
      /\ TaskTypes /\ TaskPlaces /\ TasksNumbered /\ SaveShape /\ \A i \in Ids : ArmedOf(i)
      /\ "ui" \in Threads
  BY UiFacts
<1>1. PICK i0 \in Ids : i0 = next /\ i0 \in available /\ next' = i0 + 1
  <2>1. next \in Ids
    BY SMT DEF Add, EngineInv, EngineShape, EngineTypes, Ids
  <2> QED  BY <2>1 DEF Add
<1>2. /\ Begin("add", {i0}) /\ toCancel' = {}
      /\ automation' = [automation EXCEPT ![i0] = [None EXCEPT !.kind = kind, !.enabled = TRUE]]
      /\ generation' = [generation EXCEPT ![i0] = 0]
      /\ task' = [task EXCEPT ![i0] = NoTask]
      /\ job' = [job EXCEPT !["ui"] = [NoJob EXCEPT !.id = i0]]
  BY <1>1 DEF Add
<1>3. job'["ui"].id = i0 /\ \A t \in Workers : job'[t] = job[t]
  BY <1>0, <1>2 DEF NoJob
<1>4. /\ UiMoves("save") /\ at["ui"] = "idle" /\ toArm = {} /\ up /\ up' /\ at'["ui"] = "save"
      /\ UNCHANGED <<stopped, available, live, armed, toArm, unarmed, overtaken, rewound>>
      /\ before' = [automation |-> automation, generation |-> generation, task |-> task]
      /\ \A i \in Ids : ~Hidden(i)'
      /\ operation' = "add" /\ changed' = {i0}
  BY <1>2, <1>3, BeginFacts DEF Ops
<1>5. \A i \in Ids : ~Hidden(i)
  BY <1>4, UiFacts
<1>6. TaskTypes'
  BY <1>0, <1>2, <1>4, FS_EmptySet DEF TaskTypes
<1>7. TaskShape'
  <2>1. SaveShape'
    BY <1>2, <1>3, <1>4 DEF SaveShape
  <2> QED  BY <1>4, <1>6, <2>1, UiShape DEF Holding
<1>8. ASSUME NEW i \in Ids, i # i0 PROVE ArmedOf(i)'
  <2>1. Entry(i)' = Entry(i) /\ Generation(i)' = Generation(i) /\ Recorded(i)' = Recorded(i)
    BY <1>0, <1>2, <1>4, <1>5, <1>8 DEF Entry, Generation, Recorded, TaskTypes
  <2> QED  BY <1>2, <1>3, <1>6, <2>1, CommandStays DEF Ops
<1>9. ArmedOf(i0)'
  <2>1. About(i0) = {}
    <3>1. ~Numbered(i0)
      BY <1>1, <1>4 DEF Numbered, Ids
    <3> QED  BY <1>0, <3>1 DEF TasksNumbered
  <2>2. About(i0)' = {}
    BY <1>4, <2>1, UiAt
  <2>3. \A r \in live' : r.id # i0
    BY <1>0, <1>4, <2>1, LiveIsAbout
  <2>4. TasksOf(i0)'
    BY <2>2, <2>3 DEF TasksOf, Current
  <2>5. ParkedOf(i0)'
    BY <1>1, <1>4 DEF ParkedOf
  <2>6. Commanded(i0)'
    BY <1>4 DEF Commanded
  <2> QED  BY <2>4, <2>5, <2>6 DEF ArmedOf, Promised
<1> QED  BY <1>7, <1>8, <1>9 DEF ArmInv

(* An automation that is cancelled or cleared.                              *)
LEMMA RemoveArms ==
  ASSUME EngineInv, EngineInv', ArmInv, NumberedKept, NEW op \in {"cancel", "clear"},
         NEW ids \in SUBSET Ids, Remove(op, ids)
  PROVE  ArmInv'
<1>0. TaskTypes /\ TaskPlaces /\ \A i \in Ids : ArmedOf(i)
  BY UiFacts
<1>1. Begin(op, ids) /\ Erase(ids) /\ toCancel' = Tasks(ids) /\ \A t \in Workers : job'[t] = job[t]
  BY DEF Remove
<1>2. /\ UiMoves("save") /\ at["ui"] = "idle" /\ toArm = {} /\ up /\ up' /\ at'["ui"] = "save"
      /\ UNCHANGED <<stopped, available, live, armed, toArm, unarmed, overtaken, rewound>>
      /\ before' = [automation |-> automation, generation |-> generation, task |-> task]
      /\ \A i \in Ids : Hidden(i)' <=> i \in ids
      /\ operation' = op /\ changed' = ids
  BY <1>1, BeginFacts DEF Ops
<1>3. \A i \in Ids : ~Hidden(i)
  BY <1>2, UiFacts
<1>4. TaskTypes'
  <2>1. IsFiniteSet(toCancel') /\ toCancel' \subseteq Task
    BY <1>0, <1>1, TasksOfEntries
  <2>2. /\ generation' \in [Ids -> Nat] /\ task' \in [Ids -> Task \union {NoTask}]
        /\ \A i \in Ids : task'[i] # NoTask => task'[i].id = i
    BY <1>0, <1>1 DEF Erase, TaskTypes
  <2> QED  BY <1>0, <1>2, <2>1, <2>2 DEF TaskTypes
<1>5. TaskShape'
  <2>1. \A r \in toCancel' : Hidden(r.id)'
    <3>1. \A r \in toCancel' : r.id \in ids
      BY <1>0, <1>1, TasksOfEntries
    <3> QED  BY <1>2, <3>1
  <2>2. SaveShape'
    BY <1>2, <2>1 DEF SaveShape
  <2> QED  BY <1>2, <1>4, <2>2, UiShape DEF Holding
<1>6. ASSUME NEW i \in Ids PROVE ArmedOf(i)'
  <2>1. Entry(i)' = Entry(i) /\ Generation(i)' = Generation(i) /\ Recorded(i)' = Recorded(i)
    BY <1>1, <1>2, <1>3 DEF Entry, Generation, Recorded, Erase
  <2> QED  BY <1>1, <1>4, <2>1, CommandStays DEF Ops
<1> QED  BY <1>5, <1>6 DEF ArmInv

(* A policy changes no task.                                                *)
LEMMA PolicyArms ==
  ASSUME EngineInv, EngineInv', ArmInv, NumberedKept, NEW i0 \in Ids, NEW p \in Policies, SetPolicy(i0, p)
  PROVE  ArmInv'
<1>0. /\ TaskTypes /\ TaskPlaces /\ automation \in [Ids -> Automation]
      /\ \A i \in Ids : ArmedOf(i)
  BY UiFacts
<1>1. /\ Begin("policy", {i0}) /\ toCancel' = {} /\ UNCHANGED <<generation, task, job>>
      /\ automation' = [automation EXCEPT ![i0].policy = p]
  BY DEF SetPolicy
<1>2. /\ UiMoves("save") /\ at["ui"] = "idle" /\ toArm = {} /\ up /\ up' /\ at'["ui"] = "save"
      /\ UNCHANGED <<stopped, available, live, armed, toArm, unarmed, overtaken, rewound>>
      /\ before' = [automation |-> automation, generation |-> generation, task |-> task]
      /\ \A i \in Ids : ~Hidden(i)'
      /\ operation' = "policy" /\ changed' = {i0}
  BY <1>1, BeginFacts DEF Ops
<1>3. \A i \in Ids : ~Hidden(i)
  BY <1>2, UiFacts
<1>4. \A i \in Ids : automation'[i].kind = automation[i].kind /\ automation'[i].enabled = automation[i].enabled
  BY <1>0, <1>1 DEF Automation
<1>5. TaskTypes'
  BY <1>0, <1>1, <1>2, FS_EmptySet DEF TaskTypes
<1>6. TaskShape'
  <2>1. SaveShape'
    BY <1>1, <1>2, <1>4 DEF SaveShape
  <2> QED  BY <1>2, <1>5, <2>1, UiShape DEF Holding
<1>7. ASSUME NEW i \in Ids PROVE ArmedOf(i)'
  <2>1. /\ Generation(i)' = Generation(i) /\ Recorded(i)' = Recorded(i)
        /\ Entry(i)'.kind = Entry(i).kind /\ Entry(i)'.enabled = Entry(i).enabled
    BY <1>1, <1>2, <1>3, <1>4 DEF Entry, Generation, Recorded
  <2> QED  BY <1>1, <1>5, <2>1, CommandStays DEF Ops
<1> QED  BY <1>6, <1>7 DEF ArmInv

(* An automation that is enabled is going to be armed.                      *)
LEMMA EnableArms ==
  ASSUME EngineInv, EngineInv', ArmInv, NumberedKept, NEW i0 \in Ids, Enable(i0)
  PROVE  ArmInv'
<1>0. /\ TaskTypes /\ TaskPlaces /\ automation \in [Ids -> Automation] /\ job \in [Threads -> Job]
      /\ "ui" \in Threads /\ \A i \in Ids : ArmedOf(i)
  BY UiFacts
<1>1. /\ Begin("enable", {i0}) /\ toCancel' = {} /\ UNCHANGED <<generation, task>>
      /\ automation' = [automation EXCEPT ![i0].enabled = TRUE]
      /\ job' = [job EXCEPT !["ui"] = [NoJob EXCEPT !.id = i0]]
      /\ i0 \in Present \ Enabled /\ i0 \in available
  BY DEF Enable
<1>2. job'["ui"].id = i0 /\ \A t \in Workers : job'[t] = job[t]
  BY <1>0, <1>1, NamesDiffer DEF NoJob
<1>3. /\ UiMoves("save") /\ at["ui"] = "idle" /\ toArm = {} /\ up /\ up' /\ at'["ui"] = "save"
      /\ UNCHANGED <<stopped, available, live, armed, toArm, unarmed, overtaken, rewound>>
      /\ before' = [automation |-> automation, generation |-> generation, task |-> task]
      /\ \A i \in Ids : ~Hidden(i)'
      /\ operation' = "enable" /\ changed' = {i0}
  BY <1>1, <1>2, BeginFacts DEF Ops
<1>4. \A i \in Ids : ~Hidden(i)
  BY <1>3, UiFacts
<1>5. /\ \A i \in Ids : automation'[i].kind = automation[i].kind
      /\ \A i \in Ids \ {i0} : automation'[i] = automation[i]
  BY <1>0, <1>1 DEF Automation
<1>6. TaskTypes'
  BY <1>0, <1>1, <1>3, FS_EmptySet DEF TaskTypes
<1>7. TaskShape'
  <2>1. ~automation[i0].enabled
    BY <1>1 DEF Enabled
  <2>2. SaveShape'
    BY <1>1, <1>2, <1>3, <2>1 DEF SaveShape
  <2> QED  BY <1>3, <1>6, <2>2, UiShape DEF Holding
<1>8. Commanded(i0)'
  BY <1>3 DEF Commanded
<1>9. ASSUME NEW i \in Ids PROVE ArmedOf(i)'
  <2>1. /\ Generation(i)' = Generation(i) /\ Recorded(i)' = Recorded(i)
        /\ Entry(i)'.kind = Entry(i).kind
        /\ i # i0 => Entry(i)'.enabled = Entry(i).enabled
    BY <1>1, <1>3, <1>4, <1>5 DEF Entry, Generation, Recorded
  <2>2. i = i0 => i \in available /\ Commanded(i)'
    BY <1>1, <1>8
  <2> QED  BY <1>1, <1>2, <1>6, <2>1, <2>2, CommandStays DEF Ops
<1> QED  BY <1>7, <1>9 DEF ArmInv

(* An automation that is disabled has a generation that no task has.        *)
LEMMA DisableArms ==
  ASSUME EngineInv, EngineInv', ArmInv, NumberedKept, NEW i0 \in Ids, Disable(i0)
  PROVE  ArmInv'
<1>0. /\ TaskTypes /\ TaskPlaces /\ automation \in [Ids -> Automation]
      /\ \A i \in Ids : ArmedOf(i)
  BY UiFacts
<1>1. /\ Begin("disable", {i0}) /\ toCancel' = Tasks({i0}) /\ job' = job
      /\ automation' = [automation EXCEPT ![i0].enabled = FALSE]
      /\ generation' = [generation EXCEPT ![i0] = @ + 1]
      /\ task' = [task EXCEPT ![i0] = NoTask]
  BY DEF Disable
<1>2. /\ UiMoves("save") /\ at["ui"] = "idle" /\ toArm = {} /\ up /\ up' /\ at'["ui"] = "save"
      /\ UNCHANGED <<stopped, available, live, armed, toArm, unarmed, overtaken, rewound>>
      /\ before' = [automation |-> automation, generation |-> generation, task |-> task]
      /\ \A i \in Ids : Hidden(i)' <=> i = i0
      /\ operation' = "disable" /\ changed' = {i0}
  BY <1>1, BeginFacts DEF Ops
<1>3. \A i \in Ids : ~Hidden(i)
  BY <1>2, UiFacts
<1>4. TaskTypes'
  <2>1. IsFiniteSet(toCancel') /\ toCancel' \subseteq Task
    BY <1>0, <1>1, TasksOfEntries
  <2>2. generation' \in [Ids -> Nat]
    BY <1>0, <1>1, SMT DEF TaskTypes
  <2>3. task' \in [Ids -> Task \union {NoTask}] /\ \A i \in Ids : task'[i] # NoTask => task'[i].id = i
    BY <1>0, <1>1 DEF TaskTypes
  <2> QED  BY <1>0, <1>2, <2>1, <2>2, <2>3 DEF TaskTypes
<1>5. TaskShape'
  <2>1. \A r \in toCancel' : Hidden(r.id)'
    <3>1. \A r \in toCancel' : r.id = i0
      BY <1>0, <1>1, TasksOfEntries
    <3> QED  BY <1>2, <3>1
  <2>2. generation'[i0] = generation[i0] + 1 /\ ~automation'[i0].enabled
    BY <1>0, <1>1 DEF TaskTypes, Automation
  <2>3. SaveShape'
    BY <1>2, <2>1, <2>2 DEF SaveShape
  <2> QED  BY <1>2, <1>4, <2>3, UiShape DEF Holding
<1>6. ASSUME NEW i \in Ids PROVE ArmedOf(i)'
  <2>1. Entry(i)' = Entry(i) /\ Generation(i)' = Generation(i) /\ Recorded(i)' = Recorded(i)
    BY <1>0, <1>1, <1>2, <1>3 DEF Entry, Generation, Recorded, TaskTypes
  <2> QED  BY <1>1, <1>4, <2>1, CommandStays DEF Ops
<1> QED  BY <1>5, <1>6 DEF ArmInv

-----------------------------------------------------------------------------
(* What comes after a command's save.                                         *)

(* The command was saved.                                                   *)
LEMMA SaveArms ==
  ASSUME EngineInv, EngineInv', ArmInv, NumberedKept, UiSave
  PROVE  ArmInv'
<1> USE NamesDiffer
<1>0. /\ job \in [Threads -> Job] /\ automation \in [Ids -> Automation] /\ up
      /\ TaskTypes /\ TaskPlaces /\ TasksNumbered /\ SaveShape /\ CommandShape /\ \A i \in Ids : ArmedOf(i)
      /\ at["ui"] = "save" /\ "ui" \in Threads
  BY UiFacts DEF UiSave, EngineInv, EngineShape
<1>1. /\ UNCHANGED <<up, stopped, automation, generation, task, available, live, job, armed, operation,
                     toCancel, toArm, overtaken, rewound>>
      /\ unarmed' = IF operation = "enable" THEN unarmed \ changed ELSE unarmed
      /\ changed' = {} /\ before' = NoEntries
  BY DEF UiSave, entries
<1>2. PICK s \in {"arm", "idle", "unschedule"} :
        /\ Goto("ui", s)
        /\ operation \in {"add", "enable"} <=> s = "arm"
        /\ operation \in {"cancel", "clear", "disable"} <=> s = "unschedule"
  <2>1. operation \in Ops
    BY <1>0 DEF CommandShape
  <2> QED  BY <2>1 DEF UiSave, Ops
<1>3. /\ UiMoves(s) /\ at'["ui"] = s /\ \A t \in Workers : at'[t] = at[t] /\ job'[t] = job[t]
      /\ \A i \in Ids : About(i)' \subseteq About(i)
  <2>1. UiMoves(s)
    BY <1>0, <1>1, <1>2 DEF UiMoves
  <2> QED  BY <2>1, UiAt
<1>4. toArm = {} /\ toArm' = {}
  BY <1>0, <1>1 DEF TaskPlaces, Arming, Holding
<1>5. TaskTypes'
  BY <1>0, <1>1 DEF TaskTypes, NoEntries, Zero, NoTasks
<1>6. TaskShape'
  <2>1. SaveShape'
    BY <1>3 DEF SaveShape
  <2> QED  BY <1>0, <1>1, <1>3, <1>4, <1>5, <2>1, UiShape DEF Holding
<1>7. ASSUME NEW i \in Ids, i \notin rewound'
      PROVE  TasksOf(i)' /\ ParkedOf(i)' /\ (Due(i)' => Promised(i)')
  <2>0. TasksOf(i) /\ ParkedOf(i) /\ (Due(i) => Promised(i)) /\ ~Hidden(i)'
    BY <1>0, <1>1, <1>3, <1>7 DEF ArmedOf, Hidden
  <2>1. CASE ~Hidden(i)
    <3>1. Entry(i)' = Entry(i) /\ Generation(i)' = Generation(i) /\ Recorded(i)' = Recorded(i)
      BY <1>1, <2>0, <2>1 DEF Entry, Generation, Recorded
    <3>2. /\ \A r \in live' : Current(i, r) /\ Found(i, r) => Found(i, r)'
          /\ Waiting(i) => Waiting(i)'
          /\ Starting(i) => Starting(i)'
          /\ \A t \in Workers : Owes(t, i) => Owes(t, i)'
      BY <1>0, <1>1, <1>3, <3>1, UiKeeps DEF Holding
    <3>3. There(i)' = There(i) /\ On(i)' = On(i)
      BY <3>1 DEF There, On
    <3>4. TasksOf(i)'
      <4>1. ASSUME There(i)', NEW r \in live', Current(i, r) PROVE Found(i, r)'
        BY <1>1, <2>0, <3>2, <3>3, <4>1 DEF TasksOf
      <4>2. \A r \in toCancel' : r.id # i
        BY <1>0, <1>1, <2>1 DEF SaveShape
      <4> QED  BY <1>0, <1>1, <1>3, <1>5, <2>0, <3>1, <3>3, <4>1, <4>2, TasksStay
    <3>5. ParkedOf(i)'
      BY <1>0, <1>1, <2>0, <3>1, <3>3 DEF ParkedOf
    <3>6. ASSUME Due(i)' PROVE Promised(i)'
      <4>1. CASE i \in changed /\ operation \in {"add", "enable"}
        <5>1. job'["ui"].id = i /\ at'["ui"] = "arm"
          BY <1>0, <1>1, <1>2, <1>3, <4>1 DEF SaveShape
        <5> QED  BY <1>0, <5>1 DEF Promised, Owes
      <4>2. CASE ~(i \in changed /\ operation \in {"add", "enable"})
        <5>1. Due(i)
          BY <1>1, <3>3, <3>6, <4>2 DEF Due
        <5>2. ~Commanded(i) /\ ~Owes("ui", i)
          BY <1>0, <1>4, <4>2 DEF Commanded, Owes
        <5>3. (\E t \in Threads : Owes(t, i)) => \E t \in Threads : Owes(t, i)'
          BY <3>2, <5>2
        <5> QED  BY <2>0, <3>2, <5>1, <5>2, <5>3 DEF Promised
      <4> QED  BY <4>1, <4>2
    <3> QED  BY <3>4, <3>5, <3>6
  <2>2. CASE Hidden(i)
    <3>1. i \in changed /\ operation \in {"cancel", "clear", "disable"}
      BY <2>2 DEF Hidden
    <3>2. CASE operation \in {"cancel", "clear"}
      <4>1. ~There(i)'
        BY <1>0, <1>1, <2>0, <3>1, <3>2 DEF There, Entry, CommandShape
      <4> QED  BY <4>1 DEF TasksOf, ParkedOf, On, Due
    <3>3. CASE operation = "disable"
      <4>1. generation[i] = before.generation[i] + 1 /\ ~automation[i].enabled
        BY <1>0, <3>1, <3>3 DEF SaveShape
      <4>2. ~On(i)'
        BY <1>1, <2>0, <4>1 DEF On, Entry
      <4>3. Generation(i)' > Generation(i)
        <5>1. Generation(i)' = generation[i] /\ Generation(i) = before.generation[i]
          BY <1>1, <2>0, <2>2 DEF Generation
        <5> QED  BY <1>0, <4>1, <5>1, SMT DEF TaskTypes
      <4>4. There(i)
        BY <1>0, <2>2, <3>1, <3>3 DEF There, Entry, CommandShape
      <4>5. TasksOf(i)'
        BY <1>0, <1>1, <1>3, <1>5, <2>0, <4>3, <4>4, TasksStay
      <4> QED  BY <4>2, <4>5 DEF ParkedOf, Due
    <3> QED  BY <3>1, <3>2, <3>3
  <2> QED  BY <2>1, <2>2
<1> QED  BY <1>6, <1>7 DEF ArmInv, ArmedOf

(* What a command that has been saved leaves of the automations.            *)
LEMMA UiStays ==
  ASSUME EngineInv, ArmInv, NEW s, UiMoves(s), TaskTypes', NEW i \in Ids,
         at["ui"] \notin Holding, s \notin Holding, up' = up, stopped' = stopped,
         Entry(i)' = Entry(i), Generation(i)' = Generation(i), Recorded(i)' = Recorded(i),
         i \notin rewound' => i \notin rewound, i \notin overtaken' => i \notin overtaken,
         i \notin unarmed' => i \notin unarmed, i \in available' <=> i \in available,
         at["ui"] # "reconcile" \/ ParkedOf(i)',
         s = "unschedule" => \A r \in toCancel' : r.id # i,
         ArmedOf(i) /\ There(i) /\ i \notin rewound => \A r \in live \ live' : ~Current(i, r),
         Commanded(i) \/ Owes("ui", i) => Promised(i)' \/ ~Due(i)'
  PROVE  ArmedOf(i)'
<1> USE NamesDiffer
<1>0. TaskTypes /\ ArmedOf(i)
  BY UiFacts
<1>1. SUFFICES ASSUME i \notin rewound' PROVE ArmedOf(i)'
  BY DEF ArmedOf
<1>2. TasksOf(i) /\ ParkedOf(i) /\ (Due(i) => Promised(i)) /\ There(i)' = There(i) /\ On(i)' = On(i)
  BY <1>0, <1>1 DEF ArmedOf, There, On
<1>3. at'["ui"] = s /\ About(i)' \subseteq About(i)
  BY UiAt
<1>4. /\ \A r \in live' : Current(i, r) /\ Found(i, r) => Found(i, r)'
      /\ There(i) /\ Waiting(i) => Waiting(i)'
      /\ Starting(i) => Starting(i)'
      /\ \A t \in Workers : Owes(t, i) => Owes(t, i)'
  BY <1>0, <1>1, UiKeeps
<1>5. TasksOf(i)'
  <2>1. ASSUME There(i)', NEW r \in live', Current(i, r) PROVE Found(i, r)'
    BY <1>2, <1>4, <2>1 DEF TasksOf, UiMoves
  <2> QED  BY <1>0, <1>2, <1>3, <2>1, TasksStay DEF UiMoves
<1>6. ParkedOf(i)'
  BY <1>2 DEF ParkedOf
<1>7. ASSUME Due(i)' PROVE Promised(i)'
  <2>1. Due(i) /\ There(i)
    BY <1>2, <1>7 DEF Due, On
  <2>2. CASE Commanded(i) \/ Owes("ui", i)
    BY <1>7, <2>2
  <2>3. CASE ~(Commanded(i) \/ Owes("ui", i))
    <3>1. (\E t \in Threads : Owes(t, i)) => \E t \in Threads : Owes(t, i)'
      BY <1>4, <2>3
    <3> QED  BY <1>2, <1>4, <2>1, <2>3, <3>1 DEF Promised
  <2> QED  BY <2>2, <2>3
<1> QED  BY <1>5, <1>6, <1>7 DEF ArmedOf

(* A command that cannot be saved leaves the tasks as they were, unless the   *)
(* entry it restores is not that which was armed.                             *)
LEMMA SaveFailsArms ==
  ASSUME EngineInv, EngineInv', ArmInv, NumberedKept, NEW kept \in BOOLEAN, UiSaveFails(kept)
  PROVE  ArmInv'
<1> USE NamesDiffer
<1>0. /\ job \in [Threads -> Job] /\ automation \in [Ids -> Automation] /\ up
      /\ TaskTypes /\ TaskPlaces /\ TasksNumbered /\ SaveShape /\ CommandShape /\ \A i \in Ids : ArmedOf(i)
      /\ at["ui"] = "save" /\ "ui" \in Threads
  BY UiFacts DEF UiSaveFails, EngineInv, EngineShape
<1>1. /\ UNCHANGED <<up, stopped, available, live, armed, toArm, unarmed, overtaken>>
      /\ changed' = {} /\ before' = NoEntries /\ toCancel' = {}
      /\ automation' = [i \in Ids |-> IF i \in changed THEN before.automation[i] ELSE automation[i]]
      /\ generation' = [i \in Ids |-> IF i \in changed THEN before.generation[i] ELSE generation[i]]
      /\ task' = [i \in Ids |-> IF i \in changed THEN before.task[i] ELSE task[i]]
      /\ rewound' = rewound \union Rewound
  BY DEF UiSaveFails, RolledBack, outcomes
<1>2. UiMoves("idle") /\ \A i \in Ids : About(i)' \subseteq About(i)
  <2>1. UiMoves("idle")
    BY <1>0 DEF UiSaveFails, UiMoves
  <2> QED  BY <2>1, UiAt
<1>3. at'["ui"] = "idle"
  BY <1>2, UiAt
<1>4. toArm = {} /\ toArm' = {}
  BY <1>0, <1>1 DEF TaskPlaces, Arming, Holding
<1>5. TaskTypes'
  <2>1. generation' \in [Ids -> Nat] /\ task' \in [Ids -> Task \union {NoTask}]
    BY <1>0, <1>1 DEF TaskTypes
  <2>2. \A i \in Ids : task'[i] # NoTask => task'[i].id = i
    BY <1>0, <1>1 DEF TaskTypes
  <2>3. /\ before'.generation = Zero /\ before'.task = NoTasks
    BY <1>1 DEF NoEntries
  <2> QED  BY <1>0, <1>1, <2>1, <2>2, <2>3, FS_EmptySet DEF TaskTypes, Zero, NoTasks
<1>6. TaskShape'
  <2>1. SaveShape'
    BY <1>3 DEF SaveShape
  <2> QED  BY <1>0, <1>1, <1>2, <1>4, <1>5, <2>1, UiShape DEF Holding
<1>7. ASSUME NEW i \in Ids PROVE ArmedOf(i)'
  <2>0. ~Hidden(i)' /\ rewound \subseteq rewound'
    BY <1>1, <1>3 DEF Hidden
  <2>1. /\ Entry(i)' = IF i \in changed THEN before.automation[i] ELSE automation[i]
        /\ Generation(i)' = IF i \in changed THEN before.generation[i] ELSE generation[i]
        /\ Recorded(i)' = IF i \in changed THEN before.task[i] ELSE task[i]
    BY <1>1, <2>0 DEF Entry, Generation, Recorded
  <2>2. ASSUME Entry(i)' = Entry(i), Generation(i)' = Generation(i), Recorded(i)' = Recorded(i),
               ~Commanded(i)
        PROVE  ArmedOf(i)'
    <3>1. ~Owes("ui", i)
      BY <1>0 DEF Owes
    <3> QED  BY <1>0, <1>1, <1>2, <1>5, <2>0, <2>2, <3>1, UiStays DEF Holding
  <2>3. CASE i \notin changed
    <3>1. Entry(i)' = Entry(i) /\ Generation(i)' = Generation(i) /\ Recorded(i)' = Recorded(i)
      BY <2>1, <2>3 DEF Entry, Generation, Recorded, Hidden
    <3>2. ~Commanded(i)
      BY <1>0, <1>4, <2>3 DEF Commanded
    <3> QED  BY <2>2, <3>1, <3>2
  <2>4. CASE Hidden(i)
    <3>1. Entry(i)' = Entry(i) /\ Generation(i)' = Generation(i) /\ Recorded(i)' = Recorded(i)
      BY <2>1, <2>4 DEF Entry, Generation, Recorded, Hidden
    <3>2. ~Commanded(i)
      BY <1>0, <1>4, <2>4 DEF Commanded, Hidden
    <3> QED  BY <2>2, <3>1, <3>2
  <2>5. CASE i \in changed /\ operation = "add"
    <3>1. before.automation[i].kind = "none"
      <4>1. Adding(i)
        BY <1>0, <2>5 DEF Adding
      <4>2. ~Numbered(i)
        BY <1>0, <4>1 DEF Numbered
      <4> QED  BY <1>0, <4>2 DEF EngineInv, AutomationInv, NumberOf, Before
    <3>2. ~There(i)'
      BY <2>1, <2>5, <3>1 DEF There
    <3> QED  BY <3>2 DEF ArmedOf, TasksOf, ParkedOf, On, Due
  <2>6. CASE i \in changed /\ operation \in {"policy", "enable"}
    <3>1. SUFFICES ASSUME i \notin rewound' PROVE ArmedOf(i)'
      BY DEF ArmedOf
    <3>2. before.generation[i] = generation[i] /\ before.task[i] = task[i]
      BY <1>1, <2>6, <3>1 DEF Rewound
    <3>3. ~Hidden(i)
      BY <2>6 DEF Hidden
    <3>4. Generation(i)' = Generation(i) /\ Recorded(i)' = Recorded(i)
      BY <2>1, <3>2, <3>3 DEF Generation, Recorded
    <3>5. There(i)
      BY <1>0, <2>6, <3>3 DEF CommandShape, There, Entry
    <3>6. TasksOf(i) /\ ParkedOf(i) /\ (Due(i) => Promised(i))
      BY <1>0, <2>0, <3>1 DEF ArmedOf
    <3>7. /\ \A r \in live' : Current(i, r) /\ Found(i, r) => Found(i, r)'
          /\ Waiting(i) => Waiting(i)'
          /\ Starting(i) => Starting(i)'
          /\ \A t \in Workers : Owes(t, i) => Owes(t, i)'
      BY <1>0, <1>1, <1>2, <3>4, UiKeeps DEF Holding
    <3>8. TasksOf(i)'
      <4>1. ASSUME There(i)', NEW r \in live', Current(i, r) PROVE Found(i, r)'
        BY <1>1, <3>5, <3>6, <3>7, <4>1 DEF TasksOf
      <4> QED  BY <1>0, <1>1, <1>2, <1>3, <1>5, <3>4, <3>5, <3>6, <4>1, TasksStay
    <3>9. CASE operation = "enable"
      <4>1. ~On(i)'
        BY <1>0, <2>1, <2>6, <3>9 DEF SaveShape, On
      <4> QED  BY <3>8, <4>1 DEF ArmedOf, ParkedOf, Due
    <3>10. CASE operation = "policy"
      <4>1. On(i)' => On(i)
        BY <1>0, <2>1, <2>6, <3>3, <3>5, <3>10 DEF SaveShape, On, Entry
      <4>2. ParkedOf(i)'
        BY <1>0, <1>1, <3>4, <3>6, <4>1 DEF ParkedOf
      <4>3. Due(i)' => Due(i)
        BY <1>1, <4>1 DEF Due
      <4>4. ~Commanded(i) /\ ~Owes("ui", i)
        BY <1>0, <1>4, <3>10 DEF Commanded, Owes
      <4>5. (\E t \in Threads : Owes(t, i)) => \E t \in Threads : Owes(t, i)'
        BY <3>7, <4>4
      <4> QED  BY <3>6, <3>7, <3>8, <4>2, <4>3, <4>4, <4>5 DEF ArmedOf, Promised
    <3> QED  BY <2>6, <3>9, <3>10
  <2>7. operation \in Ops
    BY <1>0 DEF CommandShape
  <2> QED  BY <1>0, <2>3, <2>4, <2>5, <2>6, <2>7 DEF Hidden, Ops
<1> QED  BY <1>6, <1>7 DEF ArmInv

(* The tasks that are cancelled are not those of their automations any more.  *)
LEMMA UnscheduleArms ==
  ASSUME EngineInv, EngineInv', ArmInv, NumberedKept, Unschedule
  PROVE  ArmInv'
<1>0. /\ TaskTypes /\ TaskPlaces /\ up /\ at["ui"] = "unschedule"
  BY UiFacts DEF Unschedule
<1>1. /\ UNCHANGED <<up, stopped, automation, generation, task, available, job, armed, before, changed,
                     toArm, unarmed, overtaken, rewound>>
      /\ live' = live \ toCancel /\ operation' = "add" /\ toCancel' = {}
  BY DEF Unschedule, entries, ghosts
<1>2. PICK s \in {"await", "next", "idle"} :
        /\ Goto("ui", s)
        /\ toArm # {} => s = "next"
  <2>1. operation = "stop" => toArm = {}
    BY <1>0 DEF TaskPlaces
  <2> QED  BY <2>1 DEF Unschedule, AfterArm
<1>3. UiMoves(s)
  BY <1>0, <1>1, <1>2 DEF UiMoves
<1>4. at'["ui"] = s
  BY <1>3, UiAt
<1>5. TaskTypes'
  <2>1. IsFiniteSet(live')
    BY <1>0, <1>1, FS_Difference DEF TaskTypes
  <2> QED  BY <1>0, <1>1, <2>1, FS_EmptySet DEF TaskTypes
<1>6. TaskShape'
  <2>1. SaveShape'
    BY <1>4 DEF SaveShape
  <2> QED  BY <1>0, <1>1, <1>2, <1>3, <1>5, <2>1, UiShape DEF Holding
<1>7. ASSUME NEW i \in Ids PROVE ArmedOf(i)'
  <2>1. Entry(i)' = Entry(i) /\ Generation(i)' = Generation(i) /\ Recorded(i)' = Recorded(i)
    BY <1>0, <1>1, <1>4 DEF Entry, Generation, Recorded, Hidden
  <2>2. ArmedOf(i) /\ There(i) /\ i \notin rewound => \A r \in live \ live' : ~Current(i, r)
    <3>1. ASSUME TasksOf(i), There(i), NEW r \in live \ live', Current(i, r) PROVE FALSE
      <4>1. r.generation < Generation(i)
        BY <1>0, <1>1, <3>1 DEF TasksOf, Current
      <4>2. r.generation = Generation(i) /\ Generation(i) \in Nat
        BY <1>0, <3>1 DEF Current, Generation, TaskTypes
      <4> QED  BY <4>1, <4>2, SMT
    <3> QED  BY <3>1 DEF ArmedOf
  <2>3. Commanded(i) => Commanded(i)'
    BY <1>0, <1>1 DEF Commanded
  <2>4. ~Owes("ui", i)
    BY <1>0, NamesDiffer DEF Owes
  <2> QED  BY <1>0, <1>1, <1>2, <1>3, <1>5, <2>1, <2>2, <2>3, <2>4, UiStays DEF Holding, Promised
<1> QED  BY <1>6, <1>7 DEF ArmInv

(* The next automation to arm, or none.                                     *)
LEMMA AwaitOrNextArms ==
  ASSUME EngineInv, EngineInv', ArmInv, NumberedKept, AwaitIdle \/ \E i \in Ids : ArmNext(i)
  PROVE  ArmInv'
<1> DEFINE s == IF at["ui"] = "await" THEN "idle" ELSE "arm"
<1>0. /\ TaskTypes /\ TaskPlaces /\ up /\ job \in [Threads -> Job] /\ "ui" \in Threads
      /\ at["ui"] \in {"await", "next"}
  BY UiFacts DEF AwaitIdle, ArmNext
<1>1. /\ UNCHANGED <<up, stopped, automation, generation, task, available, live, armed, before, changed,
                     operation, toCancel, unarmed, overtaken, rewound>>
      /\ Goto("ui", s)
      /\ \/ at["ui"] = "await" /\ toArm' = toArm /\ job' = job
         \/ \E i0 \in toArm : at["ui"] = "next" /\ toArm' = toArm \ {i0}
              /\ job' = [job EXCEPT !["ui"] = [NoJob EXCEPT !.id = i0]]
  BY DEF AwaitIdle, ArmNext, entries, ghosts, command
<1>2. /\ \A t \in Workers : job'[t] = job[t]
      /\ \/ at["ui"] = "await" /\ toArm' = toArm
         \/ at["ui"] = "next" /\ toArm' = toArm \ {job'["ui"].id}
  BY <1>0, <1>1, NamesDiffer DEF NoJob
<1>3. UiMoves(s) /\ at'["ui"] = s
  <2>1. UiMoves(s)
    BY <1>0, <1>1, <1>2 DEF UiMoves
  <2> QED  BY <2>1, UiAt
<1>4. TaskTypes'
  BY <1>0, <1>1 DEF TaskTypes
<1>5. at["ui"] = "await" => toArm = {}
  BY <1>0 DEF TaskPlaces, Arming, Holding
<1>6. TaskShape'
  <2>1. SaveShape'
    BY <1>0, <1>3 DEF SaveShape
  <2>2. toArm' # {} => s \in {"unschedule", "next"} \union Arming
    BY <1>0, <1>1, <1>5 DEF Arming
  <2> QED  BY <1>0, <1>1, <1>3, <1>4, <2>1, <2>2, UiShape DEF Holding
<1>7. ASSUME NEW i \in Ids PROVE ArmedOf(i)'
  <2>1. Entry(i)' = Entry(i) /\ Generation(i)' = Generation(i) /\ Recorded(i)' = Recorded(i)
    BY <1>0, <1>1, <1>3 DEF Entry, Generation, Recorded, Hidden
  <2>2. Commanded(i) => Promised(i)'
    <3>1. SUFFICES ASSUME i \in toArm PROVE Promised(i)'
      BY <1>0 DEF Commanded
    <3>2. CASE i \in toArm'
      BY <3>2 DEF Promised, Commanded
    <3>3. CASE job'["ui"].id = i /\ at'["ui"] = "arm"
      BY <1>0, <3>3 DEF Promised, Owes
    <3> QED  BY <1>0, <1>2, <1>3, <1>5, <3>1, <3>2, <3>3
  <2>3. ~Owes("ui", i)
    BY <1>0, NamesDiffer DEF Owes
  <2> QED  BY <1>0, <1>1, <1>3, <1>4, <2>1, <2>2, <2>3, UiStays DEF Holding
<1> QED  BY <1>6, <1>7 DEF ArmInv

-----------------------------------------------------------------------------
(* Stopping, plugins and clocks.                                              *)

(* What the commands that cancel tasks without a save find.                 *)
LEMMA DisarmFacts ==
  ASSUME TaskTypes, NEW ids \in SUBSET Ids, Disarm(ids)
  PROVE  /\ generation' \in [Ids -> Nat] /\ task' \in [Ids -> Task \union {NoTask}]
         /\ \A i \in Ids : task'[i] # NoTask => task'[i].id = i
         /\ IsFiniteSet(toCancel') /\ toCancel' \subseteq Task /\ \A r \in toCancel' : r.id \in ids
         /\ \A i \in Ids : /\ generation[i] \in Nat
                           /\ i \in ids => generation'[i] > generation[i] /\ task'[i] = NoTask
                           /\ i \notin ids => generation'[i] = generation[i] /\ task'[i] = task[i]
<1>1. generation' \in [Ids -> Nat]
  BY SMT DEF Disarm, TaskTypes
<1>2. task' \in [Ids -> Task \union {NoTask}] /\ \A i \in Ids : task'[i] # NoTask => task'[i].id = i
  BY DEF Disarm, TaskTypes
<1>3. IsFiniteSet(toCancel') /\ toCancel' \subseteq Task /\ \A r \in toCancel' : r.id \in ids
  BY TasksOfEntries DEF Disarm
<1>4. \A i \in Ids : i \in ids => generation'[i] > generation[i] /\ task'[i] = NoTask
  BY SMT DEF Disarm, TaskTypes
<1>5. \A i \in Ids : generation[i] \in Nat /\ (i \notin ids => generation'[i] = generation[i] /\ task'[i] = task[i])
  BY DEF Disarm, TaskTypes
<1> QED  BY <1>1, <1>2, <1>3, <1>4, <1>5

(* An automation that loses its task while the commands go to cancel it.      *)
LEMMA DisarmedTasks ==
  ASSUME EngineInv, ArmInv, NEW ids \in SUBSET Ids, Disarm(ids), UiMoves("unschedule"), TaskTypes',
         at["ui"] \in {"idle", "reconcile"}, live' = live, automation' = automation,
         NEW i \in Ids, TasksOf(i)
  PROVE  /\ TasksOf(i)' /\ There(i)' = There(i) /\ On(i)' = On(i)
         /\ Recorded(i)' = task'[i] /\ Recorded(i) = task[i] /\ Entry(i)' = Entry(i)
         /\ i \notin ids => Generation(i)' = Generation(i)
<1>0. /\ TaskTypes /\ at'["ui"] = "unschedule" /\ About(i)' \subseteq About(i)
      /\ ~Hidden(i) /\ ~Hidden(i)'
  BY UiFacts, UiAt DEF Hidden
<1>1. /\ Entry(i)' = Entry(i) /\ Recorded(i)' = task'[i] /\ Recorded(i) = task[i]
      /\ Generation(i)' = generation'[i] /\ Generation(i) = generation[i]
  BY <1>0 DEF Entry, Recorded, Generation
<1>2. There(i)' = There(i) /\ On(i)' = On(i)
  BY <1>1 DEF There, On
<1>3. CASE i \in ids
  <2>1. Generation(i)' > Generation(i)
    BY <1>0, <1>1, <1>3, DisarmFacts
  <2> QED  BY <1>0, <1>1, <1>2, <1>3, <2>1, TasksStay
<1>4. CASE i \notin ids
  <2>1. Generation(i)' = Generation(i) /\ Recorded(i)' = Recorded(i) /\ \A r \in toCancel' : r.id # i
    BY <1>0, <1>1, <1>4, DisarmFacts
  <2>2. \A r \in live' : Current(i, r) /\ Found(i, r) => Found(i, r)'
    BY <2>1, UiKeeps DEF Holding
  <2>3. ASSUME There(i)', NEW r \in live', Current(i, r) PROVE Found(i, r)'
    BY <1>2, <2>2, <2>3 DEF TasksOf
  <2> QED  BY <1>0, <1>1, <1>2, <2>1, <2>3, TasksStay
<1> QED  BY <1>3, <1>4

(* stop() cancels every task.                                               *)
LEMMA StopArms ==
  ASSUME EngineInv, EngineInv', ArmInv, NumberedKept, Stop
  PROVE  ArmInv'
<1>0. TaskTypes /\ TaskPlaces /\ (\A i \in Ids : ArmedOf(i)) /\ "ui" \in Threads
  BY UiFacts
<1>1. /\ UNCHANGED <<up, automation, available, live, job, armed, before, changed, toArm, unarmed,
                     overtaken, rewound>>
      /\ up /\ stopped' = TRUE /\ at["ui"] = "idle" /\ Disarm(Present) /\ Present \in SUBSET Ids
  BY DEF Stop, ghosts, Present
<1>2. UiMoves("unschedule")
  BY <1>1 DEF Stop, UiMoves
<1>3. toArm' = {}
  BY <1>0, <1>1 DEF TaskPlaces, Arming, Holding
<1>4. TaskTypes'
  BY <1>0, <1>1, DisarmFacts DEF TaskTypes
<1>5. TaskShape'
  <2>1. SaveShape'
    BY <1>2, UiAt DEF SaveShape
  <2> QED  BY <1>1, <1>2, <1>3, <1>4, <2>1, UiShape DEF Holding
<1>6. ASSUME NEW i \in Ids PROVE ArmedOf(i)'
  <2>1. TasksOf(i) => TasksOf(i)'
    BY <1>1, <1>2, <1>4, DisarmedTasks
  <2>2. ParkedOf(i)' /\ ~Due(i)'
    BY <1>1 DEF ParkedOf, Due
  <2> QED  BY <1>0, <1>1, <2>1, <2>2 DEF ArmedOf
<1> QED  BY <1>5, <1>6 DEF ArmInv

(* A plugin's action comes or goes.                                         *)
LEMMA PluginArms ==
  ASSUME EngineInv, EngineInv', ArmInv, NumberedKept, NEW i0 \in Ids, PluginChange(i0)
  PROVE  ArmInv'
<1>0. /\ TaskTypes /\ TaskPlaces /\ (\A i \in Ids : ArmedOf(i)) /\ "ui" \in Threads
  BY UiFacts
<1>1. /\ UNCHANGED <<up, stopped, automation, generation, task, live, job, armed, operation, before, changed,
                     toCancel, toArm, unarmed, overtaken, rewound>>
      /\ up /\ at["ui"] = "idle" /\ Goto("ui", "reconcile")
      /\ available' = IF i0 \in available THEN available \ {i0} ELSE available \union {i0}
  BY DEF PluginChange, ghosts, entries, command
<1>2. UiMoves("reconcile") /\ at'["ui"] = "reconcile"
  <2>1. UiMoves("reconcile")
    BY <1>1 DEF UiMoves
  <2> QED  BY <2>1, UiAt
<1>3. toArm = {}
  BY <1>0, <1>1 DEF TaskPlaces, Arming, Holding
<1>4. TaskTypes'
  BY <1>0, <1>1 DEF TaskTypes
<1>5. TaskShape'
  <2>1. SaveShape'
    BY <1>2 DEF SaveShape
  <2> QED  BY <1>1, <1>2, <1>3, <1>4, <2>1, UiShape DEF Holding
<1>6. ASSUME NEW i \in Ids PROVE ArmedOf(i)'
  <2>0. ~Hidden(i) /\ ~Hidden(i)'
    BY <1>1, <1>2 DEF Hidden
  <2>1. Entry(i)' = Entry(i) /\ Generation(i)' = Generation(i) /\ Recorded(i)' = Recorded(i)
    BY <1>1, <2>0 DEF Entry, Generation, Recorded
  <2>2. ~Commanded(i) /\ ~Owes("ui", i)
    BY <1>1, <1>3, NamesDiffer DEF Commanded, Owes
  <2>3. ParkedOf(i)'
    BY <1>2 DEF ParkedOf
  <2>4. CASE i \in available' <=> i \in available
    BY <1>1, <1>2, <1>4, <2>1, <2>2, <2>3, <2>4, UiStays DEF Holding
  <2>5. CASE ~(i \in available' <=> i \in available)
    <3>1. SUFFICES ASSUME i \notin rewound' PROVE ArmedOf(i)'
      BY DEF ArmedOf
    <3>2. TasksOf(i) /\ ParkedOf(i) /\ There(i)' = There(i)
      BY <1>0, <1>1, <2>1, <3>1 DEF ArmedOf, There
    <3>3. About(i)' \subseteq About(i)
      BY <1>2, UiAt
    <3>4. TasksOf(i)'
      <4>1. \A r \in live' : Current(i, r) /\ Found(i, r) => Found(i, r)'
        BY <1>1, <1>2, <2>1, UiKeeps DEF Holding
      <4>2. ASSUME There(i)', NEW r \in live', Current(i, r) PROVE Found(i, r)'
        BY <1>1, <3>2, <4>1, <4>2 DEF TasksOf
      <4> QED  BY <1>0, <1>1, <1>2, <1>4, <2>1, <3>2, <3>3, <4>2, TasksStay
    <3>5. Due(i)' => Commanded(i)'
      <4>1. SUFFICES ASSUME Due(i)' PROVE task[i] = NoTask
        BY <1>1, <1>2 DEF Commanded
      <4>2. On(i) /\ ~stopped /\ i \notin overtaken /\ i \notin available
        BY <1>1, <2>1, <2>5, <4>1 DEF Due, On, There
      <4>3. Recorded(i) = NoTask
        BY <1>1, <3>2, <4>2 DEF ParkedOf
      <4> QED  BY <2>0, <4>3 DEF Recorded
    <3> QED  BY <2>3, <3>4, <3>5 DEF ArmedOf, Promised
  <2> QED  BY <2>4, <2>5
<1> QED  BY <1>5, <1>6 DEF ArmInv

(* An automation whose action is gone loses its task, one whose action is   *)
(* there and that has none is armed.                                        *)
LEMMA ReconcileArms ==
  ASSUME EngineInv, EngineInv', ArmInv, NumberedKept, NEW unresolved \in SUBSET Ids, Reconcile(unresolved)
  PROVE  ArmInv'
<1> USE NamesDiffer
<1>0. /\ TaskTypes /\ TaskPlaces /\ (\A i \in Ids : ArmedOf(i)) /\ "ui" \in Threads
      /\ at["ui"] = "reconcile" /\ up /\ toArm = {} /\ \A i \in Ids : ~Hidden(i)
  BY UiFacts DEF Reconcile, TaskPlaces, Arming, Holding
<1>1. /\ UNCHANGED <<up, stopped, automation, available, live, job, armed, before, changed, overtaken, rewound>>
      /\ operation' = "reconcile"
  BY DEF Reconcile
<1>2. CASE stopped
  <2>1. UNCHANGED <<generation, task, toCancel, toArm, unarmed>> /\ Goto("ui", "idle")
    BY <1>2 DEF Reconcile
  <2>2. UiMoves("idle") /\ at'["ui"] = "idle"
    <3>1. UiMoves("idle")
      BY <1>0, <1>1, <2>1 DEF UiMoves
    <3> QED  BY <3>1, UiAt
  <2>3. TaskTypes'
    BY <1>0, <1>1, <2>1 DEF TaskTypes
  <2>4. TaskShape'
    <3>1. SaveShape'
      BY <2>2 DEF SaveShape
    <3> QED  BY <1>0, <1>1, <2>1, <2>2, <2>3, <3>1, UiShape DEF Holding
  <2>5. ASSUME NEW i \in Ids PROVE ArmedOf(i)'
    <3>1. Entry(i)' = Entry(i) /\ Generation(i)' = Generation(i) /\ Recorded(i)' = Recorded(i)
      BY <1>0, <1>1, <2>1, <2>2 DEF Entry, Generation, Recorded, Hidden
    <3>2. ParkedOf(i)' /\ ~Due(i)'
      BY <1>1, <1>2 DEF ParkedOf, Due
    <3> QED  BY <1>0, <1>1, <2>1, <2>2, <2>3, <3>1, <3>2, UiStays DEF Holding
  <2> QED  BY <2>4, <2>5 DEF ArmInv
<1>3. CASE ~stopped
  <2>1. /\ Disarm(Parked) /\ Goto("ui", "unschedule") /\ Parked \in SUBSET Ids
        /\ toArm' = {i \in (Enabled \intersect available) \ unresolved : task[i] = NoTask}
        /\ unarmed' = (unarmed \ toArm')
             \union {i \in unresolved \intersect Enabled \intersect available : task[i] = NoTask}
    BY <1>3 DEF Reconcile, Parked, Enabled, Present
  <2>2. UiMoves("unschedule") /\ at'["ui"] = "unschedule"
    <3>1. UiMoves("unschedule")
      BY <1>0, <1>1, <2>1 DEF UiMoves
    <3> QED  BY <3>1, UiAt
  <2>3. TaskTypes'
    BY <1>0, <1>1, <2>1, DisarmFacts DEF TaskTypes
  <2>4. TaskShape'
    <3>1. SaveShape'
      BY <2>2 DEF SaveShape
    <3> QED  BY <1>0, <1>1, <2>1, <2>2, <2>3, <3>1, UiShape DEF Holding
  <2>5. ASSUME NEW i \in Ids, i \notin rewound'
        PROVE  TasksOf(i)' /\ ParkedOf(i)' /\ (Due(i)' => Promised(i)')
    <3>0. TasksOf(i) /\ ParkedOf(i) /\ (Due(i) => Promised(i))
      BY <1>0, <1>1, <2>5 DEF ArmedOf
    <3>1. /\ TasksOf(i)' /\ There(i)' = There(i) /\ On(i)' = On(i)
          /\ Recorded(i)' = task'[i] /\ Recorded(i) = task[i] /\ Entry(i)' = Entry(i)
          /\ i \notin Parked => Generation(i)' = Generation(i)
      BY <1>0, <1>1, <2>1, <2>2, <2>3, <3>0, DisarmedTasks
    <3>2. /\ i \in Parked => task'[i] = NoTask
          /\ i \notin Parked => task'[i] = task[i]
      BY <1>0, <2>1, DisarmFacts
    <3>3. On(i) <=> i \in Enabled
      BY <1>0 DEF On, There, Entry, Enabled, Present
    <3>4. ParkedOf(i)'
      BY <1>1, <3>1, <3>2, <3>3 DEF ParkedOf, Parked
    <3>5. ASSUME Due(i)' PROVE Promised(i)'
      <4>1. i \in Enabled /\ i \in available /\ i \notin overtaken /\ i \notin unarmed' /\ i \notin Parked
        BY <1>1, <3>1, <3>3, <3>5 DEF Due, Parked
      <4>2. CASE i \in toArm'
        BY <4>2 DEF Promised, Commanded
      <4>3. CASE i \notin toArm'
        <5>1. task[i] # NoTask /\ i \notin unarmed
          BY <2>1, <4>1, <4>3
        <5>2. Due(i)
          BY <1>0, <1>1, <3>3, <4>1, <5>1, <1>3 DEF Due
        <5>3. ~Commanded(i) /\ ~Owes("ui", i)
          BY <1>0, <5>1 DEF Commanded, Owes
        <5>4. /\ Waiting(i) => Waiting(i)'
              /\ Starting(i) => Starting(i)'
              /\ \A t \in Workers : Owes(t, i) => Owes(t, i)'
          BY <1>0, <1>1, <2>2, <3>1, <4>1, UiKeeps DEF Holding
        <5>5. (\E t \in Threads : Owes(t, i)) => \E t \in Threads : Owes(t, i)'
          BY <5>3, <5>4
        <5> QED  BY <3>0, <5>2, <5>3, <5>4, <5>5 DEF Promised
      <4> QED  BY <4>2, <4>3
    <3> QED  BY <3>1, <3>4, <3>5
  <2> QED  BY <2>4, <2>5 DEF ArmInv, ArmedOf
<1> QED  BY <1>2, <1>3

(* The clock was changed: tasks of other times are replaced.                *)
LEMMA RefreshArms ==
  ASSUME EngineInv, EngineInv', ArmInv, NumberedKept, NEW moved \in SUBSET Ids, NEW unresolved \in SUBSET Ids,
         Refresh(moved, unresolved)
  PROVE  ArmInv'
<1> USE NamesDiffer
<1> DEFINE ids == {i \in moved \union unresolved : task[i] # NoTask}
<1>0. /\ TaskTypes /\ TaskPlaces /\ (\A i \in Ids : ArmedOf(i)) /\ "ui" \in Threads
      /\ at["ui"] = "idle" /\ up /\ toArm = {} /\ \A i \in Ids : ~Hidden(i)
  BY UiFacts DEF Refresh, TaskPlaces, Arming, Holding
<1>1. /\ UNCHANGED <<up, stopped, automation, available, live, job, armed, before, changed, overtaken, rewound>>
      /\ operation' = "refresh" /\ Disarm(ids) /\ toArm' = moved \intersect available
      /\ Goto("ui", "unschedule") /\ unarmed' = (unarmed \ moved) \union unresolved
  BY DEF Refresh
<1>2. UiMoves("unschedule") /\ at'["ui"] = "unschedule"
  <2>1. UiMoves("unschedule")
    BY <1>0, <1>1 DEF UiMoves
  <2> QED  BY <2>1, UiAt
<1>3. TaskTypes'
  BY <1>0, <1>1, DisarmFacts DEF TaskTypes
<1>4. TaskShape'
  <2>1. SaveShape'
    BY <1>2 DEF SaveShape
  <2> QED  BY <1>0, <1>1, <1>2, <1>3, <2>1, UiShape DEF Holding
<1>5. ASSUME NEW i \in Ids, i \notin rewound'
      PROVE  TasksOf(i)' /\ ParkedOf(i)' /\ (Due(i)' => Promised(i)')
  <2>0. TasksOf(i) /\ ParkedOf(i) /\ (Due(i) => Promised(i))
    BY <1>0, <1>1, <1>5 DEF ArmedOf
  <2>1. /\ TasksOf(i)' /\ There(i)' = There(i) /\ On(i)' = On(i)
        /\ Recorded(i)' = task'[i] /\ Recorded(i) = task[i] /\ Entry(i)' = Entry(i)
        /\ i \notin ids => Generation(i)' = Generation(i)
    BY <1>0, <1>1, <1>2, <1>3, <2>0, DisarmedTasks
  <2>2. /\ i \in ids => task'[i] = NoTask
        /\ i \notin ids => task'[i] = task[i]
    BY <1>0, <1>1, DisarmFacts
  <2>3. ParkedOf(i)'
    BY <1>0, <1>1, <2>0, <2>1, <2>2 DEF ParkedOf
  <2>4. ASSUME Due(i)' PROVE Promised(i)'
    <3>1. CASE i \in toArm'
      BY <3>1 DEF Promised, Commanded
    <3>2. CASE i \notin toArm'
      <4>1. i \notin moved \union unresolved /\ i \notin unarmed
        BY <1>1, <2>4, <3>2 DEF Due
      <4>2. Due(i)
        BY <1>1, <2>1, <2>4, <4>1 DEF Due
      <4>3. ~Commanded(i) /\ ~Owes("ui", i)
        BY <1>0 DEF Commanded, Owes
      <4>4. /\ Waiting(i) => Waiting(i)'
            /\ Starting(i) => Starting(i)'
            /\ \A t \in Workers : Owes(t, i) => Owes(t, i)'
        BY <1>0, <1>1, <1>2, <2>1, <4>1, UiKeeps DEF Holding
      <4>5. (\E t \in Threads : Owes(t, i)) => \E t \in Threads : Owes(t, i)'
        BY <4>3, <4>4
      <4> QED  BY <2>0, <4>2, <4>3, <4>4, <4>5 DEF Promised
    <3> QED  BY <3>1, <3>2
  <2> QED  BY <2>1, <2>3, <2>4
<1> QED  BY <1>4, <1>5 DEF ArmInv, ArmedOf

(* Nothing is left of the tasks when the program is killed.                 *)
LEMMA CrashArms ==
  ASSUME EngineInv', ArmInv, NumberedKept, Crash
  PROVE  ArmInv'
<1>0. "timer" \in Threads /\ "ui" \in Threads /\ NoTask \notin Task /\ TasksNumbered /\ EngineTypes'
      /\ available \subseteq available'
  BY DEF Threads, NoTask, Task, ArmInv, TaskShape, Crash, EngineInv, EngineShape
<1>1. /\ up' = FALSE /\ stopped' = FALSE /\ automation' = Nothing /\ generation' = Zero /\ task' = NoTasks
      /\ live' = {} /\ toCancel' = {} /\ toArm' = {} /\ before' = NoEntries
      /\ armed' = [t \in Threads |-> NoTask] /\ \A t \in Threads : at'[t] = "idle"
  BY DEF Crash
<1>2. TaskTypes'
  BY <1>1, FS_EmptySet DEF TaskTypes, NoEntries, Zero, NoTasks
<1>3. TaskPlaces'
  BY <1>0, <1>1 DEF TaskPlaces, Holding
<1>4. \A i \in Ids : About(i)' = {}
  BY <1>1 DEF About
<1>5. TasksNumbered'
  BY <1>1, <1>4, NamesDiffer DEF TasksNumbered, Arming, Holding
<1>6. SaveShape'
  BY <1>0, <1>1 DEF SaveShape
<1>7. ASSUME NEW i \in Ids PROVE ArmedOf(i)'
  <2>1. ~There(i)'
    BY <1>0, <1>1 DEF There, Entry, Hidden, Nothing, None
  <2> QED  BY <2>1 DEF ArmedOf, TasksOf, ParkedOf, On, Due
<1> QED  BY <1>2, <1>3, <1>5, <1>6, <1>7 DEF ArmInv, TaskShape

(* What was saved is going to be armed.                                     *)
LEMMA RestartArms ==
  ASSUME EngineInv, EngineInv', ArmInv, NumberedKept, NEW unresolved \in SUBSET Ids, Restart(unresolved)
  PROVE  ArmInv'
<1> USE NamesDiffer
<1>0. /\ TaskTypes /\ TaskPlaces /\ TasksNumbered /\ EngineTypes' /\ disk \in [Ids -> Automation]
      /\ at["ui"] = "idle" /\ (\A t \in Workers : at[t] \in {"idle", "fire"}) /\ "ui" \in Threads
      /\ at \in [Threads -> UiSteps \union TimerSteps \union ExecutionSteps]
      /\ live = {} /\ armed = [t \in Threads |-> NoTask] /\ task = NoTasks
  BY UiFacts DEF EngineInv, EngineShape, EngineTypes, Places, Restart, TaskPlaces
<1>1. /\ UNCHANGED <<stopped, generation, task, available, live, job, armed, changed, before, toCancel,
                     unarmed, overtaken, rewound>>
      /\ automation' = [i \in Ids |-> [disk[i] EXCEPT !.enabled = @ /\ i \notin unresolved]]
      /\ operation' = "restore" /\ up' = TRUE
      /\ toArm' = {i \in available \ unresolved : disk[i].enabled}
  BY DEF Restart
<1>2. /\ at'["ui"] = IF toArm' = {} THEN "idle" ELSE "next"
      /\ \A t \in Workers : at'[t] = at[t]
  BY <1>0 DEF Restart, Goto
<1>3. TaskTypes'
  BY <1>0, <1>1 DEF TaskTypes
<1>4. \A i \in Ids : About(i)' = {}
  BY <1>0, <1>1 DEF About
<1>5. TasksNumbered'
  BY <1>0, <1>2, <1>4 DEF TasksNumbered, Arming, Holding
<1>6. TaskPlaces'
  <2>1. NoTask \notin Task /\ "timer" \in Workers /\ "timer" \in Threads
    BY DEF NoTask, Task, Threads
  <2>2. at["timer"] # "fire"
    BY <1>0, <2>1 DEF TaskPlaces
  <2> QED  BY <1>0, <1>1, <1>2, <2>1, <2>2 DEF TaskPlaces, Holding
<1>7. SaveShape'
  BY <1>2 DEF SaveShape
<1>8. ASSUME NEW i \in Ids PROVE ArmedOf(i)'
  <2>1. TasksOf(i)'
    BY <1>0, <1>1, <1>4 DEF TasksOf
  <2>2. ~Hidden(i)'
    BY <1>2 DEF Hidden
  <2>3. ParkedOf(i)'
    BY <1>0, <1>1, <2>2 DEF ParkedOf, Recorded, NoTasks
  <2>4. ASSUME Due(i)' PROVE Commanded(i)'
    <3>1. i \in available /\ automation'[i].enabled
      BY <1>1, <2>2, <2>4 DEF Due, On, Entry
    <3>2. disk[i].enabled /\ i \notin unresolved
      BY <1>0, <1>1, <3>1 DEF Automation
    <3> QED  BY <1>1, <3>1, <3>2 DEF Commanded
  <2> QED  BY <2>1, <2>3, <2>4 DEF ArmedOf, Promised
<1> QED  BY <1>3, <1>5, <1>6, <1>7, <1>8 DEF ArmInv, TaskShape

(* At first there is nothing to arm.                                        *)
LEMMA InitArms == Init => ArmInv
<1> SUFFICES ASSUME Init PROVE ArmInv
  OBVIOUS
<1>1. /\ up = TRUE /\ automation = Nothing /\ generation = Zero /\ task = NoTasks
      /\ live = {} /\ toCancel = {} /\ toArm = {} /\ before = NoEntries
      /\ armed = [t \in Threads |-> NoTask] /\ \A t \in Threads : at[t] = "idle"
  BY DEF Init, Idle, NoCommand
<1>2. "timer" \in Threads /\ "ui" \in Threads
  BY DEF Threads
<1>3. TaskTypes
  BY <1>1, FS_EmptySet DEF TaskTypes, NoEntries, Zero, NoTasks
<1>4. TaskPlaces
  BY <1>1, <1>2 DEF TaskPlaces, Holding
<1>5. \A i \in Ids : About(i) = {}
  BY <1>1 DEF About
<1>6. TasksNumbered
  BY <1>1, <1>5, NamesDiffer DEF TasksNumbered, Arming, Holding
<1>7. SaveShape
  BY <1>1, <1>2 DEF SaveShape
<1>8. ASSUME NEW i \in Ids PROVE ArmedOf(i)
  <2>1. ~There(i)
    BY <1>1, <1>2 DEF There, Entry, Hidden, Nothing, None
  <2> QED  BY <2>1 DEF ArmedOf, TasksOf, ParkedOf, On, Due
<1> QED  BY <1>3, <1>4, <1>6, <1>7, <1>8 DEF ArmInv, TaskShape

(* Every step keeps the inductive invariant.                                *)
LEMMA ArmStep ==
  ASSUME EngineInv, EngineInv', ArmInv, [Next]_vars
  PROVE  ArmInv'
<1> USE NamesDiffer
<1>0. NumberedKept /\ Places
  BY NumbersStay DEF NumberedKept, EngineInv, EngineShape
<1>1. CASE Commands
  <2>1. ASSUME NEW i \in Ids, Cancel(i) PROVE ArmInv'
    BY <1>0, <2>1, RemoveArms DEF Cancel
  <2>2. ASSUME Clear PROVE ArmInv'
    <3>1. Present \in SUBSET Ids
      BY DEF Present
    <3> QED  BY <1>0, <2>2, <3>1, RemoveArms DEF Clear
  <2>3. ASSUME NEW i \in Ids, Enable(i) \/ Disable(i) \/ PluginChange(i) PROVE ArmInv'
    BY <1>0, <2>3, EnableArms, DisableArms, PluginArms
  <2>4. ASSUME NEW kind \in Kinds, Add(kind) PROVE ArmInv'
    BY <1>0, <2>4, AddArms
  <2>5. ASSUME NEW i \in Ids, NEW p \in Policies, SetPolicy(i, p) PROVE ArmInv'
    BY <1>0, <2>5, PolicyArms
  <2>6. ASSUME NEW moved \in SUBSET Ids, NEW unresolved \in SUBSET Ids, Refresh(moved, unresolved)
        PROVE  ArmInv'
    BY <1>0, <2>6, RefreshArms
  <2> QED  BY <1>0, <1>1, <2>1, <2>2, <2>3, <2>4, <2>5, <2>6, StopArms DEF Commands
<1>2. CASE Ui
  <2>1. {} \in SUBSET Ids
    OBVIOUS
  <2>2. ASSUME Arm("ui") PROVE ArmInv'
    <3>1. "ui" \in Threads
      BY DEF Threads
    <3> QED  BY <1>0, <2>2, <3>1, ArmArms
  <2> QED  BY <1>0, <1>2, <2>1, <2>2, SaveArms, UnscheduleArms, AwaitOrNextArms, ReconcileArms DEF Ui
<1>3. ASSUME NEW t \in Workers, Complete(t) PROVE ArmInv'
  <2>1. t \in Threads
    OBVIOUS
  <2>2. CASE CompleteSave(t) \/ Report(t)
    BY <1>0, <2>2, ExecutionPasses
  <2>3. CASE CompleteRetry(t) \/ Arm(t)
    BY <1>0, <2>1, <2>3, RetryArms, ArmArms
  <2>4. CASE CompleteRecurring(t, TRUE) \/ CompleteGone(t)
    BY <1>0, <2>1, <2>4, CompletePasses
  <2> QED  BY <1>3, <2>2, <2>3, <2>4 DEF Complete
<1>4. CASE StartTask \/ Timer
  BY <1>0, <1>3, <1>4, StartStarts, StaleIsDropped, FireArms, PreflightPasses, SubmitPasses DEF Timer
<1>5. ASSUME NEW e \in Executions, Execution(e) PROVE ArmInv'
  <2>1. CASE Invoke(e, TRUE) \/ Invoke(e, FALSE)
    BY <1>0, <2>1, ExecutionPasses
  <2> QED  BY <1>3, <1>5, <2>1 DEF Execution
<1>6. CASE Mishap
  <2>1. ASSUME NEW kept \in BOOLEAN, UiSaveFails(kept) \/ FireSaveFails(kept) PROVE ArmInv'
    BY <1>0, <2>1, SaveFailsArms, PreflightPasses
  <2>2. ASSUME NEW kept \in BOOLEAN, NEW t \in Threads, CompleteSaveFails(t, kept) PROVE ArmInv'
    <3>1. t \in Workers
      BY <1>0, <2>2 DEF Places, UiSteps, CompleteSaveFails
    <3> QED  BY <1>0, <2>2, <3>1, ExecutionPasses
  <2>3. ASSUME NEW t \in Threads, CompleteRecurring(t, FALSE) PROVE ArmInv'
    BY <1>0, <2>3, CompletePasses
  <2>4. ASSUME NEW unresolved \in SUBSET Ids, Reconcile(unresolved) \/ Restart(unresolved) PROVE ArmInv'
    BY <1>0, <2>4, ReconcileArms, RestartArms
  <2> QED  BY <1>0, <1>6, <2>1, <2>2, <2>3, <2>4, FireArms, CrashArms DEF Mishap
<1>7. CASE UNCHANGED vars
  <2>1. \A i \in Ids : ArmedOf(i)' <=> ArmedOf(i)
    BY <1>7 DEF vars, entries, threads, command, ghosts, outcomes, ArmedOf, TasksOf, ParkedOf, Due, Promised,
       Waiting, Starting, Owes, Commanded, Found, Current, On, There, Entry, Generation, Recorded,
       Hidden, About, Once
  <2>2. TaskTypes' /\ TaskPlaces'
    BY <1>7 DEF vars, entries, threads, command, ghosts, TaskTypes, TaskPlaces, ArmInv, TaskShape
  <2>3. TasksNumbered' /\ SaveShape'
    BY <1>7 DEF vars, entries, threads, command, store, ghosts, TasksNumbered, SaveShape, ArmInv, TaskShape,
       Numbered, Adding, About, Hidden
  <2> QED  BY <2>1, <2>2, <2>3 DEF ArmInv, TaskShape
<1> QED  BY <1>1, <1>2, <1>4, <1>5, <1>6, <1>7 DEF Next

(* Whatever commands, plugins, changes of the clock, executions, failing    *)
(* saves and kills come in between: at rest every enabled automation whose  *)
(* action is registered has exactly one task that will fire it, and one     *)
(* whose action is gone has none (the exceptions are those of               *)
(* EnabledIsArmed and ParkedIsNotArmed).                                    *)
THEOREM AutomationsAreArmed == Spec => []AutomationsArmed
<1>1. EngineInv /\ EngineInv' /\ ArmInv /\ [Next]_vars => ArmInv'
  BY ArmStep
<1>2. ASSUME EngineInv, ArmInv, Accounted
      PROVE  AutomationsArmed
  <2> USE NamesDiffer
  <2>0. /\ EngineTypes /\ MutexHeld /\ InFlightCounted /\ TaskTypes /\ TaskPlaces
        /\ (\A i \in Ids : ArmedOf(i)) /\ "timer" \in Threads /\ "ui" \in Threads
    BY <1>2, UiFacts DEF EngineInv, EngineShape, Accounted
  <2>1. TypeOK
    <3>1. inFlight = Cardinality({e \in Executions : at[e] # "idle"}) +
                  (IF at["timer"] \in {"idle", "fire"} THEN 0 ELSE 1)
      BY <2>0 DEF InFlightCounted, Running, TimerBusy
    <3>2. \A r \in live : r.id \in Ids /\ r.generation > 0 /\ r.number > 0
      BY <2>0, SMT DEF TaskTypes, Task
    <3>3. generation \in [Ids -> Nat] /\ \A t \in Threads : job[t] \in Job
      BY <2>0 DEF TaskTypes, EngineTypes
    <3> QED  BY <2>0, <3>1, <3>2, <3>3 DEF TypeOK, EngineTypes, MutexHeld
  <2>2. ASSUME at = [t \in Threads |-> "idle"], NEW i \in Ids, i \notin rewound
        PROVE  /\ TasksOf(i) /\ ParkedOf(i) /\ (Due(i) => Waiting(i)) /\ ~Hidden(i)
               /\ \A r : ~\E t \in Threads : at[t] \in Holding /\ armed[t] = r
    <3>1. \A t \in Threads : at[t] = "idle"
      BY <2>2
    <3>2. toArm = {}
      BY <2>0, <3>1 DEF TaskPlaces, Arming, Holding
    <3>3. ~Starting(i) /\ ~Commanded(i) /\ \A t \in Threads : ~Owes(t, i)
      BY <2>0, <3>1, <3>2 DEF Starting, Commanded, Owes, Carrying
    <3> QED  BY <2>0, <2>2, <3>1, <3>3 DEF ArmedOf, Promised, Hidden, Holding
  <2>3. EnabledIsArmed
    <3>1. SUFFICES ASSUME up, ~stopped, at = [t \in Threads |-> "idle"],
                          NEW i \in (Enabled \intersect available) \ (unarmed \union overtaken \union rewound)
                   PROVE  Cardinality(Effective(i)) = 1
      BY DEF EnabledIsArmed
    <3>2. i \in Ids /\ On(i) /\ There(i) /\ ~Hidden(i)
      BY <1>2, EnabledIsPlain
    <3>3. Due(i) /\ TasksOf(i) /\ Waiting(i)
      BY <2>2, <3>1, <3>2 DEF Due
    <3>4. PICK r \in live : Current(i, r)
      BY <3>3 DEF Waiting
    <3>5. \A s1 \in live : Current(i, s1) <=> s1 \in Effective(i)
      BY <3>1, <3>2 DEF Effective, MayFire, Current, Generation
    <3>6. \A s1 \in live : Current(i, s1) => s1 = r
      <4>1. \A s1 \in live : Current(i, s1) => s1 \in About(i)
        BY <2>0, LiveIsAbout DEF Current
      <4> QED  BY <3>2, <3>3, <3>4, <4>1 DEF TasksOf
    <3>7. Effective(i) = {r}
      BY <3>4, <3>5, <3>6 DEF Effective
    <3> QED  BY <3>7, FS_Singleton
  <2>4. ParkedIsNotArmed
    <3>1. SUFFICES ASSUME up, at = [t \in Threads |-> "idle"],
                          NEW i \in Ids \ (available \union overtaken \union rewound), NEW r \in Effective(i)
                   PROVE  FALSE
      BY DEF ParkedIsNotArmed
    <3>2. r \in live /\ r.id = i /\ ~stopped /\ i \in Enabled /\ generation[i] = r.generation
      BY DEF Effective, MayFire
    <3>3. On(i) /\ There(i) /\ ~Hidden(i)
      BY <1>2, <3>2, EnabledIsPlain
    <3>4. Current(i, r)
      BY <3>2, <3>3 DEF Current, Generation
    <3>5. Recorded(i) = r
      BY <2>2, <3>1, <3>2, <3>3, <3>4 DEF TasksOf, Found
    <3>6. Recorded(i) = NoTask
      BY <2>0, <2>2, <3>1, <3>2, <3>3 DEF ParkedOf
    <3> QED  BY <2>0, <3>2, <3>5, <3>6, LiveIsAbout
  <2> QED  BY <2>1, <2>3, <2>4 DEF AutomationsArmed
<1> QED  BY <1>1, <1>2, InitArms, EngineInvariant, AccountedInvariant, PTL DEF Spec

=============================================================================
