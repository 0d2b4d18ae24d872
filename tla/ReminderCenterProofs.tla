------------------------- MODULE ReminderCenterProofs -------------------------
(* RemindersArmed, RemindersKept and ShownOnce for any number of reminders,   *)
(* firings, failing saves and crashes.  Only the counters relate reminders to *)
(* each other, so the invariant is the shape of the state and, reminder by    *)
(* reminder, how its entry, its tasks, its place on file and the two threads  *)
(* fit together.                                                              *)
EXTENDS ReminderCenter, TLAPS

UiSteps == {"idle", "save", "unschedule", "restore", "arm", "schedule", "record", "drop"}
WorkerSteps == {"idle", "fire", "saveLast", "saveAgain", "showLast", "showAgain",
                "arm", "schedule", "record", "drop"}
Arming == {"arm", "schedule", "record", "drop"}

CenterShape ==
  /\ TypeOK
  /\ at["ui"] \in UiSteps /\ at["worker"] \in WorkerSteps
  /\ mutation = "ui" <=> at["ui"] = "save"
  /\ mutation = "worker" <=> at["worker"] \in {"saveLast", "saveAgain"}
  /\ toArm # {} => at["ui"] \in {"restore"} \union Arming
  /\ ~up => /\ at["ui"] = "idle" /\ at["worker"] = "idle"
            /\ live = {} /\ orphans = {} /\ kind = Empty /\ ~stopped
  /\ at["ui"] = "save" => operation # "stop" /\ (operation = "clear" => kind = Empty)
  /\ at["ui"] = "unschedule" => operation # "add"
  /\ operation = "add" => removed = {}
  /\ stopped => /\ kind = Empty /\ mutation # "worker"
                /\ at["ui"] = "save" => operation = "clear" /\ removed = {}
  /\ \A t \in Threads : at[t] = "schedule" => armed[t] # 0
  /\ up /\ ~stopped /\ ~doubtful =>
       /\ mutation = "free" => diskNext = next
       /\ at["ui"] = "save" => diskNext = IF operation = "add" THEN next - 1 ELSE next

(* The reminder is being added, or taken away, and the save can still fail.   *)
Adding(i) == at["ui"] = "save" /\ operation = "add" /\ id["ui"] = i
Leaving(i) == at["ui"] = "save" /\ i \in removed
Alive(i) == kind[i] # "none" \/ Leaving(i)

(* "ui" arms it; it has no task yet, and "ui" is to give it one.              *)
Arms(i) == at["ui"] \in Arming /\ id["ui"] = i
Fresh(i) == i \in toArm \/ Adding(i) \/ (at["ui"] \in {"arm", "schedule"} /\ id["ui"] = i)

(* The worker works on it, for the last time, or to give up a task.           *)
Busy(i) == at["worker"] # "idle" /\ id["worker"] = i
Lasts(i) == at["worker"] \in {"saveLast", "showLast"} /\ id["worker"] = i
Drops(i) == at["worker"] = "drop" /\ id["worker"] = i
Holds(i) == Busy(i) /\ at["worker"] \notin {"record", "drop"}

(* What a change that is under way comes back to when its save fails.         *)
ChangeOf(i) ==
  at["ui"] = "save" =>
    /\ i \in removed => kind[i] = "none" /\ before[i] # "none"
    /\ Adding(i) => kind[i] # "none" /\ before[i] = "none" /\ next = i + 1
    /\ i \notin removed /\ ~Adding(i) => kind[i] = before[i]

(* Its number is not given to another one while anything knows of it.         *)
Numbered(i) == i < diskNext /\ (up => i < next /\ ~Adding(i))
GivesUp(i) == at["ui"] = "unschedule" /\ i \in GivenUp
HasTask(i) == <<i, generation[i]>> \in live
NumberOf(i) ==
  /\ disk[i] # "none" => i < diskNext
  /\ Alive(i) => Numbered(i) \/ Adding(i)
  /\ i \in accepted \union cancelled \union orphans \union toArm => Numbered(i)
  /\ shown[i] # 0 \/ HasTask(i) \/ Busy(i) \/ Arms(i) \/ GivesUp(i) => Numbered(i)

(* A task is of the newest generation and the only one of its reminder, it    *)
(* can be found when the reminder goes, and no thread is about to add one.    *)
OwnedBy(t, i) == at[t] \in {"record", "drop"} /\ id[t] = i /\ armed[t] = generation[i]
Settled(i) ==
  /\ runtime[i] = generation[i]
  /\ kind[i] # "none" \/ (at["ui"] \in {"save", "unschedule"} /\ i \in removed)
TaskOf(i) ==
  /\ \A g \in Nat : <<i, g>> \in live => g = generation[i]
  /\ HasTask(i) => /\ Settled(i) \/ OwnedBy("ui", i) \/ OwnedBy("worker", i)
                   /\ i \in orphans => Drops(i)
                   /\ ~Holds(i) /\ ~Fresh(i)
  /\ Busy(i) => /\ armed["worker"] = generation[i] /\ ~Fresh(i)
                /\ i \in orphans => Drops(i)
  /\ at["ui"] = "schedule" /\ id["ui"] = i => armed["ui"] = generation[i]
  /\ at["ui"] \in {"record", "drop"} /\ id["ui"] = i => armed["ui"] <= generation[i]
  /\ Arms(i) => i \notin orphans \union toArm
  /\ i \in toArm => i \notin orphans

(* It is not forgotten.                                                       *)
RestOf(i) ==
  /\ Alive(i) => i \in orphans \/ HasTask(i) \/ Fresh(i) \/ (Holds(i) /\ ~Lasts(i))
  /\ Lasts(i) => ~Alive(i)
  /\ Drops(i) => i \in orphans \/ ~Alive(i)
  /\ at["ui"] = "drop" /\ id["ui"] = i => ~Alive(i) \/ armed["ui"] # generation[i]
  /\ at["ui"] = "unschedule" /\ i \in removed => kind[i] = "none"

(* On file it is what it is in memory or, while a change is saved, was.       *)
FileOf(i) ==
  /\ up /\ ~stopped /\ ~doubtful =>
       /\ mutation = "free" => disk[i] = kind[i]
       /\ at["ui"] = "save" => disk[i] = before[i]
  /\ i \in cancelled => ~Alive(i) /\ disk[i] = "none"
  /\ GivesUp(i) => kind[i] = "none" /\ disk[i] = "none"

(* If accepted, it is there, or was shown, or is about to be, or goes.        *)
Reports(i) == (at["worker"] = "showLast" /\ id["worker"] = i) \/ GivesUp(i)
KeptOf(i) ==
  i \in accepted /\ i \notin cancelled =>
    /\ ~doubtful => disk[i] # "none" \/ shown[i] # 0 \/ Reports(i)
    /\ up /\ ~stopped => kind[i] # "none" \/ shown[i] # 0 \/ Lasts(i) \/ Leaving(i) \/ GivesUp(i)
    /\ ~up => disk[i] # "none" \/ shown[i] # 0

(* If it fires once and was shown, it is nowhere to be shown again.           *)
SameKind(a, b) == a = b \/ a = "none" \/ b = "none"
OnceAt(i) == kind[i] = "once" \/ disk[i] = "once" \/ (at["ui"] = "save" /\ before[i] = "once")
ShownOf(i) ==
  /\ up /\ i < next /\ ~Adding(i) =>
       SameKind(kind[i], disk[i]) /\ (at["ui"] = "save" => SameKind(before[i], disk[i]))
  /\ shown[i] # 0 => i \in repeated \/ ~OnceAt(i)
  /\ Lasts(i) => i \in repeated \/ shown[i] = 0
  /\ at["worker"] = "showLast" /\ id["worker"] = i => i \in repeated \/ disk[i] = "none"
  /\ at["worker"] \in {"saveAgain", "showAgain"} /\ id["worker"] = i => ~OnceAt(i)

ReminderInv(i) ==
  /\ ChangeOf(i) /\ NumberOf(i) /\ TaskOf(i) /\ RestOf(i)
  /\ FileOf(i) /\ KeptOf(i) /\ ShownOf(i)

CenterInv == CenterShape /\ \A i \in Ids : ReminderInv(i)

-----------------------------------------------------------------------------
LEMMA InitCenterInv == Init => CenterInv
<1> SUFFICES ASSUME Init PROVE CenterInv
  OBVIOUS
<1>1. TypeOK
  <2>1. 1 \in Ids /\ 1 \in 1..MaxReminders + 1
    BY BoundsAssumption DEF Ids
  <2>2. kind \in [Ids -> Kind] /\ before \in [Ids -> Kind] /\ disk \in [Ids -> Kind]
    BY DEF Init, Empty, Kind
  <2>3. generation \in [Ids -> Nat] /\ runtime \in [Ids -> Nat] /\ shown \in [Ids -> Nat]
    BY DEF Init, Zero
  <2>4. id \in [Threads -> Ids] /\ armed \in [Threads -> Nat]
    BY <2>1 DEF Init
  <2> QED  BY <2>1, <2>2, <2>3, <2>4 DEF Init, TypeOK, Threads
<1>2. at["ui"] = "idle" /\ at["worker"] = "idle"
  BY DEF Init, Threads
<1>3. CenterShape
  BY <1>1, <1>2 DEF Init, CenterShape, UiSteps, WorkerSteps, Threads
<1>4. \A i \in Ids : ReminderInv(i)
  <2> TAKE i \in Ids
  <2>1. kind[i] = "none" /\ disk[i] = "none" /\ shown[i] = 0
    BY DEF Init, Empty, Zero
  <2> QED
    BY <1>2, <2>1
    DEF Init, ReminderInv, ChangeOf, NumberOf, TaskOf, RestOf, FileOf, KeptOf, ShownOf, Alive,
        Adding, Leaving, Arms, Fresh, Busy, Lasts, Drops, Holds, HasTask, GivesUp, SameKind, Arming
<1> QED  BY <1>3, <1>4 DEF CenterInv

(* A thread goes on to another step.                                          *)
LEMMA Goes ==
  ASSUME TypeOK, NEW t \in Threads, NEW s \in UiSteps \union WorkerSteps, Goto(t, s)
  PROVE  /\ at'[t] = s /\ \A u \in Threads : u # t => at'[u] = at[u]
         /\ at' \in [Threads -> {"idle", "save", "unschedule", "restore", "arm", "schedule",
                                "record", "drop", "fire", "saveLast", "saveAgain",
                                "showLast", "showAgain"}]
  BY DEF TypeOK, Goto, UiSteps, WorkerSteps

LEMMA AddInv ==
  ASSUME CenterInv, NEW k \in {"once", "every"}, Add(k) PROVE CenterInv'
<1>0. TypeOK /\ CenterShape /\ \A i \in Ids : ReminderInv(i)
  BY DEF CenterInv, CenterShape
<1>1. /\ up /\ at["ui"] = "idle" /\ mutation = "free" /\ ~stopped /\ next \in Ids
      /\ at'["ui"] = "save" /\ at'["worker"] = at["worker"]
      /\ id'["ui"] = next /\ id'["worker"] = id["worker"]
      /\ next' = next + 1 /\ mutation' = "ui" /\ operation' = "add" /\ removed' = {} /\ before' = kind
      /\ at' = [at EXCEPT !["ui"] = "save"] /\ id' = [id EXCEPT !["ui"] = next]
  BY <1>0 DEF Add, Goto, TypeOK, Ids, Threads
<1>2. /\ kind' \in [Ids -> Kind] /\ generation' \in [Ids -> Nat] /\ runtime' \in [Ids -> Nat]
      /\ shown' \in [Ids -> Nat]
      /\ \A i \in Ids :
           /\ kind'[i] = IF i = next THEN k ELSE kind[i]
           /\ generation'[i] = IF i = next THEN 0 ELSE generation[i]
           /\ runtime'[i] = IF i = next THEN 0 ELSE runtime[i]
           /\ shown'[i] = IF i = next THEN 0 ELSE shown[i]
  BY <1>0, <1>1 DEF Add, TypeOK, Kind
<1>3. /\ UNCHANGED <<up, stopped, live, armed, toArm, disk, diskNext, fires, failures, crashes>>
      /\ UNCHANGED <<accepted, cancelled, doubtful, repeated, orphans>>
  BY DEF Add, store, bounds
<1>4. TypeOK'
  <2>1. next' \in 1..MaxReminders + 1
    BY <1>1, BoundsAssumption DEF Ids
  <2>2. at' \in [Threads -> {"idle", "save", "unschedule", "restore", "arm", "schedule",
                            "record", "drop", "fire", "saveLast", "saveAgain",
                            "showLast", "showAgain"}]
    BY <1>0, <1>1 DEF TypeOK
  <2>3. id' \in [Threads -> Ids]
    BY <1>0, <1>1 DEF TypeOK
  <2> QED  BY <1>0, <1>1, <1>2, <1>3, <2>1, <2>2, <2>3 DEF TypeOK, Threads
<1>5. CenterShape'
  <2>1. \A t \in Threads : at'[t] = "schedule" => armed'[t] # 0
    BY <1>0, <1>1, <1>3 DEF CenterShape, Threads
  <2>2. toArm = {} /\ (~doubtful => diskNext = next) /\ next \in Int
    BY <1>0, <1>1 DEF CenterShape, Arming, Ids
  <2>3. mutation # "worker" /\ at["worker"] \in WorkerSteps /\ at["worker"] \notin {"saveLast", "saveAgain"}
    BY <1>0, <1>1 DEF CenterShape
  <2> QED  BY <1>1, <1>3, <1>4, <2>1, <2>2, <2>3 DEF CenterShape, UiSteps
<1>6. ASSUME NEW i \in Ids PROVE ReminderInv(i)'
  <2> USE DEF Alive, Adding, Leaving, Arms, Fresh, Busy, Lasts, Drops, Holds
  <2>1. /\ ChangeOf(i) /\ NumberOf(i) /\ TaskOf(i) /\ RestOf(i) /\ FileOf(i) /\ KeptOf(i)
        /\ ShownOf(i) /\ i \in Int /\ next \in Int /\ toArm = {}
    BY <1>0, <1>1 DEF ReminderInv, CenterShape, Arming, Ids
  <2>2. i = next => /\ kind[i] = "none" /\ shown[i] = 0 /\ ~Busy(i) /\ disk[i] \in Kind
                    /\ \A g \in Nat : <<i, g>> \notin live
    BY <1>0, <1>1, <2>1 DEF NumberOf, Numbered, TaskOf, HasTask, TypeOK
  <2>10. HasTask(i)' <=> HasTask(i)
    BY <1>0, <1>1, <1>2, <1>3, <2>2 DEF HasTask, TypeOK
  <2>3. ChangeOf(i)'
    BY <1>1, <1>2, <1>3, <2>1, <2>2 DEF ChangeOf
  <2>4. NumberOf(i)'
    BY <1>1, <1>2, <1>3, <2>1, <2>2, <2>10 DEF NumberOf, Numbered, GivesUp, GivenUp, Arming
  <2>5. TaskOf(i)'
    BY <1>1, <1>2, <1>3, <2>1, <2>2 DEF TaskOf, NumberOf, Numbered, Settled, OwnedBy, HasTask, Arming
  <2>6. RestOf(i)'
    BY <1>1, <1>2, <1>3, <2>1, <2>2, <2>10 DEF RestOf
  <2>7. FileOf(i)'
    BY <1>0, <1>1, <1>2, <1>3, <2>1, <2>2 DEF FileOf, NumberOf, Numbered, GivesUp
  <2>8. KeptOf(i)'
    BY <1>1, <1>2, <1>3, <2>1, <2>2 DEF KeptOf, NumberOf, Numbered, Reports, GivesUp
  <2>9. ShownOf(i)'
    BY <1>1, <1>2, <1>3, <2>1, <2>2 DEF ShownOf, SameKind, OnceAt
  <2> QED  BY <2>3, <2>4, <2>5, <2>6, <2>7, <2>8, <2>9 DEF ReminderInv
<1> QED  BY <1>5, <1>6 DEF CenterInv

-----------------------------------------------------------------------------
LEMMA RemoveInv ==
  ASSUME CenterInv, NEW op \in {"cancel", "clear", "stop"}, NEW ids \in SUBSET Present,
         op = "cancel" => ids # {}, op # "cancel" => ids = Present,
         Remove(op, ids, IF op = "stop" THEN "unschedule" ELSE "save"),
         mutation' = IF op = "stop" THEN mutation ELSE "ui",
         stopped' = (stopped \/ op = "stop")
  PROVE  CenterInv'
<1>0. TypeOK /\ CenterShape /\ \A i \in Ids : ReminderInv(i)
  BY DEF CenterInv, CenterShape
<1>1. /\ up /\ at["ui"] = "idle" /\ mutation = "free"
      /\ at'["ui"] = (IF op = "stop" THEN "unschedule" ELSE "save") /\ at'["worker"] = at["worker"]
      /\ at' \in [Threads -> {"idle", "save", "unschedule", "restore", "arm", "schedule",
                             "record", "drop", "fire", "saveLast", "saveAgain",
                             "showLast", "showAgain"}]
      /\ operation' = op /\ removed' = ids /\ before' = kind
  BY <1>0, Goes DEF Remove, Threads, UiSteps
<1>2. /\ kind' \in [Ids -> Kind] /\ ids \subseteq Ids
      /\ \A i \in Ids : /\ i \in ids => kind[i] # "none"
                        /\ kind'[i] = IF i \in ids THEN "none" ELSE kind[i]
                        /\ op # "cancel" => kind'[i] = "none"
  BY <1>0 DEF Remove, TypeOK, Kind, Present
<1>3. /\ UNCHANGED <<up, live, armed, toArm, disk, diskNext, fires, failures, crashes, next, id>>
      /\ UNCHANGED <<accepted, cancelled, doubtful, repeated, orphans, shown, generation, runtime>>
  BY DEF Remove, store, bounds, ghosts
<1>4. TypeOK'
  <2>1. stopped' \in BOOLEAN
    OBVIOUS
  <2>2. mutation' \in Threads \cup {"free"}
    BY <1>0 DEF TypeOK, Threads
  <2>3. before' \in [Ids -> Kind] /\ removed' \subseteq Ids
    BY <1>0, <1>1, <1>2 DEF TypeOK
  <2> QED  BY <1>0, <1>1, <1>2, <1>3, <2>1, <2>2, <2>3 DEF TypeOK
<1>5. CenterShape'
  <2>1. \A t \in Threads : at'[t] = "schedule" => armed'[t] # 0
    BY <1>0, <1>1, <1>3 DEF CenterShape, Threads
  <2>2. toArm = {} /\ (~stopped /\ ~doubtful => diskNext = next)
    BY <1>0, <1>1 DEF CenterShape, Arming
  <2>3. mutation # "worker" /\ at["worker"] \in WorkerSteps /\ at["worker"] \notin {"saveLast", "saveAgain"}
    BY <1>0, <1>1 DEF CenterShape
  <2>4. op # "cancel" => kind' = Empty
    BY <1>2 DEF Empty
  <2>5. stopped => op # "cancel" /\ ids = {}
    BY <1>0 DEF CenterShape, Empty, Present
  <2> QED  BY <1>1, <1>3, <1>4, <2>1, <2>2, <2>3, <2>4, <2>5 DEF CenterShape, UiSteps
<1>6. ASSUME NEW i \in Ids PROVE ReminderInv(i)'
  <2> USE DEF Alive, Adding, Leaving, Arms, Fresh, Busy, Lasts, Drops, Holds
  <2>1. /\ ChangeOf(i) /\ NumberOf(i) /\ TaskOf(i) /\ RestOf(i) /\ FileOf(i) /\ KeptOf(i)
        /\ ShownOf(i) /\ toArm = {}
    BY <1>0, <1>1 DEF ReminderInv, CenterShape, Arming
  <2>2. HasTask(i)' <=> HasTask(i)
    BY <1>3 DEF HasTask
  <2>3. ChangeOf(i)'
    BY <1>1, <1>2, <1>3, <2>1, <2>2 DEF ChangeOf
  <2>4. NumberOf(i)'
    BY <1>1, <1>2, <1>3, <2>1, <2>2 DEF NumberOf, Numbered, GivesUp, GivenUp, Arming
  <2>5. TaskOf(i)'
    BY <1>1, <1>2, <1>3, <2>1, <2>2 DEF TaskOf, Settled, OwnedBy, Arming
  <2>6. RestOf(i)'
    BY <1>1, <1>2, <1>3, <2>1, <2>2 DEF RestOf
  <2>7. FileOf(i)'
    BY <1>0, <1>1, <1>2, <1>3, <2>1, <2>2 DEF FileOf, GivesUp, GivenUp
  <2>8. KeptOf(i)'
    BY <1>1, <1>2, <1>3, <2>1, <2>2 DEF KeptOf, Reports, GivesUp
  <2>9. ShownOf(i)'
    BY <1>1, <1>2, <1>3, <2>1, <2>2 DEF ShownOf, SameKind, OnceAt
  <2> QED  BY <2>3, <2>4, <2>5, <2>6, <2>7, <2>8, <2>9 DEF ReminderInv
<1> QED  BY <1>5, <1>6 DEF CenterInv

LEMMA CancelInv == ASSUME CenterInv, NEW i \in Ids, Cancel(i) PROVE CenterInv'
<1>1. stopped' = (stopped \/ "cancel" = "stop")
  BY DEF Cancel, CenterInv, CenterShape, TypeOK
<1>2. {i} \in SUBSET Present /\ Remove("cancel", {i}, "save") /\ mutation' = "ui"
  BY DEF Cancel
<1> QED  BY <1>1, <1>2, RemoveInv

LEMMA ClearInv == ASSUME CenterInv, Clear PROVE CenterInv'
  BY RemoveInv DEF Clear, CenterInv, CenterShape, TypeOK

LEMMA StopInv == ASSUME CenterInv, Stop PROVE CenterInv'
  BY RemoveInv DEF Stop

LEMMA UiSaveInv == ASSUME CenterInv, UiSave PROVE CenterInv'
<1>0. TypeOK /\ CenterShape /\ \A i \in Ids : ReminderInv(i)
  BY DEF CenterInv, CenterShape
<1>1. /\ at["ui"] = "save" /\ mutation = "ui" /\ up /\ mutation' = "free" /\ doubtful' = FALSE
      /\ at'["ui"] = (IF operation = "add" THEN "arm" ELSE "unschedule")
      /\ at'["worker"] = at["worker"]
      /\ at' \in [Threads -> {"idle", "save", "unschedule", "restore", "arm", "schedule",
                             "record", "drop", "fire", "saveLast", "saveAgain",
                             "showLast", "showAgain"}]
      /\ disk' = kind /\ diskNext' = next /\ orphans' = orphans \ removed
      /\ accepted' = IF operation = "add" THEN accepted \cup {id["ui"]} ELSE accepted
  BY <1>0, Goes DEF UiSave, Threads, UiSteps, Save, SavedNext, CenterShape
<1>2. /\ UNCHANGED <<up, stopped, live, armed, toArm, fires, failures, crashes, next, id>>
      /\ UNCHANGED <<kind, cancelled, repeated, shown, generation, runtime>>
      /\ UNCHANGED <<operation, removed, before>>
  BY DEF UiSave, bounds, entries, user
<1>3. TypeOK'
  <2>1. accepted' \subseteq Ids /\ orphans' \subseteq Ids
    BY <1>0, <1>1 DEF TypeOK, Threads
  <2> QED  BY <1>0, <1>1, <1>2, <2>1 DEF TypeOK
<1>4. CenterShape'
  <2>1. \A t \in Threads : at'[t] = "schedule" => armed'[t] # 0
    BY <1>0, <1>1, <1>2 DEF CenterShape, Threads
  <2>2. toArm = {} /\ operation # "stop"
    BY <1>0, <1>1 DEF CenterShape, Arming
  <2>3. mutation # "worker" /\ at["worker"] \in WorkerSteps /\ at["worker"] \notin {"saveLast", "saveAgain"}
    BY <1>0, <1>1 DEF CenterShape
  <2> QED  BY <1>0, <1>1, <1>2, <1>3, <2>1, <2>2, <2>3 DEF CenterShape, UiSteps
<1>5. ASSUME NEW i \in Ids PROVE ReminderInv(i)'
  <2> USE DEF Alive, Adding, Leaving, Arms, Fresh, Busy, Lasts, Drops, Holds
  <2>1. /\ ChangeOf(i) /\ NumberOf(i) /\ TaskOf(i) /\ RestOf(i) /\ FileOf(i) /\ KeptOf(i)
        /\ ShownOf(i) /\ toArm = {} /\ i \in Int /\ operation # "stop"
        /\ at["worker"] \notin {"saveLast", "saveAgain"}
        /\ operation = "add" => removed = {}
        /\ operation = "clear" => kind[i] = "none"
        /\ operation \in {"add", "cancel", "clear"}
        /\ stopped => operation = "clear"
    BY <1>0, <1>1 DEF ReminderInv, CenterShape, Arming, Ids, Empty, TypeOK
  <2>2. HasTask(i)' <=> HasTask(i)
    BY <1>2 DEF HasTask
  <2>3. ChangeOf(i)'
    BY <1>1 DEF ChangeOf
  <2>4. NumberOf(i)'
    BY <1>1, <1>2, <2>1, <2>2 DEF ChangeOf, NumberOf, Numbered, GivesUp, GivenUp, Arming
  <2>5. TaskOf(i)'
    BY <1>1, <1>2, <2>1, <2>2 DEF TaskOf, Settled, OwnedBy, Arming, NumberOf, Numbered
  <2>6. RestOf(i)'
    BY <1>1, <1>2, <2>1, <2>2 DEF RestOf, ChangeOf
  <2>7. FileOf(i)'
    BY <1>0, <1>1, <1>2, <2>1, <2>2 DEF FileOf, GivesUp, GivenUp, ChangeOf
  <2>8. KeptOf(i)'
    BY <1>1, <1>2, <2>1, <2>2 DEF KeptOf, Reports, GivesUp, GivenUp, ChangeOf
  <2>9. ShownOf(i)'
    BY <1>1, <1>2, <2>1, <2>2 DEF ShownOf, SameKind, OnceAt, RestOf
  <2> QED  BY <2>3, <2>4, <2>5, <2>6, <2>7, <2>8, <2>9 DEF ReminderInv
<1> QED  BY <1>4, <1>5 DEF CenterInv

LEMMA UiSaveFailsInv ==
  ASSUME CenterInv, NEW kept \in BOOLEAN, UiSaveFails(kept) PROVE CenterInv'
<1>0. TypeOK /\ CenterShape /\ \A i \in Ids : ReminderInv(i)
  BY DEF CenterInv, CenterShape
<1>1. /\ at["ui"] = "save" /\ mutation = "ui" /\ up /\ mutation' = "free"
      /\ at'["ui"] = "idle" /\ at'["worker"] = at["worker"]
      /\ at' \in [Threads -> {"idle", "save", "unschedule", "restore", "arm", "schedule",
                             "record", "drop", "fire", "saveLast", "saveAgain",
                             "showLast", "showAgain"}]
      /\ kind' = before /\ next' = IF operation = "add" THEN next - 1 ELSE next
      /\ operation = "add" => next = id["ui"] + 1
  <2>1. id["ui"] \in Ids
    BY <1>0 DEF TypeOK, Threads
  <2> QED
    BY <1>0, <2>1, Goes DEF UiSaveFails, Threads, UiSteps, RolledBack, CenterShape, ReminderInv,
                           ChangeOf, Adding
<1>2. /\ UNCHANGED <<up, stopped, live, armed, toArm, fires, crashes, id>>
      /\ UNCHANGED <<accepted, cancelled, repeated, orphans, shown, generation, runtime>>
      /\ UNCHANGED <<operation, removed, before>> /\ failures' = failures + 1
      /\ doubtful' = (doubtful \/ kept)
  BY DEF UiSaveFails, user
<1>3. /\ disk' = IF kept THEN kind ELSE disk
      /\ diskNext' = IF kept THEN next ELSE diskNext
  BY DEF UiSaveFails, Save, store, SavedNext
<1>4. TypeOK'
  <2>1. next' \in 1..MaxReminders + 1
    <3>1. id["ui"] \in Ids
      BY <1>0 DEF TypeOK, Threads
    <3>2. id["ui"] \in 1..MaxReminders /\ next \in 1..MaxReminders + 1
      BY <1>0, <3>1 DEF TypeOK, Ids
    <3> QED  BY <1>1, <3>2, BoundsAssumption
  <2>2. /\ doubtful' \in BOOLEAN /\ disk' \in [Ids -> Kind] /\ diskNext' \in 1..MaxReminders + 1
        /\ failures' \in Nat
    BY <1>0, <1>2, <1>3 DEF TypeOK
  <2> QED  BY <1>0, <1>1, <1>2, <2>1, <2>2 DEF TypeOK
<1>5. CenterShape'
  <2>1. \A t \in Threads : at'[t] = "schedule" => armed'[t] # 0
    BY <1>0, <1>1, <1>2 DEF CenterShape, Threads
  <2>2. toArm = {} /\ operation # "stop"
    BY <1>0, <1>1 DEF CenterShape, Arming
  <2>3. mutation # "worker" /\ at["worker"] \in WorkerSteps /\ at["worker"] \notin {"saveLast", "saveAgain"}
    BY <1>0, <1>1 DEF CenterShape
  <2>4. stopped => kind' = Empty
    <3> SUFFICES ASSUME stopped PROVE before = Empty
      BY <1>1
    <3>1. operation = "clear" /\ removed = {} /\ kind = Empty
      BY <1>0, <1>1 DEF CenterShape
    <3>2. \A i \in Ids : kind[i] = before[i]
      BY <1>0, <1>1, <3>1 DEF ReminderInv, ChangeOf, Adding
    <3> QED  BY <1>0, <3>1, <3>2 DEF TypeOK, Empty
  <2>5. up /\ ~stopped /\ ~doubtful' => diskNext' = next'
    BY <1>0, <1>1, <1>2, <1>3 DEF CenterShape
  <2> QED  BY <1>0, <1>1, <1>2, <1>4, <2>1, <2>2, <2>3, <2>4, <2>5 DEF CenterShape, UiSteps
<1>6. ASSUME NEW i \in Ids PROVE ReminderInv(i)'
  <2> USE DEF Alive, Adding, Leaving, Arms, Fresh, Busy, Lasts, Drops, Holds
  <2>1. /\ ChangeOf(i) /\ NumberOf(i) /\ TaskOf(i) /\ RestOf(i) /\ FileOf(i) /\ KeptOf(i)
        /\ ShownOf(i) /\ toArm = {} /\ operation # "stop"
        /\ at["worker"] \notin {"saveLast", "saveAgain"} 
        /\ (operation = "add" => removed = {})
        /\ i \in Int /\ next \in Int /\ diskNext \in Int /\ id["ui"] \in Int
    <3>1. /\ ChangeOf(i) /\ NumberOf(i) /\ TaskOf(i) /\ RestOf(i) /\ FileOf(i) /\ KeptOf(i)
          /\ ShownOf(i) /\ toArm = {} /\ operation # "stop"
          /\ at["worker"] \notin {"saveLast", "saveAgain"} /\ (operation = "add" => removed = {})
      BY <1>0, <1>1 DEF ReminderInv, CenterShape, Arming
    <3>2. i \in Int /\ next \in Int /\ diskNext \in Int /\ id["ui"] \in Int
      BY <1>0 DEF TypeOK, Ids, Threads
    <3> QED  BY <3>1, <3>2
  <2>2. HasTask(i)' <=> HasTask(i)
    BY <1>2 DEF HasTask
  <2>10. Numbered(i) => Numbered(i)'
    BY <1>1, <1>2, <1>3, <2>1 DEF Numbered
  <2>3. ChangeOf(i)'
    BY <1>1 DEF ChangeOf
  <2>4. NumberOf(i)'
    BY <1>1, <1>2, <1>3, <2>1, <2>2, <2>10 DEF ChangeOf, NumberOf, Numbered, GivesUp, GivenUp, Arming
  <2>5. TaskOf(i)'
    BY <1>1, <1>2, <2>1, <2>2 DEF TaskOf, Settled, OwnedBy, Arming, NumberOf, Numbered, ChangeOf
  <2>6. RestOf(i)'
    BY <1>1, <1>2, <2>1, <2>2 DEF RestOf, ChangeOf
  <2>7. FileOf(i)'
    BY <1>0, <1>1, <1>2, <1>3, <2>1, <2>2 DEF FileOf, GivesUp, GivenUp, ChangeOf, NumberOf, Numbered
  <2>8. KeptOf(i)'
    BY <1>1, <1>2, <1>3, <2>1, <2>2 DEF KeptOf, Reports, GivesUp, GivenUp, ChangeOf, NumberOf, Numbered
  <2>9. ShownOf(i)'
    BY <1>1, <1>2, <1>3, <2>1, <2>2 DEF ShownOf, SameKind, OnceAt, RestOf, ChangeOf, NumberOf, Numbered
  <2> QED  BY <2>3, <2>4, <2>5, <2>6, <2>7, <2>8, <2>9 DEF ReminderInv
<1> QED  BY <1>5, <1>6 DEF CenterInv

LEMMA UnscheduleInv == ASSUME CenterInv, Unschedule PROVE CenterInv'
<1>0. TypeOK /\ CenterShape /\ \A i \in Ids : ReminderInv(i)
  BY DEF CenterInv, CenterShape
<1>1. /\ at["ui"] = "unschedule" /\ up
      /\ at'["ui"] = "idle" /\ at'["worker"] = at["worker"]
      /\ at' \in [Threads -> {"idle", "save", "unschedule", "restore", "arm", "schedule",
                             "record", "drop", "fire", "saveLast", "saveAgain",
                             "showLast", "showAgain"}]
      /\ live' = live \ Unscheduled /\ cancelled' = cancelled \cup GivenUp
  BY <1>0, Goes DEF Unschedule, Threads, UiSteps, CenterShape
<1>2. /\ UNCHANGED <<up, stopped, armed, toArm, fires, failures, crashes, id, mutation, kind, next>>
      /\ UNCHANGED <<accepted, repeated, orphans, shown, generation, runtime, doubtful>>
      /\ UNCHANGED <<operation, removed, before, disk, diskNext>>
  BY DEF Unschedule, user, entries, store, bounds
<1>3. TypeOK'
  <2>1. cancelled' \subseteq Ids /\ live' \subseteq Tasks
    BY <1>0, <1>1 DEF TypeOK, GivenUp
  <2> QED  BY <1>0, <1>1, <1>2, <2>1 DEF TypeOK
<1>4. CenterShape'
  <2>1. \A t \in Threads : at'[t] = "schedule" => armed'[t] # 0
    BY <1>0, <1>1, <1>2 DEF CenterShape, Threads
  <2>2. toArm = {} /\ mutation # "ui"
    BY <1>0, <1>1 DEF CenterShape, Arming
  <2> QED  BY <1>0, <1>1, <1>2, <1>3, <2>1, <2>2 DEF CenterShape, UiSteps
<1>5. ASSUME NEW i \in Ids PROVE ReminderInv(i)'
  <2> USE DEF Alive, Adding, Leaving, Arms, Fresh, Busy, Lasts, Drops, Holds
  <2>1. /\ ChangeOf(i) /\ NumberOf(i) /\ TaskOf(i) /\ RestOf(i) /\ FileOf(i) /\ KeptOf(i)
        /\ ShownOf(i) /\ toArm = {}
    BY <1>0, <1>1 DEF ReminderInv, CenterShape, Arming
  <2>2. HasTask(i)' <=> HasTask(i) /\ ~(i \in removed /\ runtime[i] = generation[i])
    BY <1>0, <1>1, <1>2 DEF HasTask, Unscheduled, TypeOK
  <2>3. ChangeOf(i)'
    BY <1>1 DEF ChangeOf
  <2>4. NumberOf(i)'
    BY <1>1, <1>2, <2>1, <2>2 DEF NumberOf, Numbered, GivesUp, Arming
  <2>5. TaskOf(i)'
    BY <1>1, <1>2, <2>1, <2>2 DEF TaskOf, Settled, OwnedBy, Arming
  <2>6. RestOf(i)'
    BY <1>1, <1>2, <2>1, <2>2 DEF RestOf
  <2>7. FileOf(i)'
    BY <1>1, <1>2, <2>1, <2>2 DEF FileOf, GivesUp
  <2>8. KeptOf(i)'
    BY <1>1, <1>2, <2>1, <2>2 DEF KeptOf, Reports, GivesUp
  <2>9. ShownOf(i)'
    BY <1>1, <1>2, <2>1, <2>2 DEF ShownOf, SameKind, OnceAt
  <2> QED  BY <2>3, <2>4, <2>5, <2>6, <2>7, <2>8, <2>9 DEF ReminderInv
<1> QED  BY <1>4, <1>5 DEF CenterInv

-----------------------------------------------------------------------------
(* Both threads take the steps of arm_reminder().                             *)
LEMMA ArmBeginInv ==
  ASSUME CenterInv, NEW t \in Threads, ArmBegin(t) PROVE CenterInv'
<1>0. TypeOK /\ CenterShape /\ \A i \in Ids : ReminderInv(i)
  BY DEF CenterInv, CenterShape
<1>1. /\ at[t] = "arm" /\ up /\ id[t] \in Ids /\ t \in {"ui", "worker"}
      /\ \A u \in Threads : u # t => at'[u] = at[u]
      /\ at' \in [Threads -> {"idle", "save", "unschedule", "restore", "arm", "schedule",
                             "record", "drop", "fire", "saveLast", "saveAgain",
                             "showLast", "showAgain"}]
      /\ at'[t] \in {"schedule", "restore", "idle"}
      /\ at'[t] = "restore" => t = "ui"
      /\ t = "ui" /\ toArm # {} /\ at'[t] # "schedule" => at'[t] = "restore"
  <2>1. PICK s \in {"schedule", "restore", "idle"} :
            /\ Goto(t, s)
            /\ s = "restore" => t = "ui"
            /\ t = "ui" /\ toArm # {} /\ s # "schedule" => s = "restore"
    BY DEF ArmBegin, Skip
  <2>2. s \in UiSteps \union WorkerSteps
    BY <2>1 DEF UiSteps, WorkerSteps
  <2>3. at'[t] = s
    BY <1>0, <2>1, <2>2, Goes
  <2>4. /\ \A u \in Threads : u # t => at'[u] = at[u]
        /\ at' \in [Threads -> {"idle", "save", "unschedule", "restore", "arm", "schedule",
                               "record", "drop", "fire", "saveLast", "saveAgain",
                               "showLast", "showAgain"}]
    BY <1>0, <2>1, <2>2, Goes
  <2>5. at[t] = "arm" /\ up /\ id[t] \in Ids /\ t \in {"ui", "worker"}
    BY <1>0 DEF ArmBegin, Threads, CenterShape, TypeOK
  <2> QED  BY <2>1, <2>3, <2>4, <2>5
<1>2. /\ UNCHANGED <<up, stopped, kind, runtime, next, mutation, live, id>>
      /\ UNCHANGED <<operation, removed, before, toArm, disk, diskNext, fires, failures, crashes>>
      /\ UNCHANGED <<accepted, cancelled, shown, doubtful, repeated>>
  BY DEF ArmBegin, user, store, bounds
<1>3. \/ /\ at'[t] # "schedule" /\ (stopped \/ kind[id[t]] = "none")
         /\ UNCHANGED <<generation, armed>>
         /\ orphans' = IF at["ui"] = "save" /\ id[t] \in removed THEN orphans \cup {id[t]} ELSE orphans
      \/ /\ at'[t] = "schedule" /\ kind[id[t]] # "none" /\ UNCHANGED orphans
         /\ generation' = [generation EXCEPT ![id[t]] = generation[id[t]] + 1]
         /\ armed' = [armed EXCEPT ![t] = generation[id[t]] + 1]
  <2>1. CASE stopped \/ id[t] \notin Present
    <3>1. Skip(t)
      BY <2>1 DEF ArmBegin
    <3>2. at'[t] # "schedule"
      BY <3>1, <1>0, <1>1 DEF Skip, Goto, TypeOK
    <3> QED  BY <2>1, <3>1, <3>2, <1>1 DEF ArmBegin, Skip, Present
  <2>2. CASE ~(stopped \/ id[t] \notin Present)
    <3>1. at'[t] = "schedule"
      BY <2>2, <1>0, <1>1 DEF ArmBegin, Goto, TypeOK
    <3> QED  BY <2>2, <3>1, <1>1 DEF ArmBegin, Present, ArmGeneration
  <2> QED  BY <2>1, <2>2
<1>4. /\ generation' \in [Ids -> Nat] /\ armed' \in [Threads -> Nat] /\ orphans' \subseteq Ids
      /\ generation[id[t]] + 1 # 0
  <2>1. generation[id[t]] \in Nat /\ generation[id[t]] + 1 \in Nat /\ generation[id[t]] + 1 # 0
    BY <1>0, <1>1 DEF TypeOK
  <2> QED  BY <1>0, <1>1, <1>3, <2>1 DEF TypeOK
<1>5. TypeOK'
  BY <1>0, <1>1, <1>2, <1>4 DEF TypeOK
<1>6. CenterShape'
  <2>1. \A u \in Threads : at'[u] = "schedule" => armed'[u] # 0
    BY <1>0, <1>1, <1>3, <1>4 DEF CenterShape, TypeOK
  <2>2. at'["ui"] \in UiSteps /\ at'["worker"] \in WorkerSteps
    BY <1>0, <1>1 DEF CenterShape, UiSteps, WorkerSteps, Threads
  <2>3. /\ mutation' = "ui" <=> at'["ui"] = "save"
        /\ mutation' = "worker" <=> at'["worker"] \in {"saveLast", "saveAgain"}
        /\ toArm' # {} => at'["ui"] \in {"restore"} \union Arming
        /\ at'["ui"] = "save" <=> at["ui"] = "save"
        /\ at'["ui"] = "unschedule" <=> at["ui"] = "unschedule"
    BY <1>0, <1>1, <1>2 DEF CenterShape, Threads, Arming
  <2> QED  BY <1>0, <1>1, <1>2, <1>5, <2>1, <2>2, <2>3 DEF CenterShape
<1>7. ASSUME NEW i \in Ids PROVE ReminderInv(i)'
  <2> USE DEF Alive, Adding, Leaving, Arms, Fresh, Busy, Lasts, Drops, Holds
  <2>1. /\ ChangeOf(i) /\ NumberOf(i) /\ TaskOf(i) /\ RestOf(i) /\ FileOf(i) /\ KeptOf(i)
        /\ ShownOf(i)
    BY <1>0 DEF ReminderInv
  <2>2. /\ generation'[i] = generation[i]
           \/ (i = id[t] /\ generation'[i] = generation[i] + 1 /\ armed'[t] = generation'[i]
               /\ at'[t] = "schedule" /\ kind[i] # "none" /\ UNCHANGED orphans)
        /\ (at'[t] # "schedule") => UNCHANGED <<generation, armed>>
        /\ (at'[t] = "schedule" /\ i = id[t]) => armed'[t] = generation'[i]
        /\ \A u \in Threads : u # t => armed'[u] = armed[u]
        /\ (i \in orphans' /\ i \notin orphans) => i = id[t] /\ at["ui"] = "save" /\ i \in removed
        /\ i \in orphans => i \in orphans'
    BY <1>0, <1>1, <1>3 DEF TypeOK
  <2>12. armed["ui"] \in Int /\ generation[i] \in Int
    BY <1>0 DEF TypeOK, Threads
  <2>3. HasTask(i)' => HasTask(i) /\ generation'[i] = generation[i]
    BY <1>0, <1>2, <1>4, <2>1 DEF HasTask, TaskOf, TypeOK
  <2>4. HasTask(i) => i # id[t] /\ HasTask(i)'
    BY <1>0, <1>1, <1>2, <2>1, <2>2 DEF HasTask, TaskOf
  <2>5. ChangeOf(i)'
    BY <1>1, <1>2, <2>1 DEF ChangeOf, Threads
  <2>6. NumberOf(i)'
    BY <1>1, <1>2, <2>1, <2>2, <2>3 DEF NumberOf, Numbered, GivesUp, GivenUp, Arming, Threads
  <2>7. TaskOf(i)'
    <3>1. \A g \in Nat : <<i, g>> \in live' => g = generation'[i]
      BY <1>2, <2>1, <2>2, <2>4 DEF TaskOf, HasTask
    <3>2. i = id[t] => ~HasTask(i) /\ i \notin orphans
      BY <1>1, <2>1, <2>4 DEF TaskOf, Arming
    <3>3. CASE t = "ui"
      BY <3>1, <3>2, <3>3, <1>1, <1>2, <2>1, <2>2, <2>3, <2>4 DEF TaskOf, Settled, OwnedBy, Arming, Threads
    <3>4. CASE t = "worker" /\ i = id[t]
      <4>1. /\ i \notin orphans /\ ~Fresh(i) /\ ~HasTask(i) /\ armed["ui"] \in Int
            /\ at["ui"] \in {"record", "drop"} /\ id["ui"] = i => armed["ui"] <= generation[i]
            /\ at["worker"] = "arm" /\ id["worker"] = i
        BY <3>2, <3>4, <1>1, <2>1, <2>12 DEF TaskOf
      <4>2. /\ at'["ui"] = at["ui"] /\ armed'["ui"] = armed["ui"] /\ ~Fresh(i)' /\ ~HasTask(i)'
            /\ at'["worker"] # "schedule" => at'["worker"] = "idle" /\ generation'[i] = generation[i]
        BY <3>4, <4>1, <1>1, <1>2, <2>2, <2>3 DEF Threads
      <4>3. Busy(i)' => armed'["worker"] = generation'[i] /\ i \notin orphans'
        BY <1>3, <3>4, <4>1, <4>2, <2>2
      <4>4. at["ui"] \in {"record", "drop"} /\ id["ui"] = i => armed["ui"] <= generation'[i]
        BY <4>1, <2>2, <2>12
      <4>5. i \in orphans' => at["ui"] = "save"
        BY <4>1, <2>2
      <4> QED  BY <3>1, <1>2, <4>1, <4>2, <4>3, <4>4, <4>5 DEF TaskOf, Arming
    <3>5. CASE t = "worker" /\ i # id[t]
      BY <3>1, <3>5, <1>1, <1>2, <2>1, <2>2, <2>3, <2>4 DEF TaskOf, Settled, OwnedBy, Arming, Threads
    <3> QED  BY <1>1, <3>3, <3>4, <3>5
  <2>8. RestOf(i)'
    <3>1. at'[t] # "schedule" /\ i = id[t] => ~Alive(i) \/ i \in orphans'
      <4>1. stopped => kind[i] = "none" /\ (at["ui"] = "save" => removed = {})
        BY <1>0 DEF CenterShape, Empty
      <4> QED  BY <1>3, <4>1
    <3>2. CASE t = "ui"
      BY <3>1, <3>2, <1>1, <1>2, <2>1, <2>2, <2>4 DEF RestOf, Threads
    <3>3. CASE t = "worker" /\ i = id[t]
      BY <3>1, <3>3, <1>1, <1>2, <2>1, <2>2, <2>4, <2>12 DEF RestOf, TaskOf, Threads
    <3>4. CASE t = "worker" /\ i # id[t]
      BY <3>4, <1>1, <1>2, <2>1, <2>2, <2>4 DEF RestOf, Threads
    <3> QED  BY <1>1, <3>2, <3>3, <3>4
  <2>9. FileOf(i)'
    BY <1>1, <1>2, <2>1 DEF FileOf, GivesUp, GivenUp, Threads
  <2>10. KeptOf(i)'
    BY <1>1, <1>2, <2>1 DEF KeptOf, Reports, GivesUp, GivenUp, Threads
  <2>11. ShownOf(i)'
    BY <1>1, <1>2, <2>1 DEF ShownOf, SameKind, OnceAt, Threads
  <2> QED  BY <2>5, <2>6, <2>7, <2>8, <2>9, <2>10, <2>11 DEF ReminderInv
<1> QED  BY <1>6, <1>7 DEF CenterInv

LEMMA ArmScheduleInv ==
  ASSUME CenterInv, NEW t \in Threads, ArmSchedule(t) PROVE CenterInv'
<1>0. TypeOK /\ CenterShape /\ \A i \in Ids : ReminderInv(i)
  BY DEF CenterInv, CenterShape
<1>1. /\ at[t] = "schedule" /\ up /\ id[t] \in Ids /\ t \in {"ui", "worker"}
      /\ at'[t] = "record" /\ \A u \in Threads : u # t => at'[u] = at[u]
      /\ at' \in [Threads -> {"idle", "save", "unschedule", "restore", "arm", "schedule",
                             "record", "drop", "fire", "saveLast", "saveAgain",
                             "showLast", "showAgain"}]
  BY <1>0, Goes DEF ArmSchedule, Threads, CenterShape, TypeOK, UiSteps
<1>2. /\ UNCHANGED <<up, stopped, kind, generation, runtime, next, mutation, id, armed>>
      /\ UNCHANGED <<operation, removed, before, toArm, disk, diskNext, fires, failures, crashes>>
      /\ UNCHANGED <<accepted, cancelled, shown, doubtful, repeated, orphans>>
      /\ live' = live \cup {<<id[t], armed[t]>>}
  BY DEF ArmSchedule, user, store, bounds, entries, ghosts
<1>3. armed[t] \in Nat /\ armed[t] # 0
  BY <1>0, <1>1 DEF TypeOK, CenterShape
<1>4. TypeOK'
  BY <1>0, <1>1, <1>2, <1>3 DEF TypeOK, Tasks
<1>5. CenterShape'
  <2>1. \A u \in Threads : at'[u] = "schedule" => armed'[u] # 0
    BY <1>0, <1>1, <1>2 DEF CenterShape
  <2>2. at'["ui"] \in UiSteps /\ at'["worker"] \in WorkerSteps
    BY <1>0, <1>1 DEF CenterShape, UiSteps, WorkerSteps, Threads
  <2>3. /\ mutation' = "ui" <=> at'["ui"] = "save"
        /\ mutation' = "worker" <=> at'["worker"] \in {"saveLast", "saveAgain"}
        /\ toArm' # {} => at'["ui"] \in {"restore"} \union Arming
        /\ at'["ui"] = "save" <=> at["ui"] = "save"
        /\ at'["ui"] = "unschedule" <=> at["ui"] = "unschedule"
    BY <1>0, <1>1, <1>2 DEF CenterShape, Threads, Arming
  <2> QED  BY <1>0, <1>1, <1>2, <1>4, <2>1, <2>2, <2>3 DEF CenterShape
<1>6. ASSUME NEW i \in Ids PROVE ReminderInv(i)'
  <2> USE DEF Alive, Adding, Leaving, Arms, Fresh, Busy, Lasts, Drops, Holds
  <2>1. /\ ChangeOf(i) /\ NumberOf(i) /\ TaskOf(i) /\ RestOf(i) /\ FileOf(i) /\ KeptOf(i)
        /\ ShownOf(i)
    BY <1>0 DEF ReminderInv
  <2>2. i = id[t] => armed[t] = generation[i] /\ ~HasTask(i) /\ i \notin orphans
    BY <1>1, <2>1 DEF TaskOf, Threads, Arming
  <2>3. HasTask(i)' <=> HasTask(i) \/ i = id[t]
    BY <1>1, <1>2, <2>2 DEF HasTask
  <2>4. \A g \in Nat : <<i, g>> \in live' => g = generation'[i]
    BY <1>1, <1>2, <2>1, <2>2 DEF TaskOf
  <2>5. ChangeOf(i)'
    BY <1>1, <1>2, <2>1 DEF ChangeOf, Threads
  <2>6. NumberOf(i)'
    BY <1>1, <1>2, <2>1, <2>2, <2>3 DEF NumberOf, Numbered, GivesUp, GivenUp, Arming, Threads
  <2>7. TaskOf(i)'
    <3>1. generation[i] \in Int
      BY <1>0 DEF TypeOK
    <3>2. CASE t = "ui"
      BY <3>1, <3>2, <1>1, <1>2, <2>1, <2>2, <2>3, <2>4 DEF TaskOf, Settled, OwnedBy, Arming, Threads
    <3>3. CASE t = "worker"
      BY <3>1, <3>3, <1>1, <1>2, <2>1, <2>2, <2>3, <2>4 DEF TaskOf, Settled, OwnedBy, Arming, Threads
    <3> QED  BY <1>1, <3>2, <3>3
  <2>8. RestOf(i)'
    BY <1>1, <1>2, <1>3, <2>1, <2>2, <2>3 DEF RestOf, Threads
  <2>9. FileOf(i)'
    BY <1>1, <1>2, <2>1 DEF FileOf, GivesUp, GivenUp, Threads
  <2>10. KeptOf(i)'
    BY <1>1, <1>2, <2>1 DEF KeptOf, Reports, GivesUp, GivenUp, Threads
  <2>11. ShownOf(i)'
    BY <1>1, <1>2, <2>1 DEF ShownOf, SameKind, OnceAt, Threads
  <2> QED  BY <2>5, <2>6, <2>7, <2>8, <2>9, <2>10, <2>11 DEF ReminderInv
<1> QED  BY <1>5, <1>6 DEF CenterInv

LEMMA ArmRecordInv ==
  ASSUME CenterInv, NEW t \in Threads, ArmRecord(t) PROVE CenterInv'
<1>0. TypeOK /\ CenterShape /\ \A i \in Ids : ReminderInv(i)
  BY DEF CenterInv, CenterShape
<1>1. /\ at[t] = "record" /\ up /\ id[t] \in Ids /\ t \in {"ui", "worker"}
      /\ \A u \in Threads : u # t => at'[u] = at[u]
      /\ at' \in [Threads -> {"idle", "save", "unschedule", "restore", "arm", "schedule",
                             "record", "drop", "fire", "saveLast", "saveAgain",
                             "showLast", "showAgain"}]
      /\ at'[t] \in {"drop", "restore", "idle"}
      /\ at'[t] = "restore" => t = "ui"
      /\ t = "ui" /\ toArm # {} /\ at'[t] # "drop" => at'[t] = "restore"
      /\ at'[t] = "drop" <=> ~KeepTask(t)
  <2>1. PICK s \in {"drop", "restore", "idle"} :
            /\ Goto(t, s)
            /\ s = "restore" => t = "ui"
            /\ t = "ui" /\ toArm # {} /\ s # "drop" => s = "restore"
            /\ s = "drop" <=> ~KeepTask(t)
    BY DEF ArmRecord
  <2>2. s \in UiSteps \union WorkerSteps
    BY <2>1 DEF UiSteps, WorkerSteps
  <2>3. at'[t] = s
    BY <1>0, <2>1, <2>2, Goes
  <2>4. /\ \A u \in Threads : u # t => at'[u] = at[u]
        /\ at' \in [Threads -> {"idle", "save", "unschedule", "restore", "arm", "schedule",
                               "record", "drop", "fire", "saveLast", "saveAgain",
                               "showLast", "showAgain"}]
    BY <1>0, <2>1, <2>2, Goes
  <2>5. at[t] = "record" /\ up /\ id[t] \in Ids /\ t \in {"ui", "worker"}
    BY <1>0 DEF ArmRecord, Threads, CenterShape, TypeOK
  <2> QED  BY <2>1, <2>3, <2>4, <2>5
<1>2. /\ UNCHANGED <<up, stopped, kind, generation, next, mutation, live, id, armed>>
      /\ UNCHANGED <<operation, removed, before, toArm, disk, diskNext, fires, failures, crashes>>
      /\ UNCHANGED <<accepted, cancelled, shown, doubtful, repeated>>
      /\ runtime' = IF KeepTask(t) THEN [runtime EXCEPT ![id[t]] = armed[t]] ELSE runtime
      /\ orphans' = IF ~KeepTask(t) /\ at["ui"] = "save" /\ id[t] \in removed
                      THEN orphans \cup {id[t]} ELSE orphans
  BY DEF ArmRecord, user, store, bounds
<1>3. KeepTask(t) <=> ~stopped /\ kind[id[t]] # "none" /\ generation[id[t]] = armed[t]
  BY <1>1 DEF KeepTask, Present
<1>4. TypeOK'
  <2>1. runtime' \in [Ids -> Nat] /\ orphans' \subseteq Ids
    BY <1>0, <1>1, <1>2 DEF TypeOK
  <2> QED  BY <1>0, <1>1, <1>2, <2>1 DEF TypeOK
<1>5. CenterShape'
  <2>1. \A u \in Threads : at'[u] = "schedule" => armed'[u] # 0
    BY <1>0, <1>1, <1>2 DEF CenterShape
  <2>2. at'["ui"] \in UiSteps /\ at'["worker"] \in WorkerSteps
    BY <1>0, <1>1 DEF CenterShape, UiSteps, WorkerSteps, Threads
  <2>3. /\ mutation' = "ui" <=> at'["ui"] = "save"
        /\ mutation' = "worker" <=> at'["worker"] \in {"saveLast", "saveAgain"}
        /\ toArm' # {} => at'["ui"] \in {"restore"} \union Arming
        /\ at'["ui"] = "save" <=> at["ui"] = "save"
        /\ at'["ui"] = "unschedule" <=> at["ui"] = "unschedule"
    BY <1>0, <1>1, <1>2 DEF CenterShape, Threads, Arming
  <2> QED  BY <1>0, <1>1, <1>2, <1>4, <2>1, <2>2, <2>3 DEF CenterShape
<1>6. ASSUME NEW i \in Ids PROVE ReminderInv(i)'
  <2> USE DEF Alive, Adding, Leaving, Arms, Fresh, Busy, Lasts, Drops, Holds
  <2>1. /\ ChangeOf(i) /\ NumberOf(i) /\ TaskOf(i) /\ RestOf(i) /\ FileOf(i) /\ KeptOf(i)
        /\ ShownOf(i)
    BY <1>0 DEF ReminderInv
  <2>2. /\ i # id[t] => runtime'[i] = runtime[i] /\ (i \in orphans' <=> i \in orphans)
        /\ i = id[t] /\ KeepTask(t) => runtime'[i] = generation[i]
        /\ i \in orphans => i \in orphans'
        /\ (i \in orphans' /\ i \notin orphans) => at["ui"] = "save" /\ i \in removed /\ ~KeepTask(t)
        /\ KeepTask(t) => orphans' = orphans
    BY <1>0, <1>1, <1>2, <1>3 DEF TypeOK
  <2>3. HasTask(i)' <=> HasTask(i)
    BY <1>2 DEF HasTask
  <2>4. (~KeepTask(t) /\ i = id[t]) =>
           ~Alive(i) \/ i \in orphans' \/ generation[i] # armed[t]
    <3>1. stopped => kind[i] = "none" /\ (at["ui"] = "save" => removed = {})
      BY <1>0 DEF CenterShape, Empty
    <3> QED  BY <1>2, <1>3, <3>1
  <2>5. ChangeOf(i)'
    BY <1>1, <1>2, <2>1 DEF ChangeOf, Threads
  <2>6. NumberOf(i)'
    BY <1>1, <1>2, <2>1, <2>2, <2>3 DEF NumberOf, Numbered, GivesUp, GivenUp, Arming, Threads
  <2>7. TaskOf(i)'
    <3>1. \A g \in Nat : <<i, g>> \in live' => g = generation'[i]
      BY <1>2, <2>1 DEF TaskOf
    <3>2. CASE t = "ui"
      BY <3>1, <3>2, <1>1, <1>2, <1>3, <2>1, <2>2, <2>3 DEF TaskOf, Settled, OwnedBy, Arming, Threads
    <3>3. CASE t = "worker"
      BY <3>1, <3>3, <1>1, <1>2, <1>3, <2>1, <2>2, <2>3 DEF TaskOf, Settled, OwnedBy, Arming, Threads
    <3> QED  BY <1>1, <3>2, <3>3
  <2>8. RestOf(i)'
    <3>2. CASE t = "ui"
      BY <3>2, <1>1, <1>2, <1>3, <2>1, <2>2, <2>3, <2>4 DEF RestOf, TaskOf, Arming, Threads
    <3>3. CASE t = "worker"
      BY <3>3, <1>1, <1>2, <1>3, <2>1, <2>2, <2>3, <2>4 DEF RestOf, TaskOf, Threads
    <3> QED  BY <1>1, <3>2, <3>3
  <2>9. FileOf(i)'
    BY <1>1, <1>2, <2>1 DEF FileOf, GivesUp, GivenUp, Threads
  <2>10. KeptOf(i)'
    BY <1>1, <1>2, <2>1 DEF KeptOf, Reports, GivesUp, GivenUp, Threads
  <2>11. ShownOf(i)'
    BY <1>1, <1>2, <2>1 DEF ShownOf, SameKind, OnceAt, Threads
  <2> QED  BY <2>5, <2>6, <2>7, <2>8, <2>9, <2>10, <2>11 DEF ReminderInv
<1> QED  BY <1>5, <1>6 DEF CenterInv

LEMMA ArmDropInv ==
  ASSUME CenterInv, NEW t \in Threads, ArmDrop(t) PROVE CenterInv'
<1>0. TypeOK /\ CenterShape /\ \A i \in Ids : ReminderInv(i)
  BY DEF CenterInv, CenterShape
<1>1. /\ at[t] = "drop" /\ up /\ id[t] \in Ids /\ t \in {"ui", "worker"}
      /\ \A u \in Threads : u # t => at'[u] = at[u]
      /\ at' \in [Threads -> {"idle", "save", "unschedule", "restore", "arm", "schedule",
                             "record", "drop", "fire", "saveLast", "saveAgain",
                             "showLast", "showAgain"}]
      /\ at'[t] \in {"restore", "idle"}
      /\ at'[t] = "restore" => t = "ui"
      /\ t = "ui" /\ toArm # {} => at'[t] = "restore"
  <2>1. PICK s \in {"restore", "idle"} :
            /\ Goto(t, s)
            /\ s = "restore" => t = "ui"
            /\ t = "ui" /\ toArm # {} => s = "restore"
    BY DEF ArmDrop
  <2>2. s \in UiSteps \union WorkerSteps
    BY <2>1 DEF UiSteps, WorkerSteps
  <2>3. at'[t] = s
    BY <1>0, <2>1, <2>2, Goes
  <2>4. /\ \A u \in Threads : u # t => at'[u] = at[u]
        /\ at' \in [Threads -> {"idle", "save", "unschedule", "restore", "arm", "schedule",
                               "record", "drop", "fire", "saveLast", "saveAgain",
                               "showLast", "showAgain"}]
    BY <1>0, <2>1, <2>2, Goes
  <2>5. at[t] = "drop" /\ up /\ id[t] \in Ids /\ t \in {"ui", "worker"}
    BY <1>0 DEF ArmDrop, Threads, CenterShape, TypeOK
  <2> QED  BY <2>1, <2>3, <2>4, <2>5
<1>2. /\ UNCHANGED <<up, stopped, kind, generation, runtime, next, mutation, id, armed>>
      /\ UNCHANGED <<operation, removed, before, toArm, disk, diskNext, fires, failures, crashes>>
      /\ UNCHANGED <<accepted, cancelled, shown, doubtful, repeated, orphans>>
      /\ live' = live \ {<<id[t], armed[t]>>}
  BY DEF ArmDrop, user, store, bounds, entries, ghosts
<1>3. TypeOK'
  BY <1>0, <1>1, <1>2 DEF TypeOK
<1>4. CenterShape'
  <2>1. \A u \in Threads : at'[u] = "schedule" => armed'[u] # 0
    BY <1>0, <1>1, <1>2 DEF CenterShape
  <2>2. at'["ui"] \in UiSteps /\ at'["worker"] \in WorkerSteps
    BY <1>0, <1>1 DEF CenterShape, UiSteps, WorkerSteps, Threads
  <2>3. /\ mutation' = "ui" <=> at'["ui"] = "save"
        /\ mutation' = "worker" <=> at'["worker"] \in {"saveLast", "saveAgain"}
        /\ toArm' # {} => at'["ui"] \in {"restore"} \union Arming
        /\ at'["ui"] = "save" <=> at["ui"] = "save"
        /\ at'["ui"] = "unschedule" <=> at["ui"] = "unschedule"
    BY <1>0, <1>1, <1>2 DEF CenterShape, Threads, Arming
  <2> QED  BY <1>0, <1>1, <1>2, <1>3, <2>1, <2>2, <2>3 DEF CenterShape
<1>5. ASSUME NEW i \in Ids PROVE ReminderInv(i)'
  <2> USE DEF Alive, Adding, Leaving, Arms, Fresh, Busy, Lasts, Drops, Holds
  <2>1. /\ ChangeOf(i) /\ NumberOf(i) /\ TaskOf(i) /\ RestOf(i) /\ FileOf(i) /\ KeptOf(i)
        /\ ShownOf(i)
    BY <1>0 DEF ReminderInv
  <2>2. HasTask(i)' <=> HasTask(i) /\ ~(i = id[t] /\ generation[i] = armed[t])
    BY <1>1, <1>2 DEF HasTask
  <2>3. \A g \in Nat : <<i, g>> \in live' => g = generation'[i]
    BY <1>2, <2>1 DEF TaskOf
  <2>4. ChangeOf(i)'
    BY <1>1, <1>2, <2>1 DEF ChangeOf, Threads
  <2>5. NumberOf(i)'
    BY <1>1, <1>2, <2>1, <2>2 DEF NumberOf, Numbered, GivesUp, GivenUp, Arming, Threads
  <2>6. TaskOf(i)'
    <3>1. CASE t = "ui"
      BY <3>1, <1>1, <1>2, <2>1, <2>2, <2>3 DEF TaskOf, Settled, OwnedBy, Arming, Threads
    <3>2. CASE t = "worker"
      BY <3>2, <1>1, <1>2, <2>1, <2>2, <2>3 DEF TaskOf, Settled, OwnedBy, Arming, Threads
    <3> QED  BY <1>1, <3>1, <3>2
  <2>7. RestOf(i)'
    <3>1. CASE t = "ui"
      BY <3>1, <1>1, <1>2, <2>1, <2>2 DEF RestOf, Threads
    <3>2. CASE t = "worker"
      BY <3>2, <1>1, <1>2, <2>1, <2>2 DEF RestOf, Threads
    <3> QED  BY <1>1, <3>1, <3>2
  <2>8. FileOf(i)'
    BY <1>1, <1>2, <2>1 DEF FileOf, GivesUp, GivenUp, Threads
  <2>9. KeptOf(i)'
    BY <1>1, <1>2, <2>1 DEF KeptOf, Reports, GivesUp, GivenUp, Threads
  <2>10. ShownOf(i)'
    BY <1>1, <1>2, <2>1 DEF ShownOf, SameKind, OnceAt, Threads
  <2> QED  BY <2>4, <2>5, <2>6, <2>7, <2>8, <2>9, <2>10 DEF ReminderInv
<1> QED  BY <1>4, <1>5 DEF CenterInv

LEMMA RestoreNextInv ==
  ASSUME CenterInv, NEW j \in Ids, RestoreNext(j) PROVE CenterInv'
<1>0. TypeOK /\ CenterShape /\ \A i \in Ids : ReminderInv(i)
  BY DEF CenterInv, CenterShape
<1>1. /\ at["ui"] = "restore" /\ up /\ j \in toArm
      /\ at'["ui"] = "arm" /\ at'["worker"] = at["worker"]
      /\ at' \in [Threads -> {"idle", "save", "unschedule", "restore", "arm", "schedule",
                             "record", "drop", "fire", "saveLast", "saveAgain",
                             "showLast", "showAgain"}]
      /\ id'["ui"] = j /\ id'["worker"] = id["worker"] /\ id' \in [Threads -> Ids]
  BY <1>0, Goes DEF RestoreNext, Threads, CenterShape, TypeOK, UiSteps
<1>2. /\ UNCHANGED <<up, stopped, kind, generation, runtime, next, mutation, live, armed>>
      /\ UNCHANGED <<operation, removed, before, disk, diskNext, fires, failures, crashes>>
      /\ UNCHANGED <<accepted, cancelled, shown, doubtful, repeated, orphans>>
      /\ toArm' = toArm \ {j}
  BY DEF RestoreNext, store, bounds, entries, ghosts
<1>3. TypeOK'
  BY <1>0, <1>1, <1>2 DEF TypeOK
<1>4. CenterShape'
  <2>1. \A u \in Threads : at'[u] = "schedule" => armed'[u] # 0
    BY <1>0, <1>1, <1>2 DEF CenterShape, Threads
  <2> QED  BY <1>0, <1>1, <1>2, <1>3, <2>1 DEF CenterShape, UiSteps, Arming
<1>5. ASSUME NEW i \in Ids PROVE ReminderInv(i)'
  <2> USE DEF Alive, Adding, Leaving, Arms, Fresh, Busy, Lasts, Drops, Holds
  <2>1. /\ ChangeOf(i) /\ NumberOf(i) /\ TaskOf(i) /\ RestOf(i) /\ FileOf(i) /\ KeptOf(i)
        /\ ShownOf(i)
    BY <1>0 DEF ReminderInv
  <2>2. HasTask(i)' <=> HasTask(i)
    BY <1>2 DEF HasTask
  <2>3. ChangeOf(i)'
    BY <1>1 DEF ChangeOf
  <2>4. NumberOf(i)'
    BY <1>1, <1>2, <2>1, <2>2 DEF NumberOf, Numbered, GivesUp, GivenUp, Arming
  <2>5. TaskOf(i)'
    BY <1>1, <1>2, <2>1, <2>2 DEF TaskOf, Settled, OwnedBy, Arming
  <2>6. RestOf(i)'
    BY <1>1, <1>2, <2>1, <2>2 DEF RestOf
  <2>7. FileOf(i)'
    BY <1>1, <1>2, <2>1 DEF FileOf, GivesUp
  <2>8. KeptOf(i)'
    BY <1>1, <1>2, <2>1 DEF KeptOf, Reports, GivesUp
  <2>9. ShownOf(i)'
    BY <1>1, <1>2, <2>1 DEF ShownOf, SameKind, OnceAt
  <2> QED  BY <2>3, <2>4, <2>5, <2>6, <2>7, <2>8, <2>9 DEF ReminderInv
<1> QED  BY <1>4, <1>5 DEF CenterInv

-----------------------------------------------------------------------------
LEMMA StartTaskInv == ASSUME CenterInv, StartTask PROVE CenterInv'
<1>0. TypeOK /\ CenterShape /\ \A i \in Ids : ReminderInv(i)
  BY DEF CenterInv, CenterShape
<1>1. PICK task \in live : /\ live' = live \ {task}
                           /\ id' = [id EXCEPT !["worker"] = task[1]]
                           /\ armed' = [armed EXCEPT !["worker"] = task[2]]
  BY DEF StartTask
<1>2. PICK j \in Ids, h \in Nat : task = <<j, h>>
  BY <1>0 DEF TypeOK, Tasks
<1>3. /\ at["worker"] = "idle" /\ up /\ at'["worker"] = "fire" /\ at'["ui"] = at["ui"]
      /\ at' \in [Threads -> {"idle", "save", "unschedule", "restore", "arm", "schedule",
                             "record", "drop", "fire", "saveLast", "saveAgain",
                             "showLast", "showAgain"}]
      /\ id'["worker"] = j /\ id'["ui"] = id["ui"] /\ id' \in [Threads -> Ids]
      /\ armed'["worker"] = h /\ armed'["ui"] = armed["ui"] /\ armed' \in [Threads -> Nat]
      /\ fires' = fires + 1
  <2>1. up
    BY <1>0 DEF CenterShape
  <2>2. at["worker"] = "idle" /\ at'["worker"] = "fire" /\ at'["ui"] = at["ui"]
    BY <1>0, Goes DEF StartTask, Threads, UiSteps, WorkerSteps
  <2>3. at' \in [Threads -> {"idle", "save", "unschedule", "restore", "arm", "schedule",
                            "record", "drop", "fire", "saveLast", "saveAgain",
                            "showLast", "showAgain"}]
    BY <1>0, Goes DEF StartTask, Threads, WorkerSteps
  <2>4. /\ id'["worker"] = j /\ id'["ui"] = id["ui"] /\ id' \in [Threads -> Ids]
        /\ armed'["worker"] = h /\ armed'["ui"] = armed["ui"] /\ armed' \in [Threads -> Nat]
    BY <1>0, <1>1, <1>2 DEF TypeOK, Threads
  <2> QED  BY <2>1, <2>2, <2>3, <2>4 DEF StartTask
<1>4. /\ UNCHANGED <<up, stopped, kind, generation, runtime, next, mutation>>
      /\ UNCHANGED <<operation, removed, before, toArm, disk, diskNext, failures, crashes>>
      /\ UNCHANGED <<accepted, cancelled, shown, doubtful, repeated, orphans>>
  BY DEF StartTask, user, store, entries, ghosts
<1>5. TypeOK'
  BY <1>0, <1>1, <1>3, <1>4 DEF TypeOK
<1>6. CenterShape'
  <2>1. \A u \in Threads : at'[u] = "schedule" => armed'[u] # 0
    BY <1>0, <1>3 DEF CenterShape, Threads
  <2> QED  BY <1>0, <1>3, <1>4, <1>5, <2>1 DEF CenterShape, WorkerSteps
<1>7. ASSUME NEW i \in Ids PROVE ReminderInv(i)'
  <2> USE DEF Alive, Adding, Leaving, Arms, Fresh, Busy, Lasts, Drops, Holds
  <2>1. /\ ChangeOf(i) /\ NumberOf(i) /\ TaskOf(i) /\ RestOf(i) /\ FileOf(i) /\ KeptOf(i)
        /\ ShownOf(i)
    BY <1>0 DEF ReminderInv
  <2>2. i = j => HasTask(i) /\ h = generation[i] /\ ~HasTask(i)'
    BY <1>1, <1>2, <1>4, <2>1 DEF TaskOf, HasTask
  <2>3. i # j => (HasTask(i)' <=> HasTask(i))
    BY <1>1, <1>2, <1>4 DEF HasTask
  <2>4. \A g \in Nat : <<i, g>> \in live' => g = generation'[i]
    BY <1>1, <1>4, <2>1 DEF TaskOf
  <2>5. ChangeOf(i)'
    BY <1>3, <1>4, <2>1 DEF ChangeOf
  <2>6. NumberOf(i)'
    BY <1>3, <1>4, <2>1, <2>2, <2>3 DEF NumberOf, Numbered, GivesUp, GivenUp, Arming
  <2>7. TaskOf(i)'
    BY <1>3, <1>4, <2>1, <2>2, <2>3, <2>4 DEF TaskOf, Settled, OwnedBy, Arming
  <2>8. RestOf(i)'
    BY <1>3, <1>4, <2>1, <2>2, <2>3 DEF RestOf
  <2>9. FileOf(i)'
    BY <1>3, <1>4, <2>1 DEF FileOf, GivesUp, GivenUp
  <2>10. KeptOf(i)'
    BY <1>3, <1>4, <2>1 DEF KeptOf, Reports, GivesUp, GivenUp
  <2>11. ShownOf(i)'
    BY <1>3, <1>4, <2>1 DEF ShownOf, SameKind, OnceAt
  <2> QED  BY <2>5, <2>6, <2>7, <2>8, <2>9, <2>10, <2>11 DEF ReminderInv
<1> QED  BY <1>6, <1>7 DEF CenterInv

LEMMA FireInv == ASSUME CenterInv, Fire PROVE CenterInv'
<1>0. TypeOK /\ CenterShape /\ \A i \in Ids : ReminderInv(i)
  BY DEF CenterInv, CenterShape
<1> DEFINE j == id["worker"]
           lets == ~stopped /\ kind[j] # "none"
<1>1. /\ j \in Ids /\ up /\ at["worker"] = "fire" /\ mutation = "free" /\ armed["worker"] = generation[j]
  <2>1. j \in Ids /\ up /\ at["worker"] = "fire" /\ mutation = "free"
    BY <1>0 DEF Fire, CenterShape, TypeOK, Threads
  <2>2. armed["worker"] = generation[j]
    BY <1>0, <2>1 DEF ReminderInv, TaskOf, Busy
  <2> QED  BY <2>1, <2>2
<1>2. Fires(j, armed["worker"]) <=> lets
  BY <1>1 DEF Fires, Present
<1>3. /\ at'["ui"] = at["ui"]
      /\ at'["worker"] = IF ~lets THEN "idle" ELSE IF kind[j] = "once" THEN "saveLast" ELSE "saveAgain"
      /\ at' \in [Threads -> {"idle", "save", "unschedule", "restore", "arm", "schedule",
                             "record", "drop", "fire", "saveLast", "saveAgain",
                             "showLast", "showAgain"}]
  <2>1. PICK s \in {"idle", "saveLast", "saveAgain"} :
            /\ Goto("worker", s)
            /\ s = IF ~lets THEN "idle" ELSE IF kind[j] = "once" THEN "saveLast" ELSE "saveAgain"
    BY <1>2 DEF Fire
  <2>2. s \in UiSteps \union WorkerSteps
    BY <2>1 DEF UiSteps, WorkerSteps
  <2>3. at'["worker"] = s /\ at'["ui"] = at["ui"]
    BY <1>0, <2>1, <2>2, Goes DEF Threads
  <2>4. at' \in [Threads -> {"idle", "save", "unschedule", "restore", "arm", "schedule",
                            "record", "drop", "fire", "saveLast", "saveAgain",
                            "showLast", "showAgain"}]
    BY <1>0, <2>1, <2>2, Goes DEF Threads
  <2> QED  BY <2>1, <2>3, <2>4
<1>4. /\ UNCHANGED <<up, stopped, generation, next, live, id, armed>>
      /\ UNCHANGED <<operation, removed, before, toArm, disk, diskNext, fires, failures, crashes>>
      /\ UNCHANGED <<accepted, cancelled, shown, doubtful, repeated, orphans>>
  BY DEF Fire, user, store, bounds, ghosts
<1>5. /\ lets => /\ kind' = [kind EXCEPT ![j] = Fired(kind[j])] /\ mutation' = "worker"
                 /\ runtime' = IF kind[j] = "every" THEN [runtime EXCEPT ![j] = 0] ELSE runtime
      /\ ~lets => UNCHANGED <<kind, runtime, mutation>>
  BY <1>2 DEF Fire
<1>6. /\ kind' \in [Ids -> Kind] /\ runtime' \in [Ids -> Nat]
      /\ mutation' = IF lets THEN "worker" ELSE "free"
      /\ \A i \in Ids : /\ kind'[i] = IF lets /\ i = j /\ kind[i] = "once" THEN "none" ELSE kind[i]
                        /\ i # j => runtime'[i] = runtime[i]
  <2>1. Fired(kind[j]) \in Kind
    BY <1>0, <1>1 DEF TypeOK, Fired, Kind
  <2>2. \A i \in Ids : kind'[i] = IF lets /\ i = j /\ kind[i] = "once" THEN "none" ELSE kind[i]
    BY <1>0, <1>1, <1>5 DEF TypeOK, Fired
  <2>3. /\ kind' \in [Ids -> Kind] /\ runtime' \in [Ids -> Nat]
        /\ mutation' = IF lets THEN "worker" ELSE "free"
    BY <1>0, <1>1, <1>5, <2>1 DEF TypeOK
  <2>4. \A i \in Ids : i # j => runtime'[i] = runtime[i]
    BY <1>0, <1>1, <1>5 DEF TypeOK
  <2> QED  BY <2>2, <2>3, <2>4
<1>7. TypeOK'
  <2>1. mutation' \in Threads \cup {"free"}
    BY <1>6 DEF Threads
  <2> QED  BY <1>0, <1>3, <1>4, <1>6, <2>1 DEF TypeOK
<1>8. CenterShape'
  <2>1. \A u \in Threads : at'[u] = "schedule" => armed'[u] # 0
    BY <1>0, <1>3, <1>4 DEF CenterShape, Threads
  <2>2. stopped => ~lets
    OBVIOUS
  <2>3. at["ui"] # "save"
    BY <1>0, <1>1 DEF CenterShape
  <2>4. ~lets => UNCHANGED kind
    BY <1>5
  <2> HIDE DEF j, lets
  <2> QED  BY <1>0, <1>1, <1>3, <1>4, <1>6, <1>7, <2>1, <2>2, <2>3, <2>4 DEF CenterShape, WorkerSteps
<1>9. ASSUME NEW i \in Ids PROVE ReminderInv(i)'
  <2> USE DEF Alive, Adding, Leaving, Arms, Fresh, Busy, Lasts, Drops, Holds
  <2>1. /\ ChangeOf(i) /\ NumberOf(i) /\ TaskOf(i) /\ RestOf(i) /\ FileOf(i) /\ KeptOf(i)
        /\ ShownOf(i) /\ at["ui"] # "save"
    BY <1>0, <1>1 DEF ReminderInv, CenterShape
  <2>2. HasTask(i)' <=> HasTask(i)
    BY <1>4 DEF HasTask
  <2>3. i = j => ~HasTask(i)
    BY <1>1, <2>1 DEF TaskOf
  <2>4. ~lets /\ i = j => kind[i] = "none"
    BY <1>0 DEF CenterShape, Empty
  <2>5. kind[i] \in {"none", "once", "every"}
    BY <1>0 DEF TypeOK, Kind
  <2>6. ChangeOf(i)'
    BY <1>3, <2>1 DEF ChangeOf
  <2>7. NumberOf(i)'
    BY <1>1, <1>3, <1>4, <1>6, <2>1, <2>2 DEF NumberOf, Numbered, GivesUp, GivenUp, Arming
  <2>8. TaskOf(i)'
    <3>1. \A g \in Nat : <<i, g>> \in live' => g = generation'[i]
      BY <1>4, <2>1 DEF TaskOf
    <3> QED
      BY <1>1, <1>3, <1>4, <1>6, <2>1, <2>2, <2>3, <3>1 DEF TaskOf, Settled, OwnedBy, Arming
  <2>9. RestOf(i)'
    BY <1>1, <1>3, <1>4, <1>6, <2>1, <2>2, <2>3, <2>4 DEF RestOf
  <2>10. FileOf(i)'
    BY <1>1, <1>3, <1>4, <1>6, <2>1 DEF FileOf, GivesUp, GivenUp
  <2>11. KeptOf(i)'
    BY <1>1, <1>3, <1>4, <1>6, <2>1 DEF KeptOf, Reports, GivesUp, GivenUp
  <2>12. ShownOf(i)'
    BY <1>1, <1>3, <1>4, <1>6, <2>1, <2>4, <2>5 DEF ShownOf, SameKind, OnceAt, NumberOf, Numbered
  <2> QED  BY <2>6, <2>7, <2>8, <2>9, <2>10, <2>11, <2>12 DEF ReminderInv
<1> QED  BY <1>8, <1>9 DEF CenterInv

(* The save of a firing, whether it succeeds or fails.                        *)
LEMMA FiredSaved ==
  ASSUME CenterInv, Saving, Goto("worker", AfterSave), mutation' = "free",
         NEW kept \in BOOLEAN, IF kept THEN Save ELSE UNCHANGED store,
         kept \/ doubtful', doubtful' \in BOOLEAN,
         \/ kept /\ UNCHANGED <<failures, repeated>>
         \/ doubtful' /\ failures' \in Nat /\ repeated' = repeated \cup {id["worker"]},
         UNCHANGED <<up, stopped, entries, next, live, id, armed, user, fires, crashes>>,
         UNCHANGED <<accepted, cancelled, shown, orphans>>
  PROVE  CenterInv'
<1>0. TypeOK /\ CenterShape /\ \A i \in Ids : ReminderInv(i)
  BY DEF CenterInv, CenterShape
<1> DEFINE j == id["worker"]
<1>1. /\ j \in Ids /\ up /\ at["worker"] \in {"saveLast", "saveAgain"} /\ mutation = "worker"
      /\ at["ui"] # "save" /\ ~stopped
  BY <1>0 DEF Saving, CenterShape, TypeOK, Threads
<1>2. /\ at'["ui"] = at["ui"]
      /\ at'["worker"] = IF at["worker"] = "saveLast" THEN "showLast" ELSE "showAgain"
      /\ at' \in [Threads -> {"idle", "save", "unschedule", "restore", "arm", "schedule",
                             "record", "drop", "fire", "saveLast", "saveAgain",
                             "showLast", "showAgain"}]
  <2>1. AfterSave \in UiSteps \union WorkerSteps
    BY DEF AfterSave, UiSteps, WorkerSteps
  <2> QED  BY <1>0, <2>1, Goes DEF Threads, AfterSave
<1>3. /\ UNCHANGED <<up, stopped, kind, generation, runtime, next, live, id, armed>>
      /\ UNCHANGED <<operation, removed, before, toArm, fires, crashes>>
      /\ UNCHANGED <<accepted, cancelled, shown, orphans>>
      /\ disk' = IF kept THEN kind ELSE disk
      /\ diskNext' = IF kept THEN next ELSE diskNext
      /\ repeated' \in {repeated, repeated \cup {j}} /\ (~kept => repeated' = repeated \cup {j})
  BY DEF user, entries, store, Save, SavedNext
<1>4. TypeOK'
  <2>1. failures' \in Nat /\ repeated' \subseteq Ids
    BY <1>0, <1>1 DEF TypeOK
  <2>2. disk' \in [Ids -> Kind] /\ diskNext' \in 1..MaxReminders + 1
    BY <1>0, <1>3 DEF TypeOK
  <2> HIDE DEF j
  <2> QED  BY <1>0, <1>1, <1>2, <1>3, <2>1, <2>2 DEF TypeOK
<1>5. CenterShape'
  <2>1. \A u \in Threads : at'[u] = "schedule" => armed'[u] # 0
    BY <1>0, <1>2, <1>3 DEF CenterShape, Threads
  <2> HIDE DEF j
  <2> QED  BY <1>0, <1>1, <1>2, <1>3, <1>4, <2>1 DEF CenterShape, WorkerSteps
<1>6. ASSUME NEW i \in Ids PROVE ReminderInv(i)'
  <2> USE DEF Alive, Adding, Leaving, Arms, Fresh, Busy, Lasts, Drops, Holds
  <2>1. /\ ChangeOf(i) /\ NumberOf(i) /\ TaskOf(i) /\ RestOf(i) /\ FileOf(i) /\ KeptOf(i)
        /\ ShownOf(i)
    BY <1>0 DEF ReminderInv
  <2>2. HasTask(i)' <=> HasTask(i)
    BY <1>3 DEF HasTask
  <2>3. i \in repeated => i \in repeated'
    BY <1>3
  <2>4. i = j /\ ~kept => i \in repeated'
    BY <1>3
  <2> HIDE DEF j
  <2>5. ChangeOf(i)'
    BY <1>1, <1>2, <2>1 DEF ChangeOf
  <2>6. NumberOf(i)'
    BY <1>1, <1>2, <1>3, <2>1, <2>2 DEF NumberOf, Numbered, GivesUp, GivenUp, Arming
  <2>7. TaskOf(i)'
    <3>1. \A g \in Nat : <<i, g>> \in live' => g = generation'[i]
      BY <1>3, <2>1 DEF TaskOf
    <3> QED
      BY <1>1, <1>2, <1>3, <2>1, <2>2, <3>1 DEF TaskOf, Settled, OwnedBy, Arming
  <2>8. RestOf(i)'
    BY <1>1, <1>2, <1>3, <2>1, <2>2 DEF RestOf
  <2>9. FileOf(i)'
    BY <1>1, <1>2, <1>3, <2>1 DEF FileOf, GivesUp, GivenUp
  <2>10. KeptOf(i)'
    BY <1>1, <1>2, <1>3, <2>1 DEF KeptOf, Reports, GivesUp, GivenUp
  <2>11. ShownOf(i)'
    BY <1>1, <1>2, <1>3, <2>1, <2>3, <2>4 DEF ShownOf, SameKind, OnceAt, RestOf, j
  <2> QED  BY <2>5, <2>6, <2>7, <2>8, <2>9, <2>10, <2>11 DEF ReminderInv
<1> QED  BY <1>5, <1>6 DEF CenterInv

LEMMA FireSaveInv == ASSUME CenterInv, FireSave PROVE CenterInv'
<1>1. IF TRUE THEN Save ELSE UNCHANGED store
  BY DEF FireSave
<1>2. /\ Saving /\ Goto("worker", AfterSave) /\ mutation' = "free" /\ doubtful' = FALSE
      /\ UNCHANGED <<up, stopped, entries, next, live, id, armed, user, fires, crashes>>
      /\ UNCHANGED <<accepted, cancelled, shown, orphans>>
      /\ UNCHANGED <<failures, repeated>>
  BY DEF FireSave, bounds
<1> QED  BY <1>1, <1>2, FiredSaved

LEMMA FireSaveFailsInv ==
  ASSUME CenterInv, NEW kept \in BOOLEAN, FireSaveFails(kept) PROVE CenterInv'
<1>1. IF kept THEN Save ELSE UNCHANGED store
  BY DEF FireSaveFails
<1>2. /\ Saving /\ Goto("worker", AfterSave) /\ mutation' = "free" /\ doubtful' = TRUE
      /\ UNCHANGED <<up, stopped, entries, next, live, id, armed, user, fires, crashes>>
      /\ UNCHANGED <<accepted, cancelled, shown, orphans>>
      /\ repeated' = repeated \cup {id["worker"]} /\ failures' \in Nat
  BY DEF FireSaveFails, CenterInv, CenterShape, TypeOK
<1> QED  BY <1>1, <1>2, FiredSaved

LEMMA ShowInv == ASSUME CenterInv, Show PROVE CenterInv'
<1>0. TypeOK /\ CenterShape /\ \A i \in Ids : ReminderInv(i)
  BY DEF CenterInv, CenterShape
<1> DEFINE j == id["worker"]
<1>1. j \in Ids /\ up /\ at["worker"] \in {"showLast", "showAgain"} /\ mutation # "worker"
  BY <1>0 DEF Show, CenterShape, TypeOK, Threads
<1>2. /\ at'["ui"] = at["ui"]
      /\ at'["worker"] = IF at["worker"] = "showLast" THEN "idle" ELSE "arm"
      /\ at' \in [Threads -> {"idle", "save", "unschedule", "restore", "arm", "schedule",
                             "record", "drop", "fire", "saveLast", "saveAgain",
                             "showLast", "showAgain"}]
  <2>1. (IF at["worker"] = "showLast" THEN "idle" ELSE "arm") \in UiSteps \union WorkerSteps
    BY DEF UiSteps, WorkerSteps
  <2> QED  BY <1>0, <2>1, Goes DEF Threads, Show
<1>3. /\ UNCHANGED <<up, stopped, kind, generation, runtime, next, live, id, armed, mutation>>
      /\ UNCHANGED <<operation, removed, before, toArm, fires, failures, crashes, disk, diskNext>>
      /\ UNCHANGED <<accepted, cancelled, doubtful, repeated, orphans>>
      /\ shown' = [shown EXCEPT ![j] = shown[j] + 1]
  BY DEF Show, user, entries, store, bounds
<1>4. /\ shown' \in [Ids -> Nat]
      /\ \A i \in Ids : /\ i # j => shown'[i] = shown[i]
                        /\ i = j => shown'[i] # 0
  BY <1>0, <1>1, <1>3 DEF TypeOK
<1>5. TypeOK'
  BY <1>0, <1>2, <1>3, <1>4 DEF TypeOK
<1>6. CenterShape'
  <2>1. \A u \in Threads : at'[u] = "schedule" => armed'[u] # 0
    BY <1>0, <1>2, <1>3 DEF CenterShape, Threads
  <2> HIDE DEF j
  <2> QED  BY <1>0, <1>1, <1>2, <1>3, <1>5, <2>1 DEF CenterShape, WorkerSteps
<1>7. ASSUME NEW i \in Ids PROVE ReminderInv(i)'
  <2> USE DEF Alive, Adding, Leaving, Arms, Fresh, Busy, Lasts, Drops, Holds
  <2>1. /\ ChangeOf(i) /\ NumberOf(i) /\ TaskOf(i) /\ RestOf(i) /\ FileOf(i) /\ KeptOf(i)
        /\ ShownOf(i)
    BY <1>0 DEF ReminderInv
  <2>2. HasTask(i)' <=> HasTask(i)
    BY <1>3 DEF HasTask
  <2>3. ChangeOf(i)'
    BY <1>2, <1>3, <2>1 DEF ChangeOf
  <2>4. NumberOf(i)'
    BY <1>1, <1>2, <1>3, <1>4, <2>1, <2>2 DEF NumberOf, Numbered, GivesUp, GivenUp, Arming
  <2>5. TaskOf(i)'
    <3>1. \A g \in Nat : <<i, g>> \in live' => g = generation'[i]
      BY <1>3, <2>1 DEF TaskOf
    <3> QED
      BY <1>1, <1>2, <1>3, <2>1, <2>2, <3>1 DEF TaskOf, Settled, OwnedBy, Arming
  <2>6. RestOf(i)'
    BY <1>1, <1>2, <1>3, <2>1, <2>2 DEF RestOf
  <2>7. FileOf(i)'
    BY <1>2, <1>3, <2>1 DEF FileOf, GivesUp, GivenUp
  <2>8. KeptOf(i)'
    BY <1>1, <1>2, <1>3, <1>4, <2>1 DEF KeptOf, Reports, GivesUp, GivenUp
  <2>9. ShownOf(i)'
    BY <1>1, <1>2, <1>3, <1>4, <2>1 DEF ShownOf, SameKind, OnceAt, RestOf, ChangeOf, TaskOf
  <2> QED  BY <2>3, <2>4, <2>5, <2>6, <2>7, <2>8, <2>9 DEF ReminderInv
<1> QED  BY <1>6, <1>7 DEF CenterInv

-----------------------------------------------------------------------------
LEMMA CrashInv == ASSUME CenterInv, Crash PROVE CenterInv'
<1>0. TypeOK /\ CenterShape /\ \A i \in Ids : ReminderInv(i)
  BY DEF CenterInv, CenterShape
<1>1. /\ up' = FALSE /\ stopped' = FALSE /\ up /\ mutation' = "free" /\ live' = {}
      /\ operation' = "add" /\ removed' = {} /\ toArm' = {} /\ orphans' = {}
      /\ accepted' = accepted \ (Unreported \cup Doubted)
      /\ UNCHANGED <<disk, diskNext, cancelled, shown, doubtful, repeated>>
  BY DEF Crash, store
<1>2. at'["ui"] = "idle" /\ at'["worker"] = "idle" /\ \A i \in Ids : kind'[i] = "none"
  BY DEF Crash, Threads, Empty
<1>3. TypeOK'
  <2>1. 1 \in Ids /\ next' \in 1..MaxReminders + 1
    BY BoundsAssumption DEF Crash, Ids
  <2>2. kind' \in [Ids -> Kind] /\ before' \in [Ids -> Kind]
    BY DEF Crash, Empty, Kind
  <2>3. generation' \in [Ids -> Nat] /\ runtime' \in [Ids -> Nat]
    BY DEF Crash, Zero
  <2>4. /\ id' \in [Threads -> Ids] /\ armed' \in [Threads -> Nat]
        /\ at' \in [Threads -> {"idle", "save", "unschedule", "restore", "arm", "schedule",
                               "record", "drop", "fire", "saveLast", "saveAgain",
                               "showLast", "showAgain"}]
    BY <2>1 DEF Crash
  <2>5. fires' \in Nat /\ failures' \in Nat /\ crashes' \in Nat
    BY <1>0 DEF TypeOK, Crash
  <2> QED  BY <1>0, <1>1, <2>1, <2>2, <2>3, <2>4, <2>5 DEF TypeOK
<1>4. CenterShape'
  <2>1. kind' = Empty
    BY DEF Crash
  <2> QED  BY <1>1, <1>2, <1>3, <2>1 DEF CenterShape, UiSteps, WorkerSteps, Threads
<1>5. ASSUME NEW i \in Ids PROVE ReminderInv(i)'
  <2>1. NumberOf(i) /\ FileOf(i) /\ KeptOf(i) /\ ShownOf(i)
    BY <1>0 DEF ReminderInv
  <2>2. i \in Unreported <=> Reports(i)
    BY DEF Unreported, Reports, GivesUp
  <2>3. i \in Doubted <=> doubtful /\ disk[i] = "none"
    BY DEF Doubted
  <2>4. ChangeOf(i)' /\ TaskOf(i)' /\ RestOf(i)'
    BY <1>1, <1>2 DEF ChangeOf, TaskOf, RestOf, HasTask, Busy, Arms, Arming, Alive, Leaving, Lasts,
                      Drops, Holds, Fresh
  <2>5. NumberOf(i)'
    BY <1>1, <1>2, <2>1 DEF NumberOf, Numbered, HasTask, Busy, Arms, Arming, Alive, Leaving, GivesUp
  <2>6. FileOf(i)'
    BY <1>1, <1>2, <2>1 DEF FileOf, GivesUp, Alive, Leaving
  <2>7. KeptOf(i)'
    BY <1>1, <1>2, <2>1, <2>2, <2>3 DEF KeptOf, Reports, GivesUp
  <2>8. ShownOf(i)'
    BY <1>1, <1>2, <2>1 DEF ShownOf, OnceAt, Lasts
  <2> QED  BY <2>4, <2>5, <2>6, <2>7, <2>8 DEF ReminderInv
<1> QED  BY <1>4, <1>5 DEF CenterInv

LEMMA RestartInv == ASSUME CenterInv, Restart PROVE CenterInv'
<1>0. TypeOK /\ CenterShape /\ \A i \in Ids : ReminderInv(i)
  BY DEF CenterInv, CenterShape
<1>1. /\ ~up /\ up' /\ kind' = disk /\ next' = diskNext /\ toArm' = {i \in Ids : disk[i] # "none"}
      /\ at["ui"] = "idle" /\ at["worker"] = "idle" /\ live = {} /\ orphans = {} /\ kind = Empty
  BY <1>0 DEF Restart, CenterShape
<1>2. /\ at'["ui"] = (IF toArm' = {} THEN "idle" ELSE "restore") /\ at'["worker"] = "idle"
      /\ at' \in [Threads -> {"idle", "save", "unschedule", "restore", "arm", "schedule",
                             "record", "drop", "fire", "saveLast", "saveAgain",
                             "showLast", "showAgain"}]
  <2>1. (IF toArm' = {} THEN "idle" ELSE "restore") \in UiSteps \union WorkerSteps
    BY DEF UiSteps, WorkerSteps
  <2> QED  BY <1>0, <1>1, <2>1, Goes DEF Threads, Restart
<1>3. /\ UNCHANGED <<stopped, generation, runtime, mutation, live, id, armed>>
      /\ UNCHANGED <<operation, removed, before, disk, diskNext, fires, failures, crashes>>
      /\ UNCHANGED <<accepted, cancelled, shown, doubtful, repeated, orphans>>
  BY DEF Restart, store, bounds, ghosts
<1>4. TypeOK'
  <2>1. up' \in BOOLEAN
    BY DEF Restart
  <2> QED  BY <1>0, <1>1, <1>2, <1>3, <2>1 DEF TypeOK
<1>5. CenterShape'
  <2>1. ~stopped
    BY <1>0, <1>1 DEF CenterShape
  <2> QED  BY <1>0, <1>1, <1>2, <1>3, <1>4, <2>1 DEF CenterShape, UiSteps, WorkerSteps, Threads
<1>6. ASSUME NEW i \in Ids PROVE ReminderInv(i)'
  <2>1. NumberOf(i) /\ FileOf(i) /\ KeptOf(i) /\ ShownOf(i)
    BY <1>0 DEF ReminderInv
  <2>2. i \in toArm' <=> disk[i] # "none"
    BY <1>1
  <2>3. ChangeOf(i)' /\ TaskOf(i)' /\ RestOf(i)'
    BY <1>1, <1>2, <1>3, <2>2 DEF ChangeOf, TaskOf, RestOf, HasTask, Busy, Arms, Arming, Alive,
                                  Leaving, Lasts, Drops, Holds, Fresh
  <2>4. NumberOf(i)'
    BY <1>1, <1>2, <1>3, <2>1, <2>2 DEF NumberOf, Numbered, HasTask, Busy, Arms, Arming, Alive,
                                        Leaving, GivesUp, Adding
  <2>5. FileOf(i)'
    BY <1>1, <1>2, <1>3, <2>1 DEF FileOf, GivesUp, Alive, Leaving
  <2>6. KeptOf(i)'
    BY <1>1, <1>2, <1>3, <2>1 DEF KeptOf, Reports, GivesUp
  <2>7. ShownOf(i)'
    BY <1>1, <1>2, <1>3, <2>1 DEF ShownOf, OnceAt, Lasts, SameKind
  <2> QED  BY <2>3, <2>4, <2>5, <2>6, <2>7 DEF ReminderInv
<1> QED  BY <1>5, <1>6 DEF CenterInv

-----------------------------------------------------------------------------
LEMMA NextCenterInv == ASSUME CenterInv, [Next]_vars PROVE CenterInv'
<1>1. CASE UNCHANGED vars
  <2> USE <1>1 DEF vars, entries, user, store, bounds, ghosts
  <2>1. CenterShape'
    BY DEF CenterInv, CenterShape, TypeOK
  <2>2. ASSUME NEW i \in Ids PROVE ReminderInv(i)'
    <3> USE DEF Adding, Leaving, Alive, Arms, Fresh, Busy, Lasts, Drops, Holds, GivesUp, GivenUp
    <3>1. ReminderInv(i)
      BY DEF CenterInv
    <3>2. HasTask(i)' <=> HasTask(i)
      BY DEF HasTask
    <3>3. ChangeOf(i)' /\ NumberOf(i)' /\ RestOf(i)'
      BY <3>1, <3>2 DEF ReminderInv, ChangeOf, NumberOf, Numbered, RestOf
    <3>4. TaskOf(i)'
      BY <3>1, <3>2 DEF ReminderInv, TaskOf, Settled, OwnedBy
    <3>5. FileOf(i)' /\ KeptOf(i)' /\ ShownOf(i)'
      BY <3>1 DEF ReminderInv, FileOf, KeptOf, ShownOf, Reports, OnceAt, SameKind
    <3> QED  BY <3>3, <3>4, <3>5 DEF ReminderInv
  <2> QED  BY <2>1, <2>2 DEF CenterInv
<1>2. CASE Ui
  BY <1>2, UiSaveInv, UnscheduleInv, ArmBeginInv, ArmScheduleInv, ArmRecordInv, ArmDropInv,
     RestoreNextInv DEF Ui, Arm, Threads
<1>3. CASE Worker
  BY <1>3, StartTaskInv, FireInv, FireSaveInv, ShowInv, ArmBeginInv, ArmScheduleInv, ArmRecordInv,
     ArmDropInv DEF Worker, Arm, Threads
<1> QED
  BY <1>1, <1>2, <1>3, AddInv, ClearInv, StopInv, CancelInv, UiSaveFailsInv, FireSaveFailsInv,
     CrashInv, RestartInv DEF Next

(* The invariant that the theorems below draw on.                             *)
THEOREM CenterInvariant == Spec => []CenterInv
<1>1. CenterInv /\ [Next]_vars => CenterInv'
  BY NextCenterInv
<1> QED  BY InitCenterInv, <1>1, PTL DEF Spec

(* Whenever ReminderCenter is at rest, the scheduler holds one task for each  *)
(* reminder, that fire_reminder() will accept, and no other.                  *)
THEOREM AreArmed == Spec => []RemindersArmed
<1>1. ASSUME CenterInv PROVE RemindersArmed
  <2>1. TypeOK /\ CenterShape /\ \A i \in Ids : ReminderInv(i)
    BY <1>1 DEF CenterInv, CenterShape
  <2>2. ASSUME Quiet PROVE live = {<<i, generation[i]>> : i \in Present \ orphans}
    <3>1. at["ui"] = "idle" /\ at["worker"] = "idle" /\ toArm = {}
      BY <2>1, <2>2 DEF Quiet, Threads, CenterShape, Arming
    <3>2. ASSUME NEW i \in Ids
          PROVE  /\ HasTask(i) <=> i \in Present \ orphans
                 /\ \A g \in Nat : <<i, g>> \in live => g = generation[i]
      BY <2>1, <3>1 DEF ReminderInv, TaskOf, RestOf, Alive, Leaving, Fresh, Adding, Holds, Busy, Drops,
                        Settled, OwnedBy, Present
    <3>3. ASSUME NEW task \in live PROVE task \in {<<i, generation[i]>> : i \in Present \ orphans}
      <4>1. PICK i \in Ids, g \in Nat : task = <<i, g>>
        BY <2>1, <3>3 DEF TypeOK, Tasks
      <4> QED  BY <3>2, <3>3, <4>1 DEF HasTask
    <3>4. ASSUME NEW i \in Present \ orphans PROVE <<i, generation[i]>> \in live
      BY <3>2, <3>4 DEF HasTask, Present
    <3> QED  BY <3>3, <3>4
  <2> QED  BY <2>1, <2>2 DEF RemindersArmed, ExactlyArmed
<1> QED  BY <1>1, CenterInvariant, PTL

(* What was reported holds over crashes and failing saves: a reminder that    *)
(* was scheduled is on file until it is shown or given up, a cancelled one is *)
(* gone, and the file is what the user sees.                                  *)
THEOREM AreKept == Spec => []RemindersKept
<1>1. ASSUME CenterInv PROVE RemindersKept
  <2>1. TypeOK /\ CenterShape /\ \A i \in Ids : ReminderInv(i)
    BY <1>1 DEF CenterInv, CenterShape
  <2>2. FileMatchesMemory
    <3>1. ASSUME up, ~stopped, mutation = "free", ~doubtful PROVE disk = kind
      <4>1. \A i \in Ids : disk[i] = kind[i]
        BY <2>1, <3>1 DEF ReminderInv, FileOf
      <4> QED  BY <2>1, <4>1 DEF TypeOK
    <3> QED  BY <2>1, <3>1 DEF FileMatchesMemory, CenterShape
  <2>3. AcceptedSurvives
    <3>1. ASSUME ~doubtful, NEW i \in accepted \ (cancelled \cup Unreported), disk[i] = "none"
          PROVE  shown[i] > 0
      <4>1. i \in Ids /\ shown[i] \in Nat
        BY <2>1 DEF TypeOK
      <4>2. ~Reports(i)
        BY DEF Reports, GivesUp, Unreported
      <4> QED  BY <2>1, <3>1, <4>1, <4>2 DEF ReminderInv, KeptOf
    <3> QED  BY <3>1 DEF AcceptedSurvives
  <2>4. CancelledStaysCancelled
    <3>1. ASSUME NEW i \in cancelled PROVE kind[i] = "none" /\ disk[i] = "none" /\ i < diskNext
      <4>1. i \in Ids
        BY <2>1 DEF TypeOK
      <4> QED  BY <2>1, <4>1 DEF ReminderInv, FileOf, NumberOf, Numbered, Alive
    <3> QED  BY <3>1 DEF CancelledStaysCancelled
  <2> QED  BY <2>2, <2>3, <2>4 DEF RemindersKept, SavedIsKept
<1> QED  BY <1>1, CenterInvariant, PTL

(* A reminder that fires once is shown once, over any number of crashes,      *)
(* unless saving that it fired failed.                                        *)
THEOREM OnceIsShownOnce == Spec => ShownOnce
<1> DEFINE Step == \A i \in Ids \ repeated :
                     at["worker"] = "showLast" /\ shown'[i] # shown[i] => shown[i] = 0
<1>1. ASSUME CenterInv, [Next]_vars PROVE [Step]_vars
  <2> SUFFICES ASSUME Next, at["worker"] = "showLast", NEW i \in Ids \ repeated, shown'[i] # shown[i]
               PROVE  shown[i] = 0
    BY <1>1
  <2>1. TypeOK /\ CenterShape /\ \A k \in Ids : ReminderInv(k)
    BY <1>1 DEF CenterInv, CenterShape
  <2>2. CASE \E k \in {"once", "every"} : Add(k)
    <3>1. PICK k \in {"once", "every"} : Add(k)
      BY <2>2
    <3>2. next \in Ids /\ shown' = [shown EXCEPT ![next] = 0]
      BY <2>1, <3>1 DEF Add, TypeOK, Ids
    <3>3. i = next
      BY <2>1, <3>2 DEF TypeOK
    <3>4. up /\ NumberOf(i)
      BY <2>1, <3>1 DEF Add, ReminderInv
    <3> QED  BY <3>3, <3>4 DEF NumberOf, Numbered, Ids
  <2>3. CASE Show
    <3>1. shown' = [shown EXCEPT ![id["worker"]] = shown[id["worker"]] + 1]
      BY <2>3 DEF Show
    <3>2. i = id["worker"]
      BY <2>1, <3>1 DEF TypeOK
    <3> QED  BY <2>1, <3>2 DEF ReminderInv, ShownOf, Lasts
  <2>4. CASE ~Show /\ ~\E k \in {"once", "every"} : Add(k)
    BY <2>4 DEF Next, Clear, Stop, Cancel, Remove, Ui, Worker, Arm, UiSave, Unschedule, ArmBegin,
                ArmSchedule, ArmRecord, ArmDrop, RestoreNext, StartTask, Fire, FireSave, UiSaveFails,
                FireSaveFails, Crash, Restart, ghosts
  <2> QED  BY <2>2, <2>3, <2>4
<1> QED  BY <1>1, CenterInvariant, PTL DEF Spec, ShownOnce
=============================================================================
