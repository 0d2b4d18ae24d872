---------------------------- MODULE ReminderCenter ----------------------------
(***************************************************************************)
(* ReminderCenter (src/src/runtime.cpp): reminders that fire once or again *)
(* and again, each saved before it is armed in the RuntimeScheduler.       *)
(*                                                                         *)
(* Two threads: "ui" adds, cancels, clears, restores and stops; "worker",  *)
(* the scheduler's thread, fires.  mutation_mutex serializes the changes   *)
(* of the set together with their saves; arming is outside of it.  A save  *)
(* may fail, the process may be killed at any moment and start again.      *)
(*                                                                         *)
(* A scheduled task may start at any time: when it does is the subject of  *)
(* RuntimeScheduler.  The file is what ReminderStore::load() would return. *)
(***************************************************************************)
EXTENDS Integers

CONSTANTS MaxReminders, MaxFires, MaxFailures, MaxCrashes  \* bounds

ASSUME BoundsAssumption ==
         /\ MaxReminders \in Nat \ {0} /\ MaxFires \in Nat
         /\ MaxFailures \in Nat /\ MaxCrashes \in Nat

Ids == 1..MaxReminders
Kind == {"none", "once", "every"}  \* "none": there is no such reminder
Threads == {"ui", "worker"}
Zero == [i \in Ids |-> 0]
Empty == [i \in Ids |-> "none"]

(* A task of the scheduler: the reminder and arm generation it fires. *)
Tasks == Ids \X (Nat \ {0})

VARIABLES
  up,         \* the process runs
  stopped,    \* stopped
  kind,       \* entries: the kind of each reminder
  generation, \* its arm_generation
  runtime,    \* its runtime_task, by the generation it was armed with
  next,       \* next_id
  mutation,   \* holder of mutation_mutex
  live,       \* the tasks in the scheduler that were not started
  at,         \* per thread: where it stands
  id,         \* per thread: the reminder it works on
  armed,      \* per thread: the generation of the task it fires or arms
  operation,  \* what "ui" does: "add", "cancel", "clear" or "stop"
  removed,    \* the reminders that it takes away
  before,     \* the entries before
  toArm,      \* restored reminders that are not yet armed
  disk, diskNext,   \* the store
  fires, failures, crashes,  \* how much of the bounds is spent
  accepted,   \* ghost: reminders whose scheduling was reported
  cancelled,  \* ghost: reminders whose removal was reported
  shown,      \* ghost: per reminder, how often its callback ran
  doubtful,   \* ghost: a save failed since the last that succeeded
  repeated,   \* ghost: reminders whose firing could not be saved
  orphans     \* ghost: reminders left unarmed by a removal that failed

entries == <<kind, generation, runtime>>
user == <<operation, removed, before, toArm>>
store == <<disk, diskNext>>
bounds == <<fires, failures, crashes>>
ghosts == <<accepted, cancelled, shown, doubtful, repeated, orphans>>
vars == <<up, stopped, entries, next, mutation, live, at, id, armed, user,
          store, bounds, ghosts>>

Init ==
  /\ up = TRUE /\ stopped = FALSE
  /\ kind = Empty /\ generation = Zero /\ runtime = Zero
  /\ next = 1 /\ mutation = "free" /\ live = {}
  /\ at = [t \in Threads |-> "idle"] /\ id = [t \in Threads |-> 1]
  /\ armed = [t \in Threads |-> 0]
  /\ operation = "add" /\ removed = {} /\ before = Empty /\ toArm = {}
  /\ disk = Empty /\ diskNext = 1
  /\ fires = 0 /\ failures = 0 /\ crashes = 0
  /\ accepted = {} /\ cancelled = {} /\ shown = Zero
  /\ doubtful = FALSE /\ repeated = {} /\ orphans = {}

Goto(t, step) == at' = [at EXCEPT ![t] = step]

-----------------------------------------------------------------------------
(* The user's changes *)

(* schedule_at() and schedule_every(), which throw once stopped. *)
Add(k) ==
  /\ up /\ at["ui"] = "idle" /\ mutation = "free" /\ ~stopped
  /\ next <= MaxReminders
  /\ kind' = [kind EXCEPT ![next] = k]
  /\ generation' = [generation EXCEPT ![next] = 0]
  /\ runtime' = [runtime EXCEPT ![next] = 0]
  /\ next' = next + 1
  /\ mutation' = "ui"
  /\ id' = [id EXCEPT !["ui"] = next]
  /\ operation' = "add" /\ removed' = {} /\ before' = kind
  /\ Goto("ui", "save")
  /\ shown' = [shown EXCEPT ![next] = 0]
  /\ UNCHANGED <<up, stopped, live, armed, toArm, store, bounds, accepted,
                 cancelled, doubtful, repeated, orphans>>

Remove(op, ids, step) ==
  /\ up /\ at["ui"] = "idle" /\ mutation = "free"
  /\ kind' = [i \in Ids |-> IF i \in ids THEN "none" ELSE kind[i]]
  /\ operation' = op /\ removed' = ids /\ before' = kind
  /\ Goto("ui", step)
  /\ UNCHANGED <<up, generation, runtime, next, live, id, armed, toArm, store,
                 bounds, ghosts>>

Present == {i \in Ids : kind[i] # "none"}

Cancel(i) ==
  /\ i \in Present
  /\ Remove("cancel", {i}, "save") /\ mutation' = "ui" /\ UNCHANGED stopped

Clear ==
  /\ Remove("clear", Present, "save") /\ mutation' = "ui" /\ UNCHANGED stopped

(* stop() saves nothing: it comes before an archive is restored and at the *)
(* end of the program.                                                     *)
Stop ==
  /\ ~stopped /\ stopped' = TRUE
  /\ Remove("stop", Present, "unschedule") /\ UNCHANGED mutation

SavedNext == next

Save == disk' = kind /\ diskNext' = SavedNext

UiSave ==
  /\ at["ui"] = "save"
  /\ Save
  /\ mutation' = "free"
  /\ Goto("ui", IF operation = "add" THEN "arm" ELSE "unschedule")
  /\ accepted' = IF operation = "add" THEN accepted \cup {id["ui"]} ELSE accepted
  /\ doubtful' = FALSE
  /\ orphans' = orphans \ removed
  /\ UNCHANGED <<up, stopped, entries, next, live, id, armed, user, bounds,
                 cancelled, shown, repeated>>

(* Mutant: the entries stay as the failed change left them. *)
RolledBackMut == kind

RolledBack == before

(* The save fails and the entries are restored.  The file may hold the     *)
(* change all the same when only its flush or its renaming failed: load()  *)
(* takes the newest complete snapshot, which is then the temporary file.   *)
UiSaveFails(kept) ==
  /\ at["ui"] = "save"
  /\ failures < MaxFailures /\ failures' = failures + 1
  /\ IF kept THEN Save ELSE UNCHANGED store
  /\ kind' = RolledBack
  /\ next' = IF operation = "add" THEN next - 1 ELSE next
  /\ mutation' = "free"
  /\ Goto("ui", "idle")
  /\ doubtful' = (doubtful \/ kept)
  /\ UNCHANGED <<up, stopped, generation, runtime, live, id, armed, user, fires,
                 crashes, accepted, cancelled, shown, repeated, orphans>>

Unscheduled == {<<i, runtime[i]>> : i \in removed}

(* The reminders that the user gives up: clear(), which has no guard, also *)
(* saves the empty set of a center that is stopped, over what stop() left. *)
GivenUp ==
  CASE operation = "cancel" -> removed [] operation = "clear" -> accepted [] OTHER -> {}

Unschedule ==
  /\ at["ui"] = "unschedule"
  /\ live' = live \ Unscheduled
  /\ cancelled' = cancelled \cup GivenUp
  /\ Goto("ui", "idle")
  /\ UNCHANGED <<up, stopped, entries, next, mutation, id, armed, user, store,
                 bounds, accepted, shown, doubtful, repeated, orphans>>

-----------------------------------------------------------------------------
(* arm_reminder(), on both threads *)

(* A reminder that is away now may come back, if its removal fails. *)
Skip(t) ==
  /\ Goto(t, IF t = "ui" /\ toArm # {} THEN "restore" ELSE "idle")
  /\ orphans' = IF at["ui"] = "save" /\ id[t] \in removed THEN orphans \cup {id[t]}
                ELSE orphans

ArmGeneration(g) == g + 1

ArmBegin(t) ==
  /\ at[t] = "arm"
  /\ IF stopped \/ id[t] \notin Present
       THEN Skip(t) /\ UNCHANGED <<generation, armed>>
       ELSE /\ generation' = [generation EXCEPT ![id[t]] = @ + 1]
            /\ armed' = [armed EXCEPT ![t] = ArmGeneration(generation[id[t]])]
            /\ Goto(t, "schedule")
            /\ UNCHANGED orphans
  /\ UNCHANGED <<up, stopped, kind, runtime, next, mutation, live, id, user,
                 store, bounds, accepted, cancelled, shown, doubtful, repeated>>

ArmSchedule(t) ==
  /\ at[t] = "schedule"
  /\ live' = live \cup {<<id[t], armed[t]>>}
  /\ Goto(t, "record")
  /\ UNCHANGED <<up, stopped, entries, next, mutation, id, armed, user, store,
                 bounds, ghosts>>

(* Mutant: the task is kept although the reminder is gone. *)
KeepTaskMut(t) == TRUE

KeepTask(t) == ~stopped /\ id[t] \in Present /\ generation[id[t]] = armed[t]

ArmRecord(t) ==
  /\ at[t] = "record"
  /\ IF KeepTask(t)
       THEN /\ runtime' = [runtime EXCEPT ![id[t]] = armed[t]]
            /\ Goto(t, IF t = "ui" /\ toArm # {} THEN "restore" ELSE "idle")
            /\ UNCHANGED orphans
       ELSE /\ UNCHANGED runtime
            /\ Goto(t, "drop")
            /\ orphans' = IF at["ui"] = "save" /\ id[t] \in removed
                            THEN orphans \cup {id[t]} ELSE orphans
  /\ UNCHANGED <<up, stopped, kind, generation, next, mutation, live, id, armed,
                 user, store, bounds, accepted, cancelled, shown, doubtful,
                 repeated>>

ArmDrop(t) ==
  /\ at[t] = "drop"
  /\ live' = live \ {<<id[t], armed[t]>>}
  /\ Goto(t, IF t = "ui" /\ toArm # {} THEN "restore" ELSE "idle")
  /\ UNCHANGED <<up, stopped, entries, next, mutation, id, armed, user, store,
                 bounds, ghosts>>

Arm(t) == ArmBegin(t) \/ ArmSchedule(t) \/ ArmRecord(t) \/ ArmDrop(t)

-----------------------------------------------------------------------------
(* fire_reminder(), on the scheduler's thread *)

StartTask ==
  /\ at["worker"] = "idle"
  /\ fires < MaxFires /\ fires' = fires + 1
  /\ \E task \in live :
       /\ live' = live \ {task}
       /\ id' = [id EXCEPT !["worker"] = task[1]]
       /\ armed' = [armed EXCEPT !["worker"] = task[2]]
  /\ Goto("worker", "fire")
  /\ UNCHANGED <<up, stopped, entries, next, mutation, user, store, failures,
                 crashes, ghosts>>

(* Mutant: a reminder that fires once stays among the entries. *)
FiredMut(k) == k

Fired(k) == IF k = "once" THEN "none" ELSE k

Fires(i, g) == ~stopped /\ i \in Present /\ generation[i] = g

Fire ==
  /\ at["worker"] = "fire" /\ mutation = "free"
  /\ LET i == id["worker"]
     IN IF Fires(i, armed["worker"])
          THEN /\ kind' = [kind EXCEPT ![i] = Fired(kind[i])]
               /\ runtime' = IF kind[i] = "every" THEN [runtime EXCEPT ![i] = 0] ELSE runtime
               /\ mutation' = "worker"
               /\ Goto("worker", IF kind[i] = "once" THEN "saveLast" ELSE "saveAgain")
          ELSE Goto("worker", "idle") /\ UNCHANGED <<kind, runtime, mutation>>
  /\ UNCHANGED <<up, stopped, generation, next, live, id, armed, user, store,
                 bounds, ghosts>>

Saving == at["worker"] \in {"saveLast", "saveAgain"}

(* Mutant: the callback runs for recurring reminders only. *)
AfterSaveMut == IF at["worker"] = "saveLast" THEN "idle" ELSE "showAgain"

AfterSave == IF at["worker"] = "saveLast" THEN "showLast" ELSE "showAgain"

FireSave ==
  /\ Saving
  /\ Save
  /\ mutation' = "free"
  /\ Goto("worker", AfterSave)
  /\ doubtful' = FALSE
  /\ UNCHANGED <<up, stopped, entries, next, live, id, armed, user, bounds,
                 accepted, cancelled, shown, repeated, orphans>>

(* The error is recorded, and the reminder fires all the same. *)
FireSaveFails(kept) ==
  /\ Saving
  /\ failures < MaxFailures /\ failures' = failures + 1
  /\ IF kept THEN Save ELSE UNCHANGED store
  /\ mutation' = "free"
  /\ Goto("worker", AfterSave)
  /\ doubtful' = TRUE
  /\ repeated' = repeated \cup {id["worker"]}
  /\ UNCHANGED <<up, stopped, entries, next, live, id, armed, user, fires,
                 crashes, accepted, cancelled, shown, orphans>>

Show ==
  /\ at["worker"] \in {"showLast", "showAgain"}
  /\ shown' = [shown EXCEPT ![id["worker"]] = @ + 1]
  /\ Goto("worker", IF at["worker"] = "showLast" THEN "idle" ELSE "arm")
  /\ UNCHANGED <<up, stopped, entries, next, mutation, live, id, armed, user,
                 store, bounds, accepted, cancelled, doubtful, repeated, orphans>>

Worker == StartTask \/ Fire \/ FireSave \/ Show \/ Arm("worker")

-----------------------------------------------------------------------------
(* Crashes and restarts *)

(* Gone from the file, and not yet reported to the user. *)
Unreported ==
  (IF at["worker"] = "showLast" THEN {id["worker"]} ELSE {})
    \cup (IF at["ui"] = "unschedule" THEN GivenUp ELSE {})

(* ... or gone by a save that was reported to have failed. *)
Doubted == {i \in Ids : doubtful /\ disk[i] = "none"}

Crash ==
  /\ up /\ crashes < MaxCrashes /\ crashes' = crashes + 1
  /\ up' = FALSE /\ stopped' = FALSE
  /\ kind' = Empty /\ generation' = Zero /\ runtime' = Zero
  /\ next' = 1 /\ mutation' = "free" /\ live' = {}
  /\ at' = [t \in Threads |-> "idle"] /\ id' = [t \in Threads |-> 1]
  /\ armed' = [t \in Threads |-> 0]
  /\ operation' = "add" /\ removed' = {} /\ before' = Empty /\ toArm' = {}
  /\ orphans' = {}
  /\ accepted' = accepted \ (Unreported \cup Doubted)
  /\ UNCHANGED <<store, fires, failures, cancelled, shown, doubtful,
                 repeated>>

(* restore(), in App's constructor, takes over the file ... *)
Restart ==
  /\ ~up /\ up' = TRUE
  /\ kind' = disk /\ next' = diskNext
  /\ toArm' = {i \in Ids : disk[i] # "none"}
  /\ Goto("ui", IF toArm' = {} THEN "idle" ELSE "restore")
  /\ UNCHANGED <<stopped, generation, runtime, mutation, live, id, armed,
                 operation, removed, before, store, bounds, ghosts>>

(* ... and arms one reminder after another.                                *)
RestoreNext(i) ==
  /\ at["ui"] = "restore" /\ i \in toArm
  /\ toArm' = toArm \ {i}
  /\ id' = [id EXCEPT !["ui"] = i]
  /\ Goto("ui", "arm")
  /\ UNCHANGED <<up, stopped, entries, next, mutation, live, armed, operation,
                 removed, before, store, bounds, ghosts>>

Ui == UiSave \/ Unschedule \/ Arm("ui") \/ \E i \in Ids : RestoreNext(i)

-----------------------------------------------------------------------------
Next ==
  \/ Add("once") \/ Add("every") \/ Clear \/ Stop
  \/ \E i \in Ids : Cancel(i)
  \/ Ui \/ Worker
  \/ \E kept \in BOOLEAN : UiSaveFails(kept) \/ FireSaveFails(kept)
  \/ Crash \/ Restart

Spec == Init /\ [][Next]_vars

(* Threads that can run do run; users, failures and crashes are free. *)
FairSpec == Spec /\ WF_vars(Ui) /\ WF_vars(Worker)

-----------------------------------------------------------------------------
TypeOK ==
  /\ up \in BOOLEAN /\ stopped \in BOOLEAN
  /\ kind \in [Ids -> Kind] /\ before \in [Ids -> Kind] /\ disk \in [Ids -> Kind]
  /\ generation \in [Ids -> Nat] /\ runtime \in [Ids -> Nat]
  /\ next \in 1..MaxReminders + 1 /\ diskNext \in 1..MaxReminders + 1
  /\ mutation \in Threads \cup {"free"}
  /\ live \subseteq Tasks
  /\ at \in [Threads -> {"idle", "save", "unschedule", "restore", "arm", "schedule",
                         "record", "drop", "fire", "saveLast", "saveAgain",
                         "showLast", "showAgain"}]
  /\ id \in [Threads -> Ids] /\ armed \in [Threads -> Nat]
  /\ operation \in {"add", "cancel", "clear", "stop"}
  /\ removed \subseteq Ids /\ toArm \subseteq Ids
  /\ fires \in Nat /\ failures \in Nat /\ crashes \in Nat
  /\ accepted \subseteq Ids /\ cancelled \subseteq Ids /\ repeated \subseteq Ids
  /\ orphans \subseteq Ids
  /\ shown \in [Ids -> Nat] /\ doubtful \in BOOLEAN

Quiet == up /\ at = [t \in Threads |-> "idle"]

(* When no thread works on reminders, the scheduler holds exactly one task *)
(* for each of them, which will be let fire, and none for any other: none  *)
(* is forgotten, none fires twice, none outlives its reminder.             *)
ExactlyArmed ==
  Quiet => live = {<<i, generation[i]>> : i \in Present \ orphans}

(* The file is what the user sees, whenever no change is under way and     *)
(* since the last save that did not fail.                                  *)
FileMatchesMemory ==
  up /\ ~stopped /\ mutation = "free" /\ ~doubtful => disk = kind /\ diskNext = next

(* No reminder that was reported cancelled is there again, not even after  *)
(* a crash, nor does another one get its number.                           *)
CancelledStaysCancelled ==
  ~doubtful => \A i \in cancelled : kind[i] = "none" /\ disk[i] = "none" /\ i < diskNext

(* A reminder whose scheduling was reported is there for the next start    *)
(* until it is shown or given up.  A crash between saving that it fired    *)
(* and showing it is the one way to lose it.                               *)
AcceptedSurvives ==
  ~doubtful => \A i \in accepted \ (cancelled \cup Unreported) :
    disk[i] = "none" => shown[i] > 0

(* What was reported to the user is on file. *)
SavedIsKept == FileMatchesMemory /\ AcceptedSurvives

(* At rest, scheduler, reminders and file agree: what is armed is what is  *)
(* there.                                                                  *)
RemindersArmed == TypeOK /\ ExactlyArmed

(* What was reported of a reminder holds: a scheduled one is on file, a    *)
(* cancelled one is gone for good.                                         *)
RemindersKept == SavedIsKept /\ CancelledStaysCancelled

(* A reminder that fires once is shown once, however often the process is  *)
(* killed and started, unless its firing could not be saved.               *)
ShownOnce ==
  [][ \A i \in Ids \ repeated : at["worker"] = "showLast" /\ shown'[i] # shown[i] =>
        shown[i] = 0 ]_vars

(* A reminder that fires once and whose scheduling was reported is shown   *)
(* in the end, unless the user takes it away or the center is stopped.     *)
OnceIsShown ==
  \A i \in Ids :
    up /\ kind[i] = "once" /\ i \in accepted
      ~> shown[i] > 0 \/ i \in cancelled \cup orphans \/ stopped \/ ~up \/ fires = MaxFires
=============================================================================
