---------------------------- MODULE ReminderFile ----------------------------
(* ReminderStore: the file the reminders are saved in after every change, and *)
(* its two siblings.  A save is a sequence of file operations under one       *)
(* mutex; any of them may fail and the process may be killed between any two. *)
EXTENDS StoreFiles, Naturals, FiniteSetsExt

CONSTANTS
  MaxReminderSaves,   \* bound: the saves
  MaxReminderFaults   \* bound: failing calls and kills between two saves that succeed

(* What a whole file holds.                                                   *)
ReminderImages == [gen : Nat, version : Nat]

ASSUME ReminderFileAssumption ==
  /\ MaxReminderSaves \in Nat /\ MaxReminderFaults \in Nat
  /\ Missing # Torn /\ Missing \notin ReminderImages /\ Torn \notin ReminderImages

VARIABLES
  reminderFiles,  \* the file, its ".tmp" and its ".bak"
  reminderStore,  \* generation_, and whether the store has been loaded
  reminderSave,   \* the step of the save that runs
  reminderAcked   \* ghost: what was asked to be saved, what was saved, the faults since

reminderFileVars == <<reminderFiles, reminderStore, reminderSave, reminderAcked>>

(* parse_candidate: what serialize_file wrote, whole.                         *)
ReminderParses(f) == Readable(f)

ReminderFileInit ==
  /\ reminderFiles = [path |-> Missing, temp |-> Missing, bak |-> Missing]
  /\ reminderStore = [up |-> FALSE, gen |-> 0]
  /\ reminderSave = [step |-> "idle"]
  /\ reminderAcked = [asked |-> 0, saved |-> 0, faults |-> 0]

ReminderAt(step) == reminderStore.up /\ reminderSave.step = step
ReminderGo(step) == reminderSave' = [reminderSave EXCEPT !.step = step]
ReminderEnd == reminderSave' = [step |-> "idle"]
ReminderFault ==
  /\ reminderAcked.faults < MaxReminderFaults
  /\ reminderAcked' = [reminderAcked EXCEPT !.faults = @ + 1]

-----------------------------------------------------------------------------
(* load(): the candidate with the highest generation, the first of equals; an *)
(* exception ends the start when there are candidates and none is valid.      *)
ReminderValid == {f \in {"path", "temp", "bak"} : ReminderParses(reminderFiles[f])}
ReminderBest ==
  LET newest == {f \in ReminderValid : \A g \in ReminderValid :
                   reminderFiles[g].gen <= reminderFiles[f].gen}
  IN CHOOSE f \in newest : \/ f = "path"
                           \/ f = "temp" /\ "path" \notin newest
                           \/ newest = {"bak"}
ReminderLoad ==
  /\ ~reminderStore.up
  /\ \/ /\ ReminderValid # {}
        /\ reminderStore' = [up |-> TRUE, gen |-> reminderFiles[ReminderBest].gen]
     \/ /\ \A f \in DOMAIN reminderFiles : ~Present(reminderFiles[f])
        /\ reminderStore' = [up |-> TRUE, gen |-> 0]
  /\ UNCHANGED <<reminderFiles, reminderSave, reminderAcked>>

(* save(): the content is encoded before a file is touched.                   *)
ReminderBegin ==
  /\ ReminderAt("idle") /\ reminderAcked.asked < MaxReminderSaves
  /\ reminderAcked' = [reminderAcked EXCEPT !.asked = @ + 1]
  /\ reminderSave' = [step |-> "clean",
                   image |-> [gen |-> reminderStore.gen + 1, version |-> reminderAcked.asked + 1]]
  /\ UNCHANGED <<reminderFiles, reminderStore>>

(* What an earlier save left is removed before the new file is written.       *)
ReminderClean ==
  /\ ReminderAt("clean")
  /\ reminderFiles' = [reminderFiles EXCEPT !.temp = Missing]
  /\ ReminderGo("write") /\ UNCHANGED <<reminderStore, reminderAcked>>

(* write_file, with the flush of durable_flush.                               *)
ReminderWrite ==
  /\ ReminderAt("write")
  /\ reminderFiles' = [reminderFiles EXCEPT !.temp = reminderSave.image]
  /\ ReminderGo("drop") /\ UNCHANGED <<reminderStore, reminderAcked>>

ReminderDropBackup ==
  /\ ReminderAt("drop")
  /\ reminderFiles' = [reminderFiles EXCEPT !.bak = Missing]
  /\ ReminderGo(IF Present(reminderFiles.path) THEN "rotate" ELSE "publish")
  /\ UNCHANGED <<reminderStore, reminderAcked>>

ReminderRotateMut ==
  /\ ReminderAt("rotate")
  /\ reminderFiles' = [reminderFiles EXCEPT !.path = Missing]
  /\ ReminderGo("publish") /\ UNCHANGED <<reminderStore, reminderAcked>>

ReminderRotate ==
  /\ ReminderAt("rotate")
  /\ reminderFiles' = [reminderFiles EXCEPT !.bak = reminderFiles.path, !.path = Missing]
  /\ ReminderGo("publish") /\ UNCHANGED <<reminderStore, reminderAcked>>

ReminderPublish ==
  /\ ReminderAt("publish")
  /\ reminderFiles' = [reminderFiles EXCEPT !.path = reminderFiles.temp, !.temp = Missing]
  /\ ReminderGo("sweep")
  /\ UNCHANGED <<reminderStore, reminderAcked>>

(* A backup that cannot be removed stays; the save returns all the same.      *)
ReminderSweep ==
  /\ ReminderAt("sweep")
  /\ \E b \in {Missing, reminderFiles.bak} : reminderFiles' = [reminderFiles EXCEPT !.bak = b]
  /\ reminderStore' = [reminderStore EXCEPT !.gen = reminderSave.image.gen]
  /\ reminderAcked' = [reminderAcked EXCEPT !.saved = reminderSave.image.version,
                                              !.faults = 0]
  /\ ReminderEnd

(* A call fails.  Whatever remove() reports is ignored; when the file cannot  *)
(* be moved into place its backup is put back, if that succeeds.              *)
ReminderWriteFails ==
  /\ ReminderAt("write") /\ ReminderFault
  /\ \E f \in {reminderFiles.temp, Torn, reminderSave.image} :
       reminderFiles' = [reminderFiles EXCEPT !.temp = f]
  /\ ReminderEnd /\ UNCHANGED reminderStore

ReminderRotateFails ==
  /\ ReminderAt("rotate") /\ ReminderFault
  /\ reminderFiles' = [reminderFiles EXCEPT !.temp = Missing]
  /\ ReminderEnd /\ UNCHANGED reminderStore

ReminderPublishFails ==
  /\ ReminderAt("publish") /\ ReminderFault
  /\ \/ /\ Present(reminderFiles.bak)
        /\ reminderFiles' = [reminderFiles EXCEPT !.path = reminderFiles.bak, !.bak = Missing]
     \/ UNCHANGED reminderFiles
  /\ ReminderEnd /\ UNCHANGED reminderStore

ReminderKill ==
  /\ reminderStore.up /\ ReminderFault
  /\ \E f \in (IF ReminderAt("write") THEN {reminderFiles.temp, Torn, reminderSave.image}
              ELSE {reminderFiles.temp}) :
       reminderFiles' = [reminderFiles EXCEPT !.temp = f]
  /\ reminderStore' = [up |-> FALSE, gen |-> 0] /\ ReminderEnd

ReminderQuit ==
  /\ ReminderAt("idle")
  /\ reminderStore' = [up |-> FALSE, gen |-> 0]
  /\ UNCHANGED <<reminderFiles, reminderSave, reminderAcked>>

ReminderFileNext ==
  \/ ReminderLoad \/ ReminderBegin
  \/ ReminderClean \/ ReminderWrite \/ ReminderDropBackup
  \/ ReminderRotate \/ ReminderPublish \/ ReminderSweep
  \/ ReminderWriteFails \/ ReminderRotateFails \/ ReminderPublishFails
  \/ ReminderKill \/ ReminderQuit

ReminderFileSpec == ReminderFileInit /\ [][ReminderFileNext]_reminderFileVars

-----------------------------------------------------------------------------
(* Whenever the process is down, or ends now, the next one finds the last     *)
(* save that returned, or a later one that did not, with up to                *)
(* MaxReminderFaults failing calls and kills since.                           *)
RemindersReadBack ==
  reminderAcked.saved # 0 =>
    ReminderValid # {} /\ reminderFiles[ReminderBest].version >= reminderAcked.saved
=============================================================================
