--------------------------- MODULE AutomationFile ---------------------------
(* AutomationStore: the file the automations are saved in after every change, *)
(* its two siblings, and what the codec of its records refuses.  A save is a  *)
(* sequence of file operations under one mutex; any of them may fail and the  *)
(* process may be killed between any two.                                     *)
EXTENDS StoreFiles, Naturals, FiniteSetsExt

CONSTANTS
  MaxAutomationSaves,   \* bound: the saves
  MaxAutomationFaults   \* bound: failing calls and kills between two saves that succeed

VARIABLES
  automationFiles,  \* the file, its ".tmp" and its ".bak"
  automationStore,  \* generation_, and whether the store has been loaded
  automationSave,   \* the step of the save that runs
  automationAcked   \* ghost: what was asked to be saved, what was saved, the faults since

automationFileVars == <<automationFiles, automationStore, automationSave, automationAcked>>

(* An automation as far as the codec can refuse it.  Retries: see the engine. *)
Automation(repeats, attempt, texts) ==
  [recurring |-> repeats, attempt |-> attempt, resume |-> repeats /\ attempt > 0,
   texts |-> texts]
MaxRetries == 1
Automations == {Automation(r, a, t) : r \in BOOLEAN, a \in 0..MaxRetries, t \in BOOLEAN}

(* What a whole file holds.                                                   *)
AutomationImages == [gen : Nat, automation : Automations, version : Nat]

ASSUME AutomationFileAssumption ==
  /\ MaxAutomationSaves \in Nat /\ MaxAutomationFaults \in Nat
  /\ Missing # Torn /\ Missing \notin AutomationImages /\ Torn \notin AutomationImages

(* serialize_payload: a text may be too long, the message of the last failure *)
(* above all, which nothing shortens before.                                  *)
Writable(a) ==
  /\ a.texts /\ a.attempt <= MaxRetries
  /\ a.resume => a.recurring /\ a.attempt > 0
  /\ a.attempt > 0 /\ a.recurring => a.resume

(* parse_candidate checks what it reads as strictly as that.                  *)
ParsableMut(a) == a.texts /\ a.attempt < MaxRetries /\ (a.resume => a.recurring)
Parsable(a) ==
  /\ a.texts /\ ~(a.attempt > MaxRetries)
  /\ ~(a.resume /\ (~a.recurring \/ a.attempt = 0))
  /\ ~(a.attempt > 0 /\ a.recurring /\ ~a.resume)
AutomationParses(f) == Readable(f) /\ Parsable(f.automation)

AutomationFileInit ==
  /\ automationFiles = [path |-> Missing, temp |-> Missing, bak |-> Missing]
  /\ automationStore = [up |-> FALSE, gen |-> 0]
  /\ automationSave = [step |-> "idle"]
  /\ automationAcked = [asked |-> 0, saved |-> 0, faults |-> 0]

AutomationAt(step) == automationStore.up /\ automationSave.step = step
AutomationGo(step) == automationSave' = [automationSave EXCEPT !.step = step]
AutomationEnd == automationSave' = [step |-> "idle"]
AutomationFault ==
  /\ automationAcked.faults < MaxAutomationFaults
  /\ automationAcked' = [automationAcked EXCEPT !.faults = @ + 1]

-----------------------------------------------------------------------------
(* load(): the candidate with the highest generation, the first of equals; an *)
(* exception ends the start when there are candidates and none is valid.      *)
AutomationValid == {f \in {"path", "temp", "bak"} : AutomationParses(automationFiles[f])}
AutomationBest ==
  LET newest == {f \in AutomationValid : \A g \in AutomationValid :
                   automationFiles[g].gen <= automationFiles[f].gen}
  IN CHOOSE f \in newest : \/ f = "path"
                           \/ f = "temp" /\ "path" \notin newest
                           \/ newest = {"bak"}
AutomationLoad ==
  /\ ~automationStore.up
  /\ \/ /\ AutomationValid # {}
        /\ automationStore' = [up |-> TRUE, gen |-> automationFiles[AutomationBest].gen]
     \/ /\ \A f \in DOMAIN automationFiles : ~Present(automationFiles[f])
        /\ automationStore' = [up |-> TRUE, gen |-> 0]
  /\ UNCHANGED <<automationFiles, automationSave, automationAcked>>

(* save(): a store without a generation looks it up on disk; the content is   *)
(* encoded before a file is touched.                                          *)
AutomationGeneration ==
  IF automationStore.gen # 0 THEN automationStore.gen
  ELSE Max({0} \union {automationFiles[f].gen : f \in AutomationValid})
AutomationBegin(a) ==
  /\ AutomationAt("idle") /\ automationAcked.asked < MaxAutomationSaves
  /\ automationAcked' = [automationAcked EXCEPT !.asked = @ + 1]
  /\ automationStore' = [automationStore EXCEPT !.gen = AutomationGeneration]
  /\ IF Writable(a)
     THEN automationSave' = [step |-> "clean",
                        image |-> [gen |-> AutomationGeneration + 1, automation |-> a,
                                   version |-> automationAcked.asked + 1]]
     ELSE UNCHANGED automationSave
  /\ UNCHANGED automationFiles

(* What an earlier save left is removed before the new file is written.       *)
AutomationClean ==
  /\ AutomationAt("clean")
  /\ automationFiles' = [automationFiles EXCEPT !.temp = Missing]
  /\ AutomationGo("write") /\ UNCHANGED <<automationStore, automationAcked>>

(* write_file, with the flush of durable_flush.                               *)
AutomationWrite ==
  /\ AutomationAt("write")
  /\ automationFiles' = [automationFiles EXCEPT !.temp = automationSave.image]
  /\ AutomationGo("drop") /\ UNCHANGED <<automationStore, automationAcked>>

AutomationDropBackup ==
  /\ AutomationAt("drop")
  /\ automationFiles' = [automationFiles EXCEPT !.bak = Missing]
  /\ AutomationGo(IF Present(automationFiles.path) THEN "rotate" ELSE "publish")
  /\ UNCHANGED <<automationStore, automationAcked>>

AutomationRotate ==
  /\ AutomationAt("rotate")
  /\ automationFiles' = [automationFiles EXCEPT !.bak = automationFiles.path, !.path = Missing]
  /\ AutomationGo("publish") /\ UNCHANGED <<automationStore, automationAcked>>

AutomationPublish ==
  /\ AutomationAt("publish")
  /\ automationFiles' = [automationFiles EXCEPT !.path = automationFiles.temp, !.temp = Missing]
  /\ automationStore' = [automationStore EXCEPT !.gen = automationSave.image.gen]
  /\ automationAcked' = [automationAcked EXCEPT !.saved = automationSave.image.version,
                                              !.faults = 0]
  /\ AutomationEnd

(* A call fails.  Whatever remove() reports is ignored; when the file cannot  *)
(* be moved into place its backup is put back, if that succeeds.              *)
AutomationWriteFails ==
  /\ AutomationAt("write") /\ AutomationFault
  /\ \E f \in {automationFiles.temp, Torn, automationSave.image} :
       automationFiles' = [automationFiles EXCEPT !.temp = f]
  /\ AutomationEnd /\ UNCHANGED automationStore

AutomationRotateFails ==
  /\ AutomationAt("rotate") /\ AutomationFault
  /\ automationFiles' = [automationFiles EXCEPT !.temp = Missing]
  /\ AutomationEnd /\ UNCHANGED automationStore

AutomationPublishFails ==
  /\ AutomationAt("publish") /\ AutomationFault
  /\ LET left == [automationFiles EXCEPT !.temp = Missing]
     IN \/ /\ Present(left.bak)
           /\ automationFiles' = [left EXCEPT !.path = left.bak, !.bak = Missing]
        \/ automationFiles' = left
  /\ AutomationEnd /\ UNCHANGED automationStore

AutomationKill ==
  /\ automationStore.up /\ AutomationFault
  /\ \E f \in (IF AutomationAt("write") THEN {automationFiles.temp, Torn, automationSave.image}
              ELSE {automationFiles.temp}) :
       automationFiles' = [automationFiles EXCEPT !.temp = f]
  /\ automationStore' = [up |-> FALSE, gen |-> 0] /\ AutomationEnd

AutomationQuit ==
  /\ AutomationAt("idle")
  /\ automationStore' = [up |-> FALSE, gen |-> 0]
  /\ UNCHANGED <<automationFiles, automationSave, automationAcked>>

AutomationFileNext ==
  \/ AutomationLoad \/ (\E a \in Automations : AutomationBegin(a))
  \/ AutomationClean \/ AutomationWrite \/ AutomationDropBackup
  \/ AutomationRotate \/ AutomationPublish
  \/ AutomationWriteFails \/ AutomationRotateFails \/ AutomationPublishFails
  \/ AutomationKill \/ AutomationQuit

AutomationFileSpec == AutomationFileInit /\ [][AutomationFileNext]_automationFileVars

-----------------------------------------------------------------------------
(* Whenever the process is down, or ends now, the next one finds the last     *)
(* save that returned, or a later one that did not, with up to                *)
(* MaxAutomationFaults failing calls and kills since; the codec accepts       *)
(* whatever it wrote.                                                         *)
AutomationsReadBack ==
  automationAcked.saved # 0 =>
    AutomationValid # {} /\ automationFiles[AutomationBest].version >= automationAcked.saved
=============================================================================
